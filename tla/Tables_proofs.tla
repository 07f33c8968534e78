--------------------------- MODULE Tables_proofs ----------------------------
(***************************************************************************)
(* Theorems about the shared tables: SymbolIntern, for any threads, texts  *)
(* and number of calls, DeclTable, for any names, hashes and limits, and   *)
(* Memory, for any threads, blocks, sizes and ceilings.                    *)
(***************************************************************************)
EXTENDS SymbolIntern, Memory, DeclTable, FiniteSetTheorems, SequenceTheorems, WellFoundedInduction, TLAPS

-----------------------------------------------------------------------------
(* The inductive invariant *)

\* The table holds for a text the address of a record of that text.
TableNames == \A s \in Texts : table[s] # 0 => heap[table[s]] = s

\* The thread that has leaked a record but not inserted it yet.
Inserting(t, h) ==
    /\ pc[t] = "insert"
    /\ got[t] = h
    /\ arg[t] = heap[h]
    /\ table[heap[h]] = 0

\* A record leaked is in the table, or about to be put there.
HeapKnown ==
    \A h \in 1 .. Len(heap) :
        table[heap[h]] = h \/ \E t \in Threads : Inserting(t, h)

\* What a thread inside the lock knows of its text.
InsideKnows ==
    \A t \in Threads :
        /\ pc[t] = "leak" => table[arg[t]] = 0
        /\ pc[t] = "insert" => /\ table[arg[t]] = 0
                               /\ got[t] = Len(heap)
                               /\ Len(heap) # 0
                               /\ heap[Len(heap)] = arg[t]
        /\ pc[t] = "drop" => /\ got[t] # 0
                             /\ got[t] = table[arg[t]]

IInv ==
    /\ TypeOK
    /\ Exclusion
    /\ TableNames
    /\ HeapKnown
    /\ InsideKnows

-----------------------------------------------------------------------------
LEMMA InitTyped == Init => TypeOK
<1> SUFFICES ASSUME Init PROVE TypeOK
  OBVIOUS
<1>1. heap \in Seq(Texts) /\ Len(heap) = 0
  BY DEF Init
<1>2. 0 \in 0 .. Len(heap) /\ 0 \in 0 .. MaxCalls
  BY <1>1, MaxCallsAssumption
<1>3. locked \in BOOLEAN
  BY DEF Init
<1> QED BY <1>1, <1>2, <1>3 DEF Init, TypeOK, Places

LEMMA StepTyped == TypeOK /\ [Next]_vars => TypeOK'
<1> SUFFICES ASSUME TypeOK, [Next]_vars PROVE TypeOK'
  OBVIOUS
<1> USE DEF TypeOK
<1>1. ASSUME NEW t \in Threads, CasTakes(t) PROVE TypeOK'
  BY <1>1 DEF CasTakes, Goto, Places
<1>2. ASSUME NEW t \in Threads, CasFails(t) PROVE TypeOK'
  BY <1>2 DEF CasFails, Goto, Places
<1>3. ASSUME NEW t \in Threads, SpinEnds(t) PROVE TypeOK'
  BY <1>3 DEF SpinEnds, Goto, Places
<1>4. ASSUME NEW t \in Threads, DropGuard(t) PROVE TypeOK'
  BY <1>4 DEF DropGuard, Goto, Places
<1>5. ASSUME NEW t \in Threads, NEW s \in Texts, Call(t, s) PROVE TypeOK'
  <2>1. calls[t] + 1 \in 0 .. MaxCalls
    BY <1>5, MaxCallsAssumption DEF Call
  <2> QED BY <1>5, <2>1 DEF Call, Goto, Places
<1>6. ASSUME NEW t \in Threads, GetHits(t) PROVE TypeOK'
  BY <1>6 DEF GetHits, Goto, Places
<1>7. ASSUME NEW t \in Threads, GetMisses(t) PROVE TypeOK'
  BY <1>7 DEF GetMisses, Goto, Places
<1>8. ASSUME NEW t \in Threads, Leak(t) PROVE TypeOK'
  <2>1. /\ heap' \in Seq(Texts)
        /\ Len(heap') = Len(heap) + 1
        /\ Len(heap) \in Nat
    BY <1>8 DEF Leak
  <2>2. 0 .. Len(heap) \subseteq 0 .. Len(heap')
    BY <2>1
  <2>3. got' \in [Threads -> 0 .. Len(heap')]
    BY <1>8, <2>1, <2>2 DEF Leak
  <2>4. table' \in [Texts -> 0 .. Len(heap')] /\ last' \in [Threads -> 0 .. Len(heap')]
    BY <1>8, <2>1, <2>2 DEF Leak
  <2> QED BY <1>8, <2>1, <2>3, <2>4 DEF Leak, Goto, Places
<1>9. ASSUME NEW t \in Threads, Insert(t) PROVE TypeOK'
  BY <1>9 DEF Insert, Goto, Places
<1>10. CASE UNCHANGED vars
  BY <1>10 DEF vars
<1> QED
  BY <1>1, <1>2, <1>3, <1>4, <1>5, <1>6, <1>7, <1>8, <1>9, <1>10 DEF Next, Step

\* Every variable keeps its type.
THEOREM Typing == Spec => []TypeOK
BY InitTyped, StepTyped, PTL DEF Spec

-----------------------------------------------------------------------------
LEMMA InitInv == Init => IInv
<1> SUFFICES ASSUME Init PROVE IInv
  OBVIOUS
<1>1. TypeOK
  BY InitTyped
<1>2. Exclusion
  BY DEF Init, Exclusion, Inside
<1>3. TableNames
  BY DEF Init, TableNames
<1>4. HeapKnown
  BY DEF Init, HeapKnown
<1>5. InsideKnows
  BY DEF Init, InsideKnows
<1> QED BY <1>1, <1>2, <1>3, <1>4, <1>5 DEF IInv

\* The lock: only the thread that takes it comes inside, and only when it is
\* free.
LEMMA ExclusionKept == IInv /\ [Next]_vars => Exclusion'
<1> SUFFICES ASSUME IInv, [Next]_vars PROVE Exclusion'
  OBVIOUS
<1> USE DEF IInv, TypeOK, Exclusion, Inside, Goto
<1>1. ASSUME NEW t \in Threads, CasTakes(t) PROVE Exclusion'
  BY <1>1 DEF CasTakes
<1>2. ASSUME NEW t \in Threads, CasFails(t) PROVE Exclusion'
  BY <1>2 DEF CasFails
<1>3. ASSUME NEW t \in Threads, SpinEnds(t) PROVE Exclusion'
  BY <1>3 DEF SpinEnds
<1>4. ASSUME NEW t \in Threads, DropGuard(t) PROVE Exclusion'
  BY <1>4 DEF DropGuard
<1>5. ASSUME NEW t \in Threads, NEW s \in Texts, Call(t, s) PROVE Exclusion'
  BY <1>5 DEF Call
<1>6. ASSUME NEW t \in Threads, GetHits(t) PROVE Exclusion'
  BY <1>6 DEF GetHits
<1>7. ASSUME NEW t \in Threads, GetMisses(t) PROVE Exclusion'
  BY <1>7 DEF GetMisses
<1>8. ASSUME NEW t \in Threads, Leak(t) PROVE Exclusion'
  BY <1>8 DEF Leak
<1>9. ASSUME NEW t \in Threads, Insert(t) PROVE Exclusion'
  BY <1>9 DEF Insert
<1>10. CASE UNCHANGED vars
  BY <1>10 DEF vars
<1> QED
  BY <1>1, <1>2, <1>3, <1>4, <1>5, <1>6, <1>7, <1>8, <1>9, <1>10 DEF Next, Step

-----------------------------------------------------------------------------
(* The table and the records: only Leak and Insert change them. *)

\* A step other than Leak and Insert leaves the table and the records alone.
LEMMA DataStable ==
    ASSUME NEW t \in Threads, Step(t), ~Leak(t), ~Insert(t)
    PROVE  UNCHANGED <<table, heap, arg>>
BY DEF Step, CasTakes, CasFails, SpinEnds, DropGuard, GetHits, GetMisses

LEMMA TableNamesKept == IInv /\ [Next]_vars => TableNames'
<1> SUFFICES ASSUME IInv, [Next]_vars PROVE TableNames'
  OBVIOUS
<1>1. ASSUME NEW t \in Threads, Leak(t) PROVE TableNames'
  <2> SUFFICES ASSUME NEW s \in Texts, table[s] # 0
               PROVE  heap'[table[s]] = s
    BY <1>1 DEF Leak, TableNames
  <2>1. table[s] \in 1 .. Len(heap) /\ heap[table[s]] = s
    BY DEF IInv, TypeOK, TableNames
  <2>2. heap \in Seq(Texts) /\ heap' = Append(heap, arg[t])
    BY <1>1 DEF Leak, IInv, TypeOK
  <2> QED BY <2>1, <2>2
<1>2. ASSUME NEW t \in Threads, Insert(t) PROVE TableNames'
  <2>1. /\ heap' = heap
        /\ table' = [table EXCEPT ![arg[t]] = got[t]]
        /\ heap[got[t]] = arg[t]
        /\ table \in [Texts -> 0 .. Len(heap)]
    BY <1>2 DEF Insert, IInv, TypeOK, InsideKnows
  <2> QED BY <2>1 DEF TableNames, IInv
<1>3. ASSUME NEW t \in Threads, NEW s \in Texts, Call(t, s) PROVE TableNames'
  BY <1>3 DEF Call, IInv, TableNames
<1>4. ASSUME NEW t \in Threads, Step(t), ~Leak(t), ~Insert(t) PROVE TableNames'
  BY <1>4, DataStable DEF IInv, TableNames
<1>5. CASE UNCHANGED vars
  BY <1>5 DEF vars, IInv, TableNames
<1> QED BY <1>1, <1>2, <1>3, <1>4, <1>5 DEF Next

LEMMA HeapKnownKept == IInv /\ [Next]_vars => HeapKnown'
<1> SUFFICES ASSUME IInv, [Next]_vars,
                    NEW h \in 1 .. Len(heap')
             PROVE  (table[heap[h]] = h \/ \E t \in Threads : Inserting(t, h))'
  BY DEF HeapKnown
<1>0. heap \in Seq(Texts) /\ pc \in [Threads -> Places] /\ Len(heap) \in Nat
  BY DEF IInv, TypeOK
<1>1. ASSUME NEW t \in Threads, Leak(t)
      PROVE  (table[heap[h]] = h \/ \E u \in Threads : Inserting(u, h))'
  <2>1. heap' = Append(heap, arg[t]) /\ Len(heap') = Len(heap) + 1 /\ arg[t] \in Texts
    BY <1>0, <1>1 DEF Leak, IInv, TypeOK
  <2>2. CASE h = Len(heap) + 1
    <3>1. table[arg[t]] = 0 /\ table' = table /\ arg' = arg /\ heap'[h] = arg[t]
      BY <1>0, <1>1, <2>1, <2>2 DEF Leak, IInv, InsideKnows
    <3>2. pc'[t] = "insert" /\ got'[t] = h
      BY <1>0, <1>1, <2>2 DEF Leak, Goto, IInv, TypeOK
    <3> QED BY <3>1, <3>2 DEF Inserting
  <2>3. CASE h # Len(heap) + 1
    <3>1. h \in 1 .. Len(heap) /\ heap'[h] = heap[h]
      BY <1>0, <2>1, <2>3
    <3>2. \A u \in Threads : pc[u] # "insert"
      <4>1. pc[t] = "leak"
        BY <1>1 DEF Leak
      <4> QED BY <4>1 DEF IInv, Exclusion, Inside
    <3>3. table[heap[h]] = h
      BY <3>1, <3>2 DEF IInv, HeapKnown, Inserting
    <3> QED BY <1>1, <3>1, <3>3 DEF Leak
  <2> QED BY <2>2, <2>3
<1>2. ASSUME NEW t \in Threads, Insert(t)
      PROVE  (table[heap[h]] = h \/ \E u \in Threads : Inserting(u, h))'
  <2>1. /\ heap' = heap
        /\ table' = [table EXCEPT ![arg[t]] = got[t]]
        /\ heap[got[t]] = arg[t]
        /\ table[arg[t]] = 0
        /\ table \in [Texts -> 0 .. Len(heap)]
        /\ pc[t] = "insert"
    BY <1>2 DEF Insert, IInv, TypeOK, InsideKnows
  <2>2. heap[h] \in Texts
    BY <1>0, <2>1
  <2>3. CASE table[heap[h]] = h
    <3>1. heap[h] # arg[t]
      BY <2>1, <2>3
    <3> QED BY <2>1, <2>2, <2>3, <3>1
  <2>4. CASE table[heap[h]] # h
    <3>1. PICK u \in Threads : Inserting(u, h)
      BY <2>1, <2>4 DEF IInv, HeapKnown
    <3>2. u = t
      BY <2>1, <3>1 DEF Inserting, IInv, Exclusion, Inside
    <3>3. got[t] = h /\ heap[h] = arg[t]
      BY <3>1, <3>2 DEF Inserting
    <3> QED BY <2>1, <2>2, <3>3
  <2> QED BY <2>3, <2>4
<1>3. ASSUME NEW t \in Threads, NEW s \in Texts, Call(t, s)
      PROVE  (table[heap[h]] = h \/ \E u \in Threads : Inserting(u, h))'
  <2>1. CASE table[heap[h]] = h
    BY <1>3, <2>1 DEF Call
  <2>2. CASE table[heap[h]] # h
    <3>1. PICK u \in Threads : Inserting(u, h)
      BY <1>3, <2>2 DEF IInv, HeapKnown, Call
    <3>2. u # t
      BY <1>3, <3>1 DEF Call, Inserting
    <3>3. Inserting(u, h)'
      BY <1>0, <1>3, <3>1, <3>2 DEF Call, Inserting, Goto, IInv, TypeOK
    <3> QED BY <3>3
  <2> QED BY <2>1, <2>2
<1>4. ASSUME NEW t \in Threads, Step(t), ~Leak(t), ~Insert(t)
      PROVE  (table[heap[h]] = h \/ \E u \in Threads : Inserting(u, h))'
  <2>0. UNCHANGED <<table, heap, arg>>
    BY <1>4, DataStable
  <2>1. CASE table[heap[h]] = h
    BY <2>0, <2>1
  <2>2. CASE table[heap[h]] # h
    <3>1. PICK u \in Threads : Inserting(u, h)
      BY <2>0, <2>2 DEF IInv, HeapKnown
    <3>2. u # t
      BY <1>4, <3>1 DEF Inserting, Step, CasTakes, CasFails, SpinEnds, DropGuard,
                        GetHits, GetMisses
    <3>3. pc'[u] = pc[u] /\ got'[u] = got[u]
      BY <1>0, <1>4, <3>2 DEF Step, CasTakes, CasFails, SpinEnds, DropGuard,
                         GetHits, GetMisses, Goto, IInv, TypeOK
    <3> QED BY <2>0, <3>1, <3>3 DEF Inserting
  <2> QED BY <2>1, <2>2
<1>5. CASE UNCHANGED vars
  <2>1. h \in 1 .. Len(heap)
    BY <1>5 DEF vars
  <2> QED BY <1>5, <2>1 DEF vars, IInv, HeapKnown, Inserting
<1> QED BY <1>1, <1>2, <1>3, <1>4, <1>5 DEF Next

LEMMA InsideKnowsKept == IInv /\ [Next]_vars => InsideKnows'
<1> SUFFICES ASSUME IInv, [Next]_vars PROVE InsideKnows'
  OBVIOUS
<1>0. /\ heap \in Seq(Texts) /\ Len(heap) \in Nat
      /\ table \in [Texts -> 0 .. Len(heap)]
      /\ pc \in [Threads -> Places]
      /\ arg \in [Threads -> Texts]
      /\ got \in [Threads -> 0 .. Len(heap)]
  BY DEF IInv, TypeOK
<1>1. ASSUME NEW t \in Threads, CasTakes(t) PROVE InsideKnows'
  BY <1>0, <1>1 DEF CasTakes, Goto, IInv, InsideKnows
<1>2. ASSUME NEW t \in Threads, CasFails(t) PROVE InsideKnows'
  BY <1>0, <1>2 DEF CasFails, Goto, IInv, InsideKnows
<1>3. ASSUME NEW t \in Threads, SpinEnds(t) PROVE InsideKnows'
  BY <1>0, <1>3 DEF SpinEnds, Goto, IInv, InsideKnows
<1>4. ASSUME NEW t \in Threads, DropGuard(t) PROVE InsideKnows'
  BY <1>0, <1>4 DEF DropGuard, Goto, IInv, InsideKnows
<1>5. ASSUME NEW t \in Threads, NEW s \in Texts, Call(t, s) PROVE InsideKnows'
  BY <1>0, <1>5 DEF Call, Goto, IInv, InsideKnows
<1>6. ASSUME NEW t \in Threads, GetHits(t) PROVE InsideKnows'
  BY <1>0, <1>6 DEF GetHits, Goto, IInv, InsideKnows
<1>7. ASSUME NEW t \in Threads, GetMisses(t) PROVE InsideKnows'
  BY <1>0, <1>7 DEF GetMisses, Goto, IInv, InsideKnows
<1>8. ASSUME NEW t \in Threads, Leak(t) PROVE InsideKnows'
  <2>1. /\ Len(heap') = Len(heap) + 1 /\ heap'[Len(heap')] = arg[t]
        /\ table' = table /\ arg' = arg
    BY <1>0, <1>8 DEF Leak
  <2>2. \A u \in Threads \ {t} : pc'[u] \notin Inside
    BY <1>0, <1>8 DEF Leak, Goto, IInv, Exclusion, Inside
  <2>3. /\ table[arg[t]] = 0
        /\ pc'[t] = "insert" /\ got'[t] = Len(heap')
    BY <1>0, <1>8, <2>1 DEF Leak, Goto, IInv, InsideKnows
  <2> QED BY <1>0, <2>1, <2>2, <2>3 DEF InsideKnows, Inside
<1>9. ASSUME NEW t \in Threads, Insert(t) PROVE InsideKnows'
  <2>1. \A u \in Threads \ {t} : pc'[u] \notin Inside
    BY <1>0, <1>9 DEF Insert, Goto, IInv, Exclusion, Inside
  <2>2. got[t] # 0 /\ table'[arg[t]] = got[t]
    BY <1>0, <1>9 DEF Insert, IInv, InsideKnows
  <2>3. pc'[t] = "drop" /\ got' = got /\ arg' = arg
    BY <1>0, <1>9 DEF Insert, Goto
  <2> QED BY <2>1, <2>2, <2>3 DEF InsideKnows, Inside
<1>10. CASE UNCHANGED vars
  BY <1>10 DEF vars, IInv, InsideKnows
<1> QED
  BY <1>1, <1>2, <1>3, <1>4, <1>5, <1>6, <1>7, <1>8, <1>9, <1>10 DEF Next, Step

LEMMA InvKept == IInv /\ [Next]_vars => IInv'
BY StepTyped, ExclusionKept, TableNamesKept, HeapKnownKept, InsideKnowsKept DEF IInv

THEOREM Invariance == Spec => []IInv
BY InitInv, InvKept, PTL DEF Spec

-----------------------------------------------------------------------------
(* What the invariant gives the callers *)

LEMMA OneRecord == IInv => OneRecordPerText
<1> SUFFICES ASSUME IInv, NEW h \in 1 .. Len(heap), NEW k \in 1 .. Len(heap),
                    heap[h] = heap[k]
             PROVE  h = k
  BY DEF OneRecordPerText
<1>1. /\ table[heap[h]] = h \/ \E t \in Threads : Inserting(t, h)
      /\ table[heap[k]] = k \/ \E t \in Threads : Inserting(t, k)
  BY DEF IInv, HeapKnown
<1>2. h # 0 /\ k # 0
  BY DEF IInv, TypeOK
<1>3. CASE table[heap[h]] = 0
  <2>1. PICK t \in Threads : Inserting(t, h)
    BY <1>1, <1>2, <1>3
  <2>2. PICK u \in Threads : Inserting(u, k)
    BY <1>1, <1>2, <1>3
  <2>3. t = u
    BY <2>1, <2>2 DEF Inserting, IInv, Exclusion, Inside
  <2> QED BY <2>1, <2>2, <2>3 DEF Inserting
<1>4. CASE table[heap[h]] # 0
  BY <1>1, <1>4 DEF Inserting
<1> QED BY <1>3, <1>4

LEMMA Agreement == IInv => EqualityAgrees
<1> SUFFICES ASSUME IInv, NEW a \in Held, NEW b \in Held
             PROVE  SymbolEq(a, b) <=> CmpEqual(a, b)
  BY DEF EqualityAgrees
<1>1. OneRecordPerText
  BY OneRecord
<1>2. ASSUME NEW h \in Returned PROVE h \in 1 .. Len(heap)
  BY <1>2 DEF Returned, IInv, TypeOK
<1>3. CASE \E h, k \in Returned : a = Str(h) /\ b = Str(k)
  <2>1. PICK h \in Returned, k \in Returned : a = Str(h) /\ b = Str(k)
    BY <1>3
  <2>2. h \in 1 .. Len(heap) /\ k \in 1 .. Len(heap)
    BY <1>2
  <2>3. a = b <=> h = k
    BY <2>1 DEF Str
  <2>4. CmpEqual(a, b) <=> heap[h] = heap[k]
    BY <2>1 DEF Str, CmpEqual
  <2> QED BY <1>1, <2>2, <2>3, <2>4 DEF SymbolEq, OneRecordPerText
<1>4. CASE ~ \E h, k \in Returned : a = Str(h) /\ b = Str(k)
  <2>1. ASSUME NEW m, NEW n PROVE Numeric(m) = Numeric(n) <=> m = n
    BY DEF Numeric
  <2>2. /\ Null.kind = "null"
        /\ \A n : Numeric(n).kind = "numeric" /\ Numeric(n).num = n
        /\ \A h : Str(h).kind = "str"
    BY DEF Null, Numeric, Str
  <2>3. /\ a = Null \/ a = Numeric(0) \/ a = Numeric(1) \/ \E h \in Returned : a = Str(h)
        /\ b = Null \/ b = Numeric(0) \/ b = Numeric(1) \/ \E h \in Returned : b = Str(h)
    BY DEF Held
  <2> HIDE DEF Null, Numeric, Str
  <2> QED BY <1>4, <2>1, <2>2, <2>3 DEF SymbolEq, CmpEqual
<1> QED BY <1>3, <1>4

\* The lock excludes, so every text has one record, and comparing addresses
\* (Eq) and comparing texts (Ord) agree on the symbols threads hold.
THEOREM Safety == Spec => []Interned
<1>1. IInv => Interned
  BY OneRecord, Agreement DEF IInv, Interned
<1> QED BY <1>1, Invariance, PTL

-----------------------------------------------------------------------------
(* Refinement: the table of module InternTable *)

\* The calls in progress, as InternTable sees them.
Asking == [t \in Threads |-> IF pc[t] = "idle" THEN {} ELSE {arg[t]}]

LEMMA RefinesInit == Init => Table!Init
BY DEF Init, Table!Init

LEMMA RefinesStep == IInv /\ [Next]_vars => [Table!Next]_(Table!vars)
<1> SUFFICES ASSUME IInv, [Next]_vars PROVE Table!Next \/ UNCHANGED Table!vars
  OBVIOUS
<1>0. /\ pc \in [Threads -> Places]
      /\ arg \in [Threads -> Texts]
      /\ last \in [Threads -> 0 .. Len(heap)]
      /\ table \in [Texts -> 0 .. Len(heap)]
      /\ heap \in Seq(Texts)
      /\ Len(heap) \in Nat
  BY DEF IInv, TypeOK
<1>1. ASSUME NEW t \in Threads, NEW s \in Texts, Call(t, s) PROVE Table!Ask(t, s)
  <2>1. Asking[t] = {} /\ Asking' = [Asking EXCEPT ![t] = {s}]
    BY <1>0, <1>1 DEF Call, Goto, Asking
  <2> QED BY <1>1, <2>1 DEF Call, Table!Ask, Asking
<1>2. ASSUME NEW t \in Threads, NEW s \in Texts, s = arg[t], Insert(t)
      PROVE  Table!Record(s)
  <2>1. arg[t] \in Asking[t]
    BY <1>0, <1>2 DEF Insert, Asking
  <2>2. Asking' = Asking
    BY <1>0, <1>2 DEF Insert, Goto, Asking
  <2>3. /\ table[arg[t]] = 0
        /\ got[t] = Len(heap) /\ Len(heap) # 0 /\ heap[Len(heap)] = arg[t]
    BY <1>2 DEF Insert, IInv, InsideKnows
  <2>4. /\ table' = [table EXCEPT ![arg[t]] = table'[arg[t]]]
        /\ table'[arg[t]] = Len(heap)
    BY <1>0, <1>2, <2>3 DEF Insert
  <2>5. \A u \in Texts : table[u] # Len(heap)
    BY <1>0, <1>2, <2>3 DEF IInv, TableNames
  <2>6. Len(heap) \in Nat \ ({0} \cup Table!Symbols)
    BY <1>0, <2>3, <2>5 DEF Table!Symbols
  <2> QED BY <1>2, <2>1, <2>2, <2>3, <2>4, <2>6 DEF Table!Record, Asking, Insert
<1>3. ASSUME NEW t \in Threads, NEW s \in Texts, s = arg[t], DropGuard(t)
      PROVE  Table!Return(t, s)
  <2>1. got[t] # 0 /\ got[t] = table[arg[t]]
    BY <1>3 DEF DropGuard, IInv, InsideKnows
  <2>2. Asking[t] = {arg[t]} /\ Asking' = [Asking EXCEPT ![t] = {}]
    BY <1>0, <1>3 DEF DropGuard, Goto, Asking
  <2> QED BY <1>3, <2>1, <2>2 DEF DropGuard, Table!Return, Asking
<1>4. ASSUME NEW t \in Threads, Step(t), ~Insert(t), ~DropGuard(t)
      PROVE  UNCHANGED Table!vars
  <2>1. UNCHANGED <<table, arg, last>>
    BY <1>4 DEF Step, CasTakes, CasFails, SpinEnds, GetHits, GetMisses, Leak
  <2>2. Asking' = Asking
    BY <1>0, <1>4, <2>1 DEF Step, CasTakes, CasFails, SpinEnds, GetHits, GetMisses,
                            Leak, Goto, Asking
  <2> QED BY <2>1, <2>2 DEF Table!vars, Asking
<1>5. CASE UNCHANGED vars
  BY <1>5 DEF vars, Table!vars
<1>6. ASSUME NEW t \in Threads, Step(t) PROVE Table!Next \/ UNCHANGED Table!vars
  <2>1. PICK s \in Texts : s = arg[t]
    BY <1>0
  <2>2. CASE Insert(t)
    <3>1. Table!Record(s)
      BY <1>2, <2>1, <2>2
    <3> QED BY <2>1, <3>1 DEF Table!Next
  <2>3. CASE DropGuard(t)
    <3>1. Table!Return(t, s)
      BY <1>3, <2>1, <2>3
    <3> QED BY <2>1, <3>1 DEF Table!Next
  <2> QED BY <1>4, <1>6, <2>2, <2>3
<1>7. ASSUME NEW t \in Threads, NEW s \in Texts, Call(t, s) PROVE Table!Next
  BY <1>1, <1>7 DEF Table!Next
<1> QED BY <1>5, <1>6, <1>7 DEF Next

\* The locked table implements the table whose calls take effect at once.
THEOREM Refinement == Spec => Refines
BY RefinesInit, RefinesStep, Invariance, PTL DEF Spec, Refines, Table!Spec

-----------------------------------------------------------------------------
(* The declaration table: induction *)

LEMMA NatInductive ==
    ASSUME NEW T, 0 \in T, \A n \in Nat : n \in T => n + 1 \in T
    PROVE  Nat \subseteq T
<1> SUFFICES ASSUME NEW m \in Nat, m \notin T PROVE FALSE
  OBVIOUS
<1> DEFINE F == {0 .. k : k \in Nat \ T}
           R == StrictSubsetOrdering(Nat)
<1>1. IsWellFoundedOn(R, FiniteSubsetsOf(Nat))
  BY FS_StrictSubsetOrderingWellFounded
<1>2. F \subseteq FiniteSubsetsOf(Nat) /\ F # {}
  <2>1. ASSUME NEW k \in Nat \ T PROVE 0 .. k \in FiniteSubsetsOf(Nat)
    <3>1. IsFiniteSet(0 .. k) BY FS_Interval
    <3>2. 0 .. k \in SUBSET Nat OBVIOUS
    <3> QED BY <3>1, <3>2 DEF FiniteSubsetsOf
  <2>2. 0 .. m \in F OBVIOUS
  <2> QED BY <2>1, <2>2
<1>3. \E x \in F : \A y \in F : <<y, x>> \notin R
  <2> HIDE DEF R, F
  <2> QED BY <1>1, <1>2, WFMin
<1>4. PICK k \in Nat \ T : \A j \in Nat \ T : <<0 .. j, 0 .. k>> \notin R
  BY <1>3
<1>5. k # 0 /\ k - 1 \in Nat \ T
  <2>1. k # 0 OBVIOUS
  <2> QED BY <2>1
<1>6. 0 .. (k - 1) \subseteq 0 .. k /\ k \in 0 .. k /\ k \notin 0 .. (k - 1)
  BY <1>5
<1>7. <<0 .. (k - 1), 0 .. k>> \in R
  BY <1>5, <1>6 DEF StrictSubsetOrdering
<1> QED BY <1>4, <1>5, <1>7

-----------------------------------------------------------------------------
(* Remainders, least and greatest *)

LEMMA ModIs ==
    ASSUME NEW a \in Nat, NEW b \in Nat \ {0}
    PROVE  a % b \in 0 .. b - 1 /\ \E q \in Nat : a = b * q + (a % b)
<1>1. a % b \in 0 .. b - 1 OBVIOUS
<1>2. a = b * (a \div b) + (a % b) OBVIOUS
<1>3. a \div b \in Nat OBVIOUS
<1> QED BY <1>1, <1>2, <1>3

LEMMA SameQuotient ==
    ASSUME NEW b \in Nat \ {0}, NEW p \in Int, NEW q \in Int, NEW r \in 0 .. b - 1, NEW s \in 0 .. b - 1,
           b * p + r = b * q + s
    PROVE  p = q /\ r = s
<1>1. b * (p - q) = s - r OBVIOUS
<1>2. ASSUME p - q >= 1 PROVE FALSE
  <2>1. b * (p - q) >= b BY <1>2
  <2> QED BY <1>1, <2>1
<1>3. ASSUME p - q <= -1 PROVE FALSE
  <2>1. b * (p - q) <= -b BY <1>3
  <2> QED BY <1>1, <2>1
<1>4. p = q BY <1>2, <1>3
<1> QED BY <1>4

LEMMA ModOf ==
    ASSUME NEW a \in Nat, NEW b \in Nat \ {0}, NEW q \in Int, NEW r \in 0 .. b - 1, a = b * q + r
    PROVE  a % b = r
<1> DEFINE s == a % b
<1>1. PICK p \in Nat : a = b * p + s BY ModIs
<1>2. s \in 0 .. b - 1 BY ModIs
<1> HIDE DEF s
<1>3. b * p + s = b * q + r /\ p \in Int BY <1>1
<1>4. s = r BY <1>2, <1>3, SameQuotient
<1> QED BY <1>4 DEF s

LEMMA LeastIs ==
    ASSUME NEW S \in SUBSET Nat, S # {} PROVE Min(S) \in S /\ \A x \in S : Min(S) <= x
<1> DEFINE T == {n \in Nat : (\E x \in S : x <= n) => \E x \in S : \A y \in S : x <= y}
<1>1. 0 \in T
  <2>1. ASSUME NEW x \in S, x <= 0 PROVE \A y \in S : x <= y BY <2>1
  <2> QED BY <2>1
<1>2. ASSUME NEW n \in Nat, n \in T PROVE n + 1 \in T
  <2> SUFFICES ASSUME NEW x \in S, x <= n + 1 PROVE \E z \in S : \A y \in S : z <= y OBVIOUS
  <2>1. CASE \E z \in S : z <= n BY <1>2, <2>1
  <2>2. CASE ~\E z \in S : z <= n
    <3>1. \A y \in S : x <= y BY <2>2
    <3> QED BY <3>1
  <2> QED BY <2>1, <2>2
<1>3. Nat \subseteq T
  <2> HIDE DEF T
  <2> QED BY <1>1, <1>2, NatInductive
<1>4. PICK n \in S : TRUE OBVIOUS
<1>5. n \in Nat /\ n <= n OBVIOUS
<1>6. \E x \in S : \A y \in S : x <= y BY <1>3, <1>5
<1> QED BY <1>6 DEF Min

LEMMA GreatestIs ==
    ASSUME NEW N \in Nat, NEW S \in SUBSET (0 .. N), S # {} PROVE Max(S) \in S /\ \A x \in S : x <= Max(S)
<1> DEFINE R == {N - x : x \in S}
<1>1. R \in SUBSET Nat /\ R # {}
  <2>1. \A x \in S : N - x \in Nat OBVIOUS
  <2>2. \E x \in S : N - x \in R OBVIOUS
  <2> QED BY <2>1, <2>2
<1>2. Min(R) \in R /\ \A x \in R : Min(R) <= x
  <2> HIDE DEF R
  <2> QED BY <1>1, LeastIs
<1>3. PICK z \in S : Min(R) = N - z BY <1>2
<1>4. \A x \in S : z >= x
  <2>1. \A x \in S : N - z <= N - x BY <1>2, <1>3
  <2> QED BY <2>1
<1>5. \E x \in S : \A y \in S : x >= y BY <1>4
<1> QED BY <1>5 DEF Max

-----------------------------------------------------------------------------
(* Probing *)

Cell == [name : Names \cup {Free, Deleted}, count : Nat]
TableOf(t) == t \in Seq(Cell) /\ Len(t) \in Nat \ {0}

\* Every name in a table is found from its hash.
FoundIn(t) ==
    \A i \in UsedSlots(t) : Ends(t, t[i].name) # {} /\ At(t, t[i].name, End(t, t[i].name)) = i

LEMMA AtIn ==
    ASSUME NEW t, TableOf(t), NEW n \in Names, NEW k \in Nat
    PROVE  At(t, n, k) \in DOMAIN t /\ DOMAIN t = 1 .. Len(t)
<1>1. Hash[n] + k \in Nat BY DeclTableAssumption
<1>2. (Hash[n] + k) % Len(t) \in 0 .. Len(t) - 1 BY <1>1, ModIs DEF TableOf
<1> QED BY <1>2 DEF At, TableOf

LEMMA AtNext ==
    ASSUME NEW t, TableOf(t), NEW n \in Names, NEW k \in Nat
    PROVE  At(t, n, k + 1) = (At(t, n, k) % Len(t)) + 1
<1> DEFINE a == Hash[n] + k
           b == Len(t)
           r == a % b
<1>1. a \in Nat /\ b \in Nat \ {0} /\ a + 1 \in Nat BY DeclTableAssumption DEF TableOf
<1>1a. Hash[n] + (k + 1) = a + 1 BY DeclTableAssumption
<1> HIDE DEF a, b
<1>2. r \in 0 .. b - 1 BY <1>1, ModIs
<1>3. PICK q \in Nat : a = b * q + r BY <1>1, ModIs
<1>4. (a + 1) % b = (r + 1) % b
  <2> HIDE DEF r
  <2>1. CASE r + 1 < b
    <3>1. a + 1 = b * q + (r + 1) /\ r + 1 \in 0 .. b - 1 BY <1>1, <1>2, <1>3, <2>1
    <3> DEFINE x == a + 1
               y == r + 1
    <3>2. (a + 1) % b = r + 1
      <4>1. x \in Nat /\ y \in 0 .. b - 1 /\ x = b * q + y BY <1>1, <3>1
      <4> HIDE DEF x, y
      <4>2. q \in Int OBVIOUS
      <4>3. x % b = y BY <1>1, <4>1, <4>2, ModOf
      <4> QED BY <4>3 DEF x, y
    <3>3. r + 1 \in Nat /\ r + 1 = b * 0 + (r + 1) BY <1>1, <1>2
    <3>4. (r + 1) % b = r + 1 BY <1>1, <3>1, <3>3, ModOf
    <3> QED BY <3>2, <3>4
  <2>2. CASE r + 1 = b
    <3>1. a + 1 = b * (q + 1) + 0 /\ 0 \in 0 .. b - 1 /\ q + 1 \in Int BY <1>1, <1>2, <1>3, <2>2
    <3>2. (a + 1) % b = 0 BY <1>1, <3>1, ModOf
    <3>3. r + 1 \in Nat /\ r + 1 = b * 1 + 0 BY <1>1, <1>2, <2>2
    <3>4. (r + 1) % b = 0 BY <1>1, <3>1, <3>3, ModOf
    <3> QED BY <3>2, <3>4
  <2> QED BY <1>1, <1>2, <2>1, <2>2
<1> QED BY <1>1a, <1>4 DEF At, a, b

LEMMA AtOnto ==
    ASSUME NEW t, TableOf(t), NEW n \in Names, NEW i \in DOMAIN t
    PROVE  \E k \in 0 .. Len(t) - 1 : At(t, n, k) = i
<1> DEFINE h == Hash[n]
           b == Len(t)
           r == h % b
<1>1. h \in Nat /\ b \in Nat \ {0} /\ i \in 1 .. b BY DeclTableAssumption DEF TableOf
<1> HIDE DEF h, b
<1>2. r \in 0 .. b - 1 BY <1>1, ModIs
<1>3. PICK q \in Nat : h = b * q + r BY <1>1, ModIs
<1> HIDE DEF r
<1>4. CASE i - 1 >= r
  <2>1. i - 1 - r \in 0 .. b - 1 /\ i - 1 \in 0 .. b - 1 /\ h + (i - 1 - r) \in Nat BY <1>1, <1>2, <1>4
  <2>2. h + (i - 1 - r) = b * q + (i - 1) BY <1>1, <1>2, <1>3
  <2> DEFINE k == i - 1 - r
             x == h + k
             y == i - 1
             z == q
  <2>3. x % b = y
    <3>1. x \in Nat /\ y \in 0 .. b - 1 /\ z \in Int /\ x = b * z + y BY <1>1, <2>1, <2>2
    <3> HIDE DEF x, y, z
    <3> QED BY <1>1, <3>1, ModOf
  <2>4. At(t, n, k) = i BY <1>1, <2>3 DEF At, h, b
  <2>5. k \in 0 .. Len(t) - 1 BY <2>1 DEF b
  <2> QED BY <2>4, <2>5
<1>5. CASE i - 1 < r
  <2>1. b + i - 1 - r \in 0 .. b - 1 /\ i - 1 \in 0 .. b - 1 /\ h + (b + i - 1 - r) \in Nat BY <1>1, <1>2, <1>5
  <2>2. h + (b + i - 1 - r) = b * (q + 1) + (i - 1) /\ q + 1 \in Int BY <1>1, <1>2, <1>3
  <2> DEFINE k == b + i - 1 - r
             x == h + k
             y == i - 1
             z == q + 1
  <2>3. x % b = y
    <3>1. x \in Nat /\ y \in 0 .. b - 1 /\ z \in Int /\ x = b * z + y BY <1>1, <2>1, <2>2
    <3> HIDE DEF x, y, z
    <3> QED BY <1>1, <3>1, ModOf
  <2>4. At(t, n, k) = i BY <1>1, <2>3 DEF At, h, b
  <2>5. k \in 0 .. Len(t) - 1 BY <2>1 DEF b
  <2> QED BY <2>4, <2>5
<1> QED BY <1>1, <1>2, <1>4, <1>5

LEMMA AtOnce ==
    ASSUME NEW t, TableOf(t), NEW n \in Names, NEW k \in 0 .. Len(t) - 1, NEW j \in 0 .. Len(t) - 1,
           At(t, n, k) = At(t, n, j)
    PROVE  k = j
<1> DEFINE h == Hash[n]
           b == Len(t)
<1>1. h \in Nat /\ b \in Nat \ {0} /\ k \in 0 .. b - 1 /\ j \in 0 .. b - 1 BY DeclTableAssumption DEF TableOf
<1>2. (h + k) % b = (h + j) % b
  <2>1. \A x \in Nat : x % b \in Nat
    <3> HIDE DEF b
    <3> QED BY <1>1, ModIs
  <2>2. (h + k) % b \in Nat /\ (h + j) % b \in Nat
    <3>1. h + k \in Nat /\ h + j \in Nat BY <1>1
    <3> HIDE DEF h, b
    <3> QED BY <2>1, <3>1
  <2> QED BY <2>2 DEF At
<1> HIDE DEF h, b
<1>3. h + k \in Nat /\ h + j \in Nat BY <1>1
<1>4. PICK p \in Nat : h + k = b * p + ((h + k) % b) BY <1>1, <1>3, ModIs
<1>5. PICK q \in Nat : h + j = b * q + ((h + j) % b) BY <1>1, <1>3, ModIs
<1>6. h + k \in Int /\ (h + k) % b \in 0 .. b - 1 BY <1>1, <1>3, ModIs
<1>7. CASE k >= j
  <2>1. b * p + 0 = b * q + (k - j) BY <1>1, <1>2, <1>4, <1>5, <1>6
  <2>2. k - j \in 0 .. b - 1 /\ 0 \in 0 .. b - 1 /\ p \in Int /\ q \in Int BY <1>1, <1>7
  <2>3. 0 = k - j BY <1>1, <2>1, <2>2, SameQuotient
  <2> QED BY <1>1, <2>3
<1>8. CASE k < j
  <2>1. b * p + (j - k) = b * q + 0 BY <1>1, <1>2, <1>4, <1>5, <1>6
  <2>2. j - k \in 0 .. b - 1 /\ 0 \in 0 .. b - 1 /\ p \in Int /\ q \in Int BY <1>1, <1>8
  <2> DEFINE d == j - k
  <2>3. d = 0
    <3>1. b * p + d = b * q + 0 /\ d \in 0 .. b - 1 BY <2>1, <2>2
    <3> HIDE DEF d
    <3> QED BY <1>1, <2>2, <3>1, SameQuotient
  <2> QED BY <1>1, <2>3
<1> QED BY <1>1, <1>7, <1>8

\* The search for a name ends at its first slot that holds the name or is free.
LEMMA EndIs ==
    ASSUME NEW t, TableOf(t), NEW n \in Names, Ends(t, n) # {}
    PROVE  /\ End(t, n) \in 0 .. Len(t) - 1 /\ t[At(t, n, End(t, n))].name \in {n, Free}
           /\ \A k \in 0 .. End(t, n) - 1 : t[At(t, n, k)].name \notin {n, Free}
<1>1. Ends(t, n) \in SUBSET Nat /\ Len(t) \in Nat BY DEF Ends, TableOf
<1>2. End(t, n) \in Ends(t, n) /\ \A x \in Ends(t, n) : End(t, n) <= x BY <1>1, LeastIs DEF End
<1>3. End(t, n) \in 0 .. Len(t) - 1 /\ t[At(t, n, End(t, n))].name \in {n, Free} BY <1>2 DEF Ends
<1>4. ASSUME NEW k \in 0 .. End(t, n) - 1 PROVE t[At(t, n, k)].name \notin {n, Free}
  <2>1. k \in 0 .. Len(t) - 1 /\ ~(End(t, n) <= k) BY <1>1, <1>3
  <2>2. k \notin Ends(t, n) BY <1>2, <2>1
  <2> QED BY <2>1, <2>2 DEF Ends
<1> QED BY <1>3, <1>4

\* And that is where it ends.
LEMMA EndsThere ==
    ASSUME NEW t, TableOf(t), NEW n \in Names, NEW k \in 0 .. Len(t) - 1,
           t[At(t, n, k)].name \in {n, Free}, \A j \in 0 .. k - 1 : t[At(t, n, j)].name \notin {n, Free}
    PROVE  Ends(t, n) # {} /\ End(t, n) = k
<1>1. k \in Ends(t, n) BY DEF Ends
<1>2. End(t, n) \in 0 .. Len(t) - 1 /\ t[At(t, n, End(t, n))].name \in {n, Free}
      /\ \A j \in 0 .. End(t, n) - 1 : t[At(t, n, j)].name \notin {n, Free}
  BY <1>1, EndIs
<1>3. Len(t) \in Nat BY DEF TableOf
<1>4. ~(k < End(t, n)) /\ ~(End(t, n) < k) BY <1>2, <1>3
<1> QED BY <1>1, <1>2, <1>3, <1>4

\* With a free slot every search ends.
LEMMA SearchesEnd ==
    ASSUME NEW t, TableOf(t), Holds(t, Free) # {}, NEW n \in Names PROVE Ends(t, n) # {}
<1>1. PICK i \in DOMAIN t : t[i].name = Free BY DEF Holds
<1>2. PICK k \in 0 .. Len(t) - 1 : At(t, n, k) = i BY AtOnto
<1> QED BY <1>1, <1>2 DEF Ends

\* A name is in one slot, where its search ends; a search for another ends at a
\* free slot.
LEMMA OneSlot ==
    ASSUME NEW t, TableOf(t), FoundIn(t), NEW n \in Names, Ends(t, n) # {}
    PROVE  /\ \A i \in DOMAIN t : t[i].name = n => i = At(t, n, End(t, n))
           /\ (\A i \in DOMAIN t : t[i].name # n) => t[At(t, n, End(t, n))].name = Free
<1>1. At(t, n, End(t, n)) \in DOMAIN t /\ t[At(t, n, End(t, n))].name \in {n, Free}
  <2>1. End(t, n) \in 0 .. Len(t) - 1 /\ Len(t) \in Nat BY EndIs DEF TableOf
  <2> QED BY <2>1, EndIs, AtIn
<1>2. \A i \in DOMAIN t : t[i].name = n => i \in UsedSlots(t) BY DEF UsedSlots
<1> QED BY <1>1, <1>2 DEF FoundIn

-----------------------------------------------------------------------------
(* Filling, vacating and counting slots *)

LEMMA CellAt ==
    ASSUME NEW t, TableOf(t), NEW i \in DOMAIN t
    PROVE  t[i] \in Cell /\ t[i].count \in Nat /\ t[i] = Used(t[i].name, t[i].count)
<1>1. t[i] \in Cell BY DEF TableOf
<1> QED BY <1>1 DEF Cell, Used

LEMMA TableExcept ==
    ASSUME NEW t, TableOf(t), NEW p \in DOMAIN t, NEW c \in Cell
    PROVE  /\ TableOf([t EXCEPT ![p] = c]) /\ Len([t EXCEPT ![p] = c]) = Len(t)
           /\ DOMAIN [t EXCEPT ![p] = c] = DOMAIN t /\ [t EXCEPT ![p] = c][p] = c
           /\ \A i \in DOMAIN t : i # p => [t EXCEPT ![p] = c][i] = t[i]
  BY DEF TableOf

\* The table u is t with x in slot p.
With(t, p, x, u) ==
    Len(u) = Len(t) /\ DOMAIN u = DOMAIN t /\ u[p] = x /\ \A i \in DOMAIN t : i # p => u[i] = t[i]

LEMMA WithExcept ==
    ASSUME NEW t, TableOf(t), NEW p \in DOMAIN t, NEW x \in Cell
    PROVE  With(t, p, x, [t EXCEPT ![p] = x]) /\ TableOf([t EXCEPT ![p] = x])
  BY TableExcept DEF With

LEMMA AtSame ==
    ASSUME NEW t, NEW u, Len(u) = Len(t) PROVE \A n, k : At(u, n, k) = At(t, n, k)
  BY DEF At

LEMMA UsedCell == ASSUME NEW n \in Names \cup {Free, Deleted}, NEW c \in Nat PROVE Used(n, c) \in Cell
  BY DEF Used, Cell

LEMMA NotNames == Free \notin Names /\ Deleted \notin Names /\ Free # Deleted BY DeclTableAssumption

\* A name put where its search ends, or before that in a slot that holds no name, is
\* found, and no other name is lost.
LEMMA FillKeeps ==
    ASSUME NEW t, TableOf(t), FoundIn(t), NEW n \in Names, \A i \in DOMAIN t : t[i].name # n,
           Ends(t, n) # {}, NEW k \in 0 .. End(t, n), t[At(t, n, k)].name \notin Names, NEW c \in Nat
    PROVE  LET u == [t EXCEPT ![At(t, n, k)] = Used(n, c)]
           IN  TableOf(u) /\ FoundIn(u) /\ At(t, n, k) \in DOMAIN t
<1> DEFINE p == At(t, n, k)
           u == [t EXCEPT ![p] = Used(n, c)]
<1>1. /\ End(t, n) \in 0 .. Len(t) - 1 /\ Len(t) \in Nat \ {0}
      /\ \A j \in 0 .. End(t, n) - 1 : t[At(t, n, j)].name \notin {n, Free}
  BY EndIs DEF TableOf
<1>2. k \in 0 .. Len(t) - 1 /\ k \in Nat BY <1>1
<1>3. p \in DOMAIN t /\ DOMAIN t = 1 .. Len(t) BY <1>2, AtIn
<1>4. Used(n, c) \in Cell /\ Used(n, c).name = n BY UsedCell DEF Used
<1>5. t[p].name \notin Names OBVIOUS
<1> HIDE DEF p
<1>6. TableOf(u) /\ Len(u) = Len(t) /\ DOMAIN u = DOMAIN t /\ u[p].name = n
      /\ \A i \in DOMAIN t : i # p => u[i] = t[i]
  BY <1>3, <1>4, TableExcept
<1> HIDE DEF u
<1>7. \A m, j : At(u, m, j) = At(t, m, j) BY <1>6, AtSame
<1>8. Ends(u, n) # {} /\ End(u, n) = k
  <2>1. u[At(u, n, k)].name \in {n, Free} BY <1>6, <1>7 DEF p
  <2>2. ASSUME NEW j \in 0 .. k - 1 PROVE u[At(u, n, j)].name \notin {n, Free}
    <3>1. j \in 0 .. Len(t) - 1 /\ j \in Nat /\ j # k /\ j \in 0 .. End(t, n) - 1 BY <1>1, <1>2
    <3>2. At(t, n, j) # p BY <1>2, <3>1, AtOnce DEF p
    <3>3. At(t, n, j) \in DOMAIN t BY <3>1, AtIn
    <3> QED BY <1>1, <1>6, <1>7, <3>1, <3>2, <3>3
  <2> QED BY <1>2, <1>6, <2>1, <2>2, EndsThere
<1>9. ASSUME NEW i \in UsedSlots(u) PROVE Ends(u, u[i].name) # {} /\ At(u, u[i].name, End(u, u[i].name)) = i
  <2>1. i \in DOMAIN t /\ u[i].name \in Names BY <1>6 DEF UsedSlots
  <2>2. CASE i = p BY <1>6, <1>7, <1>8, <2>2 DEF p
  <2>3. CASE i # p
    <3> DEFINE m == t[i].name
    <3>1. u[i].name = m /\ m \in Names /\ i \in UsedSlots(t) BY <1>6, <2>1, <2>3 DEF UsedSlots
    <3>2. Ends(t, m) # {} /\ At(t, m, End(t, m)) = i BY <3>1 DEF FoundIn
    <3>3. m # n BY <2>1
    <3> HIDE DEF m
    <3>4. /\ End(t, m) \in 0 .. Len(t) - 1
          /\ \A j \in 0 .. End(t, m) - 1 : t[At(t, m, j)].name \notin {m, Free}
      BY <3>1, <3>2, EndIs
    <3>5. u[At(u, m, End(t, m))].name \in {m, Free} BY <1>6, <1>7, <3>1, <3>2
    <3>6. ASSUME NEW j \in 0 .. End(t, m) - 1 PROVE u[At(u, m, j)].name \notin {m, Free}
      <4>1. j \in Nat BY <3>4
      <4>2. At(t, m, j) \in DOMAIN t BY <3>1, <4>1, AtIn
      <4>3. t[At(t, m, j)].name \notin {m, Free} BY <3>4
      <4>4. n \notin {m, Free} BY <3>3, NotNames
      <4> QED BY <1>6, <1>7, <4>2, <4>3, <4>4
    <3>7. Ends(u, m) # {} /\ End(u, m) = End(t, m)
      <4>1. End(t, m) \in 0 .. Len(u) - 1 BY <1>6, <3>4
      <4> QED BY <1>6, <3>1, <3>5, <3>6, <4>1, EndsThere
    <3> QED BY <1>7, <3>1, <3>2, <3>7
  <2> QED BY <2>2, <2>3
<1> QED BY <1>3, <1>6, <1>9 DEF FoundIn, u, p

\* A name's slot that becomes a tombstone, or free when the next slot is free, cuts
\* no search.
LEMMA VacateKeeps ==
    ASSUME NEW t, TableOf(t), FoundIn(t), NEW i \in UsedSlots(t), NEW s,
           s = Deleted \/ (s = Free /\ t[(i % Len(t)) + 1].name = Free)
    PROVE  TableOf([t EXCEPT ![i] = Used(s, 0)]) /\ FoundIn([t EXCEPT ![i] = Used(s, 0)])
<1> DEFINE u == [t EXCEPT ![i] = Used(s, 0)]
<1>1. i \in DOMAIN t /\ t[i].name \in Names /\ Len(t) \in Nat \ {0} BY DEF UsedSlots, TableOf
<1>2. Used(s, 0) \in Cell /\ Used(s, 0).name = s BY UsedCell DEF Used
<1>3. TableOf(u) /\ Len(u) = Len(t) /\ DOMAIN u = DOMAIN t /\ u[i].name = s
      /\ \A h \in DOMAIN t : h # i => u[h] = t[h]
  BY <1>1, <1>2, TableExcept
<1> HIDE DEF u
<1>4. \A m, j : At(u, m, j) = At(t, m, j) BY <1>3, AtSame
<1>5. ASSUME NEW h \in UsedSlots(u) PROVE Ends(u, u[h].name) # {} /\ At(u, u[h].name, End(u, u[h].name)) = h
  <2> DEFINE m == t[h].name
  <2>1. h \in DOMAIN t /\ h # i BY <1>3, NotNames DEF UsedSlots
  <2>2. u[h].name = m /\ m \in Names /\ h \in UsedSlots(t) BY <1>3, <2>1 DEF UsedSlots
  <2>3. Ends(t, m) # {} /\ At(t, m, End(t, m)) = h BY <2>2 DEF FoundIn
  <2>4. t[h].name = m OBVIOUS
  <2> HIDE DEF m
  <2>5. /\ End(t, m) \in 0 .. Len(t) - 1
        /\ \A j \in 0 .. End(t, m) - 1 : t[At(t, m, j)].name \notin {m, Free}
    BY <2>2, <2>3, EndIs
  <2>6. u[At(u, m, End(t, m))].name \in {m, Free} BY <1>3, <1>4, <2>1, <2>2, <2>3
  <2>7. ASSUME NEW j \in 0 .. End(t, m) - 1 PROVE u[At(u, m, j)].name \notin {m, Free}
    <3>1. j \in Nat /\ j + 1 \in 0 .. End(t, m) /\ j + 1 \in Nat BY <2>5
    <3>2. At(t, m, j) \in DOMAIN t BY <2>2, <3>1, AtIn
    <3>3. t[At(t, m, j)].name \notin {m, Free} BY <2>5
    <3>4. CASE At(t, m, j) # i BY <1>3, <1>4, <3>2, <3>3, <3>4
    <3>5. CASE At(t, m, j) = i /\ s = Deleted BY <1>3, <1>4, <2>2, <3>5, NotNames
    <3>6. CASE At(t, m, j) = i /\ s = Free
      <4>1. At(t, m, j + 1) = (i % Len(t)) + 1 BY <2>2, <3>1, <3>6, AtNext
      <4>2. t[At(t, m, j + 1)].name = Free BY <3>6, <4>1, NotNames
      <4>3. CASE j + 1 = End(t, m) BY <2>2, <2>3, <2>4, <4>2, <4>3, NotNames
      <4>4. CASE j + 1 # End(t, m)
        <5>1. j + 1 \in 0 .. End(t, m) - 1 BY <2>5, <3>1, <4>4
        <5> QED BY <2>5, <4>2, <5>1
      <4> QED BY <4>3, <4>4
    <3> QED BY <3>4, <3>5, <3>6
  <2>8. Ends(u, m) # {} /\ End(u, m) = End(t, m)
    <3> DEFINE e == End(t, m)
    <3>1. e \in 0 .. Len(u) - 1 BY <1>3, <2>5
    <3>2. TableOf(u) /\ m \in Names BY <1>3, <2>2
    <3> HIDE DEF e
    <3>3. u[At(u, m, e)].name \in {m, Free} BY <2>6 DEF e
    <3>4. \A j \in 0 .. e - 1 : u[At(u, m, j)].name \notin {m, Free} BY <2>7 DEF e
    <3>5. Ends(u, m) # {} /\ End(u, m) = e BY <3>1, <3>2, <3>3, <3>4, EndsThere
    <3> QED BY <3>5 DEF e
  <2> QED BY <1>4, <2>2, <2>3, <2>8
<1> QED BY <1>3, <1>5 DEF FoundIn, u

\* Counting a name once more, or once less, moves nothing.
LEMMA CountKeeps ==
    ASSUME NEW t, TableOf(t), FoundIn(t), NEW i \in UsedSlots(t), NEW c \in Nat,
           NEW u, With(t, i, Used(t[i].name, c), u), TableOf(u)
    PROVE  FoundIn(u) /\ \A h \in DOMAIN t : u[h].name = t[h].name
<1>1. i \in DOMAIN t /\ t[i].name \in Names /\ DOMAIN t = 1 .. Len(t) BY DEF UsedSlots, TableOf
<1>4. Len(u) = Len(t) /\ DOMAIN u = DOMAIN t /\ u[i] = Used(t[i].name, c)
      /\ \A h \in DOMAIN t : h # i => u[h] = t[h]
  BY DEF With
<1>5. \A h \in DOMAIN t : u[h].name = t[h].name BY <1>4 DEF Used
<1>6. \A m, j : At(u, m, j) = At(t, m, j) BY <1>4, AtSame
<1>7. \A m \in Names : Ends(u, m) = Ends(t, m)
  <2>1. \A m \in Names : \A k \in 0 .. Len(t) - 1 : At(t, m, k) \in DOMAIN t
    <3>1. \A k \in 0 .. Len(t) - 1 : k \in Nat OBVIOUS
    <3> QED BY <3>1, AtIn
  <2> QED BY <1>4, <1>5, <1>6, <2>1 DEF Ends
<1>8. \A m \in Names : End(u, m) = End(t, m) BY <1>7 DEF End
<1>9. UsedSlots(u) = UsedSlots(t) BY <1>4, <1>5 DEF UsedSlots
<1>10. FoundIn(u)
  <2> SUFFICES ASSUME NEW h \in UsedSlots(t)
               PROVE  Ends(u, u[h].name) # {} /\ At(u, u[h].name, End(u, u[h].name)) = h
    BY <1>9 DEF FoundIn
  <2>1. u[h].name = t[h].name /\ t[h].name \in Names BY <1>5 DEF UsedSlots
  <2>2. Ends(t, t[h].name) # {} /\ At(t, t[h].name, End(t, t[h].name)) = h BY DEF FoundIn
  <2> QED BY <1>6, <1>7, <1>8, <2>1, <2>2
<1> QED BY <1>5, <1>10

\* A fresh table.
LEMMA EmptyTable ==
    ASSUME NEW c \in Nat \ {0}
    PROVE  /\ TableOf(Empty(c)) /\ FoundIn(Empty(c)) /\ Len(Empty(c)) = c /\ UsedSlots(Empty(c)) = {}
           /\ Holds(Empty(c), Deleted) = {} /\ Holds(Empty(c), Free) = 1 .. c
<1>1. Used(Free, 0) \in Cell /\ Used(Free, 0).name = Free BY UsedCell DEF Used
<1> DEFINE x == Used(Free, 0)
<1> HIDE DEF x
<1>2. [i \in 1 .. c |-> x] \in Seq(Cell) /\ Len([i \in 1 .. c |-> x]) = c
  <2>1. x \in Cell BY <1>1 DEF x
  <2>2. [i \in 1 .. c |-> x] \in [1 .. c -> Cell] BY <2>1
  <2>3. [i \in 1 .. c |-> x] \in Seq(Cell) BY <2>2, SeqDef
  <2> QED BY <2>3
<1>3. Empty(c) = [i \in 1 .. c |-> x] BY DEF Empty, x
<1>4. TableOf(Empty(c)) /\ Len(Empty(c)) = c BY <1>2, <1>3 DEF TableOf
<1>5. \A i \in 1 .. c : Empty(c)[i].name = Free BY <1>1, <1>3 DEF x
<1>6. DOMAIN Empty(c) = 1 .. c BY <1>3
<1>7. UsedSlots(Empty(c)) = {} BY <1>5, <1>6, NotNames DEF UsedSlots
<1> QED BY <1>4, <1>5, <1>6, <1>7, NotNames DEF FoundIn, Holds

LEMMA Disjoint ==
    ASSUME NEW S, NEW T, IsFiniteSet(S), IsFiniteSet(T), S \cap T = {}
    PROVE  IsFiniteSet(S \cup T) /\ Cardinality(S \cup T) = Cardinality(S) + Cardinality(T)
<1>1. Cardinality(S \cap T) = 0 BY FS_EmptySet
<1>2. /\ IsFiniteSet(S \cup T)
      /\ Cardinality(S \cup T) = Cardinality(S) + Cardinality(T) - Cardinality(S \cap T)
  BY FS_Union
<1>3. Cardinality(S) \in Nat /\ Cardinality(T) \in Nat BY FS_CardinalityType
<1> HIDE DEF Cardinality
<1> QED BY <1>1, <1>2, <1>3

\* Every slot holds a name, a tombstone or nothing.
LEMMA SlotKinds ==
    ASSUME NEW t, TableOf(t)
    PROVE  /\ IsFiniteSet(UsedSlots(t)) /\ IsFiniteSet(Holds(t, Free)) /\ IsFiniteSet(Holds(t, Deleted))
           /\ Cardinality(UsedSlots(t)) \in Nat /\ Cardinality(Holds(t, Free)) \in Nat
           /\ Cardinality(Holds(t, Deleted)) \in Nat
           /\ Cardinality(UsedSlots(t)) + Cardinality(Holds(t, Free)) + Cardinality(Holds(t, Deleted)) = Len(t)
<1> DEFINE U == UsedSlots(t)
           F == Holds(t, Free)
           D == Holds(t, Deleted)
<1>1. DOMAIN t = 1 .. Len(t) /\ Len(t) \in Nat BY DEF TableOf
<1>2. IsFiniteSet(DOMAIN t) /\ Cardinality(DOMAIN t) = Len(t)
  <2>1. IsFiniteSet(1 .. Len(t)) /\ Cardinality(1 .. Len(t)) = IF 1 > Len(t) THEN 0 ELSE Len(t) - 1 + 1
    BY <1>1, FS_Interval
  <2>2. Len(t) - 1 + 1 = Len(t) /\ ~(1 > Len(t)) BY DEF TableOf
  <2> QED BY <1>1, <2>1, <2>2
<1>3. U \subseteq DOMAIN t /\ F \subseteq DOMAIN t /\ D \subseteq DOMAIN t BY DEF UsedSlots, Holds
<1>4. IsFiniteSet(U) /\ IsFiniteSet(F) /\ IsFiniteSet(D) BY <1>2, <1>3, FS_Subset
<1>5. Cardinality(U) \in Nat /\ Cardinality(F) \in Nat /\ Cardinality(D) \in Nat BY <1>4, FS_CardinalityType
<1>6. (U \cup F) \cup D = DOMAIN t
  <2>1. \A i \in DOMAIN t : t[i].name \in Names \cup {Free, Deleted}
    <3>1. \A i \in DOMAIN t : t[i] \in Cell BY <1>1 DEF TableOf
    <3> QED BY <3>1 DEF Cell
  <2> QED BY <1>3, <2>1 DEF UsedSlots, Holds
<1>7. U \cap F = {} /\ (U \cup F) \cap D = {} BY NotNames DEF UsedSlots, Holds
<1> HIDE DEF U, F, D
<1>8. IsFiniteSet(U \cup F) /\ Cardinality(U \cup F) = Cardinality(U) + Cardinality(F)
  BY <1>4, <1>7, Disjoint
<1>9. Cardinality((U \cup F) \cup D) = Cardinality(U \cup F) + Cardinality(D)
  <2> DEFINE V == U \cup F
  <2>1. IsFiniteSet(V) /\ V \cap D = {} BY <1>7, <1>8
  <2> HIDE DEF V
  <2>2. Cardinality(V \cup D) = Cardinality(V) + Cardinality(D) BY <1>4, <2>1, Disjoint
  <2> QED BY <2>2 DEF V
<1> QED BY <1>2, <1>4, <1>5, <1>6, <1>8, <1>9 DEF U, F, D

\* Not every slot is taken: there is a free one.
LEMMA RoomFrom ==
    ASSUME NEW t, TableOf(t), Cardinality(UsedSlots(t)) + Cardinality(Holds(t, Deleted)) < Len(t)
    PROVE  Holds(t, Free) # {}
<1>1. Len(t) \in Nat BY DEF TableOf
<1>2. Cardinality(Holds(t, Free)) # 0 BY <1>1, SlotKinds
<1> QED BY <1>2, FS_EmptySet

LEMMA OneOfName ==
    ASSUME NEW t, TableOf(t), FoundIn(t), NEW i \in UsedSlots(t), NEW j \in UsedSlots(t), t[i].name = t[j].name
    PROVE  i = j
  BY DEF FoundIn

LEMMA CountIs ==
    ASSUME NEW t, TableOf(t), FoundIn(t), NEW n \in Names
    PROVE  /\ \A i \in DOMAIN t : t[i].name = n => CountOf(t, n) = t[i].count
           /\ (\A i \in DOMAIN t : t[i].name # n) => CountOf(t, n) = 0
<1> DEFINE S == {i \in DOMAIN t : t[i].name = n}
<1>1. CountOf(t, n) = IF S = {} THEN 0 ELSE t[CHOOSE i \in S : TRUE].count BY DEF CountOf
<1>2. ASSUME NEW i \in DOMAIN t, t[i].name = n PROVE CountOf(t, n) = t[i].count
  <2>1. i \in S BY <1>2
  <2>2. \A j \in S : j = i BY <1>2, OneOfName DEF UsedSlots
  <2>3. (CHOOSE j \in S : TRUE) = i BY <2>1, <2>2
  <2> HIDE DEF S
  <2> QED BY <1>1, <2>1, <2>3
<1>3. ASSUME \A i \in DOMAIN t : t[i].name # n PROVE CountOf(t, n) = 0 BY <1>1, <1>3
<1> QED BY <1>2, <1>3

\* The slots used and the tombstones when a slot is filled.
LEMMA FillCounts ==
    ASSUME NEW t, TableOf(t), NEW p \in DOMAIN t, t[p].name \notin Names, NEW n \in Names, NEW c \in Nat,
           NEW u, With(t, p, Used(n, c), u)
    PROVE  /\ UsedSlots(u) = UsedSlots(t) \cup {p}
           /\ Holds(u, Deleted) = Holds(t, Deleted) \ {p}
           /\ Cardinality(UsedSlots(u)) = Cardinality(UsedSlots(t)) + 1
           /\ Cardinality(Holds(u, Deleted)) =
                  IF t[p].name = Deleted THEN Cardinality(Holds(t, Deleted)) - 1
                  ELSE Cardinality(Holds(t, Deleted))
<1>1. Used(n, c) \in Cell /\ Used(n, c).name = n BY UsedCell DEF Used
<1>2. Len(u) = Len(t) /\ DOMAIN u = DOMAIN t /\ u[p] = Used(n, c)
      /\ \A i \in DOMAIN t : i # p => u[i] = t[i]
  BY DEF With
<1>3. UsedSlots(u) = UsedSlots(t) \cup {p} /\ p \notin UsedSlots(t) BY <1>1, <1>2 DEF UsedSlots
<1>4. Holds(u, Deleted) = Holds(t, Deleted) \ {p} BY <1>1, <1>2, NotNames DEF Holds
<1>5. IsFiniteSet(UsedSlots(t)) /\ IsFiniteSet(Holds(t, Deleted)) BY SlotKinds
<1>6. Cardinality(UsedSlots(u)) = Cardinality(UsedSlots(t)) + 1 BY <1>3, <1>5, FS_AddElement
<1>7. CASE t[p].name = Deleted
  <2>1. p \in Holds(t, Deleted) BY <1>7 DEF Holds
  <2>2. Cardinality(Holds(u, Deleted)) = Cardinality(Holds(t, Deleted)) - 1
    BY <1>4, <1>5, <2>1, FS_RemoveElement
  <2> QED BY <1>2, <1>3, <1>4, <1>6, <1>7, <2>2
<1>8. CASE t[p].name # Deleted
  <2>1. Holds(u, Deleted) = Holds(t, Deleted) BY <1>4, <1>8 DEF Holds
  <2> QED BY <1>2, <1>3, <1>4, <1>6, <1>8, <2>1
<1> QED BY <1>7, <1>8

\* And when one is vacated.
LEMMA VacateCounts ==
    ASSUME NEW t, TableOf(t), NEW p \in UsedSlots(t), NEW s \in {Free, Deleted},
           NEW u, With(t, p, Used(s, 0), u)
    PROVE  /\ UsedSlots(u) = UsedSlots(t) \ {p}
           /\ Cardinality(UsedSlots(u)) = Cardinality(UsedSlots(t)) - 1
           /\ Cardinality(Holds(u, Deleted)) =
                  IF s = Deleted THEN Cardinality(Holds(t, Deleted)) + 1
                  ELSE Cardinality(Holds(t, Deleted))
<1>1. Used(s, 0) \in Cell /\ Used(s, 0).name = s /\ p \in DOMAIN t /\ t[p].name \in Names
  BY UsedCell DEF Used, UsedSlots
<1>2. Len(u) = Len(t) /\ DOMAIN u = DOMAIN t /\ u[p] = Used(s, 0)
      /\ \A i \in DOMAIN t : i # p => u[i] = t[i]
  BY DEF With
<1>3. UsedSlots(u) = UsedSlots(t) \ {p} BY <1>1, <1>2, NotNames DEF UsedSlots
<1>4. IsFiniteSet(UsedSlots(t)) /\ IsFiniteSet(Holds(t, Deleted)) BY SlotKinds
<1>5. Cardinality(UsedSlots(u)) = Cardinality(UsedSlots(t)) - 1 BY <1>3, <1>4, FS_RemoveElement
<1>6. p \notin Holds(t, Deleted) BY <1>1, NotNames DEF Holds
<1>7. CASE s = Deleted
  <2>1. Holds(u, Deleted) = Holds(t, Deleted) \cup {p} BY <1>1, <1>2, <1>7 DEF Holds
  <2>2. Cardinality(Holds(u, Deleted)) = Cardinality(Holds(t, Deleted)) + 1
    BY <1>4, <1>6, <2>1, FS_AddElement
  <2> QED BY <1>2, <1>3, <1>5, <1>7, <2>2
<1>8. CASE s # Deleted
  <2>1. Holds(u, Deleted) = Holds(t, Deleted) BY <1>1, <1>2, <1>6, <1>8 DEF Holds
  <2> QED BY <1>2, <1>3, <1>5, <1>8, <2>1
<1> QED BY <1>7, <1>8

-----------------------------------------------------------------------------
(* move_table *)

Positive(t) == \A i \in UsedSlots(t) : t[i].count > 0
UpTo(t, i) == {j \in UsedSlots(t) : j <= i}

\* The table m holds what the first i slots of t hold.
Moved(t, c, i, m) ==
    /\ TableOf(m) /\ FoundIn(m) /\ Len(m) = c /\ Holds(m, Deleted) = {}
    /\ Cardinality(UsedSlots(m)) = Cardinality(UpTo(t, i))
    /\ \A j \in UsedSlots(m) : \E h \in UpTo(t, i) : m[j] = t[h]
    /\ \A h \in UpTo(t, i) : \E j \in UsedSlots(m) : m[j] = t[h]

LEMMA UpToGrows ==
    ASSUME NEW t, TableOf(t), NEW i \in Nat, i + 1 <= Len(t)
    PROVE  /\ t[i + 1].name \notin Names => UpTo(t, i + 1) = UpTo(t, i)
           /\ t[i + 1].name \in Names =>
                 /\ UpTo(t, i + 1) = UpTo(t, i) \cup {i + 1} /\ i + 1 \notin UpTo(t, i) /\ i + 1 \in UsedSlots(t)
                 /\ Cardinality(UpTo(t, i + 1)) = Cardinality(UpTo(t, i)) + 1
           /\ IsFiniteSet(UpTo(t, i)) /\ Cardinality(UpTo(t, i)) <= Cardinality(UsedSlots(t))
           /\ Cardinality(UpTo(t, i)) \in Nat
<1>1. DOMAIN t = 1 .. Len(t) /\ Len(t) \in Nat BY DEF TableOf
<1>2. UpTo(t, i) \subseteq UsedSlots(t) BY DEF UpTo
<1>3. IsFiniteSet(UsedSlots(t)) BY SlotKinds
<1>4. IsFiniteSet(UpTo(t, i)) /\ Cardinality(UpTo(t, i)) <= Cardinality(UsedSlots(t)) BY <1>2, <1>3, FS_Subset
<1>5. \A j \in UsedSlots(t) : j \in Nat /\ (j <= i + 1 <=> j <= i \/ j = i + 1) BY <1>1 DEF UsedSlots
<1>6. t[i + 1].name \notin Names => UpTo(t, i + 1) = UpTo(t, i) BY <1>5 DEF UpTo, UsedSlots
<1>7. t[i + 1].name \in Names =>
          UpTo(t, i + 1) = UpTo(t, i) \cup {i + 1} /\ i + 1 \notin UpTo(t, i) /\ i + 1 \in UsedSlots(t)
  <2>1. i + 1 \in DOMAIN t /\ ~(i + 1 <= i) BY <1>1
  <2>2. t[i + 1].name \in Names => i + 1 \in UsedSlots(t) BY <2>1 DEF UsedSlots
  <2> QED BY <1>5, <2>1, <2>2 DEF UpTo
<1>8. t[i + 1].name \in Names => Cardinality(UpTo(t, i + 1)) = Cardinality(UpTo(t, i)) + 1
  BY <1>4, <1>7, FS_AddElement
<1> QED BY <1>4, <1>6, <1>7, <1>8, FS_CardinalityType

LEMMA MoveOne ==
    ASSUME NEW t, TableOf(t), FoundIn(t), NEW c \in Nat \ {0}, Cardinality(UsedSlots(t)) < c,
           NEW i \in Nat, i + 1 <= Len(t), NEW m, Moved(t, c, i, m), t[i + 1].name \in Names
    PROVE  Moved(t, c, i + 1, Placed(m, t[i + 1]))
<1> DEFINE n == t[i + 1].name
           p == At(m, n, End(m, n))
           k == t[i + 1].count
           u == [m EXCEPT ![p] = Used(n, k)]
<1>1. TableOf(m) /\ FoundIn(m) /\ Len(m) = c /\ Holds(m, Deleted) = {}
      /\ Cardinality(UsedSlots(m)) = Cardinality(UpTo(t, i))
  BY DEF Moved
<1>2. i + 1 \in UsedSlots(t) /\ i + 1 \notin UpTo(t, i) /\ UpTo(t, i + 1) = UpTo(t, i) \cup {i + 1}
      /\ Cardinality(UpTo(t, i + 1)) = Cardinality(UpTo(t, i)) + 1
      /\ Cardinality(UpTo(t, i)) <= Cardinality(UsedSlots(t)) /\ Cardinality(UpTo(t, i)) \in Nat
  BY UpToGrows
<1>3. t[i + 1] \in Cell /\ n \in Names /\ k \in Nat /\ t[i + 1] = Used(n, k)
  <2>1. t[i + 1] \in Cell
    <3>1. i + 1 \in DOMAIN t BY <1>2 DEF UsedSlots
    <3> QED BY <3>1 DEF TableOf
  <2> QED BY <2>1 DEF Cell, Used
<1>4. \A j \in DOMAIN m : m[j].name # n
  <2>1. ASSUME NEW j \in DOMAIN m, m[j].name = n PROVE FALSE
    <3>1. j \in UsedSlots(m) BY <1>3, <2>1 DEF UsedSlots
    <3>2. PICK h \in UpTo(t, i) : m[j] = t[h] BY <3>1 DEF Moved
    <3>3. h \in UsedSlots(t) /\ t[h].name = t[i + 1].name BY <2>1, <3>2 DEF UpTo
    <3>4. h = i + 1 BY <1>2, <3>3, OneOfName
    <3> QED BY <1>2, <3>4
  <2> QED BY <2>1
<1>5. Ends(m, n) # {}
  <2>1. Cardinality(Holds(m, Deleted)) = 0 BY <1>1, FS_EmptySet
  <2>2. Cardinality(UsedSlots(t)) \in Nat BY SlotKinds
  <2>3. Cardinality(UsedSlots(m)) + Cardinality(Holds(m, Deleted)) < Len(m)
    BY <1>1, <1>2, <2>1, <2>2
  <2>4. Holds(m, Free) # {} BY <1>1, <2>3, RoomFrom
  <2> QED BY <1>1, <1>3, <2>4, SearchesEnd
<1>6. m[p].name = Free BY <1>1, <1>3, <1>4, <1>5, OneSlot
<1>7. End(m, n) \in 0 .. End(m, n)
  <2>1. End(m, n) \in 0 .. Len(m) - 1 BY <1>1, <1>3, <1>5, EndIs
  <2> QED BY <2>1
<1> HIDE DEF n, k
<1>8. TableOf(u) /\ FoundIn(u) /\ p \in DOMAIN m
  BY <1>1, <1>3, <1>4, <1>5, <1>6, <1>7, FillKeeps, NotNames
<1> HIDE DEF p
<1>9. /\ Len(u) = Len(m) /\ u[p] = Used(n, k) /\ \A h \in DOMAIN m : h # p => u[h] = m[h]
      /\ UsedSlots(u) = UsedSlots(m) \cup {p} /\ Holds(u, Deleted) = {}
      /\ Cardinality(UsedSlots(u)) = Cardinality(UsedSlots(m)) + 1
  <2>1. Used(n, k) \in Cell /\ m[p].name \notin Names BY <1>3, <1>6, UsedCell, NotNames
  <2>2. With(m, p, Used(n, k), u)
    <3> DEFINE x == Used(n, k)
    <3>1. x \in Cell BY <2>1
    <3> HIDE DEF x
    <3>2. With(m, p, x, [m EXCEPT ![p] = x]) BY <1>1, <1>8, <3>1, WithExcept
    <3> QED BY <3>2 DEF x
  <2> HIDE DEF u
  <2>3. /\ UsedSlots(u) = UsedSlots(m) \cup {p} /\ Holds(u, Deleted) = Holds(m, Deleted) \ {p}
        /\ Cardinality(UsedSlots(u)) = Cardinality(UsedSlots(m)) + 1
    BY <1>1, <1>3, <1>8, <2>1, <2>2, FillCounts
  <2> QED BY <1>1, <2>2, <2>3 DEF With
<1>10. u = Placed(m, t[i + 1]) BY <1>3 DEF Placed, p, n
<1> HIDE DEF u
<1>11. p \notin UsedSlots(m) BY <1>6, NotNames DEF UsedSlots
<1>12. \A j \in UsedSlots(m) : j \in DOMAIN m /\ u[j] = m[j] BY <1>9, <1>11 DEF UsedSlots
<1>13. \A j \in UsedSlots(u) : \E h \in UpTo(t, i + 1) : u[j] = t[h]
  BY <1>2, <1>3, <1>9, <1>12 DEF Moved
<1>14. \A h \in UpTo(t, i + 1) : \E j \in UsedSlots(u) : u[j] = t[h]
  BY <1>2, <1>3, <1>9, <1>12 DEF Moved
<1> QED BY <1>1, <1>2, <1>8, <1>9, <1>10, <1>13, <1>14 DEF Moved

MoveStep(t, c, i, M) ==
    IF i = 0 THEN Empty(c) ELSE IF t[i].name \in Names THEN Placed(M[i - 1], t[i]) ELSE M[i - 1]
MoveRun(t, c, m, M) == M = [i \in 0 .. m |-> MoveStep(t, c, i, M)]

LEMMA MoveStepSame ==
    ASSUME NEW t, NEW c, NEW i, NEW M, NEW L, i # 0 => M[i - 1] = L[i - 1]
    PROVE  MoveStep(t, c, i, M) = MoveStep(t, c, i, L)
  BY DEF MoveStep

LEMMA MoveRuns == ASSUME NEW t, NEW c, NEW N \in Nat PROVE \E M : MoveRun(t, c, N, M)
<1> DEFINE S == {m \in Nat : \E M : MoveRun(t, c, m, M)}
<1>1. 0 \in S
  <2> DEFINE T == [i \in 0 .. 0 |-> MoveStep(t, c, i, << >>)]
  <2>1. T = [i \in 0 .. 0 |-> MoveStep(t, c, i, T)]
    <3>1. 0 .. 0 = {0} OBVIOUS
    <3>2. \A i \in 0 .. 0 : T[i] = MoveStep(t, c, i, << >>) OBVIOUS
    <3>3. T = [i \in 0 .. 0 |-> T[i]] OBVIOUS
    <3> HIDE DEF T
    <3>4. \A i \in 0 .. 0 : T[i] = MoveStep(t, c, i, T) BY <3>1, <3>2, MoveStepSame
    <3> QED BY <3>3, <3>4
  <2>2. MoveRun(t, c, 0, T)
    <3> HIDE DEF T
    <3> QED BY <2>1 DEF MoveRun
  <2> QED BY <2>2
<1>2. ASSUME NEW m \in Nat, m \in S PROVE m + 1 \in S
  <2>1. PICK T : MoveRun(t, c, m, T) BY <1>2
  <2> DEFINE U == [i \in 0 .. m + 1 |-> IF i = m + 1 THEN MoveStep(t, c, i, T) ELSE T[i]]
  <2>2. \A i \in 0 .. m : U[i] = T[i] OBVIOUS
  <2>3. \A i \in 0 .. m : T[i] = MoveStep(t, c, i, T) BY <2>1 DEF MoveRun
  <2>4. \A i \in 0 .. m + 1 : U[i] = MoveStep(t, c, i, T)
    <3>1. \A i \in 0 .. m + 1 : i = m + 1 \/ i \in 0 .. m OBVIOUS
    <3> QED BY <2>3, <3>1
  <2>5. U = [i \in 0 .. m + 1 |-> U[i]] OBVIOUS
  <2> HIDE DEF U
  <2>6. ASSUME NEW i \in 0 .. m + 1 PROVE U[i] = MoveStep(t, c, i, U)
    <3>1. i # 0 => i - 1 \in 0 .. m OBVIOUS
    <3>2. MoveStep(t, c, i, T) = MoveStep(t, c, i, U) BY <3>1, <2>2, MoveStepSame
    <3> QED BY <2>4, <3>2
  <2>7. U = [i \in 0 .. m + 1 |-> MoveStep(t, c, i, U)] BY <2>5, <2>6
  <2>8. MoveRun(t, c, m + 1, U) BY <2>7 DEF MoveRun
  <2> QED BY <2>8
<1>3. Nat \subseteq S
  <2> HIDE DEF S
  <2> QED BY <1>1, <1>2, NatInductive
<1> QED BY <1>3

\* Moving a table keeps the names and their counts and leaves no tombstone.
LEMMA MoveKeeps ==
    ASSUME NEW t, TableOf(t), FoundIn(t), Positive(t), NEW c \in Nat \ {0}, Cardinality(UsedSlots(t)) < c
    PROVE  /\ TableOf(MoveTable(t, c)) /\ FoundIn(MoveTable(t, c)) /\ Positive(MoveTable(t, c))
           /\ Len(MoveTable(t, c)) = c /\ Holds(MoveTable(t, c), Deleted) = {}
           /\ Cardinality(UsedSlots(MoveTable(t, c))) = Cardinality(UsedSlots(t))
           /\ \A n \in Names : CountOf(MoveTable(t, c), n) = CountOf(t, n)
<1> DEFINE N == Len(t)
           A == CHOOSE M : M = [i \in 0 .. N |-> MoveStep(t, c, i, M)]
<1>0. N \in Nat /\ DOMAIN t = 1 .. N BY DEF TableOf
<1>1. MoveTable(t, c) = A[N] BY DEF MoveTable, MoveStep
<1>2. \E M : M = [i \in 0 .. N |-> MoveStep(t, c, i, M)]
  <2> HIDE DEF A, N
  <2>1. PICK M : MoveRun(t, c, N, M) BY <1>0, MoveRuns
  <2>2. M = [i \in 0 .. N |-> MoveStep(t, c, i, M)] BY <2>1 DEF MoveRun
  <2> QED BY <2>2
<1>3. A = [i \in 0 .. N |-> MoveStep(t, c, i, A)] BY <1>2
<1> HIDE DEF A, N
<1>4. \A i \in 0 .. N : A[i] = MoveStep(t, c, i, A) BY <1>3
<1> DEFINE S == {i \in Nat : i <= N => Moved(t, c, i, A[i])}
<1>5. 0 \in S
  <2>1. A[0] = Empty(c)
    <3>1. 0 \in 0 .. N BY <1>0
    <3> QED BY <1>4, <3>1 DEF MoveStep
  <2>2. UpTo(t, 0) = {}
    <3>1. \A j \in UsedSlots(t) : ~(j <= 0) BY <1>0 DEF UsedSlots
    <3> QED BY <3>1 DEF UpTo
  <2>3. Moved(t, c, 0, Empty(c)) BY <2>2, EmptyTable DEF Moved
  <2> QED BY <2>1, <2>3
<1>6. ASSUME NEW i \in Nat, i \in S PROVE i + 1 \in S
  <2> SUFFICES ASSUME i + 1 <= N PROVE Moved(t, c, i + 1, A[i + 1]) OBVIOUS
  <2>1. Moved(t, c, i, A[i]) /\ i + 1 <= Len(t) /\ i + 1 \in 0 .. N /\ i + 1 # 0 /\ i + 1 - 1 = i
    BY <1>0, <1>6 DEF N
  <2>2. A[i + 1] = IF t[i + 1].name \in Names THEN Placed(A[i], t[i + 1]) ELSE A[i]
    BY <1>4, <2>1 DEF MoveStep
  <2>3. CASE t[i + 1].name \in Names BY <2>1, <2>2, <2>3, MoveOne
  <2>4. CASE t[i + 1].name \notin Names
    <3>1. UpTo(t, i + 1) = UpTo(t, i) BY <2>1, <2>4, UpToGrows
    <3>2. A[i + 1] = A[i] BY <2>2, <2>4
    <3> QED BY <2>1, <3>1, <3>2 DEF Moved
  <2> QED BY <2>3, <2>4
<1>7. Nat \subseteq S
  <2> HIDE DEF S
  <2> QED BY <1>5, <1>6, NatInductive
<1>8. UpTo(t, N) = UsedSlots(t)
  <2>1. \A j \in UsedSlots(t) : j <= N BY <1>0 DEF UsedSlots
  <2> QED BY <2>1 DEF UpTo
<1> DEFINE m == MoveTable(t, c)
<1>9. Moved(t, c, N, m)
  <2>1. N \in S BY <1>0, <1>7
  <2> QED BY <1>0, <1>1, <2>1
<1> HIDE DEF m, S
<1>10. /\ TableOf(m) /\ FoundIn(m) /\ Len(m) = c /\ Holds(m, Deleted) = {}
       /\ Cardinality(UsedSlots(m)) = Cardinality(UsedSlots(t))
       /\ \A j \in UsedSlots(m) : \E h \in UsedSlots(t) : m[j] = t[h]
       /\ \A h \in UsedSlots(t) : \E j \in UsedSlots(m) : m[j] = t[h]
  BY <1>8, <1>9 DEF Moved
<1>11. Positive(m) BY <1>10 DEF Positive
<1>12. ASSUME NEW n \in Names PROVE CountOf(m, n) = CountOf(t, n)
  <2>1. CASE \E h \in DOMAIN t : t[h].name = n
    <3>1. PICK h \in DOMAIN t : t[h].name = n BY <2>1
    <3>2. h \in UsedSlots(t) BY <3>1 DEF UsedSlots
    <3>3. PICK j \in UsedSlots(m) : m[j] = t[h] BY <1>10, <3>2
    <3>4. j \in DOMAIN m BY DEF UsedSlots
    <3>5. CountOf(t, n) = t[h].count BY <3>1, CountIs
    <3>6. CountOf(m, n) = m[j].count BY <1>10, <3>1, <3>3, <3>4, CountIs
    <3> QED BY <3>3, <3>5, <3>6
  <2>2. CASE ~\E h \in DOMAIN t : t[h].name = n
    <3>1. \A j \in DOMAIN m : m[j].name # n
      <4>1. ASSUME NEW j \in DOMAIN m, m[j].name = n PROVE FALSE
        <5>1. j \in UsedSlots(m) BY <4>1 DEF UsedSlots
        <5>2. PICK h \in UsedSlots(t) : m[j] = t[h] BY <1>10, <5>1
        <5>3. h \in DOMAIN t BY DEF UsedSlots
        <5> QED BY <2>2, <4>1, <5>2, <5>3
      <4> QED BY <4>1
    <3>2. CountOf(m, n) = 0 BY <1>10, <3>1, CountIs
    <3>3. CountOf(t, n) = 0 BY <2>2, CountIs
    <3> QED BY <3>2, <3>3
  <2> QED BY <2>1, <2>2
<1> QED BY <1>10, <1>11, <1>12 DEF m

-----------------------------------------------------------------------------
(* Capacities *)

\* InitialCapacity and its doubles, as the smallest set that has them.
Doubling(X) == InitialCapacity \in X /\ \A c \in X : 2 * c \in X
Capacities == {c \in Nat : \A X \in SUBSET Nat : Doubling(X) => c \in X}

LEMMA CapacitiesDouble == Doubling(Capacities)
<1>1. InitialCapacity \in Nat BY DeclTableAssumption
<1>2. \A c \in Nat : 2 * c \in Nat OBVIOUS
<1> QED BY <1>1, <1>2 DEF Capacities, Doubling

LEMMA CapacitiesLarge == \A c \in Capacities : c \in Nat /\ c >= InitialCapacity /\ c >= 8
<1> DEFINE X == {c \in Nat : c >= InitialCapacity}
<1>1. InitialCapacity \in Nat /\ InitialCapacity >= 8 BY DeclTableAssumption
<1>2. Doubling(X) BY <1>1 DEF Doubling
<1>3. X \in SUBSET Nat OBVIOUS
<1>4. ASSUME NEW c \in Capacities PROVE c \in Nat /\ c >= InitialCapacity /\ c >= 8
  <2>1. c \in Nat /\ c \in X
    <3> HIDE DEF X
    <3> QED BY <1>2, <1>3 DEF Capacities
  <2> QED BY <1>1, <2>1
<1> QED BY <1>4

\* A capacity above the first is the double of another.
LEMMA CapacitiesHalve ==
    ASSUME NEW c \in Capacities, c > InitialCapacity PROVE c \div 2 \in Capacities
<1> DEFINE X == {k \in Capacities : k = InitialCapacity \/ \E h \in Capacities : k = 2 * h}
<1>1. InitialCapacity \in Nat BY DeclTableAssumption
<1>2. X \in SUBSET Nat BY DEF Capacities
<1>3. Doubling(X)
  <2>1. InitialCapacity \in X BY CapacitiesDouble DEF Doubling
  <2>2. ASSUME NEW k \in X PROVE 2 * k \in X
    <3>1. k \in Capacities OBVIOUS
    <3>2. 2 * k \in Capacities BY <3>1, CapacitiesDouble DEF Doubling
    <3> QED BY <3>1, <3>2
  <2> HIDE DEF X
  <2> QED BY <2>1, <2>2 DEF Doubling
<1>4. c \in X
  <2> HIDE DEF X
  <2> QED BY <1>2, <1>3 DEF Capacities
<1>5. PICK h \in Capacities : c = 2 * h BY <1>1, <1>4
<1>6. h \in Nat BY CapacitiesLarge
<1>7. c \div 2 = h BY <1>5, <1>6
<1> QED BY <1>7

-----------------------------------------------------------------------------
(* The inductive invariant *)

\* The table t with its counters s and d: what the probes rely on, and that the
\* slots taken never fill the table.
DeclRight(t, s, d) ==
    /\ TableOf(t) /\ FoundIn(t) /\ Positive(t) /\ Len(t) \in Capacities
    /\ s = Cardinality(UsedSlots(t)) /\ d = Cardinality(Holds(t, Deleted))
    /\ s + d < Len(t)

LEMMA RightKnows ==
    ASSUME NEW t, NEW s, NEW d, DeclRight(t, s, d)
    PROVE  /\ s \in Nat /\ d \in Nat /\ Len(t) \in Nat /\ Len(t) >= 8 /\ Holds(t, Free) # {}
           /\ \A n \in Names : Ends(t, n) # {}
<1>1. TableOf(t) /\ s = Cardinality(UsedSlots(t)) /\ d = Cardinality(Holds(t, Deleted)) /\ s + d < Len(t)
      /\ Len(t) \in Capacities
  BY DEF DeclRight
<1>2. s \in Nat /\ d \in Nat BY <1>1, SlotKinds
<1>3. Holds(t, Free) # {} BY <1>1, RoomFrom
<1> QED BY <1>1, <1>2, <1>3, CapacitiesLarge, SearchesEnd

LEMMA FreshRight ==
    ASSUME NEW c \in Capacities
    PROVE  DeclRight(Empty(c), 0, 0) /\ \A n \in Names : CountOf(Empty(c), n) = 0
<1>1. c \in Nat \ {0} BY CapacitiesLarge
<1>2. /\ TableOf(Empty(c)) /\ FoundIn(Empty(c)) /\ Len(Empty(c)) = c /\ UsedSlots(Empty(c)) = {}
      /\ Holds(Empty(c), Deleted) = {}
  BY <1>1, EmptyTable
<1>3. Cardinality({}) = 0 BY FS_EmptySet
<1>4. Positive(Empty(c)) BY <1>2 DEF Positive
<1>5. 0 + 0 < c BY <1>1
<1>6. \A n \in Names : \A i \in DOMAIN Empty(c) : Empty(c)[i].name # n BY <1>2 DEF UsedSlots
<1>7. \A n \in Names : CountOf(Empty(c), n) = 0 BY <1>2, <1>6, CountIs
<1> QED BY <1>2, <1>3, <1>4, <1>5, <1>7 DEF DeclRight

\* Moving a table to a capacity it fits in.
LEMMA MovedRight ==
    ASSUME NEW t, NEW s, NEW d, TableOf(t), FoundIn(t), Positive(t), s = Cardinality(UsedSlots(t)),
           NEW c \in Capacities, s < c
    PROVE  /\ DeclRight(MoveTable(t, c), s, 0) /\ Len(MoveTable(t, c)) = c
           /\ \A n \in Names : CountOf(MoveTable(t, c), n) = CountOf(t, n)
<1> DEFINE m == MoveTable(t, c)
<1>1. c \in Nat \ {0} BY CapacitiesLarge
<1>2. /\ TableOf(m) /\ FoundIn(m) /\ Positive(m) /\ Len(m) = c /\ Holds(m, Deleted) = {}
      /\ Cardinality(UsedSlots(m)) = Cardinality(UsedSlots(t))
      /\ \A n \in Names : CountOf(m, n) = CountOf(t, n)
  BY <1>1, MoveKeeps
<1> HIDE DEF m
<1>3. Cardinality(Holds(m, Deleted)) = 0 BY <1>2, FS_EmptySet
<1>4. s \in Nat BY SlotKinds
<1>5. s + 0 < Len(m) BY <1>2, <1>4
<1>6. DeclRight(m, s, 0) BY <1>2, <1>3, <1>5 DEF DeclRight
<1> QED BY <1>2, <1>6 DEF m

\* What an insertion finds after the table has grown where it was crowded: room for
\* one more name.
LEMMA GrownRight ==
    ASSUME NEW t, NEW s, NEW d, DeclRight(t, s, d), NEW u, NEW g,
           IF (s + d) * 4 > Len(t) * 3 THEN u = MoveTable(t, 2 * Len(t)) /\ g = 0 ELSE u = t /\ g = d
    PROVE  /\ DeclRight(u, s, g) /\ s + g + 1 < Len(u)
           /\ \A n \in Names : CountOf(u, n) = CountOf(t, n)
<1>1. s \in Nat /\ d \in Nat /\ Len(t) \in Nat /\ Len(t) >= 8 /\ s + d < Len(t) BY RightKnows DEF DeclRight
<1>2. CASE (s + d) * 4 > Len(t) * 3
  <2>1. 2 * Len(t) \in Capacities BY CapacitiesDouble DEF Doubling, DeclRight
  <2>2. s < 2 * Len(t) /\ s + 0 + 1 < 2 * Len(t) BY <1>1
  <2> DEFINE c == 2 * Len(t)
  <2>3. c \in Capacities /\ s < c /\ u = MoveTable(t, c) /\ g = 0 BY <1>2, <2>1, <2>2
  <2>4. s + 0 + 1 < c BY <2>2
  <2> HIDE DEF c
  <2>5. DeclRight(u, s, 0) /\ Len(u) = c /\ \A n \in Names : CountOf(u, n) = CountOf(t, n)
    BY <2>3, MovedRight DEF DeclRight
  <2> QED BY <2>3, <2>4, <2>5
<1>3. CASE ~((s + d) * 4 > Len(t) * 3)
  <2>1. u = t /\ g = d BY <1>3
  <2>2. s + d + 1 < Len(t) BY <1>1, <1>3
  <2> QED BY <2>1, <2>2
<1> QED BY <1>2, <1>3

\* A slot changed changes the counts of the names it held and holds only.
LEMMA WithCounts ==
    ASSUME NEW t, TableOf(t), FoundIn(t), NEW p \in DOMAIN t, NEW x, NEW u, With(t, p, x, u),
           TableOf(u), FoundIn(u), NEW n \in Names, n # t[p].name, n # x.name
    PROVE  CountOf(u, n) = CountOf(t, n)
<1>1. DOMAIN u = DOMAIN t /\ u[p] = x /\ \A h \in DOMAIN t : h # p => u[h] = t[h] BY DEF With
<1>2. CASE \E h \in DOMAIN t : t[h].name = n
  <2>1. PICK h \in DOMAIN t : t[h].name = n BY <1>2
  <2>2. u[h] = t[h] /\ h \in DOMAIN u BY <1>1, <2>1
  <2> QED BY <2>1, <2>2, CountIs
<1>3. CASE ~\E h \in DOMAIN t : t[h].name = n
  <2>1. \A h \in DOMAIN u : u[h].name # n BY <1>1, <1>3
  <2>2. \A h \in DOMAIN t : t[h].name # n BY <1>3
  <2>3. CountOf(u, n) = 0 BY <2>1, CountIs
  <2>4. CountOf(t, n) = 0 BY <2>2, CountIs
  <2> QED BY <2>3, <2>4
<1> QED BY <1>2, <1>3

\* Counting a name once more or once less.
LEMMA CountedRight ==
    ASSUME NEW t, NEW s, NEW d, DeclRight(t, s, d), NEW i \in UsedSlots(t), NEW c \in Nat \ {0},
           NEW u, With(t, i, Used(t[i].name, c), u), TableOf(u)
    PROVE  /\ DeclRight(u, s, d) /\ CountOf(u, t[i].name) = c
           /\ \A n \in Names : n # t[i].name => CountOf(u, n) = CountOf(t, n)
<1>1. TableOf(t) /\ FoundIn(t) /\ c \in Nat /\ i \in DOMAIN t /\ t[i].name \in Names BY DEF DeclRight, UsedSlots
<1>2. /\ TableOf(u) /\ FoundIn(u) /\ DOMAIN u = DOMAIN t /\ Len(u) = Len(t)
      /\ \A h \in DOMAIN t : u[h].name = t[h].name /\ (h # i => u[h] = t[h])
      /\ u[i].count = c
  <2>1. FoundIn(u) /\ \A h \in DOMAIN t : u[h].name = t[h].name BY <1>1, CountKeeps
  <2> QED BY <2>1 DEF With, Used
<1>3. UsedSlots(u) = UsedSlots(t) BY <1>2 DEF UsedSlots
<1>4. Holds(u, Deleted) = Holds(t, Deleted) BY <1>2 DEF Holds
<1>5. Positive(u)
  <2>1. ASSUME NEW h \in UsedSlots(u) PROVE u[h].count > 0
    <3>1. h \in UsedSlots(t) /\ h \in DOMAIN t BY <1>3 DEF UsedSlots
    <3>2. CASE h = i BY <1>2, <3>2
    <3>3. CASE h # i BY <1>2, <3>1, <3>3 DEF DeclRight, Positive
    <3> QED BY <3>2, <3>3
  <2> QED BY <2>1 DEF Positive
<1>6. DeclRight(u, s, d) BY <1>2, <1>3, <1>4, <1>5 DEF DeclRight
<1>7. CountOf(u, t[i].name) = c BY <1>1, <1>2, CountIs
<1>8. ASSUME NEW n \in Names, n # t[i].name PROVE CountOf(u, n) = CountOf(t, n)
  <2>1. Used(t[i].name, c).name = t[i].name BY DEF Used
  <2> QED BY <1>1, <1>2, <1>8, <2>1, WithCounts
<1> QED BY <1>6, <1>7, <1>8

\* Where Put puts a name: after how many others it is probed.
Spot(t, n) == IF Tombs(t, n) # {} THEN Max(Tombs(t, n)) ELSE End(t, n)
GoneThen(t, n, d) == IF Tombs(t, n) # {} THEN d - 1 ELSE d
Filled(t, n, k) == [t EXCEPT ![At(t, n, k)] = Used(n, 1)]
Vacated(t, i, v) == [t EXCEPT ![i] = Used(v, 0)]

\* A new name goes where Put puts it.
LEMMA PutRight ==
    ASSUME NEW t, NEW s, NEW d, DeclRight(t, s, d), s + d + 1 < Len(t), NEW n \in Names,
           t[At(t, n, End(t, n))].name # n,
           NEW u, u = Filled(t, n, Spot(t, n)), NEW g, g = GoneThen(t, n, d)
    PROVE  /\ DeclRight(u, s + 1, g) /\ CountOf(t, n) = 0 /\ CountOf(u, n) = 1
           /\ \A m \in Names : m # n => CountOf(u, m) = CountOf(t, m)
<1> DEFINE k == Spot(t, n)
<1>0. k = (IF Tombs(t, n) # {} THEN Max(Tombs(t, n)) ELSE End(t, n)) /\ u = Filled(t, n, k)
      /\ g = IF Tombs(t, n) # {} THEN d - 1 ELSE d
  BY DEF Spot, GoneThen
<1> HIDE DEF k
<1>1. /\ TableOf(t) /\ FoundIn(t) /\ Positive(t) /\ Len(t) \in Capacities /\ Ends(t, n) # {}
      /\ s = Cardinality(UsedSlots(t)) /\ d = Cardinality(Holds(t, Deleted))
      /\ s \in Nat /\ d \in Nat /\ Len(t) \in Nat
  BY RightKnows DEF DeclRight
<1>2. End(t, n) \in 0 .. Len(t) - 1 BY <1>1, EndIs
<1>3. (\A i \in DOMAIN t : t[i].name # n) /\ t[At(t, n, End(t, n))].name = Free BY <1>1, OneSlot
<1>4. /\ k \in 0 .. End(t, n) /\ t[At(t, n, k)].name \notin Names
      /\ t[At(t, n, k)].name = Deleted <=> Tombs(t, n) # {}
  <2>1. CASE Tombs(t, n) # {}
    <3>1. Tombs(t, n) \in SUBSET (0 .. Len(t)) BY <1>1, <1>2 DEF Tombs
    <3>2. k \in Tombs(t, n) BY <1>0, <1>1, <2>1, <3>1, GreatestIs
    <3>3. k \in 0 .. End(t, n) - 1 /\ t[At(t, n, k)].name = Deleted BY <3>2 DEF Tombs
    <3> QED BY <1>2, <2>1, <3>3, NotNames
  <2>2. CASE Tombs(t, n) = {} BY <1>0, <1>2, <1>3, <2>2, NotNames
  <2> QED BY <2>1, <2>2
<1> DEFINE p == At(t, n, k)
<1>5. TableOf(u) /\ FoundIn(u) /\ p \in DOMAIN t
  <2>1. 1 \in Nat OBVIOUS
  <2>2. /\ TableOf([t EXCEPT ![At(t, n, k)] = Used(n, 1)]) /\ FoundIn([t EXCEPT ![At(t, n, k)] = Used(n, 1)])
        /\ At(t, n, k) \in DOMAIN t
    BY <1>1, <1>3, <1>4, <2>1, FillKeeps
  <2> QED BY <1>0, <2>2 DEF Filled
<1>6. With(t, p, Used(n, 1), u)
  <2> DEFINE x == Used(n, 1)
  <2>1. x \in Cell BY UsedCell
  <2>2. u = [t EXCEPT ![p] = x] BY <1>0 DEF Filled
  <2> HIDE DEF x, p
  <2>3. With(t, p, x, [t EXCEPT ![p] = x]) BY <1>1, <1>5, <2>1, WithExcept
  <2> QED BY <2>2, <2>3 DEF x
<1>7. t[p].name \notin Names /\ (t[p].name = Deleted <=> Tombs(t, n) # {}) BY <1>4
<1> HIDE DEF p
<1>8. /\ UsedSlots(u) = UsedSlots(t) \cup {p}
      /\ Cardinality(UsedSlots(u)) = s + 1
      /\ Cardinality(Holds(u, Deleted)) = g
  <2>1. 1 \in Nat OBVIOUS
  <2>2. /\ UsedSlots(u) = UsedSlots(t) \cup {p}
        /\ Cardinality(UsedSlots(u)) = Cardinality(UsedSlots(t)) + 1
        /\ Cardinality(Holds(u, Deleted)) =
               IF t[p].name = Deleted THEN Cardinality(Holds(t, Deleted)) - 1
               ELSE Cardinality(Holds(t, Deleted))
    BY ONLY <1>1, <1>5, <1>6, <1>7, <2>1, FillCounts
  <2> QED BY <1>0, <1>1, <1>7, <2>2
<1>9. Len(u) = Len(t) /\ DOMAIN u = DOMAIN t /\ u[p] = Used(n, 1) /\ Used(n, 1).name = n /\ Used(n, 1).count = 1
      /\ \A i \in DOMAIN t : i # p => u[i] = t[i]
  BY <1>6 DEF With, Used
<1>10. Positive(u)
  <2>1. ASSUME NEW i \in UsedSlots(u) PROVE u[i].count > 0
    <3>1. CASE i = p BY <1>9, <3>1
    <3>2. CASE i # p
      <4>1. i \in UsedSlots(t) /\ i \in DOMAIN t BY <1>8, <3>2 DEF UsedSlots
      <4> QED BY <1>1, <1>9, <3>2, <4>1 DEF Positive
    <3> QED BY <3>1, <3>2
  <2> QED BY <2>1 DEF Positive
<1>11. s + 1 + g < Len(u) BY <1>0, <1>1, <1>9
<1>12. DeclRight(u, s + 1, g) BY <1>1, <1>5, <1>8, <1>9, <1>10, <1>11 DEF DeclRight
<1>13. CountOf(t, n) = 0 BY <1>1, <1>3, CountIs
<1>14. CountOf(u, n) = 1
  <2>1. p \in DOMAIN u /\ u[p].name = n /\ u[p].count = 1 BY <1>5, <1>9
  <2> QED BY <1>5, <2>1, CountIs
<1>15. ASSUME NEW m \in Names, m # n PROVE CountOf(u, m) = CountOf(t, m)
  <2>1. m # t[p].name /\ m # Used(n, 1).name BY <1>7, <1>9, <1>15
  <2> QED BY <1>1, <1>5, <1>6, <2>1, WithCounts
<1> QED BY <1>12, <1>13, <1>14, <1>15

\* A name's last declaration gone: its slot is free or a tombstone.
LEMMA VacateRight ==
    ASSUME NEW t, NEW s, NEW d, DeclRight(t, s, d), NEW i \in UsedSlots(t),
           NEW f \in BOOLEAN, f => t[(i % Len(t)) + 1].name = Free,
           NEW u, u = Vacated(t, i, IF f THEN Free ELSE Deleted),
           NEW g, g = IF f THEN d ELSE d + 1
    PROVE  /\ DeclRight(u, s - 1, g) /\ CountOf(u, t[i].name) = 0
           /\ \A m \in Names : m # t[i].name => CountOf(u, m) = CountOf(t, m)
<1> DEFINE v == IF f THEN Free ELSE Deleted
           x == Used(v, 0)
<1>1. /\ TableOf(t) /\ FoundIn(t) /\ Positive(t) /\ Len(t) \in Capacities
      /\ s = Cardinality(UsedSlots(t)) /\ d = Cardinality(Holds(t, Deleted))
      /\ s \in Nat /\ d \in Nat /\ Len(t) \in Nat /\ s + d < Len(t)
  BY RightKnows DEF DeclRight
<1>2. i \in DOMAIN t /\ t[i].name \in Names /\ t[i].count > 0 BY <1>1 DEF UsedSlots, Positive
<1>3. v \in {Free, Deleted} /\ (v = Deleted \/ (v = Free /\ t[(i % Len(t)) + 1].name = Free))
      /\ (v = Deleted <=> ~f)
  BY NotNames
<1>4. u = [t EXCEPT ![i] = Used(v, 0)] BY DEF Vacated
<1> HIDE DEF v
<1>5. TableOf(u) /\ FoundIn(u)
  <2>1. TableOf([t EXCEPT ![i] = Used(v, 0)]) /\ FoundIn([t EXCEPT ![i] = Used(v, 0)])
    BY <1>1, <1>3, VacateKeeps
  <2> QED BY <1>4, <2>1
<1>6. With(t, i, Used(v, 0), u)
  <2>1. x \in Cell BY <1>3, UsedCell
  <2>2. u = [t EXCEPT ![i] = x] BY <1>4
  <2> HIDE DEF x
  <2>3. With(t, i, x, [t EXCEPT ![i] = x]) BY <1>1, <1>2, <2>1, WithExcept
  <2> QED BY <2>2, <2>3 DEF x
<1>7. /\ UsedSlots(u) = UsedSlots(t) \ {i}
      /\ Cardinality(UsedSlots(u)) = s - 1 /\ Cardinality(Holds(u, Deleted)) = g
  <2>1. /\ UsedSlots(u) = UsedSlots(t) \ {i}
        /\ Cardinality(UsedSlots(u)) = Cardinality(UsedSlots(t)) - 1
        /\ Cardinality(Holds(u, Deleted)) =
               IF v = Deleted THEN Cardinality(Holds(t, Deleted)) + 1 ELSE Cardinality(Holds(t, Deleted))
    BY ONLY <1>1, <1>3, <1>6, VacateCounts, i \in UsedSlots(t)
  <2> QED BY <1>1, <1>3, <2>1
<1>8. Len(u) = Len(t) /\ DOMAIN u = DOMAIN t /\ u[i] = Used(v, 0) /\ Used(v, 0).name = v
      /\ \A h \in DOMAIN t : h # i => u[h] = t[h]
  BY <1>6 DEF With, Used
<1>9. Positive(u)
  <2>1. ASSUME NEW h \in UsedSlots(u) PROVE u[h].count > 0
    <3>1. h \in UsedSlots(t) /\ h \in DOMAIN t /\ h # i BY <1>7 DEF UsedSlots
    <3> QED BY <1>1, <1>8, <3>1 DEF Positive
  <2> QED BY <2>1 DEF Positive
<1>10. (s - 1) + g < Len(u) BY <1>1, <1>8
<1>11. DeclRight(u, s - 1, g) BY <1>1, <1>5, <1>7, <1>8, <1>9, <1>10 DEF DeclRight
<1>12. CountOf(u, t[i].name) = 0
  <2>1. ASSUME NEW h \in DOMAIN u, u[h].name = t[i].name PROVE FALSE
    <3>1. h \in UsedSlots(u) BY <1>2, <2>1 DEF UsedSlots
    <3>2. h \in UsedSlots(t) /\ h # i BY <1>7, <3>1
    <3>3. u[h] = t[h] BY <1>8, <2>1, <3>2
    <3> QED BY <1>1, <2>1, <3>2, <3>3, OneOfName
  <2> QED BY <1>2, <1>5, <2>1, CountIs
<1>13. ASSUME NEW m \in Names, m # t[i].name PROVE CountOf(u, m) = CountOf(t, m)
  <2>1. m # Used(v, 0).name BY <1>3, <1>8, NotNames
  <2> QED BY <1>1, <1>2, <1>5, <1>6, <1>13, <2>1, WithCounts
<1> QED BY <1>11, <1>12, <1>13

-----------------------------------------------------------------------------
(* The calls *)

DeclInv == DeclRight(slots, declSize, deleted)

\* The counts of u are those of t, but for n, declared c times.
CountedAs(t, u, n, c) == \A m \in Names : CountOf(u, m) = IF m = n THEN c ELSE CountOf(t, m)

LEMMA InsertRight ==
    ASSUME DeclInv, NEW n \in Names, DeclInsert(n)
    PROVE  DeclInv' /\ CountedAs(slots, slots', n, CountOf(slots, n) + 1)
<1> DEFINE grown == IF Crowded THEN MoveTable(slots, 2 * Len(slots)) ELSE slots
           gone == IF Crowded THEN 0 ELSE deleted
           at == At(grown, n, End(grown, n))
<1>1. DeclRight(grown, declSize, gone) /\ declSize + gone + 1 < Len(grown)
      /\ \A m \in Names : CountOf(grown, m) = CountOf(slots, m)
  <2>1. IF (declSize + deleted) * 4 > Len(slots) * 3
        THEN grown = MoveTable(slots, 2 * Len(slots)) /\ gone = 0 ELSE grown = slots /\ gone = deleted
    BY DEF Crowded
  <2> HIDE DEF grown, gone
  <2> QED BY <2>1, GrownRight DEF DeclInv
<1>2. IF Ends(grown, n) = {}
      THEN slots' = grown /\ deleted' = gone /\ UNCHANGED declSize
      ELSE IF grown[at].name = n
      THEN /\ grown[at].count < MaxCount
           /\ slots' = [grown EXCEPT ![at].count = @ + 1]
           /\ deleted' = gone /\ UNCHANGED declSize
      ELSE Put(grown, n, gone)
  BY DEF DeclInsert
<1> HIDE DEF grown, gone
<1>3. Ends(grown, n) # {} /\ TableOf(grown) /\ FoundIn(grown) /\ Positive(grown) /\ Len(grown) \in Nat
  BY <1>1, RightKnows DEF DeclRight
<1>4. End(grown, n) \in Nat BY <1>3, EndIs
<1>5. at \in DOMAIN grown BY <1>3, <1>4, AtIn
<1>6. CASE grown[at].name = n
  <2> HIDE DEF at
  <2>1. slots' = [grown EXCEPT ![at].count = @ + 1] /\ deleted' = gone /\ declSize' = declSize
    BY <1>2, <1>3, <1>6
  <2>2. at \in UsedSlots(grown) BY <1>5, <1>6 DEF UsedSlots
  <2>3. grown[at] \in Cell /\ grown[at].count \in Nat /\ grown[at] = Used(grown[at].name, grown[at].count)
    BY <1>3, <1>5, CellAt
  <2> DEFINE c == grown[at].count + 1
             x == Used(n, c)
  <2>4. c \in Nat \ {0} BY <2>3
  <2>5. slots' = [grown EXCEPT ![at] = x]
    <3>1. [grown[at] EXCEPT !.count = @ + 1] = x BY <1>6, <2>3 DEF Used
    <3> HIDE DEF x, c
    <3> QED BY <1>5, <2>1, <3>1
  <2> HIDE DEF c
  <2>6. x \in Cell BY <2>4, UsedCell
  <2> HIDE DEF x
  <2>7. With(grown, at, x, [grown EXCEPT ![at] = x]) /\ TableOf([grown EXCEPT ![at] = x])
    BY <1>3, <1>5, <2>6, WithExcept
  <2> DEFINE u == slots'
  <2>8. With(grown, at, Used(grown[at].name, c), u) /\ TableOf(u) BY <1>6, <2>5, <2>7 DEF x
  <2> HIDE DEF u
  <2>9. /\ DeclRight(u, declSize, gone) /\ CountOf(u, grown[at].name) = c
        /\ \A m \in Names : m # grown[at].name => CountOf(u, m) = CountOf(grown, m)
    BY <1>1, <2>2, <2>4, <2>8, CountedRight
  <2>10. CountOf(slots, n) = grown[at].count BY <1>1, <1>3, <1>5, <1>6, CountIs
  <2>11. CountedAs(slots, u, n, CountOf(slots, n) + 1) BY <1>1, <1>6, <2>9, <2>10 DEF CountedAs, c
  <2>12. DeclInv' BY <2>1, <2>9 DEF DeclInv, u
  <2> QED BY <2>11, <2>12 DEF u
<1>7. CASE grown[at].name # n
  <2>1. Put(grown, n, gone) BY <1>2, <1>3, <1>7
  <2> DEFINE k == IF Tombs(grown, n) # {} THEN Max(Tombs(grown, n)) ELSE End(grown, n)
             u == [grown EXCEPT ![At(grown, n, k)] = Used(n, 1)]
             g == IF Tombs(grown, n) # {} THEN gone - 1 ELSE gone
  <2>2. slots' = u /\ deleted' = g /\ declSize' = declSize + 1 BY <2>1 DEF Put
  <2>3. /\ DeclRight(u, declSize + 1, g) /\ CountOf(grown, n) = 0 /\ CountOf(u, n) = 1
        /\ \A m \in Names : m # n => CountOf(u, m) = CountOf(grown, m)
    <3>1. grown[At(grown, n, End(grown, n))].name # n BY <1>7
    <3>2. u = Filled(grown, n, Spot(grown, n)) BY DEF Filled, Spot
    <3>3. g = GoneThen(grown, n, gone) BY DEF GoneThen
    <3> HIDE DEF k, u, g, at
    <3> QED BY <1>1, <3>1, <3>2, <3>3, PutRight
  <2> HIDE DEF u, g, k
  <2>4. DeclInv' BY <2>2, <2>3 DEF DeclInv
  <2>5. CountOf(slots, n) + 1 = 1 BY <1>1, <2>3
  <2>6. CountedAs(slots, u, n, CountOf(slots, n) + 1) BY <1>1, <2>3, <2>5 DEF CountedAs
  <2> QED BY <2>2, <2>4, <2>6
<1> QED BY <1>6, <1>7

LEMMA VacatedRight ==
    ASSUME DeclInv, NEW i \in UsedSlots(slots), Vacate(i)
    PROVE  DeclInv' /\ CountedAs(slots, slots', slots[i].name, 0)
<1> DEFINE n == slots[i].name
           free == slots[(i % Len(slots)) + 1].name = Free
           left == [slots EXCEPT ![i] = Used(IF free THEN Free ELSE Deleted, 0)]
           gone == IF free THEN deleted ELSE deleted + 1
           purge == ~free /\ gone > declSize - 1 /\ gone > SmallTable
<1>1. /\ slots' = IF purge THEN MoveTable(left, Len(slots)) ELSE left
      /\ deleted' = IF purge THEN 0 ELSE gone
      /\ declSize' = declSize - 1
  BY DEF Vacate
<1>2. /\ DeclRight(left, declSize - 1, gone) /\ CountOf(left, n) = 0
      /\ \A m \in Names : m # n => CountOf(left, m) = CountOf(slots, m)
  <2>1. free \in BOOLEAN /\ (free => slots[(i % Len(slots)) + 1].name = Free) OBVIOUS
  <2>2. left = Vacated(slots, i, IF free THEN Free ELSE Deleted)
        /\ gone = IF free THEN deleted ELSE deleted + 1
    BY DEF Vacated
  <2> HIDE DEF free, left, gone
  <2> QED BY <2>1, <2>2, VacateRight DEF DeclInv, n
<1>3. Len(left) = Len(slots)
  <2>1. TableOf(slots) /\ i \in DOMAIN slots BY DEF DeclInv, DeclRight, UsedSlots
  <2> QED BY <2>1 DEF TableOf
<1>4. n \in Names BY DEF UsedSlots
<1> HIDE DEF n, free, left, gone, purge
<1>5. CASE purge
  <2> DEFINE c == Len(slots)
             s == declSize - 1
             u == MoveTable(left, c)
  <2>1. slots' = u /\ deleted' = 0 /\ declSize' = s BY <1>1, <1>5
  <2>2. /\ TableOf(left) /\ FoundIn(left) /\ Positive(left) /\ s = Cardinality(UsedSlots(left))
        /\ c \in Capacities /\ Len(left) = c /\ DeclRight(left, s, gone)
    BY <1>2, <1>3 DEF DeclRight
  <2> HIDE DEF c, s
  <2>3. s < c
    <3>1. s + gone < Len(left) /\ gone = Cardinality(Holds(left, Deleted)) BY <2>2 DEF DeclRight
    <3>2. s \in Nat /\ gone \in Nat /\ Len(left) \in Nat BY <2>2, RightKnows
    <3> QED BY <2>2, <3>1, <3>2
  <2>4. DeclRight(u, s, 0) /\ \A m \in Names : CountOf(u, m) = CountOf(left, m)
    BY <2>2, <2>3, MovedRight
  <2> HIDE DEF u
  <2>5. DeclInv' BY <2>1, <2>4 DEF DeclInv
  <2>6. CountedAs(slots, u, n, 0) BY <1>2, <1>4, <2>4 DEF CountedAs
  <2> QED BY <2>1, <2>5, <2>6 DEF n
<1>6. CASE ~purge
  <2>1. slots' = left /\ deleted' = gone /\ declSize' = declSize - 1 BY <1>1, <1>6
  <2>2. DeclInv' BY <1>2, <2>1 DEF DeclInv
  <2>3. CountedAs(slots, left, n, 0) BY <1>2, <1>4 DEF CountedAs
  <2> QED BY <2>1, <2>2, <2>3 DEF n
<1> QED BY <1>5, <1>6

LEMMA EraseRight ==
    ASSUME DeclInv, NEW n \in Names, Erase(n)
    PROVE  /\ DeclInv' /\ CountOf(slots, n) \in Nat
           /\ CountedAs(slots, slots', n, IF CountOf(slots, n) > 0 THEN CountOf(slots, n) - 1 ELSE 0)
<1> DEFINE at == At(slots, n, End(slots, n))
<1>1. Ends(slots, n) # {} /\ TableOf(slots) /\ FoundIn(slots) /\ Positive(slots) /\ Len(slots) \in Nat
  BY RightKnows DEF DeclInv, DeclRight
<1>2. at \in DOMAIN slots
  <2>1. End(slots, n) \in Nat BY <1>1, EndIs
  <2> QED BY <1>1, <2>1, AtIn
<1>3. IF slots[at].name # n THEN UNCHANGED <<slots, declSize, deleted>>
      ELSE IF slots[at].count > 1
      THEN slots' = [slots EXCEPT ![at].count = @ - 1] /\ UNCHANGED <<declSize, deleted>>
      ELSE Vacate(at)
  BY <1>1 DEF Erase
<1>4. CASE slots[at].name # n
  <2>1. \A i \in DOMAIN slots : slots[i].name # n BY <1>1, <1>4, OneSlot
  <2>2. CountOf(slots, n) = 0 BY <1>1, <2>1, CountIs
  <2>3. slots' = slots /\ declSize' = declSize /\ deleted' = deleted BY <1>3, <1>4
  <2>4. DeclInv' BY <2>3 DEF DeclInv
  <2>5. CountedAs(slots, slots, n, 0) BY <2>2 DEF CountedAs
  <2> QED BY <2>2, <2>3, <2>4, <2>5
<1>5. CASE slots[at].name = n
  <2> HIDE DEF at
  <2>1. at \in UsedSlots(slots) BY <1>2, <1>5 DEF UsedSlots
  <2>2. slots[at].count \in Nat /\ slots[at] = Used(slots[at].name, slots[at].count) /\ slots[at].count > 0
    BY <1>1, <1>2, <2>1, CellAt DEF Positive
  <2>3. CountOf(slots, n) = slots[at].count BY <1>1, <1>2, <1>5, CountIs
  <2>4. CASE slots[at].count > 1
    <3> DEFINE c == slots[at].count - 1
               x == Used(n, c)
    <3>1. slots' = [slots EXCEPT ![at].count = @ - 1] /\ declSize' = declSize /\ deleted' = deleted
      BY <1>3, <1>5, <2>4
    <3>2. c \in Nat \ {0} BY <2>2, <2>4
    <3>3. slots' = [slots EXCEPT ![at] = x]
      <4>1. [slots[at] EXCEPT !.count = @ - 1] = x BY <1>5, <2>2 DEF Used
      <4> HIDE DEF x, c
      <4> QED BY <1>2, <3>1, <4>1
    <3> HIDE DEF c
    <3>4. x \in Cell BY <3>2, UsedCell
    <3> HIDE DEF x
    <3>5. With(slots, at, x, [slots EXCEPT ![at] = x]) /\ TableOf([slots EXCEPT ![at] = x])
      BY <1>1, <1>2, <3>4, WithExcept
    <3> DEFINE u == slots'
    <3>6. With(slots, at, Used(slots[at].name, c), u) /\ TableOf(u) BY <1>5, <3>3, <3>5 DEF x
    <3> HIDE DEF u
    <3>7. /\ DeclRight(u, declSize, deleted) /\ CountOf(u, slots[at].name) = c
          /\ \A m \in Names : m # slots[at].name => CountOf(u, m) = CountOf(slots, m)
      BY <2>1, <3>2, <3>6, CountedRight DEF DeclInv
    <3>8. CountedAs(slots, u, n, CountOf(slots, n) - 1) BY <1>5, <2>3, <3>7 DEF CountedAs, c
    <3>9. DeclInv' BY <3>1, <3>7 DEF DeclInv, u
    <3> QED BY <2>2, <2>3, <3>8, <3>9 DEF u
  <2>5. CASE ~(slots[at].count > 1)
    <3>1. Vacate(at) BY <1>3, <1>5, <2>5
    <3>2. DeclInv' /\ CountedAs(slots, slots', n, 0) BY <1>5, <2>1, <3>1, VacatedRight
    <3>3. CountOf(slots, n) = 1 BY <2>2, <2>3, <2>5
    <3> QED BY <3>2, <3>3
  <2> QED BY <2>4, <2>5
<1> QED BY <1>4, <1>5

LEMMA ResetRight ==
    ASSUME DeclInv, Reset PROVE DeclInv' /\ \A n \in Names : CountOf(slots', n) = 0
<1> DEFINE c == IF Shrunk THEN Len(slots) \div 2 ELSE Len(slots)
<1>1. c \in Capacities
  <2>1. Len(slots) \in Capacities BY DEF DeclInv, DeclRight
  <2>2. CASE Shrunk
    <3>1. Len(slots) > ShrinkAbove /\ Len(slots) \in Nat BY <2>1, <2>2, CapacitiesLarge DEF Shrunk
    <3> DEFINE l == Len(slots)
    <3>2. l > InitialCapacity
      <4>1. InitialCapacity \in Nat /\ ShrinkAbove \in Nat /\ ShrinkAbove >= InitialCapacity BY DeclTableAssumption
      <4> QED BY <3>1, <4>1
    <3> HIDE DEF l
    <3>3. l \in Capacities => l \div 2 \in Capacities BY <3>2, CapacitiesHalve
    <3> QED BY <2>1, <2>2, <3>3 DEF l
  <2>3. CASE ~Shrunk BY <2>1, <2>3
  <2> QED BY <2>2, <2>3
<1>2. slots' = Empty(c) /\ declSize' = 0 /\ deleted' = 0 BY DEF Reset
<1> HIDE DEF c
<1>3. DeclRight(Empty(c), 0, 0) /\ \A n \in Names : CountOf(Empty(c), n) = 0 BY <1>1, FreshRight
<1> DEFINE u == Empty(c)
<1>4. slots' = u /\ DeclRight(u, 0, 0) /\ \A n \in Names : CountOf(u, n) = 0 BY <1>2, <1>3
<1> HIDE DEF u
<1> QED BY <1>2, <1>4 DEF DeclInv

LEMMA DeclInitRight == DeclInit => DeclInv /\ \A n \in Names : CountOf(slots, n) = 0
<1>1. InitialCapacity \in Capacities BY CapacitiesDouble DEF Doubling
<1> QED BY <1>1, FreshRight DEF DeclInit, DeclInv

LEMMA DeclKept == DeclInv /\ [DeclNext]_declVars => DeclInv'
<1> SUFFICES ASSUME DeclInv, [DeclNext]_declVars PROVE DeclInv' OBVIOUS
<1>1. ASSUME NEW n \in Names, CallInsert(n) PROVE DeclInv' BY <1>1, InsertRight DEF CallInsert
<1>2. ASSUME NEW n \in Names, CallErase(n) PROVE DeclInv' BY <1>2, EraseRight DEF CallErase
<1>3. CASE CallReset BY <1>3, ResetRight DEF CallReset
<1>4. CASE UNCHANGED declVars BY <1>4 DEF declVars, DeclInv
<1> QED BY <1>1, <1>2, <1>3, <1>4 DEF DeclNext

\* The counters are those of the table, a slot stays free and every name is found
\* from its hash, through growth, tombstones taken again, purges and resets
\* (decl_table.rs).
THEOREM ProbesAreSound == DeclSpec => []ProbesSound
<1>1. DeclInv => ProbesSound
  <2> SUFFICES ASSUME DeclInv PROVE ProbesSound OBVIOUS
  <2>1. Holds(slots, Free) # {} BY RightKnows DEF DeclInv
  <2>2. Found BY DEF DeclInv, DeclRight, FoundIn, Found
  <2> QED BY <2>1, <2>2 DEF DeclInv, DeclRight, ProbesSound, Accounted, RoomLeft
<1> QED BY <1>1, DeclInitRight, DeclKept, PTL DEF DeclSpec

-----------------------------------------------------------------------------
(* Refinement: the bag of module NameBag *)

\* The counts, as NameBag sees them.
Declared == [n \in Names |-> CountOf(slots, n)]

LEMMA CountsInit == DeclInit => Bag!Init
<1> SUFFICES ASSUME DeclInit PROVE Bag!Init OBVIOUS
<1>1. Declared = [n \in Names |-> 0] BY DeclInitRight DEF Declared
<1> QED BY <1>1 DEF DeclInit, Bag!Init, Declared

LEMMA CountsStep == DeclInv /\ [DeclNext]_declVars => [Bag!Next]_<<Declared, declLast>>
<1> SUFFICES ASSUME DeclInv, [DeclNext]_declVars PROVE Bag!Next \/ UNCHANGED <<Declared, declLast>>
  OBVIOUS
<1>1. ASSUME NEW n \in Names, CallInsert(n) PROVE Bag!Declare(n)
  <2>1. CountedAs(slots, slots', n, CountOf(slots, n) + 1) BY <1>1, InsertRight DEF CallInsert
  <2>2. Declared' = [Declared EXCEPT ![n] = Declared[n] + 1] BY <2>1 DEF Declared, CountedAs
  <2> QED BY <1>1, <2>2 DEF CallInsert, Bag!Declare, Declared
<1>2. ASSUME NEW n \in Names, CallErase(n) PROVE Bag!Undeclare(n)
  <2>1. CountedAs(slots, slots', n, IF CountOf(slots, n) > 0 THEN CountOf(slots, n) - 1 ELSE 0)
    BY <1>2, EraseRight DEF CallErase
  <2>2. Declared' = [Declared EXCEPT ![n] = IF Declared[n] > 0 THEN Declared[n] - 1 ELSE 0]
    BY <2>1 DEF Declared, CountedAs
  <2> QED BY <1>2, <2>2 DEF CallErase, Bag!Undeclare, Declared
<1>3. CASE CallReset
  <2>1. \A n \in Names : CountOf(slots', n) = 0 BY <1>3, ResetRight DEF CallReset
  <2>2. Declared' = [n \in Names |-> 0] BY <2>1 DEF Declared
  <2>3. Bag!Clear BY <1>3, <2>2 DEF CallReset, Bag!Clear, Declared
  <2> QED BY <2>3 DEF Bag!Next
<1>4. CASE UNCHANGED declVars BY <1>4 DEF declVars, Declared
<1> QED BY <1>1, <1>2, <1>3, <1>4 DEF DeclNext, Bag!Next

\* The table implements the bag of declared names, however it is laid out.
THEOREM TableCounts == DeclSpec => Counts
<1>1. [Bag!Next]_<<Declared, declLast>> <=> [Bag!Next]_<<[n \in Names |-> CountOf(slots, n)], declLast>>
  BY DEF Declared
<1> QED BY <1>1, CountsInit, CountsStep, DeclInitRight, DeclKept, PTL DEF DeclSpec, Counts, Bag!Spec

-----------------------------------------------------------------------------
(* The memory counters: sums *)

\* A sum taken one element after another, from the sums of smaller sets.
SumStep(f, s, G) ==
    IF s = {} THEN 0 ELSE LET x == CHOOSE y \in s : TRUE IN f[x] + G[s \ {x}]
SumRun(f, S, G) == G = [s \in SUBSET S |-> SumStep(f, s, G)]
Total(f, S) == LET G == CHOOSE G : SumRun(f, S, G) IN G[S]

\* The subsets that are small enough.
SmallSets(S, n) == {s \in SUBSET S : IsFiniteSet(s) /\ Cardinality(s) <= n}
SmallRun(f, S, n, G) == G = [s \in SmallSets(S, n) |-> SumStep(f, s, G)]

LEMMA ChosenFrom ==
    ASSUME NEW s, s # {}, IsFiniteSet(s)
    PROVE  LET x == CHOOSE y \in s : TRUE IN
           /\ x \in s /\ IsFiniteSet(s \ {x})
           /\ Cardinality(s) \in Nat /\ Cardinality(s) > 0
           /\ Cardinality(s \ {x}) \in Nat /\ Cardinality(s \ {x}) = Cardinality(s) - 1
<1> DEFINE x == CHOOSE y \in s : TRUE
<1>1. x \in s OBVIOUS
<1> HIDE DEF x
<1>2. IsFiniteSet(s \ {x}) /\ Cardinality(s \ {x}) = Cardinality(s) - 1 BY <1>1, FS_RemoveElement
<1>3. Cardinality(s) \in Nat /\ Cardinality(s \ {x}) \in Nat BY <1>2, FS_CardinalityType
<1> QED BY <1>1, <1>2, <1>3 DEF x

LEMMA SumStepSame ==
    ASSUME NEW f, NEW s, NEW G, NEW H,
           s # {} => G[s \ {CHOOSE y \in s : TRUE}] = H[s \ {CHOOSE y \in s : TRUE}]
    PROVE  SumStep(f, s, G) = SumStep(f, s, H)
  BY DEF SumStep

LEMMA SmallerSet ==
    ASSUME NEW S, NEW n \in Nat, NEW s \in SmallSets(S, n + 1), s # {}
    PROVE  s \ {CHOOSE y \in s : TRUE} \in SmallSets(S, n)
<1> DEFINE x == CHOOSE y \in s : TRUE
<1>1. s \in SUBSET S /\ IsFiniteSet(s) /\ Cardinality(s) <= n + 1 BY DEF SmallSets
<1>2. IsFiniteSet(s \ {x}) /\ Cardinality(s \ {x}) = Cardinality(s) - 1 /\ Cardinality(s) \in Nat
  BY <1>1, ChosenFrom
<1> HIDE DEF x
<1>3. Cardinality(s \ {x}) <= n BY <1>1, <1>2
<1> QED BY <1>1, <1>2, <1>3 DEF SmallSets, x

LEMMA NoneSmall == ASSUME NEW S PROVE SmallSets(S, 0) = {{}}
<1>1. ASSUME NEW s \in SmallSets(S, 0) PROVE s = {}
  <2>1. IsFiniteSet(s) /\ Cardinality(s) <= 0 BY DEF SmallSets
  <2>2. Cardinality(s) \in Nat BY <2>1, FS_CardinalityType
  <2> QED BY <2>1, <2>2, FS_EmptySet
<1>2. {} \in SmallSets(S, 0) BY FS_EmptySet DEF SmallSets
<1> QED BY <1>1, <1>2

LEMMA SmallRuns == ASSUME NEW f, NEW S, NEW N \in Nat PROVE \E G : SmallRun(f, S, N, G)
<1> DEFINE T == {n \in Nat : \E G : SmallRun(f, S, n, G)}
<1>1. 0 \in T
  <2> DEFINE G == [s \in SmallSets(S, 0) |-> SumStep(f, s, << >>)]
  <2>1. \A s \in SmallSets(S, 0) : SumStep(f, s, << >>) = SumStep(f, s, G)
    <3> HIDE DEF G
    <3> QED BY NoneSmall DEF SumStep
  <2>2. G = [s \in SmallSets(S, 0) |-> SumStep(f, s, G)] BY <2>1
  <2>3. SmallRun(f, S, 0, G)
    <3> HIDE DEF G
    <3> QED BY <2>2 DEF SmallRun
  <2> QED BY <2>3
<1>2. ASSUME NEW n \in Nat, n \in T PROVE n + 1 \in T
  <2>1. PICK G : SmallRun(f, S, n, G) BY <1>2
  <2> DEFINE H == [s \in SmallSets(S, n + 1) |-> SumStep(f, s, G)]
  <2>2. \A s \in SmallSets(S, n) : s \in SmallSets(S, n + 1)
    <3>1. \A s \in SmallSets(S, n) : Cardinality(s) \in Nat /\ Cardinality(s) <= n
      BY FS_CardinalityType DEF SmallSets
    <3> QED BY <3>1 DEF SmallSets
  <2>3. \A s \in SmallSets(S, n) : G[s] = SumStep(f, s, G) BY <2>1 DEF SmallRun
  <2>4. \A s \in SmallSets(S, n) : H[s] = G[s] BY <2>2, <2>3
  <2>5. \A s \in SmallSets(S, n + 1) : H[s] = SumStep(f, s, G) OBVIOUS
  <2>6. H = [s \in SmallSets(S, n + 1) |-> H[s]] OBVIOUS
  <2> HIDE DEF H
  <2>7. ASSUME NEW s \in SmallSets(S, n + 1) PROVE H[s] = SumStep(f, s, H)
    <3>1. s # {} => G[s \ {CHOOSE y \in s : TRUE}] = H[s \ {CHOOSE y \in s : TRUE}] BY SmallerSet, <2>4
    <3>2. SumStep(f, s, G) = SumStep(f, s, H) BY <3>1, SumStepSame
    <3> QED BY <2>5, <3>2
  <2>8. H = [s \in SmallSets(S, n + 1) |-> SumStep(f, s, H)] BY <2>6, <2>7
  <2>9. SmallRun(f, S, n + 1, H) BY <2>8 DEF SmallRun
  <2> QED BY <2>9
<1>3. Nat \subseteq T
  <2> HIDE DEF T
  <2> QED BY <1>1, <1>2, NatInductive
<1> QED BY <1>3

\* A finite set has one sum.
LEMMA SumRuns == ASSUME NEW f, NEW S, IsFiniteSet(S) PROVE \E G : SumRun(f, S, G)
<1>1. Cardinality(S) \in Nat BY FS_CardinalityType
<1>2. PICK G : SmallRun(f, S, Cardinality(S), G) BY <1>1, SmallRuns
<1>3. SmallSets(S, Cardinality(S)) = SUBSET S
  <2>1. \A s \in SUBSET S : IsFiniteSet(s) /\ Cardinality(s) <= Cardinality(S) BY FS_Subset
  <2> QED BY <2>1 DEF SmallSets
<1> QED BY <1>2, <1>3 DEF SmallRun, SumRun

LEMMA SumRunAt ==
    ASSUME NEW f, NEW S, NEW G, SumRun(f, S, G), NEW s \in SUBSET S
    PROVE  /\ s = {} => G[s] = 0
           /\ s # {} => LET x == CHOOSE y \in s : TRUE IN G[s] = f[x] + G[s \ {x}]
<1>1. G[s] = SumStep(f, s, G) BY DEF SumRun
<1> QED BY <1>1 DEF SumStep

LEMMA SumRunOnce ==
    ASSUME NEW f, NEW S, NEW R, NEW G, NEW H, SumRun(f, S, G), SumRun(f, R, H),
           NEW N \in Nat, NEW s \in SUBSET S, s \in SUBSET R, IsFiniteSet(s), Cardinality(s) <= N
    PROVE  G[s] = H[s]
<1> DEFINE T == {n \in Nat : \A u \in SUBSET S : u \in SUBSET R /\ IsFiniteSet(u) /\ Cardinality(u) <= n => G[u] = H[u]}
<1>1. 0 \in T
  <2>1. ASSUME NEW u \in SUBSET S, u \in SUBSET R, IsFiniteSet(u), Cardinality(u) <= 0 PROVE G[u] = H[u]
    <3>1. u = {} BY <2>1, FS_CardinalityType, FS_EmptySet
    <3>2. G[u] = 0 BY <3>1, SumRunAt
    <3>3. H[u] = 0 BY <3>1, SumRunAt
    <3> QED BY <3>2, <3>3
  <2> QED BY <2>1
<1>2. ASSUME NEW n \in Nat, n \in T PROVE n + 1 \in T
  <2>1. ASSUME NEW u \in SUBSET S, u \in SUBSET R, IsFiniteSet(u), Cardinality(u) <= n + 1 PROVE G[u] = H[u]
    <3>1. CASE u = {}
      <4>1. G[u] = 0 BY <3>1, SumRunAt
      <4>2. H[u] = 0 BY <2>1, <3>1, SumRunAt
      <4> QED BY <4>1, <4>2
    <3>2. CASE u # {}
      <4> DEFINE x == CHOOSE y \in u : TRUE
      <4>1. IsFiniteSet(u \ {x}) /\ Cardinality(u \ {x}) = Cardinality(u) - 1 /\ Cardinality(u) \in Nat
        BY <2>1, <3>2, ChosenFrom
      <4>2. G[u] = f[x] + G[u \ {x}] BY <3>2, SumRunAt
      <4>3. H[u] = f[x] + H[u \ {x}]
        <5>1. u \in SUBSET R BY <2>1
        <5> HIDE DEF x
        <5>2. LET y == CHOOSE y \in u : TRUE IN H[u] = f[y] + H[u \ {y}] BY <5>1, <3>2, SumRunAt
        <5> QED BY <5>2 DEF x
      <4> HIDE DEF x
      <4>4. Cardinality(u \ {x}) <= n BY <4>1, <2>1
      <4>5. u \ {x} \in SUBSET S /\ u \ {x} \in SUBSET R BY <2>1
      <4>6. G[u \ {x}] = H[u \ {x}] BY <4>1, <4>4, <4>5, <1>2
      <4> QED BY <4>2, <4>3, <4>6
    <3> QED BY <3>1, <3>2
  <2> QED BY <2>1
<1>3. Nat \subseteq T
  <2> HIDE DEF T
  <2> QED BY <1>1, <1>2, NatInductive
<1> QED BY <1>3

LEMMA TotalIs ==
    ASSUME NEW f, NEW S, IsFiniteSet(S), NEW R, S \subseteq R, NEW G, SumRun(f, R, G)
    PROVE  Total(f, S) = G[S]
<1> DEFINE H == CHOOSE H : SumRun(f, S, H)
<1>1. SumRun(f, S, H) BY SumRuns
<1>2. Total(f, S) = H[S] BY DEF Total
<1> HIDE DEF H
<1>3. Cardinality(S) \in Nat BY FS_CardinalityType
<1>4. S \in SUBSET S /\ S \in SUBSET R /\ Cardinality(S) <= Cardinality(S) BY <1>3
<1>5. H[S] = G[S] BY <1>1, <1>3, <1>4, SumRunOnce
<1> QED BY <1>2, <1>5

LEMMA TotalStep ==
    ASSUME NEW f, NEW S, IsFiniteSet(S)
    PROVE  /\ S = {} => Total(f, S) = 0
           /\ S # {} => LET x == CHOOSE y \in S : TRUE IN Total(f, S) = f[x] + Total(f, S \ {x})
<1>1. PICK G : SumRun(f, S, G) BY SumRuns
<1>2. Total(f, S) = G[S] BY <1>1, TotalIs
<1>3. S \in SUBSET S OBVIOUS
<1>4. S = {} => G[S] = 0 BY <1>1, <1>3, SumRunAt
<1>5. ASSUME S # {} PROVE LET x == CHOOSE y \in S : TRUE IN Total(f, S) = f[x] + Total(f, S \ {x})
  <2> DEFINE x == CHOOSE y \in S : TRUE
  <2>1. G[S] = f[x] + G[S \ {x}] BY <1>1, <1>3, <1>5, SumRunAt
  <2>2. IsFiniteSet(S \ {x}) BY <1>5, ChosenFrom
  <2> HIDE DEF x
  <2>3. Total(f, S \ {x}) = G[S \ {x}] BY <1>1, <2>2, TotalIs
  <2> QED BY <1>2, <2>1, <2>3 DEF x
<1> QED BY <1>2, <1>4, <1>5

\* What is summed is a number for each element.
Numbers(f, S) == \A x \in S : f[x] \in Int

\* The sum of fewer elements than n, for the inductions over a set.
LEMMA TotalInt == ASSUME NEW f, NEW S, IsFiniteSet(S), Numbers(f, S) PROVE Total(f, S) \in Int
<1> DEFINE T == {n \in Nat : \A s \in SUBSET S : IsFiniteSet(s) /\ Cardinality(s) <= n => Total(f, s) \in Int}
<1>1. 0 \in T
  <2>1. ASSUME NEW s \in SUBSET S, IsFiniteSet(s), Cardinality(s) <= 0 PROVE Total(f, s) \in Int
    <3>1. s = {} BY <2>1, FS_CardinalityType, FS_EmptySet
    <3>2. Total(f, s) = 0 BY <2>1, <3>1, TotalStep
    <3> QED BY <3>2
  <2> QED BY <2>1
<1>2. ASSUME NEW n \in Nat, n \in T PROVE n + 1 \in T
  <2>1. ASSUME NEW s \in SUBSET S, IsFiniteSet(s), Cardinality(s) <= n + 1, s # {} PROVE Total(f, s) \in Int
    <3> DEFINE x == CHOOSE y \in s : TRUE
    <3>1. x \in s /\ IsFiniteSet(s \ {x}) /\ Cardinality(s \ {x}) = Cardinality(s) - 1 /\ Cardinality(s) \in Nat
      BY <2>1, ChosenFrom
    <3>2. Total(f, s) = f[x] + Total(f, s \ {x}) BY <2>1, TotalStep
    <3> HIDE DEF x
    <3>3. Cardinality(s \ {x}) <= n /\ s \ {x} \in SUBSET S BY <3>1, <2>1
    <3>4. Total(f, s \ {x}) \in Int BY <3>1, <3>3, <1>2
    <3>5. f[x] \in Int BY <3>1 DEF Numbers
    <3> QED BY <3>2, <3>4, <3>5
  <2>2. ASSUME NEW s \in SUBSET S, IsFiniteSet(s), s = {} PROVE Total(f, s) \in Int
    <3>1. Total(f, s) = 0 BY <2>2, TotalStep
    <3> QED BY <3>1
  <2> QED BY <2>1, <2>2
<1>3. Nat \subseteq T
  <2> HIDE DEF T
  <2> QED BY <1>1, <1>2, NatInductive
<1>4. Cardinality(S) \in Nat BY FS_CardinalityType
<1> QED BY <1>3, <1>4

\* The order of the elements does not matter.
LEMMA TotalAny ==
    ASSUME NEW f, NEW S, IsFiniteSet(S), Numbers(f, S), NEW x \in S
    PROVE  Total(f, S) = f[x] + Total(f, S \ {x})
<1> DEFINE T == {n \in Nat : \A s \in SUBSET S : IsFiniteSet(s) /\ Cardinality(s) <= n
                                 => \A y \in s : Total(f, s) = f[y] + Total(f, s \ {y})}
<1>1. 0 \in T
  <2>1. ASSUME NEW s \in SUBSET S, IsFiniteSet(s), Cardinality(s) <= 0 PROVE s = {}
    BY <2>1, FS_CardinalityType, FS_EmptySet
  <2> QED BY <2>1
<1>2. ASSUME NEW n \in Nat, n \in T PROVE n + 1 \in T
  <2>1. ASSUME NEW s \in SUBSET S, IsFiniteSet(s), Cardinality(s) <= n + 1, NEW y \in s
        PROVE  Total(f, s) = f[y] + Total(f, s \ {y})
    <3> DEFINE c == CHOOSE z \in s : TRUE
    <3>1. c \in s /\ IsFiniteSet(s \ {c}) /\ Cardinality(s \ {c}) = Cardinality(s) - 1 /\ Cardinality(s) \in Nat
      BY <2>1, ChosenFrom
    <3>2. Total(f, s) = f[c] + Total(f, s \ {c}) BY <2>1, TotalStep
    <3> HIDE DEF c
    <3>3. CASE y = c BY <3>2, <3>3
    <3>4. CASE y # c
      <4> DEFINE u == s \ {y}
                 v == s \ {c}
                 w == s \ {c, y}
      <4>1. IsFiniteSet(u) /\ Cardinality(u) = Cardinality(s) - 1 BY <2>1, FS_RemoveElement
      <4>2. c \in u /\ y \in v /\ u \ {c} = w /\ v \ {y} = w BY <3>1, <3>4
      <4>3. u \in SUBSET S /\ v \in SUBSET S /\ w \in SUBSET S /\ IsFiniteSet(w)
        <5>1. w \in SUBSET u OBVIOUS
        <5> QED BY <4>1, <5>1, FS_Subset
      <4>4. v = s \ {c} /\ u = s \ {y} OBVIOUS
      <4> HIDE DEF u, v, w
      <4>5. Cardinality(u) <= n /\ Cardinality(v) <= n BY <4>1, <3>1, <4>4, <2>1
      <4>6. Total(f, u) = f[c] + Total(f, w) BY <4>1, <4>2, <4>3, <4>5, <1>2
      <4>7. Total(f, v) = f[y] + Total(f, w) BY <3>1, <4>2, <4>3, <4>4, <4>5, <1>2
      <4>8. Total(f, w) \in Int
        <5>1. Numbers(f, w) BY <4>3 DEF Numbers
        <5> QED BY <4>3, <5>1, TotalInt
      <4>9. f[c] \in Int /\ f[y] \in Int BY <3>1, <2>1 DEF Numbers
      <4> QED BY <3>2, <4>4, <4>6, <4>7, <4>8, <4>9
    <3> QED BY <3>3, <3>4
  <2> QED BY <2>1
<1>3. Nat \subseteq T
  <2> HIDE DEF T
  <2> QED BY <1>1, <1>2, NatInductive
<1>4. Cardinality(S) \in Nat BY FS_CardinalityType
<1> QED BY <1>3, <1>4

\* Larger numbers have a larger sum.
LEMMA TotalLess ==
    ASSUME NEW f, NEW g, NEW S, IsFiniteSet(S), Numbers(f, S), Numbers(g, S), \A x \in S : f[x] <= g[x]
    PROVE  Total(f, S) <= Total(g, S)
<1> DEFINE T == {n \in Nat : \A s \in SUBSET S : IsFiniteSet(s) /\ Cardinality(s) <= n => Total(f, s) <= Total(g, s)}
<1>1. 0 \in T
  <2>1. ASSUME NEW s \in SUBSET S, IsFiniteSet(s), Cardinality(s) <= 0 PROVE Total(f, s) <= Total(g, s)
    <3>1. s = {} BY <2>1, FS_CardinalityType, FS_EmptySet
    <3>2. Total(f, s) = 0 BY <2>1, <3>1, TotalStep
    <3>3. Total(g, s) = 0 BY <2>1, <3>1, TotalStep
    <3> QED BY <3>2, <3>3
  <2> QED BY <2>1
<1>2. ASSUME NEW n \in Nat, n \in T PROVE n + 1 \in T
  <2>1. ASSUME NEW s \in SUBSET S, IsFiniteSet(s), Cardinality(s) <= n + 1, s # {} PROVE Total(f, s) <= Total(g, s)
    <3> DEFINE x == CHOOSE y \in s : TRUE
    <3>1. x \in s /\ IsFiniteSet(s \ {x}) /\ Cardinality(s \ {x}) = Cardinality(s) - 1 /\ Cardinality(s) \in Nat
      BY <2>1, ChosenFrom
    <3>2. Total(f, s) = f[x] + Total(f, s \ {x}) BY <2>1, TotalStep
    <3>3. Total(g, s) = g[x] + Total(g, s \ {x}) BY <2>1, TotalStep
    <3> HIDE DEF x
    <3>4. Cardinality(s \ {x}) <= n /\ s \ {x} \in SUBSET S BY <3>1, <2>1
    <3>5. Total(f, s \ {x}) <= Total(g, s \ {x}) BY <3>1, <3>4, <1>2
    <3>6. f[x] \in Int /\ g[x] \in Int /\ f[x] <= g[x] BY <3>1 DEF Numbers
    <3>7. Numbers(f, s \ {x}) /\ Numbers(g, s \ {x}) BY <3>4 DEF Numbers
    <3>8. Total(f, s \ {x}) \in Int BY <3>1, <3>7, TotalInt
    <3>9. Total(g, s \ {x}) \in Int BY <3>1, <3>7, TotalInt
    <3> QED BY <3>2, <3>3, <3>5, <3>6, <3>8, <3>9
  <2>2. ASSUME NEW s \in SUBSET S, IsFiniteSet(s), s = {} PROVE Total(f, s) <= Total(g, s)
    <3>1. Total(f, s) = 0 BY <2>2, TotalStep
    <3>2. Total(g, s) = 0 BY <2>2, TotalStep
    <3> QED BY <3>1, <3>2
  <2> QED BY <2>1, <2>2
<1>3. Nat \subseteq T
  <2> HIDE DEF T
  <2> QED BY <1>1, <1>2, NatInductive
<1>4. Cardinality(S) \in Nat BY FS_CardinalityType
<1> QED BY <1>3, <1>4

LEMMA TotalSame ==
    ASSUME NEW f, NEW g, NEW S, IsFiniteSet(S), Numbers(f, S), \A x \in S : f[x] = g[x]
    PROVE  Total(f, S) = Total(g, S)
<1>1. Numbers(g, S) /\ (\A x \in S : f[x] <= g[x]) /\ (\A x \in S : g[x] <= f[x]) BY DEF Numbers
<1>2. Total(f, S) <= Total(g, S) BY <1>1, TotalLess
<1>3. Total(g, S) <= Total(f, S) BY <1>1, TotalLess
<1>4. Total(f, S) \in Int BY TotalInt
<1>5. Total(g, S) \in Int BY <1>1, TotalInt
<1> QED BY <1>2, <1>3, <1>4, <1>5

\* One number changes.
LEMMA TotalOne ==
    ASSUME NEW f, NEW g, NEW S, IsFiniteSet(S), Numbers(f, S), Numbers(g, S), NEW x \in S,
           \A y \in S \ {x} : f[y] = g[y]
    PROVE  Total(g, S) = Total(f, S) - f[x] + g[x]
<1>1. Total(f, S) = f[x] + Total(f, S \ {x}) BY TotalAny
<1>2. Total(g, S) = g[x] + Total(g, S \ {x}) BY TotalAny
<1>3. IsFiniteSet(S \ {x}) BY FS_RemoveElement
<1>4. Numbers(f, S \ {x}) BY DEF Numbers
<1>5. Total(f, S \ {x}) = Total(g, S \ {x}) BY <1>3, <1>4, TotalSame
<1>6. Total(f, S \ {x}) \in Int BY <1>3, <1>4, TotalInt
<1>7. f[x] \in Int /\ g[x] \in Int BY DEF Numbers
<1> QED BY <1>1, <1>2, <1>5, <1>6, <1>7

LEMMA TotalNone ==
    ASSUME NEW f, NEW S, IsFiniteSet(S), \A x \in S : f[x] = 0 PROVE Total(f, S) = 0
<1> DEFINE T == {n \in Nat : \A s \in SUBSET S : IsFiniteSet(s) /\ Cardinality(s) <= n => Total(f, s) = 0}
<1>1. 0 \in T
  <2>1. ASSUME NEW s \in SUBSET S, IsFiniteSet(s), Cardinality(s) <= 0 PROVE Total(f, s) = 0
    <3>1. s = {} BY <2>1, FS_CardinalityType, FS_EmptySet
    <3> QED BY <2>1, <3>1, TotalStep
  <2> QED BY <2>1
<1>2. ASSUME NEW n \in Nat, n \in T PROVE n + 1 \in T
  <2>1. ASSUME NEW s \in SUBSET S, IsFiniteSet(s), Cardinality(s) <= n + 1, s # {} PROVE Total(f, s) = 0
    <3> DEFINE x == CHOOSE y \in s : TRUE
    <3>1. x \in s /\ IsFiniteSet(s \ {x}) /\ Cardinality(s \ {x}) = Cardinality(s) - 1 /\ Cardinality(s) \in Nat
      BY <2>1, ChosenFrom
    <3>2. Total(f, s) = f[x] + Total(f, s \ {x}) BY <2>1, TotalStep
    <3> HIDE DEF x
    <3>3. Cardinality(s \ {x}) <= n /\ s \ {x} \in SUBSET S BY <3>1, <2>1
    <3>4. Total(f, s \ {x}) = 0 BY <3>1, <3>3, <1>2
    <3>5. f[x] = 0 BY <3>1
    <3> QED BY <3>2, <3>4, <3>5
  <2>2. ASSUME NEW s \in SUBSET S, IsFiniteSet(s), s = {} PROVE Total(f, s) = 0 BY <2>2, TotalStep
  <2> QED BY <2>1, <2>2
<1>3. Nat \subseteq T
  <2> HIDE DEF T
  <2> QED BY <1>1, <1>2, NatInductive
<1>4. Cardinality(S) \in Nat BY FS_CardinalityType
<1> QED BY <1>3, <1>4

LEMMA TotalNat ==
    ASSUME NEW f, NEW S, IsFiniteSet(S), Numbers(f, S), \A x \in S : f[x] >= 0 PROVE Total(f, S) \in Nat
<1> DEFINE z == [x \in S |-> 0]
<1>1. Total(z, S) = 0 BY TotalNone
<1>2. Numbers(z, S) /\ \A x \in S : z[x] <= f[x] BY DEF Numbers
<1> HIDE DEF z
<1>3. Total(z, S) <= Total(f, S) BY <1>2, TotalLess
<1>4. Total(f, S) \in Int BY TotalInt
<1> QED BY <1>1, <1>3, <1>4

\* A set in two parts.
LEMMA TotalDisjoint ==
    ASSUME NEW f, NEW A, NEW S, IsFiniteSet(S), Numbers(f, S), A \subseteq S
    PROVE  Total(f, S) = Total(f, A) + Total(f, S \ A)
<1> DEFINE T == {n \in Nat : \A s \in SUBSET S : IsFiniteSet(s) /\ Cardinality(s) <= n /\ A \subseteq s
                                => Total(f, s) = Total(f, A) + Total(f, s \ A)}
<1>1. 0 \in T
  <2>1. ASSUME NEW s \in SUBSET S, IsFiniteSet(s), Cardinality(s) <= 0, A \subseteq s
        PROVE  Total(f, s) = Total(f, A) + Total(f, s \ A)
    <3>1. s = {} BY <2>1, FS_CardinalityType, FS_EmptySet
    <3>2. A = {} /\ s \ A = {} BY <2>1, <3>1
    <3>3. Total(f, {}) = 0 BY FS_EmptySet, TotalStep
    <3> QED BY <3>1, <3>2, <3>3
  <2> QED BY <2>1
<1>2. ASSUME NEW n \in Nat, n \in T PROVE n + 1 \in T
  <2>1. ASSUME NEW s \in SUBSET S, IsFiniteSet(s), Cardinality(s) <= n + 1, A \subseteq s
        PROVE  Total(f, s) = Total(f, A) + Total(f, s \ A)
    <3>1. IsFiniteSet(A) /\ IsFiniteSet(s \ A) BY <2>1, FS_Subset
    <3>2. Numbers(f, A) /\ Numbers(f, s) /\ Numbers(f, s \ A) BY <2>1 DEF Numbers
    <3>3. Total(f, A) \in Int BY <3>1, <3>2, TotalInt
    <3>4. CASE s = A
      <4>1. s \ A = {} BY <3>4
      <4>2. Total(f, s \ A) = 0 BY <3>1, <4>1, TotalStep
      <4>3. Total(f, s) = Total(f, A) BY <3>4
      <4> QED BY <3>3, <4>2, <4>3
    <3>5. CASE s # A
      <4>1. PICK x \in s : x \notin A BY <2>1, <3>5
      <4> DEFINE u == s \ {x}
                 v == (s \ A) \ {x}
      <4>2. IsFiniteSet(u) /\ Cardinality(u) = Cardinality(s) - 1 /\ Cardinality(s) \in Nat
        BY <2>1, FS_RemoveElement, FS_CardinalityType
      <4>3. Total(f, s) = f[x] + Total(f, u) BY <2>1, <3>2, TotalAny
      <4>4. Total(f, s \ A) = f[x] + Total(f, v) BY <3>1, <3>2, <4>1, TotalAny
      <4>5. u \in SUBSET S /\ A \subseteq u /\ u \ A = v BY <2>1, <4>1
      <4>6. IsFiniteSet(v) /\ Numbers(f, v) /\ f[x] \in Int BY <3>1, <3>2, FS_Subset DEF Numbers
      <4> HIDE DEF u, v
      <4>7. Cardinality(u) <= n BY <2>1, <4>2
      <4>8. Total(f, u) = Total(f, A) + Total(f, v) BY <1>2, <4>2, <4>5, <4>7
      <4>9. Total(f, v) \in Int BY <4>6, TotalInt
      <4> QED BY <3>3, <4>3, <4>4, <4>6, <4>8, <4>9
    <3> QED BY <3>4, <3>5
  <2> QED BY <2>1
<1>3. Nat \subseteq T
  <2> HIDE DEF T
  <2> QED BY <1>1, <1>2, NatInductive
<1>4. Cardinality(S) \in Nat BY FS_CardinalityType
<1> QED BY <1>3, <1>4

LEMMA TotalBound ==
    ASSUME NEW f, NEW S, IsFiniteSet(S), Numbers(f, S), NEW m \in Nat, \A x \in S : f[x] <= m
    PROVE  Total(f, S) <= m * Cardinality(S)
<1> DEFINE T == {n \in Nat : \A s \in SUBSET S : IsFiniteSet(s) /\ Cardinality(s) <= n
                                => Total(f, s) <= m * Cardinality(s)}
<1>1. 0 \in T
  <2>1. ASSUME NEW s \in SUBSET S, IsFiniteSet(s), Cardinality(s) <= 0 PROVE Total(f, s) <= m * Cardinality(s)
    <3>1. s = {} BY <2>1, FS_CardinalityType, FS_EmptySet
    <3>2. Total(f, s) = 0 BY <2>1, <3>1, TotalStep
    <3>3. Cardinality(s) = 0 BY <3>1, FS_EmptySet
    <3> QED BY <3>2, <3>3
  <2> QED BY <2>1
<1>2. ASSUME NEW n \in Nat, n \in T PROVE n + 1 \in T
  <2>1. ASSUME NEW s \in SUBSET S, IsFiniteSet(s), Cardinality(s) <= n + 1, s # {}
        PROVE  Total(f, s) <= m * Cardinality(s)
    <3> DEFINE x == CHOOSE y \in s : TRUE
               k == Cardinality(s \ {x})
    <3>1. x \in s /\ IsFiniteSet(s \ {x}) /\ k = Cardinality(s) - 1 /\ Cardinality(s) \in Nat /\ k \in Nat
      BY <2>1, ChosenFrom
    <3>2. Total(f, s) = f[x] + Total(f, s \ {x}) BY <2>1, TotalStep
    <3> HIDE DEF x
    <3>3. k <= n /\ s \ {x} \in SUBSET S BY <3>1, <2>1
    <3>4. Total(f, s \ {x}) <= m * k BY <3>1, <3>3, <1>2
    <3>5. f[x] \in Int /\ f[x] <= m BY <3>1 DEF Numbers
    <3>6. Total(f, s \ {x}) \in Int
      <4>1. Numbers(f, s \ {x}) BY DEF Numbers
      <4> QED BY <3>1, <4>1, TotalInt
    <3> HIDE DEF k
    <3>7. Cardinality(s) = k + 1 BY <3>1
    <3>8. m * (k + 1) = m * k + m /\ m * k \in Int BY <3>1
    <3> QED BY <3>2, <3>4, <3>5, <3>6, <3>7, <3>8
  <2>2. ASSUME NEW s \in SUBSET S, IsFiniteSet(s), s = {} PROVE Total(f, s) <= m * Cardinality(s)
    <3>1. Total(f, s) = 0 /\ Cardinality(s) = 0 BY <2>2, TotalStep, FS_EmptySet
    <3> QED BY <3>1
  <2> QED BY <2>1, <2>2
<1>3. Nat \subseteq T
  <2> HIDE DEF T
  <2> QED BY <1>1, <1>2, NatInductive
<1>4. Cardinality(S) \in Nat BY FS_CardinalityType
<1> QED BY <1>3, <1>4

-----------------------------------------------------------------------------
(* What is live and what is in flight *)

Flight == [t \in MemThreads |-> InFlight(t)]
Deltas == [t \in MemThreads |-> Delta(t)]
Owing == Total(size, Blocks) + Total(Flight, MemThreads)

LEMMA LiveIs == Live = Total(size, Blocks)
<1> DEFINE P(G) == G = [s \in SUBSET Blocks |->
                          IF s = {} THEN 0 ELSE LET x == CHOOSE y \in s : TRUE IN size[x] + G[s \ {x}]]
           H == CHOOSE G : P(G)
<1>1. Live = H[Blocks] BY DEF Live, MapThenSumSet, MapThenFoldSet
<1>2. \A G : P(G) <=> SumRun(size, Blocks, G) BY DEF SumRun, SumStep
<1> HIDE DEF P
<1>3. IsFiniteSet(Blocks) BY BlocksAssumption
<1>4. \E G : P(G) BY <1>2, <1>3, SumRuns
<1>5. P(H) BY <1>4
<1> HIDE DEF H
<1>6. Total(size, Blocks) = H[Blocks] BY <1>2, <1>3, <1>5, TotalIs
<1> QED BY <1>1, <1>6

LEMMA FlightIs == MapThenSumSet(InFlight, MemThreads) = Total(Flight, MemThreads)
<1> DEFINE S == MemThreads
           P(G) == G = [s \in SUBSET S |->
                          IF s = {} THEN 0 ELSE LET x == CHOOSE y \in s : TRUE IN InFlight(x) + G[s \ {x}]]
           H == CHOOSE G : P(G)
<1>1. MapThenSumSet(InFlight, S) = H[S] BY DEF MapThenSumSet, MapThenFoldSet
<1>2. \A s \in SUBSET S : s # {} => Flight[CHOOSE y \in s : TRUE] = InFlight(CHOOSE y \in s : TRUE)
  BY DEF Flight
<1>3. \A G : P(G) <=> SumRun(Flight, S, G) BY <1>2 DEF SumRun, SumStep
<1> HIDE DEF P
<1>4. IsFiniteSet(S) BY WorkerAssumption
<1>5. \E G : P(G) BY <1>3, <1>4, SumRuns
<1>6. P(H) BY <1>5
<1> HIDE DEF H
<1>7. Total(Flight, S) = H[S] BY <1>3, <1>4, <1>6, TotalIs
<1> QED BY <1>1, <1>7

LEMMA DeltasAre == MapThenSumSet(Delta, Early) = Total(Deltas, Early)
<1> DEFINE S == Early
           P(G) == G = [s \in SUBSET S |->
                          IF s = {} THEN 0 ELSE LET x == CHOOSE y \in s : TRUE IN Delta(x) + G[s \ {x}]]
           H == CHOOSE G : P(G)
<1>1. MapThenSumSet(Delta, S) = H[S] BY DEF MapThenSumSet, MapThenFoldSet
<1>2. \A s \in SUBSET S : s # {} => Deltas[CHOOSE y \in s : TRUE] = Delta(CHOOSE y \in s : TRUE)
  BY DEF Deltas, Early
<1>3. \A G : P(G) <=> SumRun(Deltas, S, G) BY <1>2 DEF SumRun, SumStep
<1> HIDE DEF P
<1>4. IsFiniteSet(S)
  <2>1. S \in SUBSET MemThreads BY DEF Early
  <2> QED BY <2>1, WorkerAssumption, FS_Subset
<1>5. \E G : P(G) BY <1>3, <1>4, SumRuns
<1>6. P(H) BY <1>5
<1> HIDE DEF H
<1>7. Total(Deltas, S) = H[S] BY <1>3, <1>4, <1>6, TotalIs
<1> QED BY <1>1, <1>7

-----------------------------------------------------------------------------
(* Threads that ask keep to blocks of their own *)

Exclusive ==
    \A t, u \in MemThreads :
        t # u /\ memPc[t] # "idle" /\ memPc[u] # "idle" => op[t].block # op[u].block

\* What a thread that charges asks for is more than its block has.
Asked ==
    \A t \in MemThreads :
        /\ memPc[t] \in {"limit", "charge", "peak", "cas", "refund"} => Grows(t)
        /\ memPc[t] \notin {"idle", "discharge"} => New(t) \in Sizes \cup {0}

Books == MemTypeOK /\ Exclusive /\ Asked

LEMMA SizesFit == Sizes \cup {0} \subseteq 0 .. Width - 1
<1>1. Width \div 2 \in Nat /\ Width \div 2 <= Width BY BytesAssumption
<1>2. 0 \in 0 .. Width - 1 BY BytesAssumption
<1> QED BY <1>1, <1>2, SizesAssumption, BytesAssumption

LEMMA Numbered ==
    ASSUME MemTypeOK, NEW t \in MemThreads
    PROVE  /\ op[t].block \in Blocks /\ New(t) \in 0 .. Width - 1
           /\ Old(t) \in Sizes \cup {0} /\ Old(t) \in 0 .. Width - 1
           /\ Delta(t) \in 0 .. Width - 1 /\ Delta(t) >= 0
           /\ InFlight(t) \in 0 .. Width - 1
<1>1. op[t] \in [block : Blocks, new : 0 .. Width - 1] BY DEF MemTypeOK
<1>2. op[t].block \in Blocks /\ New(t) \in 0 .. Width - 1 BY <1>1 DEF New
<1>3. Old(t) \in Sizes \cup {0} BY <1>2 DEF Old, MemTypeOK
<1>4. Old(t) \in 0 .. Width - 1 BY <1>3, SizesFit
<1>5. Delta(t) \in 0 .. Width - 1 /\ Delta(t) >= 0 BY <1>2, <1>4, BytesAssumption DEF Delta, Grows
<1>6. 0 \in 0 .. Width - 1 BY BytesAssumption
<1>7. InFlight(t) \in 0 .. Width - 1 BY <1>2, <1>5, <1>6 DEF InFlight
<1> QED BY <1>2, <1>3, <1>4, <1>5, <1>7

\* A step of a thread leaves the others where they are.
Quiet(t) ==
    \A u \in MemThreads \ {t} :
        /\ memPc'[u] = memPc[u] /\ op'[u] = op[u] /\ lim'[u] = lim[u]
        /\ now'[u] = now[u] /\ seen'[u] = seen[u]

LEMMA QuietStep == ASSUME MemTypeOK, NEW t \in MemThreads, Ask(t) \/ MemStep(t) PROVE Quiet(t)
<1> USE DEF MemTypeOK, Quiet, MemGoto, locals, counters
<1>1. CASE Ask(t) BY <1>1 DEF Ask
<1>2. CASE LoadLimit(t) BY <1>2 DEF LoadLimit
<1>3. CASE Charge(t) BY <1>3 DEF Charge
<1>4. CASE LoadPeak(t) BY <1>4 DEF LoadPeak, Compare, PeakDone
<1>5. CASE RaisePeak(t) BY <1>5 DEF RaisePeak, PeakDone
<1>6. CASE RaisePeakFails(t) BY <1>6 DEF RaisePeakFails, Compare, PeakDone
<1>7. CASE Gives(t) BY <1>7 DEF Gives
<1>8. CASE GivesNot(t) BY <1>8 DEF GivesNot
<1>9. CASE Refund(t) BY <1>9 DEF Refund
<1>10. CASE Discharge(t) BY <1>10 DEF Discharge
<1> QED BY <1>1, <1>2, <1>3, <1>4, <1>5, <1>6, <1>7, <1>8, <1>9, <1>10 DEF MemStep

LEMMA SizesKept ==
    ASSUME MemTypeOK, NEW t \in MemThreads, Ask(t) \/ MemStep(t)
    PROVE  size' = size \/ (memPc[t] = "system" /\ \A b \in Blocks \ {op[t].block} : size'[b] = size[b])
<1>1. CASE Gives(t) BY <1>1 DEF Gives, MemTypeOK
<1>2. CASE ~Gives(t)
  BY <1>2 DEF MemStep, Ask, LoadLimit, Charge, LoadPeak, RaisePeak, RaisePeakFails, GivesNot, Refund, Discharge
<1> QED BY <1>1, <1>2

LEMMA OthersKept ==
    ASSUME Books, NEW t \in MemThreads, Ask(t) \/ MemStep(t), NEW u \in MemThreads \ {t}, memPc[u] # "idle"
    PROVE  /\ New(u)' = New(u) /\ Old(u)' = Old(u) /\ Delta(u)' = Delta(u)
           /\ Grows(u)' <=> Grows(u)
<1>1. op'[u] = op[u] BY QuietStep DEF Quiet, Books
<1>2. op[u].block \in Blocks BY Numbered DEF Books
<1>3. memPc[t] # "idle" => op[u].block # op[t].block BY DEF Books, Exclusive
<1>4. size'[op[u].block] = size[op[u].block] BY <1>2, <1>3, SizesKept DEF Books
<1>5. New(u)' = New(u) BY <1>1 DEF New
<1>6. Old(u)' = Old(u) BY <1>1, <1>4 DEF Old
<1> QED BY <1>5, <1>6 DEF Delta, Grows

LEMMA OthersInFlight ==
    ASSUME Books, NEW t \in MemThreads, Ask(t) \/ MemStep(t), NEW u \in MemThreads \ {t}
    PROVE  InFlight(u)' = InFlight(u)
<1>1. memPc'[u] = memPc[u] BY QuietStep DEF Quiet, Books
<1>2. CASE memPc[u] = "idle" BY <1>1, <1>2 DEF InFlight
<1>3. CASE memPc[u] # "idle"
  <2>1. New(u)' = New(u) /\ Delta(u)' = Delta(u) /\ (Grows(u)' <=> Grows(u)) BY <1>3, OthersKept
  <2> QED BY <1>1, <2>1 DEF InFlight
<1> QED BY <1>2, <1>3

LEMMA ModOfInt ==
    ASSUME NEW a \in Int
    PROVE  /\ a % Width \in 0 .. Width - 1
           /\ \E q \in Int : a = Width * q + (a % Width)
<1>1. Width \in Nat \ {0} BY BytesAssumption
<1>2. a % Width \in 0 .. Width - 1 BY <1>1
<1>3. a = Width * (a \div Width) + (a % Width) BY <1>1
<1>4. a \div Width \in Int BY <1>1
<1> QED BY <1>2, <1>3, <1>4

\* What an action does to the thread that takes it.
LEMMA AskDoes ==
    ASSUME Books, NEW t \in MemThreads, Ask(t)
    PROVE  /\ memPc[t] = "idle" /\ memPc'[t] = (IF Grows(t)' THEN "limit" ELSE "system")
           /\ New(t)' \in Sizes \cup {0} /\ op'[t] \in [block : Blocks, new : 0 .. Width - 1]
           /\ \A u \in MemThreads : memPc[u] # "idle" => op[u].block # op'[t].block
           /\ size' = size /\ current' = current /\ peak' = peak
<1>1. PICK b \in Blocks \ Busy, n \in Sizes \cup {0} :
        /\ n # size[b]
        /\ op' = [op EXCEPT ![t] = [block |-> b, new |-> n]]
        /\ MemGoto(t, IF n > size[b] THEN "limit" ELSE "system")
  BY DEF Ask
<1>2. size' = size /\ current' = current /\ peak' = peak /\ memPc[t] = "idle" BY DEF Ask, counters
<1>3. op \in [MemThreads -> [block : Blocks, new : 0 .. Width - 1]] BY DEF Books, MemTypeOK
<1>4. op'[t] = [block |-> b, new |-> n] BY <1>1, <1>3
<1>5. n \in 0 .. Width - 1 BY SizesFit
<1>6. op'[t] \in [block : Blocks, new : 0 .. Width - 1] BY <1>4, <1>5
<1>7. New(t)' = n /\ Old(t)' = size[b] BY <1>2, <1>4 DEF New, Old
<1>8. memPc \in [MemThreads -> MemPlaces] BY DEF Books, MemTypeOK
<1>9. memPc'[t] = (IF n > size[b] THEN "limit" ELSE "system") BY <1>1, <1>8 DEF MemGoto
<1>10. \A u \in MemThreads : memPc[u] # "idle" => op[u].block # b BY DEF Busy
<1> QED BY <1>2, <1>4, <1>6, <1>7, <1>9, <1>10 DEF Grows

\* Steps that leave the block and its size alone.
SameAsk(t) == op'[t] = op[t] /\ size' = size

LEMMA SameAskMeans ==
    ASSUME NEW t \in MemThreads, SameAsk(t)
    PROVE  New(t)' = New(t) /\ Old(t)' = Old(t) /\ Delta(t)' = Delta(t) /\ (Grows(t)' <=> Grows(t))
<1>1. New(t)' = New(t) /\ Old(t)' = Old(t) BY DEF SameAsk, New, Old
<1> QED BY <1>1 DEF Delta, Grows

LEMMA LoadLimitDoes ==
    ASSUME Books, NEW t \in MemThreads, LoadLimit(t)
    PROVE  /\ memPc[t] = "limit" /\ memPc'[t] = "charge" /\ lim'[t] = limit
           /\ SameAsk(t) /\ current' = current /\ peak' = peak
<1> USE DEF Books, MemTypeOK, LoadLimit, MemGoto, counters, SameAsk
<1> QED OBVIOUS

LEMMA ChargeDoes ==
    ASSUME Books, NEW t \in MemThreads, Charge(t)
    PROVE  /\ memPc[t] = "charge" /\ current' = (current + Delta(t)) % Width
           /\ SameAsk(t) /\ peak' = peak
           /\ \/ memPc'[t] = "refund" /\ lim[t] # 0 /\ current' > lim[t]
              \/ memPc'[t] = "peak" /\ now'[t] = current' /\ ~(lim[t] # 0 /\ current' > lim[t])
<1> USE DEF Books, MemTypeOK, Charge, MemGoto, counters, SameAsk, Add
<1> QED OBVIOUS

\* The thread goes from where it reads the peak.
Onward(t, top) ==
    \/ memPc'[t] = "cas" /\ now'[t] = now[t] /\ seen'[t] = top /\ now[t] > top
    \/ memPc'[t] = "system" /\ now'[t] = 0 /\ now[t] <= top

LEMMA CompareDoes ==
    ASSUME Books, NEW t \in MemThreads, LoadPeak(t) \/ RaisePeakFails(t)
    PROVE  /\ memPc[t] \in {"peak", "cas"} /\ Onward(t, peak)
           /\ SameAsk(t) /\ current' = current /\ peak' = peak
<1> USE DEF Books, MemTypeOK, MemGoto, counters, SameAsk, Compare, PeakDone, Onward
<1>1. CASE LoadPeak(t)
  <2>1. Compare(t, peak) /\ memPc[t] = "peak" BY <1>1 DEF LoadPeak
  <2>2. SameAsk(t) /\ current' = current /\ peak' = peak BY <1>1 DEF LoadPeak
  <2>3. Onward(t, peak) BY <2>1
  <2> QED BY <2>1, <2>2, <2>3
<1>2. CASE RaisePeakFails(t)
  <2>1. Compare(t, peak) /\ memPc[t] = "cas" BY <1>2 DEF RaisePeakFails
  <2>2. SameAsk(t) /\ current' = current /\ peak' = peak BY <1>2 DEF RaisePeakFails
  <2>3. Onward(t, peak) BY <2>1
  <2> QED BY <2>1, <2>2, <2>3
<1> QED BY <1>1, <1>2

LEMMA RaisePeakDoes ==
    ASSUME Books, NEW t \in MemThreads, RaisePeak(t)
    PROVE  /\ memPc[t] = "cas" /\ memPc'[t] = "system" /\ peak = seen[t] /\ peak' = now[t] /\ now'[t] = 0
           /\ SameAsk(t) /\ current' = current
<1> USE DEF Books, MemTypeOK, RaisePeak, MemGoto, counters, SameAsk, PeakDone
<1> QED OBVIOUS

LEMMA GivesDoes ==
    ASSUME Books, NEW t \in MemThreads, Gives(t)
    PROVE  /\ memPc[t] = "system" /\ (Grows(t) => Live + Delta(t) <= System)
           /\ op[t].block \in Blocks
           /\ size' = [size EXCEPT ![op[t].block] = New(t)]
           /\ size'[op[t].block] = New(t) /\ size[op[t].block] = Old(t)
           /\ \A b \in Blocks \ {op[t].block} : size'[b] = size[b]
           /\ Grows(t) => memPc'[t] = "idle" /\ op'[t] = NoOp
           /\ ~Grows(t) => memPc'[t] = "discharge" /\ op'[t].block = op[t].block /\ New(t)' = Delta(t)
           /\ current' = current /\ peak' = peak
<1>1. op[t] \in [block : Blocks, new : 0 .. Width - 1] BY DEF Books, MemTypeOK
<1>2. op[t].block \in Blocks BY <1>1
<1>3. size' = [size EXCEPT ![op[t].block] = New(t)] BY DEF Gives
<1>4. \A b \in Blocks : size'[b] = IF b = op[t].block THEN New(t) ELSE size[b]
  BY <1>3 DEF Books, MemTypeOK
<1>5. Grows(t) => memPc'[t] = "idle" /\ op'[t] = NoOp BY DEF Gives, MemGoto, Books, MemTypeOK
<1>6. ASSUME ~Grows(t) PROVE memPc'[t] = "discharge" /\ op'[t].block = op[t].block /\ New(t)' = Delta(t)
  <2>1. op' = [op EXCEPT ![t].new = Delta(t)] /\ MemGoto(t, "discharge") BY <1>6 DEF Gives
  <2>2. memPc'[t] = "discharge" BY <2>1 DEF MemGoto, Books, MemTypeOK
  <2>3. op'[t] = [op[t] EXCEPT !.new = Delta(t)] BY <2>1 DEF Books, MemTypeOK
  <2>4. op'[t].block = op[t].block /\ op'[t].new = Delta(t) BY <1>1, <2>3
  <2> QED BY <2>2, <2>4 DEF New
<1>7. current' = current /\ peak' = peak BY DEF Gives, counters
<1> QED BY <1>2, <1>3, <1>4, <1>5, <1>6, <1>7 DEF Gives, Old

LEMMA GivesNotDoes ==
    ASSUME Books, NEW t \in MemThreads, GivesNot(t)
    PROVE  /\ memPc[t] = "system" /\ memPc'[t] = (IF Grows(t) THEN "refund" ELSE "idle")
           /\ SameAsk(t) /\ current' = current /\ peak' = peak
<1> USE DEF Books, MemTypeOK, GivesNot, MemGoto, counters, SameAsk
<1> QED OBVIOUS

LEMMA RefundDoes ==
    ASSUME Books, NEW t \in MemThreads, Refund(t)
    PROVE  /\ memPc[t] = "refund" /\ memPc'[t] = "idle" /\ current' = (current - Delta(t)) % Width
           /\ SameAsk(t) /\ peak' = peak
<1> USE DEF Books, MemTypeOK, Refund, MemGoto, counters, SameAsk, Subtract
<1> QED OBVIOUS

LEMMA DischargeDoes ==
    ASSUME Books, NEW t \in MemThreads, Discharge(t)
    PROVE  /\ memPc[t] = "discharge" /\ memPc'[t] = "idle" /\ current' = (current - New(t)) % Width
           /\ size' = size /\ op'[t] = NoOp /\ peak' = peak
<1> USE DEF Books, MemTypeOK, Discharge, MemGoto, counters, Subtract
<1> QED OBVIOUS

LEMMA SetLimitDoes ==
    ASSUME SetLimit
    PROVE  /\ memPc' = memPc /\ op' = op /\ size' = size /\ now' = now /\ seen' = seen /\ lim' = lim
           /\ current' = current /\ peak' = peak
           /\ \A t \in MemThreads : /\ New(t)' = New(t) /\ Old(t)' = Old(t) /\ Delta(t)' = Delta(t)
                                    /\ (Grows(t)' <=> Grows(t)) /\ InFlight(t)' = InFlight(t)
<1>1. memPc' = memPc /\ op' = op /\ size' = size /\ now' = now /\ seen' = seen /\ lim' = lim
      /\ current' = current /\ peak' = peak
  BY DEF SetLimit, locals
<1>2. \A t \in MemThreads : New(t)' = New(t) /\ Old(t)' = Old(t) BY <1>1 DEF New, Old
<1>3. \A t \in MemThreads : Delta(t)' = Delta(t) /\ (Grows(t)' <=> Grows(t)) BY <1>2 DEF Delta, Grows
<1> QED BY <1>1, <1>2, <1>3 DEF InFlight

-----------------------------------------------------------------------------
(* The books stay in order *)

LEMMA NoOpTyped == NoOp \in [block : Blocks, new : 0 .. Width - 1]
<1>1. (CHOOSE b \in Blocks : TRUE) \in Blocks BY BlocksAssumption
<1>2. 0 \in 0 .. Width - 1 BY BytesAssumption
<1> QED BY <1>1, <1>2 DEF NoOp

LEMMA InitBooks == MemInit => Books
<1> SUFFICES ASSUME MemInit PROVE Books OBVIOUS
<1>1. 0 \in 0 .. Width - 1 BY BytesAssumption
<1>2. MemTypeOK BY <1>1, NoOpTyped DEF MemInit, MemTypeOK, MemPlaces
<1>3. \A t \in MemThreads : memPc[t] = "idle" BY DEF MemInit
<1> QED BY <1>2, <1>3 DEF Books, Exclusive, Asked

LEMMA TypedStep ==
    ASSUME Books, NEW t \in MemThreads, Ask(t) \/ MemStep(t)
    PROVE  MemTypeOK'
<1> USE DEF MemTypeOK, MemPlaces, MemGoto, Books
<1>1. CASE Ask(t)
  <2>1. op' \in [MemThreads -> [block : Blocks, new : 0 .. Width - 1]]
    <3>1. op'[t] \in [block : Blocks, new : 0 .. Width - 1] BY <1>1, AskDoes
    <3>2. \E x : op' = [op EXCEPT ![t] = x] BY <1>1 DEF Ask
    <3> QED BY <3>1, <3>2
  <2>2. memPc' \in [MemThreads -> MemPlaces] BY <1>1 DEF Ask
  <2> QED BY <1>1, <2>1, <2>2 DEF Ask, counters, locals
<1>2. CASE LoadLimit(t) BY <1>2 DEF LoadLimit, counters
<1>3. CASE Charge(t)
  <2>1. current + Delta(t) \in Int BY Numbered
  <2>2. current' \in 0 .. Width - 1 BY <1>3, <2>1, ModOfInt DEF Charge, Add
  <2>3. now' \in [MemThreads -> 0 .. Width - 1] BY <1>3, <2>2 DEF Charge
  <2>4. memPc' \in [MemThreads -> MemPlaces] BY <1>3 DEF Charge
  <2> QED BY <1>3, <2>2, <2>3, <2>4 DEF Charge, counters
<1>4. CASE LoadPeak(t) \/ RaisePeak(t) \/ RaisePeakFails(t)
  <2>1. 0 \in 0 .. Width - 1 BY BytesAssumption
  <2>2. ASSUME PeakDone(t) PROVE /\ now' \in [MemThreads -> 0 .. Width - 1]
                                 /\ seen' \in [MemThreads -> 0 .. Width - 1]
                                 /\ memPc' \in [MemThreads -> MemPlaces]
    BY <2>1, <2>2 DEF PeakDone
  <2>3. ASSUME Compare(t, peak) PROVE /\ now' \in [MemThreads -> 0 .. Width - 1]
                                      /\ seen' \in [MemThreads -> 0 .. Width - 1]
                                      /\ memPc' \in [MemThreads -> MemPlaces]
    <3>1. CASE PeakDone(t) BY <2>2, <3>1
    <3>2. CASE ~PeakDone(t) BY <2>3, <3>2 DEF Compare
    <3> QED BY <3>1, <3>2
  <2>4. CASE LoadPeak(t) BY <2>4, <2>3 DEF LoadPeak, counters
  <2>5. CASE RaisePeakFails(t) BY <2>5, <2>3 DEF RaisePeakFails, counters
  <2>6. CASE RaisePeak(t)
    <3>1. peak' \in 0 .. Width - 1 BY <2>6 DEF RaisePeak
    <3> QED BY <2>6, <2>2, <3>1 DEF RaisePeak
  <2> QED BY <1>4, <2>4, <2>5, <2>6
<1>5. CASE Gives(t)
  <2>1. size' \in [Blocks -> Sizes \cup {0}]
    <3>1. New(t) \in Sizes \cup {0} BY <1>5, GivesDoes DEF Asked
    <3>2. size' = [size EXCEPT ![op[t].block] = New(t)] BY <1>5 DEF Gives
    <3> QED BY <3>1, <3>2
  <2>2. op' \in [MemThreads -> [block : Blocks, new : 0 .. Width - 1]]
    <3>1. op' = [op EXCEPT ![t] = NoOp] \/ op' = [op EXCEPT ![t].new = Delta(t)] BY <1>5 DEF Gives
    <3>2. Delta(t) \in 0 .. Width - 1 BY Numbered
    <3> QED BY <3>1, <3>2, NoOpTyped
  <2>3. memPc' \in [MemThreads -> MemPlaces] BY <1>5 DEF Gives
  <2> QED BY <1>5, <2>1, <2>2, <2>3 DEF Gives, counters, locals
<1>6. CASE GivesNot(t) BY <1>6 DEF GivesNot, counters, locals
<1>7. CASE Refund(t)
  <2>1. current - Delta(t) \in Int BY Numbered
  <2>2. current' \in 0 .. Width - 1 BY <1>7, <2>1, ModOfInt DEF Refund, Subtract
  <2> QED BY <1>7, <2>2 DEF Refund, counters, locals
<1>8. CASE Discharge(t)
  <2>1. current - New(t) \in Int BY Numbered
  <2>2. current' \in 0 .. Width - 1 BY <1>8, <2>1, ModOfInt DEF Discharge, Subtract
  <2>3. op' \in [MemThreads -> [block : Blocks, new : 0 .. Width - 1]] BY <1>8, NoOpTyped DEF Discharge
  <2> QED BY <1>8, <2>2, <2>3 DEF Discharge, counters, locals
<1> QED BY <1>1, <1>2, <1>3, <1>4, <1>5, <1>6, <1>7, <1>8 DEF MemStep

LEMMA DeltasNat ==
    ASSUME MemTypeOK, NEW A, A \subseteq MemThreads
    PROVE  Total(Deltas, A) \in Nat
<1>1. IsFiniteSet(A) BY WorkerAssumption, FS_Subset
<1>2. \A t \in A : Deltas[t] \in Int /\ Deltas[t] >= 0
  <2>1. ASSUME NEW t \in A PROVE Deltas[t] \in Int /\ Deltas[t] >= 0
    <3>1. Delta(t) \in 0 .. Width - 1 /\ Delta(t) >= 0 BY Numbered
    <3>2. Deltas[t] = Delta(t) BY DEF Deltas
    <3> QED BY <3>1, <3>2
  <2> QED BY <2>1
<1> QED BY <1>1, <1>2, TotalNat DEF Numbers

LEMMA LargerOf == ASSUME NEW x \in Int, NEW y \in Int
                  PROVE Max({x, y}) \in {x, y} /\ Max({x, y}) >= x /\ Max({x, y}) >= y
<1>1. \E z \in {x, y} : \A w \in {x, y} : z >= w
  <2>1. CASE x >= y BY <2>1
  <2>2. CASE ~(x >= y) BY <2>2
  <2> QED BY <2>1, <2>2
<1>2. Max({x, y}) = CHOOSE z \in {x, y} : \A w \in {x, y} : z >= w BY DEF Max
<1> QED BY <1>1, <1>2

LEMMA TypedSetLimit == ASSUME Books, SetLimit PROVE MemTypeOK'
<1>1. limit' \in Limits /\ limit' \in Int BY LimitsAssumption, BytesAssumption DEF SetLimit
<1>2. current \in Nat /\ limit' \in Nat BY <1>1, LimitsAssumption, BytesAssumption DEF Books, MemTypeOK
<1>3. Max({limit', current}) \in Nat
  <2>1. Max({limit', current}) \in {limit', current} BY <1>2, LargerOf
  <2> QED BY <2>1, <1>2
<1>4. Total(Deltas, Early) \in Nat BY DeltasNat DEF Early, Books
<1>5. allowed' = Max({limit', current}) + Total(Deltas, Early) BY DeltasAre DEF SetLimit
<1>6. allowed' \in Nat BY <1>3, <1>4, <1>5
<1>7. started' \in BOOLEAN BY DEF SetLimit
<1>8. current' = current /\ peak' = peak /\ size' = size /\ memPc' = memPc /\ op' = op /\ lim' = lim
      /\ now' = now /\ seen' = seen /\ aborted' = aborted
  BY DEF SetLimit, locals
<1> QED BY <1>1, <1>6, <1>7, <1>8 DEF Books, MemTypeOK

LEMMA ExclusiveStep ==
    ASSUME Books, NEW t \in MemThreads, Ask(t) \/ MemStep(t)
    PROVE  Exclusive'
<1>1. ASSUME NEW u \in MemThreads \ {t}, memPc'[u] # "idle", memPc'[t] # "idle"
      PROVE  op'[u].block # op'[t].block
  <2>1. memPc[u] # "idle" /\ op'[u] = op[u] BY <1>1, QuietStep DEF Quiet, Books
  <2>2. CASE Ask(t) BY <2>1, <2>2, AskDoes
  <2>3. CASE MemStep(t)
    <3>1. memPc[t] # "idle" /\ op'[t].block = op[t].block
      <4> USE <1>1 DEF SameAsk
      <4>1. CASE LoadLimit(t) BY <4>1, LoadLimitDoes
      <4>2. CASE Charge(t) BY <4>2, ChargeDoes
      <4>3. CASE LoadPeak(t) \/ RaisePeakFails(t) BY <4>3, CompareDoes
      <4>4. CASE RaisePeak(t) BY <4>4, RaisePeakDoes
      <4>5. CASE Gives(t) BY <4>5, GivesDoes
      <4>6. CASE GivesNot(t) BY <4>6, GivesNotDoes
      <4>7. CASE Refund(t) BY <4>7, RefundDoes
      <4>8. CASE Discharge(t) BY <4>8, DischargeDoes
      <4> QED BY <2>3, <4>1, <4>2, <4>3, <4>4, <4>5, <4>6, <4>7, <4>8 DEF MemStep
    <3> QED BY <2>1, <3>1 DEF Books, Exclusive
  <2> QED BY <2>2, <2>3
<1>2. ASSUME NEW u \in MemThreads \ {t}, NEW v \in MemThreads \ {t}, u # v, memPc'[u] # "idle", memPc'[v] # "idle"
      PROVE  op'[u].block # op'[v].block
  <2>1. memPc[u] # "idle" /\ op'[u] = op[u] /\ memPc[v] # "idle" /\ op'[v] = op[v]
    BY <1>2, QuietStep DEF Quiet, Books
  <2> QED BY <1>2, <2>1 DEF Books, Exclusive
<1> QED BY <1>1, <1>2 DEF Exclusive

AskedOf(t) ==
    /\ memPc[t] \in {"limit", "charge", "peak", "cas", "refund"} => Grows(t)
    /\ memPc[t] \notin {"idle", "discharge"} => New(t) \in Sizes \cup {0}

LEMMA AskedStep ==
    ASSUME Books, NEW t \in MemThreads, Ask(t) \/ MemStep(t)
    PROVE  Asked'
<1>1. ASSUME NEW u \in MemThreads \ {t} PROVE AskedOf(u)'
  <2>1. memPc'[u] = memPc[u] BY QuietStep DEF Quiet, Books
  <2>2. AskedOf(u) BY DEF Books, Asked, AskedOf
  <2>3. CASE memPc[u] = "idle" BY <2>1, <2>3 DEF AskedOf
  <2>4. CASE memPc[u] # "idle"
    <3>1. New(u)' = New(u) /\ (Grows(u)' <=> Grows(u)) BY <2>4, OthersKept
    <3> QED BY <2>1, <2>2, <3>1 DEF AskedOf
  <2> QED BY <2>3, <2>4
<1>2. AskedOf(t)'
  <2>1. AskedOf(t) BY DEF Books, Asked, AskedOf
  <2>2. SameAsk(t) => New(t)' = New(t) /\ (Grows(t)' <=> Grows(t)) BY SameAskMeans
  <2> USE DEF AskedOf
  <2>3. CASE Ask(t) BY <2>3, AskDoes
  <2>4. CASE LoadLimit(t) BY <2>1, <2>2, <2>4, LoadLimitDoes
  <2>5. CASE Charge(t) BY <2>1, <2>2, <2>5, ChargeDoes
  <2>6. CASE LoadPeak(t) \/ RaisePeakFails(t) BY <2>1, <2>2, <2>6, CompareDoes DEF Onward
  <2>7. CASE RaisePeak(t) BY <2>1, <2>2, <2>7, RaisePeakDoes
  <2>8. CASE Gives(t)
    <3>1. memPc'[t] \in {"idle", "discharge"} BY <2>8, GivesDoes
    <3> QED BY <3>1
  <2>9. CASE GivesNot(t) BY <2>1, <2>2, <2>9, GivesNotDoes
  <2>10. CASE Refund(t) BY <2>10, RefundDoes
  <2>11. CASE Discharge(t) BY <2>11, DischargeDoes
  <2> QED BY <2>3, <2>4, <2>5, <2>6, <2>7, <2>8, <2>9, <2>10, <2>11 DEF MemStep
<1> QED BY <1>1, <1>2 DEF Asked, AskedOf

LEMMA BooksKept == Books /\ [MemNext]_memVars => Books'
<1>1. ASSUME Books, NEW t \in MemThreads, Ask(t) \/ MemStep(t) PROVE Books'
  BY <1>1, TypedStep, ExclusiveStep, AskedStep DEF Books
<1>2. ASSUME Books, SetLimit PROVE Books'
  <2>1. MemTypeOK' BY <1>2, TypedSetLimit
  <2>2. Exclusive' BY <1>2, SetLimitDoes DEF Books, Exclusive
  <2>3. Asked' BY <1>2, SetLimitDoes DEF Books, Asked
  <2> QED BY <2>1, <2>2, <2>3 DEF Books
<1>3. ASSUME Books, UNCHANGED memVars PROVE Books'
  BY <1>3 DEF memVars, counters, locals, Books, MemTypeOK, Exclusive, Asked, Grows, New, Old
<1> QED BY <1>1, <1>2, <1>3 DEF MemNext

-----------------------------------------------------------------------------
(* No byte is lost *)

LEMMA FlightNumbers ==
    ASSUME MemTypeOK, NEW A, A \subseteq MemThreads
    PROVE  /\ IsFiniteSet(A) /\ Numbers(Flight, A) /\ Numbers(Deltas, A)
           /\ Total(Flight, A) \in Nat /\ Total(Deltas, A) \in Nat
<1>1. IsFiniteSet(A) BY WorkerAssumption, FS_Subset
<1>2. \A t \in A : Flight[t] \in Int /\ Flight[t] >= 0
  <2>1. ASSUME NEW t \in A PROVE Flight[t] \in Int /\ Flight[t] >= 0
    <3>1. InFlight(t) \in 0 .. Width - 1 BY Numbered
    <3>2. Flight[t] = InFlight(t) BY DEF Flight
    <3> QED BY <3>1, <3>2
  <2> QED BY <2>1
<1>3. \A t \in A : Deltas[t] \in Int
  <2>1. ASSUME NEW t \in A PROVE Deltas[t] \in Int
    <3>1. Delta(t) \in 0 .. Width - 1 BY Numbered
    <3>2. Deltas[t] = Delta(t) BY DEF Deltas
    <3> QED BY <3>1, <3>2
  <2> QED BY <2>1
<1>4. Numbers(Flight, A) /\ Numbers(Deltas, A) BY <1>2, <1>3 DEF Numbers
<1>5. Total(Flight, A) \in Nat BY <1>1, <1>2, <1>4, TotalNat
<1> QED BY <1>1, <1>4, <1>5, DeltasNat

LEMMA SizeNumbers ==
    ASSUME MemTypeOK PROVE IsFiniteSet(Blocks) /\ Numbers(size, Blocks) /\ Total(size, Blocks) \in Nat
<1>1. \A b \in Blocks : size[b] \in Int /\ size[b] >= 0 BY SizesFit, BytesAssumption DEF MemTypeOK
<1> QED BY <1>1, BlocksAssumption, TotalNat DEF Numbers

LEMMA OwingNat == ASSUME MemTypeOK PROVE Owing \in Nat
  BY FlightNumbers, SizeNumbers DEF Owing

NumbersIn ==
    \A t \in MemThreads : InFlight(t) \in 0 .. Width - 1 /\ Delta(t) \in 0 .. Width - 1

LEMMA NumbersNow == MemTypeOK => NumbersIn BY Numbered DEF NumbersIn
LEMMA NumbersThen == MemTypeOK' => NumbersIn' BY NumbersNow, PTL

\* A step changes the flight of its thread.
LEMMA FlightMoves ==
    ASSUME Books, Books', NEW t \in MemThreads, Ask(t) \/ MemStep(t)
    PROVE  Total(Flight, MemThreads)' = Total(Flight, MemThreads) - InFlight(t) + InFlight(t)'
<1> DEFINE F == Flight'
<1>1. IsFiniteSet(MemThreads) /\ Numbers(Flight, MemThreads) BY FlightNumbers DEF Books
<1>2. MemTypeOK' BY DEF Books
<1>3. \A u \in MemThreads : InFlight(u)' \in 0 .. Width - 1 BY <1>2, NumbersThen DEF NumbersIn
<1>4. \A u \in MemThreads : F[u] = InFlight(u)' BY DEF Flight
<1>5. \A u \in MemThreads : Flight[u] = InFlight(u) BY DEF Flight
<1>6. Numbers(F, MemThreads) BY <1>3, <1>4 DEF Numbers
<1>7. \A u \in MemThreads \ {t} : Flight[u] = F[u]
  <2>1. \A u \in MemThreads \ {t} : InFlight(u)' = InFlight(u) BY OthersInFlight
  <2> QED BY <1>4, <1>5, <2>1
<1> HIDE DEF F
<1>8. Total(F, MemThreads) = Total(Flight, MemThreads) - Flight[t] + F[t] BY <1>1, <1>6, <1>7, TotalOne
<1> QED BY <1>4, <1>5, <1>8 DEF F

LEMMA SizeMoves ==
    ASSUME Books, Books', NEW t \in MemThreads, Gives(t)
    PROVE  Total(size, Blocks)' = Total(size, Blocks) - Old(t) + New(t)
<1> DEFINE b == op[t].block
<1>1. b \in Blocks /\ size'[b] = New(t) /\ size[b] = Old(t)
      /\ \A c \in Blocks \ {b} : size'[c] = size[c]
  BY GivesDoes
<1>2. IsFiniteSet(Blocks) /\ Numbers(size, Blocks) BY SizeNumbers DEF Books
<1>3. Numbers(size', Blocks)
  <2>1. \A c \in Blocks : size'[c] \in Int BY SizesFit DEF Books, MemTypeOK
  <2> QED BY <2>1 DEF Numbers
<1> HIDE DEF b
<1>4. Total(size', Blocks) = Total(size, Blocks) - size[b] + size'[b] BY <1>1, <1>2, <1>3, TotalOne
<1> QED BY <1>1, <1>4

\* What each action adds to what is live and in flight.
LEMMA OwingStep ==
    ASSUME Books, Books', NEW t \in MemThreads, Ask(t) \/ MemStep(t)
    PROVE  \/ Owing' = Owing /\ current' = current /\ ~Charge(t)
           \/ Charge(t) /\ Owing' = Owing + Delta(t)
           \/ Refund(t) /\ Owing' = Owing - Delta(t)
           \/ Discharge(t) /\ Owing' = Owing - New(t)
<1> DEFINE A == Total(size, Blocks)
           B == Total(Flight, MemThreads)
<1>1. A \in Nat /\ B \in Nat BY SizeNumbers, FlightNumbers DEF Books
<1>2. B' = B - InFlight(t) + InFlight(t)' BY FlightMoves
<1>3. Owing = A + B /\ Owing' = A' + B' BY DEF Owing
<1>4. size' = size => A' = A OBVIOUS
<1>5. Gives(t) => A' = A - Old(t) + New(t) BY SizeMoves
<1>6. InFlight(t) \in Int /\ Delta(t) \in Int /\ New(t) \in Int /\ Old(t) \in Int BY Numbered DEF Books
<1> HIDE DEF A, B
<1>7. SameAsk(t) => size' = size /\ New(t)' = New(t) /\ Delta(t)' = Delta(t) /\ (Grows(t)' <=> Grows(t))
  BY SameAskMeans DEF SameAsk
<1>8. memPc[t] \in {"limit", "charge", "peak", "cas", "refund"} => Grows(t) BY DEF Books, Asked
<1> USE DEF InFlight
<1>9. ASSUME Ask(t) PROVE Owing' = Owing /\ current' = current /\ ~Charge(t)
  <2>1. InFlight(t) = 0 BY <1>9, AskDoes
  <2>2. InFlight(t)' = 0
    <3>1. memPc'[t] = (IF Grows(t)' THEN "limit" ELSE "system") BY <1>9, AskDoes
    <3> QED BY <3>1
  <2>3. size' = size /\ current' = current /\ memPc[t] = "idle" BY <1>9, AskDoes
  <2>4. ~Charge(t) BY <2>3 DEF Charge
  <2> QED BY <1>1, <1>2, <1>3, <1>4, <2>1, <2>2, <2>3, <2>4
<1>10. ASSUME LoadLimit(t) PROVE Owing' = Owing /\ current' = current /\ ~Charge(t)
  <2>1. memPc[t] = "limit" /\ memPc'[t] = "charge" /\ SameAsk(t) /\ current' = current BY <1>10, LoadLimitDoes
  <2>2. InFlight(t) = 0 /\ InFlight(t)' = 0 BY <2>1
  <2>3. ~Charge(t) BY <2>1 DEF Charge
  <2> QED BY <1>1, <1>2, <1>3, <1>4, <1>7, <2>1, <2>2, <2>3
<1>11. ASSUME Charge(t) PROVE Owing' = Owing + Delta(t)
  <2>1. memPc[t] = "charge" /\ memPc'[t] \in {"refund", "peak"} /\ SameAsk(t) BY <1>11, ChargeDoes
  <2>2. InFlight(t) = 0 /\ InFlight(t)' = Delta(t) BY <2>1, <1>7, <1>8
  <2> QED BY <1>1, <1>2, <1>3, <1>4, <1>6, <1>7, <2>1, <2>2
<1>12. ASSUME LoadPeak(t) \/ RaisePeakFails(t) PROVE Owing' = Owing /\ current' = current /\ ~Charge(t)
  <2>1. memPc[t] \in {"peak", "cas"} /\ memPc'[t] \in {"cas", "system"} /\ SameAsk(t) /\ current' = current
    BY <1>12, CompareDoes DEF Onward
  <2>2. InFlight(t) = Delta(t) /\ InFlight(t)' = Delta(t) BY <2>1, <1>7, <1>8
  <2>3. ~Charge(t) BY <2>1 DEF Charge
  <2> QED BY <1>1, <1>2, <1>3, <1>4, <1>6, <1>7, <2>1, <2>2, <2>3
<1>13. ASSUME RaisePeak(t) PROVE Owing' = Owing /\ current' = current /\ ~Charge(t)
  <2>1. memPc[t] = "cas" /\ memPc'[t] = "system" /\ SameAsk(t) /\ current' = current BY <1>13, RaisePeakDoes
  <2>2. InFlight(t) = Delta(t) /\ InFlight(t)' = Delta(t) BY <2>1, <1>7, <1>8
  <2>3. ~Charge(t) BY <2>1 DEF Charge
  <2> QED BY <1>1, <1>2, <1>3, <1>4, <1>6, <1>7, <2>1, <2>2, <2>3
<1>14. ASSUME Gives(t) PROVE Owing' = Owing /\ current' = current /\ ~Charge(t)
  <2>1. memPc[t] = "system" /\ current' = current BY <1>14, GivesDoes
  <2>2. InFlight(t)' = InFlight(t) + Old(t) - New(t)
    <3>1. CASE Grows(t)
      <4>1. memPc'[t] = "idle" BY <1>14, <3>1, GivesDoes
      <4>2. InFlight(t) = Delta(t) /\ InFlight(t)' = 0 BY <2>1, <3>1, <4>1
      <4>3. Delta(t) = New(t) - Old(t) BY <3>1 DEF Delta
      <4> QED BY <1>6, <4>2, <4>3
    <3>2. CASE ~Grows(t)
      <4>1. memPc'[t] = "discharge" /\ New(t)' = Delta(t) BY <1>14, <3>2, GivesDoes
      <4>2. InFlight(t) = 0 /\ InFlight(t)' = Delta(t) BY <2>1, <3>2, <4>1
      <4>3. Delta(t) = Old(t) - New(t) BY <3>2 DEF Delta
      <4> QED BY <1>6, <4>2, <4>3
    <3> QED BY <3>1, <3>2
  <2>3. ~Charge(t) BY <2>1 DEF Charge
  <2> HIDE DEF InFlight
  <2> QED BY <1>1, <1>2, <1>3, <1>5, <1>6, <1>14, <2>1, <2>2, <2>3
<1>15. ASSUME GivesNot(t) PROVE Owing' = Owing /\ current' = current /\ ~Charge(t)
  <2>1. memPc[t] = "system" /\ memPc'[t] = (IF Grows(t) THEN "refund" ELSE "idle") /\ SameAsk(t) /\ current' = current
    BY <1>15, GivesNotDoes
  <2>2. InFlight(t)' = InFlight(t) BY <2>1, <1>7
  <2>3. ~Charge(t) BY <2>1 DEF Charge
  <2> HIDE DEF InFlight
  <2> QED BY <1>1, <1>2, <1>3, <1>4, <1>6, <1>7, <2>1, <2>2, <2>3
<1>16. ASSUME Refund(t) PROVE Owing' = Owing - Delta(t)
  <2>1. memPc[t] = "refund" /\ memPc'[t] = "idle" /\ SameAsk(t) BY <1>16, RefundDoes
  <2>2. InFlight(t) = Delta(t) /\ InFlight(t)' = 0 BY <2>1, <1>8
  <2> QED BY <1>1, <1>2, <1>3, <1>4, <1>6, <1>7, <2>1, <2>2
<1>17. ASSUME Discharge(t) PROVE Owing' = Owing - New(t)
  <2>1. memPc[t] = "discharge" /\ memPc'[t] = "idle" /\ size' = size BY <1>17, DischargeDoes
  <2>2. InFlight(t) = New(t) /\ InFlight(t)' = 0 BY <2>1
  <2> QED BY <1>1, <1>2, <1>3, <1>4, <1>6, <2>1, <2>2
<1> QED BY <1>9, <1>10, <1>11, <1>12, <1>13, <1>14, <1>15, <1>16, <1>17 DEF MemStep

\* The counter has gone round some times.
Rounds == \E k \in Int : Owing = current + Width * k

LEMMA WrapOf ==
    ASSUME NEW o \in Int, NEW c \in Int, NEW k \in Int, o = c + Width * k, NEW d \in Int, NEW e,
           e = (c + d) % Width
    PROVE  \E q \in Int : o + d = e + Width * q
<1>1. PICK q \in Int : c + d = Width * q + e BY ModOfInt
<1>2. Width \in Int BY BytesAssumption
<1>3. e \in Int BY ModOfInt, BytesAssumption
<1>4. Width * (k + q) = Width * k + Width * q /\ k + q \in Int BY <1>2
<1>5. Width * k \in Int /\ Width * q \in Int /\ Width * (k + q) \in Int BY <1>2, <1>4
<1>6. \A a, b \in Int : o = c + a /\ c + d = b + e => o + d = e + (a + b) BY <1>3
<1>7. o + d = e + (Width * k + Width * q) BY <1>1, <1>5, <1>6
<1>8. o + d = e + Width * (k + q) BY <1>4, <1>7
<1> QED BY <1>4, <1>8

LEMMA RoundsKept == Books /\ Books' /\ Rounds /\ [MemNext]_memVars => Rounds'
<1> SUFFICES ASSUME Books, Books', Rounds, [MemNext]_memVars PROVE Rounds' OBVIOUS
<1>1. PICK k \in Int : Owing = current + Width * k BY DEF Rounds
<1>2. Owing \in Int /\ current \in Int BY OwingNat, BytesAssumption DEF Books, MemTypeOK
<1>3. ASSUME NEW t \in MemThreads, Ask(t) \/ MemStep(t) PROVE Rounds'
  <2>1. Delta(t) \in Int /\ New(t) \in Int BY Numbered DEF Books
  <2>2. CASE Owing' = Owing /\ current' = current BY <1>1, <2>2 DEF Rounds
  <2>3. CASE Charge(t) /\ Owing' = Owing + Delta(t)
    <3>1. current' = (current + Delta(t)) % Width BY <2>3, ChargeDoes
    <3>2. Delta(t) \in Int BY <2>1
    <3> DEFINE d == Delta(t)
               e == current'
    <3>3. d \in Int /\ e = (current + d) % Width BY <3>1, <3>2
    <3> HIDE DEF d, e
    <3>4. \E q \in Int : Owing + d = e + Width * q BY <1>1, <1>2, <3>3, WrapOf
    <3> QED BY <2>3, <3>4 DEF Rounds, d, e
  <2>4. CASE Refund(t) /\ Owing' = Owing - Delta(t)
    <3>1. current' = (current - Delta(t)) % Width BY <2>4, RefundDoes
    <3>2. current - Delta(t) = current + (-Delta(t)) /\ -Delta(t) \in Int
          /\ Owing - Delta(t) = Owing + (-Delta(t))
      BY <1>2, <2>1
    <3>3. \E q \in Int : Owing + (-Delta(t)) = current' + Width * q BY <1>1, <1>2, <3>1, <3>2, WrapOf
    <3> QED BY <2>4, <3>2, <3>3 DEF Rounds
  <2>5. CASE Discharge(t) /\ Owing' = Owing - New(t)
    <3>1. current' = (current - New(t)) % Width BY <2>5, DischargeDoes
    <3>2. current - New(t) = current + (-New(t)) /\ -New(t) \in Int
          /\ Owing - New(t) = Owing + (-New(t))
      BY <1>2, <2>1
    <3>3. \E q \in Int : Owing + (-New(t)) = current' + Width * q BY <1>1, <1>2, <3>1, <3>2, WrapOf
    <3> QED BY <2>5, <3>2, <3>3 DEF Rounds
  <2> QED BY <1>3, <2>2, <2>3, <2>4, <2>5, OwingStep
<1>4. ASSUME SetLimit PROVE Rounds'
  <2>1. size' = size /\ current' = current /\ \A t \in MemThreads : InFlight(t)' = InFlight(t)
    BY <1>4, SetLimitDoes
  <2>2. Flight' = Flight BY <2>1 DEF Flight
  <2>3. Owing' = Owing BY <2>1, <2>2 DEF Owing
  <2> QED BY <1>1, <2>1, <2>3 DEF Rounds
<1>5. ASSUME UNCHANGED memVars PROVE Rounds'
  <2>1. Owing' = Owing /\ current' = current
    BY <1>5 DEF memVars, counters, locals, Owing, Flight, InFlight, Delta, Grows, New, Old
  <2> QED BY <1>1, <2>1 DEF Rounds
<1> QED BY <1>3, <1>4, <1>5 DEF MemNext

LEMMA InitRounds == MemInit => Rounds
<1> SUFFICES ASSUME MemInit PROVE Rounds OBVIOUS
<1>1. Books BY InitBooks
<1>2. IsFiniteSet(Blocks) /\ IsFiniteSet(MemThreads) BY BlocksAssumption, WorkerAssumption
<1>3. \A b \in Blocks : size[b] = 0 BY DEF MemInit
<1>4. \A t \in MemThreads : Flight[t] = 0 BY DEF MemInit, Flight, InFlight
<1>5. Total(size, Blocks) = 0 BY <1>2, <1>3, TotalNone
<1>6. Total(Flight, MemThreads) = 0 BY <1>2, <1>4, TotalNone
<1>7. Owing = 0 /\ current = 0 BY <1>5, <1>6 DEF Owing, MemInit
<1>8. 0 = 0 + Width * 0 BY BytesAssumption
<1> QED BY <1>7, <1>8 DEF Rounds

LEMMA RoundsCount == Books /\ Rounds => Counted
<1> SUFFICES ASSUME Books, Rounds PROVE Counted OBVIOUS
<1>1. PICK k \in Int : Owing = current + Width * k BY DEF Rounds
<1>2. Owing \in Nat /\ current \in 0 .. Width - 1 BY OwingNat DEF Books, MemTypeOK
<1>3. Owing = Width * k + current BY <1>1, <1>2, BytesAssumption
<1>4. Owing % Width = current BY <1>2, <1>3, BytesAssumption, ModOf
<1>5. Owing = Live + MapThenSumSet(InFlight, MemThreads) BY LiveIs, FlightIs DEF Owing
<1> QED BY <1>4, <1>5 DEF Counted

\* No byte is lost or counted twice by the allocator, whatever the order of
\* charges, refunds and failures, also when the counter wraps.
THEOREM BytesAreCounted == MemSpec => []Counted
<1> DEFINE I == Books /\ Rounds
<1>1. MemInit => I BY InitBooks, InitRounds
<1>2. I /\ [MemNext]_memVars => I' BY BooksKept, RoundsKept
<1>3. I => Counted BY RoundsCount
<1> QED BY <1>1, <1>2, <1>3, PTL DEF MemSpec

-----------------------------------------------------------------------------
(* The peak and the ceiling, as long as the counter does not wrap *)

\* What is live and in flight fits the counter.
NoWrap == Live + MapThenSumSet(InFlight, MemThreads) < Width

LEMMA Unwrapped == ASSUME Books, Rounds, NoWrap PROVE current = Owing
<1>1. Owing = Live + MapThenSumSet(InFlight, MemThreads) BY LiveIs, FlightIs DEF Owing
<1>2. Owing \in Nat /\ Owing < Width /\ Width \in Nat \ {0} BY <1>1, OwingNat, BytesAssumption DEF NoWrap, Books
<1>3. Owing \in 0 .. Width - 1 /\ current \in 0 .. Width - 1 BY <1>2 DEF Books, MemTypeOK
<1>4. PICK k \in Int : Owing = current + Width * k BY DEF Rounds
<1>5. Width * 0 + Owing = Width * k + current BY <1>2, <1>3, <1>4
<1> QED BY <1>2, <1>3, <1>4, <1>5, SameQuotient

Bytes == Total(size, Blocks)
Weight(A) == Total(Deltas, A)

\* Growths charged that are not live yet.
Charged(t) == memPc[t] \in {"peak", "cas", "system"} /\ Grows(t)

LEMMA WeightNat ==
    ASSUME MemTypeOK, NEW A, A \subseteq MemThreads PROVE Weight(A) \in Nat /\ Bytes \in Nat
  BY FlightNumbers, SizeNumbers DEF Weight, Bytes

LEMMA WeightSame ==
    ASSUME MemTypeOK, NEW A, A \subseteq MemThreads, \A u \in A : Delta(u)' = Delta(u)
    PROVE  Weight(A)' = Weight(A)
<1> DEFINE D == Deltas'
<1>1. IsFiniteSet(A) /\ Numbers(Deltas, A) BY FlightNumbers
<1>2. \A u \in A : D[u] = Deltas[u] BY DEF Deltas
<1> HIDE DEF D
<1>3. Total(D, A) = Total(Deltas, A) BY <1>1, <1>2, TotalSame
<1> QED BY <1>3 DEF Weight, D

LEMMA WeightWith ==
    ASSUME MemTypeOK, NEW A, A \subseteq MemThreads, NEW t \in A
    PROVE  Weight(A) = Delta(t) + Weight(A \ {t})
<1>1. IsFiniteSet(A) /\ Numbers(Deltas, A) BY FlightNumbers
<1>2. Deltas[t] = Delta(t) BY DEF Deltas
<1> QED BY <1>1, <1>2, TotalAny DEF Weight

\* Threads whose charge is in flight weigh no more than what is counted.
WeightFits ==
    \A A \in SUBSET MemThreads :
        (\A u \in A : InFlight(u) = Delta(u)) => Bytes + Weight(A) <= Owing

LEMMA WeightFitsNow == MemTypeOK => WeightFits
<1> SUFFICES ASSUME MemTypeOK, NEW A \in SUBSET MemThreads, \A u \in A : InFlight(u) = Delta(u)
             PROVE  Bytes + Weight(A) <= Owing
  BY DEF WeightFits
<1>1. IsFiniteSet(A) /\ Numbers(Flight, A) /\ Total(Flight, A) \in Nat BY FlightNumbers
<1>2. \A u \in A : Flight[u] = Deltas[u] BY DEF Flight, Deltas
<1>3. Weight(A) = Total(Flight, A) BY <1>1, <1>2, TotalSame DEF Weight
<1>4. Total(Flight, MemThreads \ A) \in Nat BY FlightNumbers
<1>5. IsFiniteSet(MemThreads) /\ Numbers(Flight, MemThreads) BY FlightNumbers
<1>6. Total(Flight, MemThreads) = Total(Flight, A) + Total(Flight, MemThreads \ A) BY <1>5, TotalDisjoint
<1>7. Bytes \in Nat BY WeightNat
<1> QED BY <1>1, <1>3, <1>4, <1>6, <1>7 DEF Owing, Bytes

LEMMA WeightFitsThen == MemTypeOK' => WeightFits' BY WeightFitsNow, PTL

\* Those charged after a step of another thread were so before, with the same weight.
LEMMA KinBefore ==
    ASSUME Books, NEW t \in MemThreads, Ask(t) \/ MemStep(t), NEW u \in MemThreads \ {t}
    PROVE  /\ memPc'[u] = memPc[u] /\ now'[u] = now[u] /\ seen'[u] = seen[u] /\ lim'[u] = lim[u]
           /\ Charged(u)' <=> Charged(u)
           /\ memPc[u] # "idle" => Delta(u)' = Delta(u)
<1>1. memPc'[u] = memPc[u] /\ now'[u] = now[u] /\ seen'[u] = seen[u] /\ lim'[u] = lim[u]
  BY QuietStep DEF Quiet, Books
<1>2. CASE memPc[u] = "idle" BY <1>1, <1>2 DEF Charged
<1>3. CASE memPc[u] # "idle"
  <2>1. Delta(u)' = Delta(u) /\ (Grows(u)' <=> Grows(u)) BY <1>3, OthersKept
  <2> QED BY <1>1, <2>1 DEF Charged
<1> QED BY <1>2, <1>3

LEMMA BytesStep ==
    ASSUME Books, Books', NEW t \in MemThreads, Ask(t) \/ MemStep(t)
    PROVE  \/ Bytes' = Bytes
           \/ Gives(t) /\ Charged(t) /\ Bytes' = Bytes + Delta(t)
           \/ Gives(t) /\ ~Grows(t) /\ Bytes' <= Bytes
<1>1. CASE ~Gives(t)
  <2>1. size' = size
    BY <1>1 DEF MemStep, Ask, LoadLimit, Charge, LoadPeak, RaisePeak, RaisePeakFails, GivesNot, Refund, Discharge
  <2> QED BY <2>1 DEF Bytes
<1>2. CASE Gives(t)
  <2>1. Bytes' = Bytes - Old(t) + New(t) BY <1>2, SizeMoves DEF Bytes
  <2>2. Bytes \in Nat /\ Old(t) \in Int /\ New(t) \in Int BY WeightNat, Numbered DEF Books
  <2>3. memPc[t] = "system" BY <1>2, GivesDoes
  <2>4. CASE Grows(t) BY <1>2, <2>1, <2>2, <2>3, <2>4 DEF Charged, Delta
  <2>5. CASE ~Grows(t) BY <1>2, <2>1, <2>2, <2>5 DEF Grows
  <2> QED BY <2>4, <2>5
<1> QED BY <1>1, <1>2

\* A thread is charged by Charge, and stays so while it sees to the peak.
LEMMA ChargedBy ==
    ASSUME Books, NEW t \in MemThreads, Ask(t) \/ MemStep(t), Charged(t)'
    PROVE  /\ Charge(t) \/ LoadPeak(t) \/ RaisePeakFails(t) \/ RaisePeak(t)
           /\ SameAsk(t) /\ Delta(t)' = Delta(t) /\ (~Charge(t) => Charged(t))
<1>1. SameAsk(t) => Delta(t)' = Delta(t) /\ (Grows(t)' <=> Grows(t)) BY SameAskMeans
<1> USE DEF Charged
<1>2. ~Ask(t)
  <2>1. ASSUME Ask(t) PROVE FALSE
    <3>1. memPc'[t] = (IF Grows(t)' THEN "limit" ELSE "system") BY <2>1, AskDoes
    <3> QED BY <3>1
  <2> QED BY <2>1
<1>3. CASE LoadLimit(t) BY <1>3, LoadLimitDoes
<1>4. CASE Charge(t) BY <1>4, <1>1, ChargeDoes
<1>5. CASE LoadPeak(t) \/ RaisePeakFails(t) BY <1>5, <1>1, CompareDoes DEF Books, Asked
<1>6. CASE RaisePeak(t) BY <1>6, <1>1, RaisePeakDoes DEF Books, Asked
<1>7. CASE Gives(t)
  <2>1. memPc'[t] \in {"idle", "discharge"} BY <1>7, GivesDoes
  <2> QED BY <2>1
<1>8. CASE GivesNot(t)
  <2>1. memPc'[t] \in {"idle", "refund"} BY <1>8, GivesNotDoes
  <2> QED BY <2>1
<1>9. CASE Refund(t) BY <1>9, RefundDoes
<1>10. CASE Discharge(t) BY <1>10, DischargeDoes
<1> QED BY <1>2, <1>3, <1>4, <1>5, <1>6, <1>7, <1>8, <1>9, <1>10 DEF MemStep

-----------------------------------------------------------------------------
(* The peak *)

\* A thread that has read a peak below its total.
SeenBelow == \A t \in MemThreads : memPc[t] = "cas" => now[t] > seen[t]

\* The peak covers these growths, or one of them is about to raise it.
Covers(A) ==
    \/ Bytes + Weight(A) <= peak
    \/ \E s \in A : memPc[s] \in {"peak", "cas"} /\ Bytes + Weight(A) <= now[s]

PeakKnown == \A A \in SUBSET MemThreads : (\A u \in A : Charged(u)) => Covers(A)

LEMMA SeenStep ==
    ASSUME Books, SeenBelow, NEW t \in MemThreads, Ask(t) \/ MemStep(t)
    PROVE  SeenBelow'
<1>1. ASSUME NEW u \in MemThreads \ {t}, memPc'[u] = "cas" PROVE now'[u] > seen'[u]
  BY <1>1, KinBefore DEF SeenBelow
<1>2. ASSUME memPc'[t] = "cas" PROVE now'[t] > seen'[t]
  <2>1. CASE LoadPeak(t) \/ RaisePeakFails(t)
    <3>1. Onward(t, peak) BY <2>1, CompareDoes
    <3> QED BY <1>2, <3>1 DEF Onward
  <2>2. CASE Ask(t)
    <3>1. memPc'[t] \in {"limit", "system"} BY <2>2, AskDoes
    <3> QED BY <1>2, <3>1
  <2>3. CASE LoadLimit(t) BY <1>2, <2>3, LoadLimitDoes
  <2>4. CASE Charge(t) BY <1>2, <2>4, ChargeDoes
  <2>5. CASE RaisePeak(t) BY <1>2, <2>5, RaisePeakDoes
  <2>6. CASE Gives(t)
    <3>1. memPc'[t] \in {"idle", "discharge"} BY <2>6, GivesDoes
    <3> QED BY <1>2, <3>1
  <2>7. CASE GivesNot(t)
    <3>1. memPc'[t] \in {"idle", "refund"} BY <2>7, GivesNotDoes
    <3> QED BY <1>2, <3>1
  <2>8. CASE Refund(t) BY <1>2, <2>8, RefundDoes
  <2>9. CASE Discharge(t) BY <1>2, <2>9, DischargeDoes
  <2> QED BY <2>1, <2>2, <2>3, <2>4, <2>5, <2>6, <2>7, <2>8, <2>9 DEF MemStep
<1> QED BY <1>1, <1>2 DEF SeenBelow

LEMMA PeakGrows ==
    ASSUME Books, SeenBelow, NEW t \in MemThreads, Ask(t) \/ MemStep(t)
    PROVE  peak' >= peak
<1>1. peak \in Int BY BytesAssumption DEF Books, MemTypeOK
<1>2. CASE RaisePeak(t)
  <2>1. memPc[t] = "cas" /\ peak = seen[t] /\ peak' = now[t] BY <1>2, RaisePeakDoes
  <2>2. now[t] \in Int BY DEF Books, MemTypeOK
  <2> QED BY <1>1, <2>1, <2>2 DEF SeenBelow
<1>3. CASE ~RaisePeak(t)
  <2>1. peak' = peak
    BY <1>3 DEF MemStep, Ask, LoadLimit, Charge, LoadPeak, RaisePeakFails, Gives, GivesNot, Refund, Discharge, counters
  <2> QED BY <1>1, <2>1
<1> QED BY <1>2, <1>3

BytesTyped == Bytes \in Nat

LEMMA BytesNow == Books => BytesTyped BY WeightNat DEF Books, BytesTyped
LEMMA BytesLater == Books' => BytesTyped' BY BytesNow, PTL
LEMMA BytesThen == Books' => Bytes' \in Nat BY BytesLater DEF BytesTyped

LEMMA SumLess == ASSUME NEW a \in Int, NEW b \in Int, NEW c \in Int, NEW d, d = c, a <= b PROVE a + d <= b + c
  OBVIOUS
LEMMA LessThen == ASSUME NEW a \in Int, NEW b \in Int, NEW c \in Int, NEW d \in Int, a <= b, b <= c, c <= d PROVE a <= d
  OBVIOUS

LEMMA PeakStep ==
    ASSUME Books, Books', SeenBelow, PeakKnown, NEW t \in MemThreads, Ask(t) \/ MemStep(t), current' = Owing'
    PROVE  PeakKnown'
<1> SUFFICES ASSUME NEW A \in SUBSET MemThreads, \A u \in A : Charged(u)' PROVE Covers(A)'
  BY DEF PeakKnown
<1> DEFINE w == Weight(A)
<1>1. peak' >= peak BY PeakGrows
<1>2. peak \in Int /\ peak' \in Int /\ \A s \in MemThreads : now[s] \in Int
  BY BytesAssumption DEF Books, MemTypeOK
<1>3. Bytes \in Nat /\ w \in Nat BY WeightNat DEF Books
<1>4. \A u \in A \ {t} : Charged(u) /\ Delta(u)' = Delta(u) /\ memPc'[u] = memPc[u] /\ now'[u] = now[u]
  BY KinBefore DEF Charged
<1>5. CASE t \in A
  <2>1. /\ Charge(t) \/ LoadPeak(t) \/ RaisePeakFails(t) \/ RaisePeak(t)
        /\ SameAsk(t) /\ Delta(t)' = Delta(t) /\ (~Charge(t) => Charged(t))
    BY <1>5, ChargedBy
  <2>2. w' = w
    <3>1. \A u \in A : Delta(u)' = Delta(u) BY <1>4, <2>1
    <3> QED BY <3>1, WeightSame DEF Books
  <2>3. Bytes' = Bytes BY <2>1 DEF SameAsk, Bytes
  <2>4. CASE Charge(t)
    <3>1. memPc'[t] = "peak" /\ now'[t] = current'
      <4>1. memPc'[t] # "refund" BY <1>5 DEF Charged
      <4> QED BY <2>4, <4>1, ChargeDoes
    <3>2. \A u \in A : InFlight(u)' = Delta(u)' BY DEF Charged, InFlight
    <3>3. Bytes' + w' <= Owing' BY <3>2, WeightFitsThen DEF Books, WeightFits
    <3> QED BY <1>5, <3>1, <3>3 DEF Covers
  <2>5. CASE ~Charge(t)
    <3>1. Covers(A)
      <4>1. \A u \in A : Charged(u) BY <1>4, <2>1, <2>5
      <4> QED BY <4>1 DEF PeakKnown
    <3> HIDE DEF w
    <3>2. CASE Bytes + Weight(A) <= peak
      <4>1. Bytes' + w' <= peak' BY <1>1, <1>2, <1>3, <2>2, <2>3, <3>2 DEF w
      <4> QED BY <4>1 DEF Covers, w
    <3>3. ASSUME NEW s \in A, memPc[s] \in {"peak", "cas"}, Bytes + Weight(A) <= now[s] PROVE Covers(A)'
      <4>1. Bytes' + w' <= now[s] BY <2>2, <2>3, <3>3 DEF w
      <4>2. CASE s # t
        <5>1. memPc'[s] \in {"peak", "cas"} /\ now'[s] = now[s] BY <1>4, <3>3, <4>2
        <5> QED BY <4>1, <5>1 DEF Covers, w
      <4>3. CASE s = t
        <5>1. CASE LoadPeak(t) \/ RaisePeakFails(t)
          <6>1. Onward(t, peak) /\ peak' = peak BY <5>1, CompareDoes
          <6>2. CASE memPc'[t] = "cas" /\ now'[t] = now[t] BY <3>3, <4>1, <4>3, <6>2 DEF Covers, w
          <6>3. CASE now[t] <= peak
            <7>1. Bytes' + w' <= peak' BY <1>2, <1>3, <2>2, <2>3, <4>1, <4>3, <6>1, <6>3
            <7> QED BY <7>1 DEF Covers, w
          <6> QED BY <6>1, <6>2, <6>3 DEF Onward
        <5>2. CASE RaisePeak(t)
          <6>1. peak' = now[t] BY <5>2, RaisePeakDoes
          <6> QED BY <4>1, <4>3, <6>1 DEF Covers, w
        <5> QED BY <2>1, <2>5, <5>1, <5>2
      <4> QED BY <4>2, <4>3
    <3> QED BY <3>1, <3>2, <3>3 DEF Covers
  <2> QED BY <2>4, <2>5
<1>6. CASE t \notin A
  <2>1. w' = w
    <3>1. \A u \in A : Delta(u)' = Delta(u) BY <1>4, <1>6
    <3> QED BY <3>1, WeightSame DEF Books
  <2>2. \A s \in A : memPc'[s] = memPc[s] /\ now'[s] = now[s] /\ Charged(s) BY <1>4, <1>6
  <2>3. CASE Bytes' <= Bytes
    <3>1. Covers(A) BY <2>2 DEF PeakKnown
    <3>2. Bytes' + w' <= Bytes + w
      <4>1. Bytes' \in Int BY BytesThen
      <4>2. Bytes \in Int /\ w \in Int BY <1>3
      <4> QED BY <2>1, <2>3, <4>1, <4>2, SumLess
    <3>3. Bytes' + w' \in Int /\ Bytes + w \in Int BY <1>3, <2>1, BytesThen
    <3>4. CASE Bytes + w <= peak
      <4>1. Bytes' + w' <= peak' BY <1>1, <1>2, <3>2, <3>3, <3>4, LessThen
      <4> QED BY <4>1 DEF Covers
    <3>5. ASSUME NEW s \in A, memPc[s] \in {"peak", "cas"}, Bytes + w <= now[s] PROVE Covers(A)'
      <4>1. now[s] \in Int BY <1>2
      <4>2. Bytes' + w' <= now[s] BY <3>2, <3>3, <3>5, <4>1, LessThen
      <4>3. memPc'[s] = memPc[s] /\ now'[s] = now[s] BY <2>2
      <4> QED BY <3>5, <4>2, <4>3 DEF Covers
    <3> QED BY <3>1, <3>4, <3>5 DEF Covers
  <2>4. CASE Gives(t) /\ Charged(t) /\ Bytes' = Bytes + Delta(t)
    <3> DEFINE B == A \cup {t}
    <3>1. Weight(B) = Delta(t) + w
      <4>1. B \ {t} = A /\ t \in B /\ B \subseteq MemThreads BY <1>6
      <4> HIDE DEF B
      <4>2. Weight(B) = Delta(t) + Weight(B \ {t}) BY <4>1, WeightWith DEF Books
      <4> QED BY <4>1, <4>2
    <3>2. Covers(B)
      <4>1. \A u \in B : Charged(u) BY <2>2, <2>4
      <4> QED BY <4>1 DEF PeakKnown
    <3>3. Bytes' + w' = Bytes + Weight(B)
      <4>1. Delta(t) \in Int BY Numbered DEF Books
      <4> HIDE DEF B, w
      <4> QED BY <1>3, <2>1, <2>4, <3>1, <4>1
    <3>4. memPc[t] = "system" BY <2>4, GivesDoes
    <3>5. CASE Bytes + Weight(B) <= peak
      <4>1. Weight(B) \in Nat BY WeightNat DEF Books
      <4> HIDE DEF B, w
      <4>2. Bytes + Weight(B) \in Int BY <1>3, <4>1
      <4>3. Bytes' + w' <= peak' BY <1>1, <1>2, <3>3, <3>5, <4>2, LessThen
      <4> QED BY <4>3 DEF Covers, w
    <3>6. ASSUME NEW s \in B, memPc[s] \in {"peak", "cas"}, Bytes + Weight(B) <= now[s] PROVE Covers(A)'
      <4>1. s \in A BY <3>4, <3>6
      <4> QED BY <2>2, <3>3, <3>6, <4>1 DEF Covers
    <3> QED BY <3>2, <3>5, <3>6 DEF Covers
  <2> QED BY <2>3, <2>4, BytesStep, <1>3
<1> QED BY <1>5, <1>6

-----------------------------------------------------------------------------
(* The ceiling *)

\* A charge about to be tested against a ceiling that is no longer set.
Stale(t) == memPc[t] = "charge" /\ lim[t] # limit

\* Once the ceiling is set, what is live and charged, or charged against an
\* older ceiling, stays within what was allowed for.
Within(A) == (\A u \in A : Charged(u) \/ Stale(u)) => Bytes + Weight(A) <= allowed
StaleWithin(A) == (\A u \in A : Stale(u)) => limit + Weight(A) <= allowed

CeilingKnown == started /\ limit # 0 => \A A \in SUBSET MemThreads : Within(A) /\ StaleWithin(A)

LEMMA CeilingStays ==
    ASSUME NEW t, Ask(t) \/ MemStep(t)
    PROVE  limit' = limit /\ started' = started /\ allowed' = allowed
<1> USE DEF counters
<1> QED BY DEF MemStep, Ask, LoadLimit, Charge, LoadPeak, RaisePeak, RaisePeakFails, Gives, GivesNot, Refund, Discharge

LEMMA KinStale ==
    ASSUME Books, NEW t \in MemThreads, Ask(t) \/ MemStep(t), NEW u \in MemThreads \ {t}
    PROVE  Stale(u)' <=> Stale(u)
<1>1. limit' = limit BY CeilingStays
<1> QED BY <1>1, KinBefore DEF Stale

LEMMA NewlyStale ==
    ASSUME Books, NEW t \in MemThreads, Ask(t) \/ MemStep(t) PROVE ~Stale(t)'
<1> SUFFICES ASSUME Stale(t)' PROVE FALSE OBVIOUS
<1> USE DEF Stale
<1>1. limit' = limit BY CeilingStays
<1>2. CASE Ask(t)
  <2>1. memPc'[t] \in {"limit", "system"} BY <1>2, AskDoes
  <2> QED BY <2>1
<1>3. CASE LoadLimit(t) BY <1>1, <1>3, LoadLimitDoes
<1>4. CASE Charge(t) BY <1>4, ChargeDoes
<1>5. CASE LoadPeak(t) \/ RaisePeakFails(t) BY <1>5, CompareDoes DEF Onward
<1>6. CASE RaisePeak(t) BY <1>6, RaisePeakDoes
<1>7. CASE Gives(t)
  <2>1. memPc'[t] \in {"idle", "discharge"} BY <1>7, GivesDoes
  <2> QED BY <2>1
<1>8. CASE GivesNot(t)
  <2>1. memPc'[t] \in {"idle", "refund"} BY <1>8, GivesNotDoes
  <2> QED BY <2>1
<1>9. CASE Refund(t) BY <1>9, RefundDoes
<1>10. CASE Discharge(t) BY <1>10, DischargeDoes
<1> QED BY <1>2, <1>3, <1>4, <1>5, <1>6, <1>7, <1>8, <1>9, <1>10 DEF MemStep

LEMMA WeightSplit ==
    ASSUME MemTypeOK, NEW A, A \subseteq MemThreads, NEW C, C \subseteq A
    PROVE  Weight(A) = Weight(C) + Weight(A \ C)
<1>1. IsFiniteSet(A) /\ Numbers(Deltas, A) BY FlightNumbers
<1> QED BY <1>1, TotalDisjoint DEF Weight

LEMMA WeightLess ==
    ASSUME MemTypeOK, NEW A, A \subseteq MemThreads, NEW C, C \subseteq A
    PROVE  Weight(C) <= Weight(A)
<1>1. Weight(A) = Weight(C) + Weight(A \ C) BY WeightSplit
<1>2. Weight(C) \in Nat /\ Weight(A \ C) \in Nat BY WeightNat
<1> QED BY <1>1, <1>2

LEMMA CeilingStep ==
    ASSUME Books, Books', CeilingKnown, NEW t \in MemThreads, Ask(t) \/ MemStep(t), current' = Owing'
    PROVE  CeilingKnown'
<1>1. limit' = limit /\ started' = started /\ allowed' = allowed BY CeilingStays
<1> SUFFICES ASSUME started, limit # 0, NEW A \in SUBSET MemThreads PROVE Within(A)' /\ StaleWithin(A)'
  BY <1>1 DEF CeilingKnown
<1>2. \A B \in SUBSET MemThreads : Within(B) /\ StaleWithin(B) BY DEF CeilingKnown
<1> DEFINE w == Weight(A)
<1>3. allowed \in Int /\ limit \in Int
  <2>1. limit \in Nat BY LimitsAssumption, BytesAssumption DEF Books, MemTypeOK
  <2> QED BY <2>1 DEF Books, MemTypeOK
<1>4. Bytes \in Int /\ w \in Int /\ Bytes' \in Int /\ Delta(t) \in Int
  <2>1. Bytes \in Nat /\ w \in Nat BY WeightNat DEF Books
  <2>2. Bytes' \in Nat BY BytesThen
  <2> QED BY <2>1, <2>2, Numbered DEF Books
<1>5. ASSUME \A u \in A : Stale(u)' PROVE limit' + w' <= allowed'
  <2>1. t \notin A BY <1>5, NewlyStale
  <2>2. \A u \in A : Stale(u) BY <1>5, <2>1, KinStale
  <2>3. \A u \in A : Delta(u)' = Delta(u)
    <3>1. \A u \in A : memPc[u] # "idle" BY <2>2 DEF Stale
    <3> QED BY <2>1, <3>1, KinBefore
  <2>4. w' = w BY <2>3, WeightSame DEF Books
  <2>5. limit + w <= allowed BY <1>2, <2>2 DEF StaleWithin
  <2> QED BY <1>1, <2>4, <2>5
<1>6. ASSUME \A u \in A : Charged(u)' \/ Stale(u)' PROVE Bytes' + w' <= allowed'
  <2>1. \A u \in A \ {t} : (Charged(u) \/ Stale(u)) /\ Delta(u)' = Delta(u)
    <3>1. \A u \in A \ {t} : Charged(u) \/ Stale(u) BY <1>6, KinBefore, KinStale
    <3>2. \A u \in A \ {t} : memPc[u] # "idle" BY <3>1 DEF Charged, Stale
    <3> QED BY <3>1, <3>2, KinBefore
  <2>2. CASE t \notin A
    <3>1. w' = w
      <4>1. \A u \in A : Delta(u)' = Delta(u) BY <2>1, <2>2
      <4> QED BY <4>1, WeightSame DEF Books
    <3>2. CASE Bytes' <= Bytes
      <4>1. Bytes + w <= allowed BY <1>2, <2>1, <2>2 DEF Within
      <4>2. Bytes' + w' <= Bytes + w BY <1>4, <3>1, <3>2, SumLess
      <4>3. Bytes' + w' \in Int /\ Bytes + w \in Int BY <1>4, <3>1
      <4>4. allowed <= allowed BY <1>3
      <4>5. Bytes' + w' <= allowed BY <1>3, <4>1, <4>2, <4>3, <4>4, LessThen
      <4> QED BY <1>1, <4>5
    <3>3. CASE Charged(t) /\ Bytes' = Bytes + Delta(t)
      <4> DEFINE B == A \cup {t}
      <4>1. B \ {t} = A /\ t \in B /\ B \in SUBSET MemThreads /\ \A u \in B : Charged(u) \/ Stale(u)
        BY <2>1, <2>2, <3>3
      <4> HIDE DEF B
      <4>2. Weight(B) = Delta(t) + Weight(A) BY <4>1, WeightWith DEF Books
      <4>3. Bytes + Weight(B) <= allowed BY <1>2, <4>1 DEF Within
      <4>4. Bytes' + w' = Bytes + Weight(B) BY <1>4, <3>1, <3>3, <4>2
      <4> QED BY <1>1, <4>3, <4>4
    <3> QED BY <1>4, <3>2, <3>3, BytesStep
  <2>3. CASE t \in A
    <3>1. Charged(t)' BY <1>6, <2>3, NewlyStale
    <3>2. /\ Charge(t) \/ LoadPeak(t) \/ RaisePeakFails(t) \/ RaisePeak(t)
          /\ SameAsk(t) /\ Delta(t)' = Delta(t) /\ (~Charge(t) => Charged(t))
      BY <3>1, ChargedBy
    <3>3. w' = w
      <4>1. \A u \in A : Delta(u)' = Delta(u) BY <2>1, <3>2
      <4> QED BY <4>1, WeightSame DEF Books
    <3>4. Bytes' = Bytes BY <3>2 DEF SameAsk, Bytes
    <3>5. CASE Charged(t) \/ Stale(t)
      <4>1. Bytes + w <= allowed BY <1>2, <2>1, <3>5 DEF Within
      <4> QED BY <1>1, <3>3, <3>4, <4>1
    <3>6. CASE ~Charged(t) /\ ~Stale(t)
      <4>0. PICK C \in SUBSET A : \A u \in A : u \in C <=> Charged(u)'
        <5>1. \E C : C = {u \in A : Charged(u)'} OBVIOUS
        <5> QED BY <5>1
      <4>1. Charge(t) BY <3>2, <3>6
      <4>2. memPc[t] = "charge" /\ memPc'[t] # "refund" BY <3>1, <4>1, ChargeDoes DEF Charged
      <4>3. lim[t] = limit BY <3>6, <4>2 DEF Stale
      <4>4. current' <= limit
        <5>1. ~(lim[t] # 0 /\ current' > lim[t]) BY <4>1, <4>2, ChargeDoes
        <5>2. current' \in Int BY BytesAssumption DEF Books, MemTypeOK
        <5> QED BY <1>3, <4>3, <5>1, <5>2
      <4>5. C \subseteq A /\ \A u \in C : InFlight(u)' = Delta(u)' 
        <5>1. C \subseteq A /\ \A u \in C : Charged(u)' BY <4>0
        <5> QED BY <5>1 DEF Charged, InFlight
      <4>6. \A u \in A \ C : Stale(u)
        <5>1. \A u \in A \ C : Stale(u)' /\ u # t BY <1>6, <3>1, <4>0
        <5> QED BY <5>1, KinStale
      <4>7. \A u \in A : Delta(u)' = Delta(u) BY <2>1, <3>2
      <4>8. Bytes' + Weight(C)' <= Owing' BY <4>5, WeightFitsThen DEF Books, WeightFits
      <4>9. Weight(C)' = Weight(C) BY <4>5, <4>7, WeightSame DEF Books
      <4>10. limit + Weight(A \ C) <= allowed BY <1>2, <4>6 DEF StaleWithin
      <4>11. w = Weight(C) + Weight(A \ C) BY <4>5, WeightSplit DEF Books
      <4>12. Weight(C) \in Int /\ Weight(A \ C) \in Int
        <5>1. Weight(C) \in Nat BY <4>5, WeightNat DEF Books
        <5>2. Weight(A \ C) \in Nat BY WeightNat DEF Books
        <5> QED BY <5>1, <5>2
      <4>13. Bytes + Weight(C) <= limit
        <5>1. Bytes + Weight(C) <= current' BY <3>4, <4>8, <4>9
        <5>2. current' \in Int BY BytesAssumption DEF Books, MemTypeOK
        <5>3. Bytes + Weight(C) \in Int BY <1>4, <4>12
        <5> QED BY <1>3, <4>4, <5>1, <5>2, <5>3
      <4>14. Bytes + (Weight(C) + Weight(A \ C)) <= allowed BY <1>3, <1>4, <4>10, <4>12, <4>13
      <4> QED BY <1>1, <3>3, <3>4, <4>11, <4>14
    <3> QED BY <3>5, <3>6
  <2> QED BY <2>2, <2>3
<1> QED BY <1>5, <1>6 DEF Within, StaleWithin

LEMMA CeilingSet ==
    ASSUME Books, SetLimit, current = Owing
    PROVE  CeilingKnown'
<1> SUFFICES ASSUME NEW A \in SUBSET MemThreads PROVE Within(A)' /\ StaleWithin(A)'
  BY DEF CeilingKnown
<1> DEFINE w == Weight(A)
           e == Weight(Early)
           m == Max({limit', current})
<1>1. /\ memPc' = memPc /\ size' = size
      /\ \A u \in MemThreads : Delta(u)' = Delta(u) /\ (Grows(u)' <=> Grows(u))
  BY SetLimitDoes
<1>2. limit' \in Int /\ current \in Int BY LimitsAssumption, BytesAssumption DEF SetLimit, Books, MemTypeOK
<1>3. m \in Int /\ m >= limit' /\ m >= current BY <1>2, LargerOf
<1>4. allowed' = m + e BY DeltasAre DEF SetLimit, Weight
<1>5. Early \subseteq MemThreads BY DEF Early
<1>6. e \in Int
  <2>1. e \in Nat BY <1>5, WeightNat DEF Books
  <2> QED BY <2>1
<1>7. w' = w BY <1>1, WeightSame DEF Books
<1>8. Bytes' = Bytes BY <1>1 DEF Bytes
<1>9. \A u \in A : Stale(u)' => u \in Early BY <1>1 DEF Stale, Early
<1>10. ASSUME NEW S \in SUBSET A, \A u \in S : Stale(u)' PROVE Weight(S) <= e
  <2>1. S \subseteq Early BY <1>9, <1>10
  <2> QED BY <1>5, <2>1, WeightLess DEF Books
<1> HIDE DEF e, m
<1>11. ASSUME \A u \in A : Stale(u)' PROVE limit' + w' <= allowed'
  <2>1. A \in SUBSET A OBVIOUS
  <2>2. w <= e BY <1>10, <1>11, <2>1
  <2>3. w \in Int
    <3>1. w \in Nat BY WeightNat DEF Books
    <3> QED BY <3>1
  <2>4. limit' + w <= m + e BY <1>2, <1>3, <1>6, <2>2, <2>3
  <2> QED BY <1>4, <1>7, <2>4
<1>12. ASSUME \A u \in A : Charged(u)' \/ Stale(u)' PROVE Bytes' + w' <= allowed'
  <2>1. PICK C \in SUBSET A : \A u \in A : u \in C <=> Charged(u)
    <3>1. \E C : C = {u \in A : Charged(u)} OBVIOUS
    <3> QED BY <3>1
  <2>2. \A u \in A : Charged(u)' <=> Charged(u) BY <1>1 DEF Charged
  <2>3. \A u \in C : InFlight(u) = Delta(u) BY <2>1 DEF Charged, InFlight
  <2>4. Bytes + Weight(C) <= Owing BY <2>3, WeightFitsNow DEF Books, WeightFits
  <2>5. Weight(A \ C) <= e
    <3>1. \A u \in A \ C : Stale(u)' BY <1>12, <2>1, <2>2
    <3>2. A \ C \in SUBSET A OBVIOUS
    <3> QED BY <1>10, <3>1, <3>2
  <2>6. w = Weight(C) + Weight(A \ C) BY WeightSplit DEF Books
  <2>7. Bytes \in Nat /\ Weight(C) \in Nat BY WeightNat DEF Books
  <2>8. Weight(A \ C) \in Nat BY WeightNat DEF Books
  <2> HIDE DEF w
  <2>9. Bytes + Weight(C) <= m BY <1>2, <1>3, <2>4, <2>7
  <2>10. Bytes + (Weight(C) + Weight(A \ C)) <= m + e BY <1>3, <1>6, <2>5, <2>7, <2>8, <2>9
  <2>11. Bytes + w <= m + e BY <2>6, <2>10
  <2> QED BY <1>4, <1>7, <1>8, <2>11 DEF w
<1> QED BY <1>11, <1>12 DEF Within, StaleWithin

-----------------------------------------------------------------------------
(* The books are right *)

KeepInv == Books /\ Rounds /\ SeenBelow /\ PeakKnown /\ CeilingKnown

LEMMA InitKeep == MemInit => KeepInv
<1> SUFFICES ASSUME MemInit PROVE KeepInv OBVIOUS
<1>1. Books /\ Rounds BY InitBooks, InitRounds
<1>2. \A t \in MemThreads : memPc[t] = "idle" BY DEF MemInit
<1>3. SeenBelow BY <1>2 DEF SeenBelow
<1>4. CeilingKnown BY DEF CeilingKnown, MemInit
<1>5. PeakKnown
  <2>1. ASSUME NEW A \in SUBSET MemThreads, \A u \in A : Charged(u) PROVE Covers(A)
    <3>1. A = {} BY <1>2, <2>1 DEF Charged
    <3>2. Weight(A) = 0 BY <3>1, FS_EmptySet, TotalStep DEF Weight
    <3>3. Bytes = 0
      <4>1. IsFiniteSet(Blocks) /\ \A b \in Blocks : size[b] = 0 BY BlocksAssumption DEF MemInit
      <4> QED BY <4>1, TotalNone DEF Bytes
    <3>4. peak = 0 BY DEF MemInit
    <3> QED BY <3>2, <3>3, <3>4 DEF Covers
  <2> QED BY <2>1 DEF PeakKnown
<1> QED BY <1>1, <1>3, <1>4, <1>5 DEF KeepInv

CountsOwing == current = Owing
LEMMA UnwrappedAlways == Books /\ Rounds /\ NoWrap => CountsOwing BY Unwrapped DEF CountsOwing
LEMMA UnwrappedThen == Books' /\ Rounds' /\ NoWrap' => CountsOwing' BY UnwrappedAlways, PTL

LEMMA KeepKept == KeepInv /\ NoWrap /\ NoWrap' /\ [MemNext]_memVars => KeepInv'
<1> SUFFICES ASSUME KeepInv, NoWrap, NoWrap', [MemNext]_memVars PROVE KeepInv' OBVIOUS
<1>1. Books' BY BooksKept DEF KeepInv
<1>2. Rounds' BY <1>1, RoundsKept DEF KeepInv
<1>3. current = Owing BY Unwrapped DEF KeepInv
<1>4. current' = Owing' BY <1>1, <1>2, UnwrappedThen DEF CountsOwing
<1>5. ASSUME NEW t \in MemThreads, Ask(t) \/ MemStep(t) PROVE SeenBelow' /\ PeakKnown' /\ CeilingKnown'
  <2>1. SeenBelow' BY <1>5, SeenStep DEF KeepInv
  <2>2. PeakKnown' BY <1>1, <1>4, <1>5, PeakStep DEF KeepInv
  <2>3. CeilingKnown' BY <1>1, <1>4, <1>5, CeilingStep DEF KeepInv
  <2> QED BY <2>1, <2>2, <2>3
<1>6. ASSUME SetLimit PROVE SeenBelow' /\ PeakKnown' /\ CeilingKnown'
  <2>1. /\ memPc' = memPc /\ now' = now /\ seen' = seen /\ size' = size /\ peak' = peak
        /\ \A u \in MemThreads : Delta(u)' = Delta(u) /\ (Grows(u)' <=> Grows(u))
    BY <1>6, SetLimitDoes
  <2>2. SeenBelow' BY <2>1 DEF KeepInv, SeenBelow
  <2>3. CeilingKnown' BY <1>3, <1>6, CeilingSet DEF KeepInv
  <2>4. ASSUME NEW A \in SUBSET MemThreads, \A u \in A : Charged(u)' PROVE Covers(A)'
    <3>1. \A u \in A : Charged(u) BY <2>1, <2>4 DEF Charged
    <3>2. Covers(A) BY <3>1 DEF KeepInv, PeakKnown
    <3>3. Weight(A)' = Weight(A) BY <2>1, WeightSame DEF KeepInv, Books
    <3>4. Bytes' = Bytes BY <2>1 DEF Bytes
    <3> QED BY <2>1, <3>2, <3>3, <3>4 DEF Covers
  <2> QED BY <2>2, <2>3, <2>4 DEF PeakKnown
<1>7. ASSUME UNCHANGED memVars PROVE SeenBelow' /\ PeakKnown' /\ CeilingKnown'
  <2> USE <1>7 DEF memVars, counters, locals, KeepInv
  <2>1. Deltas' = Deltas BY DEF Deltas, Delta, Grows, New, Old
  <2>2. \A A : Weight(A)' = Weight(A) BY <2>1 DEF Weight
  <2>3. Bytes' = Bytes BY DEF Bytes
  <2>4. \A t : (Charged(t)' <=> Charged(t)) /\ (Stale(t)' <=> Stale(t)) BY DEF Charged, Stale, Grows, New, Old
  <2>5. SeenBelow' BY DEF SeenBelow
  <2>6. \A A : Covers(A)' <=> Covers(A) BY <2>2, <2>3 DEF Covers
  <2>7. PeakKnown' BY <2>4, <2>6 DEF PeakKnown
  <2>8. \A A : (Within(A)' <=> Within(A)) /\ (StaleWithin(A)' <=> StaleWithin(A))
    BY <2>2, <2>3, <2>4 DEF Within, StaleWithin
  <2>9. CeilingKnown' BY <2>8 DEF CeilingKnown
  <2> QED BY <2>5, <2>7, <2>9
<1>8. SeenBelow' /\ PeakKnown' /\ CeilingKnown' BY <1>5, <1>6, <1>7 DEF MemNext
<1> QED BY <1>1, <1>2, <1>8 DEF KeepInv

LEMMA KeepExact == KeepInv => MemoryExact
<1> SUFFICES ASSUME KeepInv PROVE MemoryExact OBVIOUS
<1>1. Counted BY RoundsCount DEF KeepInv
<1> DEFINE none == {}
<1>2. Weight(none) = 0 BY FS_EmptySet, TotalStep DEF Weight
<1>3. Bytes \in Nat /\ Live = Bytes BY WeightNat, LiveIs DEF KeepInv, Books, Bytes
<1>4. none \in SUBSET MemThreads /\ \A u \in none : FALSE OBVIOUS
<1> HIDE DEF none
<1>5. PeakCovers
  <2>1. Covers(none) BY <1>4 DEF KeepInv, PeakKnown
  <2> QED BY <1>2, <1>3, <1>4, <2>1 DEF Covers, PeakCovers
<1>6. CeilingHolds
  <2>1. ASSUME started, limit # 0 PROVE Live <= allowed
    <3>1. Within(none) BY <1>4, <2>1 DEF KeepInv, CeilingKnown
    <3> QED BY <1>2, <1>3, <1>4, <3>1 DEF Within
  <2> QED BY <2>1 DEF CeilingHolds
<1> QED BY <1>1, <1>5, <1>6 DEF MemoryExact

\* The books of the allocator are exact for any threads, blocks, sizes and
\* ceilings, as long as what is live and in flight fits a usize.
THEOREM MemoryIsExact == MemSpec /\ []NoWrap => []MemoryExact
<1>1. MemInit => KeepInv BY InitKeep
<1>2. KeepInv /\ NoWrap /\ NoWrap' /\ [MemNext]_memVars => KeepInv' BY KeepKept
<1>3. KeepInv => MemoryExact BY KeepExact
<1> QED BY <1>1, <1>2, <1>3, PTL DEF MemSpec

-----------------------------------------------------------------------------
(* When the counter cannot wrap *)

LiveFits == Live <= System

LiveBytes == Live = Bytes
LEMMA LiveBytesNow == LiveBytes BY LiveIs DEF LiveBytes, Bytes
LEMMA LiveBytesThen == LiveBytes' BY LiveBytesNow, PTL

LEMMA LiveFitsKept == Books /\ Books' /\ LiveFits /\ [MemNext]_memVars => LiveFits'
<1> SUFFICES ASSUME Books, Books', LiveFits, [MemNext]_memVars PROVE LiveFits' OBVIOUS
<1>1. Live = Bytes /\ Live' = Bytes'
  <2>1. Live = Bytes BY LiveIs DEF Bytes
  <2>2. Live' = Bytes' BY LiveBytesThen DEF LiveBytes
  <2> QED BY <2>1, <2>2
<1>2. Bytes \in Nat /\ Bytes' \in Nat /\ System \in Nat BY WeightNat, BytesThen, BytesAssumption DEF Books
<1>3. ASSUME NEW t \in MemThreads, Ask(t) \/ MemStep(t) PROVE LiveFits'
  <2>1. CASE Bytes' <= Bytes BY <1>1, <1>2, <2>1 DEF LiveFits
  <2>2. CASE Gives(t) /\ Charged(t) /\ Bytes' = Bytes + Delta(t)
    <3>1. Live + Delta(t) <= System BY <2>2, GivesDoes DEF Charged
    <3> QED BY <1>1, <2>2, <3>1 DEF LiveFits
  <2> QED BY <1>2, <1>3, <2>1, <2>2, BytesStep
<1>4. ASSUME size' = size PROVE LiveFits'
  <2>1. Bytes' = Bytes BY <1>4 DEF Bytes
  <2> QED BY <1>1, <2>1 DEF LiveFits
<1> QED BY <1>3, <1>4 DEF MemNext, SetLimit, memVars

\* What is owed for a block was asked for it before.
OwesLess == \A t \in MemThreads : memPc[t] = "discharge" => \E n \in Sizes \cup {0} : New(t) <= n

LEMMA OnlyGives ==
    ASSUME Books, NEW t \in MemThreads, Ask(t) \/ MemStep(t), ~Gives(t) PROVE memPc'[t] # "discharge"
<1>1. CASE Ask(t)
  <2>1. memPc'[t] \in {"limit", "system"} BY <1>1, AskDoes
  <2> QED BY <2>1
<1>2. CASE LoadLimit(t) BY <1>2, LoadLimitDoes
<1>3. CASE Charge(t) BY <1>3, ChargeDoes
<1>4. CASE LoadPeak(t) \/ RaisePeakFails(t) BY <1>4, CompareDoes DEF Onward
<1>5. CASE RaisePeak(t) BY <1>5, RaisePeakDoes
<1>6. CASE GivesNot(t)
  <2>1. memPc'[t] \in {"idle", "refund"} BY <1>6, GivesNotDoes
  <2> QED BY <2>1
<1>7. CASE Refund(t) BY <1>7, RefundDoes
<1>8. CASE Discharge(t) BY <1>8, DischargeDoes
<1> QED BY <1>1, <1>2, <1>3, <1>4, <1>5, <1>6, <1>7, <1>8 DEF MemStep

LEMMA OwesLessKept == Books /\ OwesLess /\ [MemNext]_memVars => OwesLess'
<1> SUFFICES ASSUME Books, OwesLess, [MemNext]_memVars PROVE OwesLess' OBVIOUS
<1>1. ASSUME NEW t \in MemThreads, Ask(t) \/ MemStep(t) PROVE OwesLess'
  <2>1. ASSUME NEW u \in MemThreads \ {t}, memPc'[u] = "discharge" PROVE \E n \in Sizes \cup {0} : New(u)' <= n
    <3>1. memPc[u] = "discharge" BY <1>1, <2>1, KinBefore
    <3>2. New(u)' = New(u) BY <1>1, <3>1, OthersKept
    <3> QED BY <3>1, <3>2 DEF OwesLess
  <2>2. ASSUME memPc'[t] = "discharge" PROVE \E n \in Sizes \cup {0} : New(t)' <= n
    <3>1. CASE Gives(t)
      <4>1. ~Grows(t) /\ New(t)' = Delta(t) BY <2>2, <3>1, GivesDoes
      <4>2. Old(t) \in Sizes \cup {0} /\ Old(t) \in Int /\ New(t) \in Int /\ New(t) >= 0 BY Numbered DEF Books
      <4>3. Delta(t) = Old(t) - New(t) BY <4>1 DEF Delta
      <4>4. New(t)' <= Old(t) BY <4>1, <4>2, <4>3
      <4> QED BY <4>2, <4>4
    <3>2. CASE ~Gives(t) BY <1>1, <2>2, <3>2, OnlyGives
    <3> QED BY <3>1, <3>2
  <2> QED BY <2>1, <2>2 DEF OwesLess
<1>2. ASSUME SetLimit PROVE OwesLess' BY <1>2, SetLimitDoes DEF OwesLess
<1>3. ASSUME UNCHANGED memVars PROVE OwesLess' BY <1>3 DEF OwesLess, memVars, New
<1> QED BY <1>1, <1>2, <1>3 DEF MemNext

\* Nobody asks more than m, and as much for every thread beside all the
\* system gives fits the counter.
SmallRequests(m) ==
    /\ \A n \in Sizes : n <= m
    /\ System + m * Cardinality(MemThreads) < Width

LEMMA SmallFits ==
    ASSUME NEW m \in Nat, SmallRequests(m), Books, LiveFits, OwesLess
    PROVE  NoWrap
<1>1. IsFiniteSet(MemThreads) /\ Numbers(Flight, MemThreads) /\ Total(Flight, MemThreads) \in Nat
  BY FlightNumbers DEF Books
<1>2. \A n \in Sizes \cup {0} : n \in Int /\ n <= m BY SizesFit, BytesAssumption DEF SmallRequests
<1>3. ASSUME NEW t \in MemThreads PROVE Flight[t] <= m
  <2>1. Flight[t] = InFlight(t) BY DEF Flight
  <2>2. Old(t) \in Nat /\ New(t) \in Nat BY Numbered DEF Books
  <2>3. CASE memPc[t] = "discharge"
    <3>1. PICK n \in Sizes \cup {0} : New(t) <= n BY <2>3 DEF OwesLess
    <3>2. InFlight(t) = New(t) BY <2>3 DEF InFlight
    <3> QED BY <1>2, <2>1, <2>2, <3>1, <3>2
  <2>4. CASE memPc[t] \in {"peak", "cas", "system", "refund"} /\ Grows(t)
    <3>1. New(t) <= m BY <1>2, <2>4 DEF Books, Asked
    <3>2. InFlight(t) = New(t) - Old(t) BY <2>4 DEF InFlight, Delta
    <3> QED BY <2>1, <2>2, <3>1, <3>2
  <2>5. CASE memPc[t] # "discharge" /\ ~(memPc[t] \in {"peak", "cas", "system", "refund"} /\ Grows(t))
    <3>1. InFlight(t) = 0 BY <2>5 DEF InFlight
    <3> QED BY <2>1, <3>1
  <2> QED BY <2>3, <2>4, <2>5
<1>4. Total(Flight, MemThreads) <= m * Cardinality(MemThreads) BY <1>1, <1>3, TotalBound
<1>5. Cardinality(MemThreads) \in Nat BY <1>1, FS_CardinalityType
<1>6. m * Cardinality(MemThreads) \in Int BY <1>5
<1>7. Live \in Nat BY LiveIs, SizeNumbers DEF Books
<1>8. System \in Nat /\ Width \in Nat BY BytesAssumption
<1>9. Live + Total(Flight, MemThreads) < Width BY <1>1, <1>4, <1>6, <1>7, <1>8 DEF LiveFits, SmallRequests
<1> QED BY <1>9, FlightIs DEF NoWrap

\* Requests that are small beside the counter cannot make it wrap.
THEOREM SmallRequestsExact ==
    ASSUME NEW m \in Nat, SmallRequests(m) PROVE MemSpec => []MemoryExact
<1> DEFINE I == Books /\ LiveFits /\ OwesLess
<1>1. MemInit => I
  <2> SUFFICES ASSUME MemInit PROVE I OBVIOUS
  <2>1. Books BY InitBooks
  <2>2. LiveFits
    <3>1. IsFiniteSet(Blocks) /\ \A b \in Blocks : size[b] = 0 BY BlocksAssumption DEF MemInit
    <3>2. Live = 0 BY <3>1, LiveIs, TotalNone
    <3> QED BY <3>2, BytesAssumption DEF LiveFits
  <2>3. OwesLess BY DEF OwesLess, MemInit
  <2> QED BY <2>1, <2>2, <2>3
<1>2. I /\ [MemNext]_memVars => I' BY BooksKept, LiveFitsKept, OwesLessKept
<1>3. I => NoWrap BY SmallFits
<1>4. MemSpec => []NoWrap
  <2> HIDE DEF I
  <2> QED BY <1>1, <1>2, <1>3, PTL DEF MemSpec
<1> QED BY <1>4, MemoryIsExact, PTL
=============================================================================
