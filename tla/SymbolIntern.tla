---------------------------- MODULE SymbolIntern ----------------------------
(***************************************************************************)
(* The global symbol table of src/src/util/symbol.rs behind the spin lock  *)
(* of src/src/util/sync.rs, one step per access to shared memory.          *)
(*                                                                         *)
(* The lock word is taken by a weak compare-and-swap, which may also fail  *)
(* on a free lock.  The table maps a text to the address of the Interned   *)
(* record leaked for it; an address is the position of the record in the   *)
(* sequence of leaked records, so equal addresses are pointer identity.    *)
(* Acquire on taking and Release on dropping the lock order the accesses   *)
(* made under it, so they are interleaved one at a time here.              *)
(***************************************************************************)
EXTENDS Naturals, Sequences

CONSTANTS
    Threads,     \* the threads that intern symbols
    Texts,       \* the texts they intern
    MaxCalls     \* bound: the calls a thread makes

ASSUME MaxCallsAssumption == MaxCalls \in Nat
ASSUME TextsAssumption == Texts # {}

VARIABLES
    locked,      \* SpinLock::locked
    table,       \* INTERN: table[s] is the address interned for s, 0 if none
    heap,        \* the leaked Interned records, by address: their texts
    pc,          \* pc[t]: what t does next
    arg,         \* arg[t]: the text of the call t is in
    got,         \* got[t]: the address the call has found or leaked so far
    last,        \* last[t]: the symbol the last call of t returned, 0 before
    calls        \* calls[t]: the calls t has made

vars == <<locked, table, heap, pc, arg, got, last, calls>>

Places == {"idle", "cas", "spin", "get", "leak", "insert", "drop"}

\* The places between taking the lock and dropping the guard.
Inside == {"get", "leak", "insert", "drop"}

TypeOK ==
    /\ locked \in BOOLEAN
    /\ heap \in Seq(Texts)
    /\ table \in [Texts -> 0 .. Len(heap)]
    /\ pc \in [Threads -> Places]
    /\ arg \in [Threads -> Texts]
    /\ got \in [Threads -> 0 .. Len(heap)]
    /\ last \in [Threads -> 0 .. Len(heap)]
    /\ calls \in [Threads -> 0 .. MaxCalls]

Init ==
    /\ locked = FALSE
    /\ table = [s \in Texts |-> 0]
    /\ heap = << >>
    /\ pc = [t \in Threads |-> "idle"]
    /\ arg \in [Threads -> Texts]
    /\ got = [t \in Threads |-> 0]
    /\ last = [t \in Threads |-> 0]
    /\ calls = [t \in Threads |-> 0]

Goto(t, place) == pc' = [pc EXCEPT ![t] = place]

-----------------------------------------------------------------------------
(* SpinLock::lock and the drop of its guard *)

CasTakes(t) ==
    /\ pc[t] = "cas"
    /\ ~locked
    /\ locked' = TRUE
    /\ Goto(t, "get")
    /\ UNCHANGED <<table, heap, arg, got, last, calls>>

\* The lock is taken, or the weak compare-and-swap fails spuriously.
CasFails(t) ==
    /\ pc[t] = "cas"
    /\ Goto(t, "spin")
    /\ UNCHANGED <<locked, table, heap, arg, got, last, calls>>

\* The relaxed load sees the lock free; until then spinning changes nothing.
SpinEnds(t) ==
    /\ pc[t] = "spin"
    /\ ~locked
    /\ Goto(t, "cas")
    /\ UNCHANGED <<locked, table, heap, arg, got, last, calls>>

\* The guard goes out of scope, and the call returns what it got.
DropGuard(t) ==
    /\ pc[t] = "drop"
    /\ locked' = FALSE
    /\ last' = [last EXCEPT ![t] = got[t]]
    /\ Goto(t, "idle")
    /\ UNCHANGED <<table, heap, arg, got, calls>>

-----------------------------------------------------------------------------
(* intern *)

Call(t, s) ==
    /\ pc[t] = "idle"
    /\ calls[t] < MaxCalls
    /\ calls' = [calls EXCEPT ![t] = @ + 1]
    /\ arg' = [arg EXCEPT ![t] = s]
    /\ Goto(t, "cas")
    /\ UNCHANGED <<locked, table, heap, got, last>>

\* Slip: the entry found is not what is returned.
GetHitsSlip(t) ==
    /\ pc[t] = "get"
    /\ table[arg[t]] # 0
    /\ Goto(t, "drop")
    /\ UNCHANGED <<locked, table, heap, arg, got, last, calls>>

GetHits(t) ==
    /\ pc[t] = "get"
    /\ table[arg[t]] # 0
    /\ got' = [got EXCEPT ![t] = table[arg[t]]]
    /\ Goto(t, "drop")
    /\ UNCHANGED <<locked, table, heap, arg, last, calls>>

\* Slip: a record is leaked without looking the text up.
GetMissesSlip(t) ==
    /\ pc[t] = "get"
    /\ Goto(t, "leak")
    /\ UNCHANGED <<locked, table, heap, arg, got, last, calls>>

GetMisses(t) ==
    /\ pc[t] = "get"
    /\ table[arg[t]] = 0
    /\ Goto(t, "leak")
    /\ UNCHANGED <<locked, table, heap, arg, got, last, calls>>

Leak(t) ==
    /\ pc[t] = "leak"
    /\ heap' = Append(heap, arg[t])
    /\ got' = [got EXCEPT ![t] = Len(heap) + 1]
    /\ Goto(t, "insert")
    /\ UNCHANGED <<locked, table, arg, last, calls>>

Insert(t) ==
    /\ pc[t] = "insert"
    /\ table' = [table EXCEPT ![arg[t]] = got[t]]
    /\ Goto(t, "drop")
    /\ UNCHANGED <<locked, heap, arg, got, last, calls>>

Step(t) ==
    \/ CasTakes(t)
    \/ CasFails(t)
    \/ SpinEnds(t)
    \/ DropGuard(t)
    \/ GetHits(t)
    \/ GetMisses(t)
    \/ Leak(t)
    \/ Insert(t)

Next == \E t \in Threads : Step(t) \/ \E s \in Texts : Call(t, s)

Spec == Init /\ [][Next]_vars

\* A thread that can run does; a weak compare-and-swap tried again and again
\* on a free lock succeeds in the end.  Each thread makes finitely many calls,
\* so this asks no fairness of the lock between threads that never stop.
Fairness ==
    \A t \in Threads :
        /\ WF_vars(Step(t))
        /\ SF_vars(CasTakes(t))

FairSpec == Spec /\ Fairness

-----------------------------------------------------------------------------
(* The other operations of Symbol, on the symbols a caller can hold: the null *)
(* symbol, numeric symbols and returned addresses.                            *)

Null == [kind |-> "null"]
Numeric(n) == [kind |-> "numeric", num |-> n]
Str(h) == [kind |-> "str", at |-> h]

Returned == {last[t] : t \in Threads} \ {0}
Held == {Null, Numeric(0), Numeric(1)} \cup {Str(h) : h \in Returned}

\* PartialEq: pointer identity of the records decides between strings.
SymbolEq(a, b) == a = b

\* Ord answers Equal: it compares the numbers or the texts, and the ranks of
\* symbols of different kinds, which differ.
CmpEqual(a, b) ==
    /\ a.kind = b.kind
    /\ a.kind = "numeric" => a.num = b.num
    /\ a.kind = "str" => heap[a.at] = heap[b.at]

-----------------------------------------------------------------------------
(* Properties *)

\* SpinLock (sync.rs): at most one thread is between taking the lock and
\* dropping its guard, and then the lock word is set.
Exclusion ==
    \A t \in Threads :
        pc[t] \in Inside =>
            /\ locked
            /\ \A u \in Threads \ {t} : pc[u] \notin Inside

\* symbol.rs promises that equal strings share one allocation: for every text
\* at most one record was ever leaked, whatever the threads raced for.
OneRecordPerText ==
    \A h, k \in 1 .. Len(heap) : heap[h] = heap[k] => h = k

\* Eq and Ord of Symbol must agree for a map keyed by symbols to work: one
\* compares addresses, the other texts, of symbols any two threads hold.
EqualityAgrees ==
    \A a, b \in Held : SymbolEq(a, b) <=> CmpEqual(a, b)

\* What a caller of the table relies on, whatever the threads race for.
Interned == Exclusion /\ OneRecordPerText /\ EqualityAgrees

\* Symbol::new implements the table of module InternTable: a call takes effect
\* at one instant, and a symbol once interned stays that of its text.
Table == INSTANCE InternTable WITH
            entry <- table,
            asked <- [t \in Threads |-> IF pc[t] = "idle" THEN {} ELSE {arg[t]}],
            last  <- last

Refines == Table!Spec

\* Every call of Symbol::new returns: no thread spins for ever while the
\* others stop calling (lock and intern).
CallsReturn ==
    \A t \in Threads : pc[t] # "idle" ~> pc[t] = "idle"
=============================================================================
