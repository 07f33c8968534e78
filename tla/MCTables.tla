------------------------------ MODULE MCTables ------------------------------
(***************************************************************************)
(* The shared tables and counters, side by side: the symbol table of three *)
(* threads, the memory counters of two and the declaration table.  A run   *)
(* lives in one part, the others stay where they start.                    *)
(***************************************************************************)
EXTENDS SymbolIntern, Memory, DeclTable

\* Symbols: three threads, two texts.
CONSTANTS t1, t2, t3, x, y
Three == {t1, t2, t3}
XY == {x, y}

\* Memory: a usize of five bits, a system that gives 9 bytes, and a request of
\* 15, more than the system ever has.
TwoThreads == {"main", "worker"}
TwoBlocks == {"b1", "b2"}
HugeSizes == {4, 15}
OneCeiling == {0, 6}

\* Declarations: five names whose hashes collide at the end of the table and wrap
\* around it; tombstones are purged above one.
CONSTANTS a, b, c, d, e
MCNames == {a, b, c, d, e}
MCHash == [n \in MCNames |->
    CASE n \in {a, b} -> 6 [] n = c -> 7 [] n \in {d, e} -> 15]

VARIABLE part
tablesVars == <<part, vars, memVars, declVars>>

TablesInit ==
    /\ part \in {"symbols", "memory", "declarations"}
    /\ Init /\ MemInit /\ DeclInit
    /\ part # "symbols" => arg = [t \in Threads |-> x]

TablesNext ==
    \/ part = "symbols" /\ Next /\ UNCHANGED <<part, memVars, declVars>>
    \/ part = "memory" /\ MemNext /\ UNCHANGED <<part, vars, declVars>>
    \/ part = "declarations" /\ DeclNext /\ UNCHANGED <<part, vars, memVars>>

TablesSpec == TablesInit /\ [][TablesNext]_tablesVars
=============================================================================
