---------------------------- MODULE InternTable ----------------------------
(***************************************************************************)
(* What Symbol::new (src/src/util/symbol.rs) promises its callers: one     *)
(* table from texts to symbols that only grows.  A call takes effect at    *)
(* one instant between its start and its return, and answers the symbol    *)
(* the table then holds for its text, a fresh one the first time.          *)
(***************************************************************************)
EXTENDS Naturals

CONSTANTS Threads, Texts

VARIABLES
    entry,   \* entry[s]: the symbol of text s; 0 when s was never interned
    asked,   \* asked[t]: the texts of the call thread t is in (at most one)
    last     \* last[t]: the symbol the last call of t returned; 0 before it

vars == <<entry, asked, last>>

Symbols == {entry[s] : s \in Texts} \ {0}

Init ==
    /\ entry = [s \in Texts |-> 0]
    /\ asked = [t \in Threads |-> {}]
    /\ last = [t \in Threads |-> 0]

Ask(t, s) ==
    /\ asked[t] = {}
    /\ asked' = [asked EXCEPT ![t] = {s}]
    /\ UNCHANGED <<entry, last>>

\* The symbol of s is a new one: no other text has it.
Record(s) ==
    /\ \E t \in Threads : s \in asked[t]
    /\ entry[s] = 0
    /\ entry' = [entry EXCEPT ![s] = entry'[s]]
    /\ entry'[s] \in Nat \ ({0} \cup Symbols)
    /\ UNCHANGED <<asked, last>>

Return(t, s) ==
    /\ s \in asked[t]
    /\ entry[s] # 0
    /\ last' = [last EXCEPT ![t] = entry[s]]
    /\ asked' = [asked EXCEPT ![t] = {}]
    /\ UNCHANGED entry

Next ==
    \/ \E t \in Threads, s \in Texts : Ask(t, s) \/ Return(t, s)
    \/ \E s \in Texts : Record(s)

Spec == Init /\ [][Next]_vars
=============================================================================
