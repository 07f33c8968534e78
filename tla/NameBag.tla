------------------------------ MODULE NameBag -------------------------------
(***************************************************************************)
(* What the declaration table promises: how often each name was declared   *)
(* and not yet undeclared, whatever call comes next.                       *)
(***************************************************************************)
EXTENDS Integers

CONSTANT Names
VARIABLES declared, last

Init == declared = [n \in Names |-> 0] /\ last = <<"none">>

Declare(n) ==
    /\ last' = <<"insert", n>>
    /\ declared' = [declared EXCEPT ![n] = @ + 1]

\* Undeclaring a name that is not declared changes nothing.
Undeclare(n) ==
    /\ last' = <<"erase", n>>
    /\ declared' = [declared EXCEPT ![n] = IF @ > 0 THEN @ - 1 ELSE 0]

Clear == last' = <<"reset">> /\ declared' = [n \in Names |-> 0]

Next == (\E n \in Names : Declare(n) \/ Undeclare(n)) \/ Clear

Spec == Init /\ [][Next]_<<declared, last>>
=============================================================================
