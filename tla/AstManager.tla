------------------------------- MODULE AstManager -------------------------------
(***************************************************************************)
(* The hash-consed terms of src/src/ast/manager.rs and the walks over them *)
(* in src/src/ast/query.rs.  Equal nodes are created once, so identity of  *)
(* ids is identity of terms; a walk borrows the manager's visit marks,     *)
(* which are cleared by moving to another epoch.                           *)
(***************************************************************************)
EXTENDS Integers, Sequences, FiniteSets

CONSTANTS
    Heads,         \* what a node can say besides its children: kind, name, family
    Arity,         \* [Heads -> Nat]
    MaxNodes,      \* bound: nodes created
    Hash(_),       \* of a content
    Slots,         \* the buckets of a new manager
    MaxEpoch       \* the largest epoch, u32::MAX in the code

\* The contents a node can have when `top' nodes exist.
ContentsUpTo(top) == UNION {{<<h, args>> : args \in [1 .. Arity[h] -> 1 .. top]} : h \in Heads}

ASSUME AstAssumption ==
    /\ Slots \in Nat \ {0} /\ MaxEpoch \in Nat \ {0} /\ MaxNodes \in Nat
    /\ Arity \in [Heads -> Nat]
    /\ \A n \in ContentsUpTo(MaxNodes) : Hash(n) \in Nat

VARIABLES
    nodes,         \* a node <<head, children>> per id
    slots,         \* the number of buckets
    buckets,       \* the ids in every bucket
    stamp, epoch,  \* a node is marked when its stamp is the epoch
    stack, roots,  \* the walk: the frames <<id, expanded>> and the roots to come
    order          \* what the walk has left, in that order

table == <<nodes, slots, buckets>>
marks == <<stamp, epoch>>
walk == <<stack, roots, order>>
vars == <<table, marks, walk>>

-----------------------------------------------------------------------------
(* The table *)

Ids == 1 .. Len(nodes)
Contents == ContentsUpTo(Len(nodes))
Children(i) == {nodes[i][2][k] : k \in DOMAIN nodes[i][2]}

BucketOf(n, size) == Hash(n) % size

Same(n) == {i \in buckets[BucketOf(n, slots)] : nodes[i] = n}

\* Slip: only the new node is hashed into the new buckets.
RehashedSlip(ns, size) ==
    [b \in 0 .. size - 1 |->
        IF b < slots THEN buckets[b] \cup {i \in {Len(ns)} : BucketOf(ns[i], size) = b} ELSE {}]

\* grow: every node goes where the new mask puts it.
Rehashed(ns, size) == [b \in 0 .. size - 1 |-> {i \in 1 .. Len(ns) : BucketOf(ns[i], size) = b}]

\* intern: a node that is there already is not created again.
Create(n) ==
    /\ nodes' = Append(nodes, n)
    /\ IF Len(nodes) + 1 > slots * 2
       THEN slots' = slots * 2 /\ buckets' = Rehashed(nodes', slots * 2)
       ELSE /\ slots' = slots
            /\ buckets' = [buckets EXCEPT ![BucketOf(n, slots)] = @ \cup {Len(nodes) + 1}]

Idle == stack = <<>> /\ roots = <<>>

Intern(n) ==
    /\ Idle /\ Len(nodes) < MaxNodes
    /\ IF Same(n) # {} THEN UNCHANGED table ELSE Create(n)
    /\ UNCHANGED <<marks, walk>>

-----------------------------------------------------------------------------
(* A walk in post-order *)

Marked(i) == stamp[i] = epoch

\* with_marks: nodes created since the last walk have stamp 0, never an epoch.
Fresh ==
    /\ epoch' = IF epoch = MaxEpoch THEN 1 ELSE epoch + 1
    /\ stamp' = [i \in Ids |-> IF i <= Len(stamp) /\ epoch < MaxEpoch THEN stamp[i] ELSE 0]

Start(rs) ==
    /\ Idle /\ rs # <<>>
    /\ Fresh
    /\ stack' = <<<<Head(rs), FALSE>>>> /\ roots' = Tail(rs) /\ order' = <<>>
    /\ UNCHANGED table

Rest == SubSeq(stack, 1, Len(stack) - 1)
Top == stack[Len(stack)]

Skip ==
    /\ stack # <<>> /\ Marked(Top[1])
    /\ stack' = Rest
    /\ UNCHANGED <<table, marks, roots, order>>

\* Slip: a child stamped by an earlier walk is left out.
FramesSlip(i) ==
    LET open == SelectSeq(nodes[i][2], LAMBDA c : stamp[c] = 0)
    IN  <<<<i, TRUE>>>> \o [k \in DOMAIN open |-> <<open[k], FALSE>>]

\* The node itself and over it, one after the other, the children not yet marked.
Frames(i) ==
    LET args == nodes[i][2]
        F[k \in 0 .. Len(args)] ==
            IF k = 0 THEN <<<<i, TRUE>>>>
            ELSE IF Marked(args[k]) THEN F[k - 1] ELSE Append(F[k - 1], <<args[k], FALSE>>)
    IN  F[Len(args)]

Expand ==
    /\ stack # <<>> /\ ~Marked(Top[1]) /\ ~Top[2]
    /\ stack' = Rest \o Frames(Top[1])
    /\ UNCHANGED <<table, marks, roots, order>>

Leave ==
    /\ stack # <<>> /\ ~Marked(Top[1]) /\ Top[2]
    /\ stamp' = [stamp EXCEPT ![Top[1]] = epoch]
    /\ order' = Append(order, Top[1])
    /\ stack' = Rest
    /\ UNCHANGED <<table, epoch, roots>>

NextRoot ==
    /\ stack = <<>> /\ roots # <<>>
    /\ stack' = <<<<Head(roots), FALSE>>>> /\ roots' = Tail(roots)
    /\ UNCHANGED <<table, marks, order>>

Walk == Skip \/ Expand \/ Leave \/ NextRoot

Init ==
    /\ nodes = <<>> /\ slots = Slots
    /\ buckets = [b \in 0 .. Slots - 1 |-> {}]
    /\ stamp = <<>> /\ epoch = 0
    /\ stack = <<>> /\ roots = <<>> /\ order = <<>>

Next ==
    \/ \E n \in Contents : Intern(n)
    \/ \E i, j \in Ids : Start(<<i>>) \/ Start(<<i, j>>)
    \/ Walk

Spec == Init /\ [][Next]_vars

\* A walk that was started is not interrupted: the manager is borrowed.
FairSpec == Spec /\ WF_vars(Walk)

-----------------------------------------------------------------------------
(* Properties *)

TypeOK ==
    /\ nodes \in Seq(ContentsUpTo(MaxNodes))
    /\ slots \in Nat \ {0} /\ buckets \in [0 .. slots - 1 -> SUBSET Ids]
    /\ epoch \in 0 .. MaxEpoch /\ DOMAIN stamp \subseteq Ids
    /\ \A i \in DOMAIN stamp : stamp[i] \in 0 .. MaxEpoch

\* Identity of ids is identity of terms: no content is ever there twice, however
\* the table grew and whatever the hash confuses.
HashConsed == \A i, j \in Ids : nodes[i] = nodes[j] => i = j

\* Every id is in the bucket of its hash and in no other.
Bucketed == \A b \in DOMAIN buckets : buckets[b] = {i \in Ids : BucketOf(nodes[i], slots) = b}

\* The marks of a walk are its own: what it has left, and nothing an earlier walk
\* stamped, not even after the epochs wrapped.
MarksOwn == ~Idle => {i \in DOMAIN stamp : Marked(i)} = {order[k] : k \in DOMAIN order}

\* A node is left once, after its children.
ChildrenFirst ==
    \A k \in DOMAIN order :
        /\ \A l \in 1 .. k - 1 : order[l] # order[k]
        /\ \A c \in Children(order[k]) : \E l \in 1 .. k - 1 : order[l] = c

\* What is still to be left is on the stack: a walk ends with everything its
\* roots reach.
NothingForgotten ==
    LET done == {order[k] : k \in DOMAIN order}
        ahead == {stack[k][1] : k \in {l \in DOMAIN stack : ~stack[l][2]}}
        opened == {stack[k][1] : k \in {l \in DOMAIN stack : stack[l][2]}}
    IN  \A i \in opened : \A c \in Children(i) : c \in done \cup opened \cup ahead

\* Every walk ends.
WalksEnd == ~Idle ~> Idle

\* A walk leaves what its roots reach, everything once and children first, by marks
\* that are its own.
WalkRight == MarksOwn /\ ChildrenFirst /\ NothingForgotten
=============================================================================
