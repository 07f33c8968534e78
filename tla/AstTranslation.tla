----------------------------- MODULE AstTranslation -----------------------------
(***************************************************************************)
(* Terms of one manager copied into another                                *)
(* (src/src/ast/translation.rs).  Theory families have different ids in    *)
(* the two managers; they are matched by name.  The tables of this module  *)
(* are the destination's, which keeps its own terms and families.          *)
(***************************************************************************)
EXTENDS AstManager

CONSTANTS
    Names,         \* of theory families
    Sources,       \* the managers copied from: [nodes, families]
    Own,           \* bound: what the destination creates by itself
    MaxCalls       \* bound: calls of translate

\* What a manager holds: nodes made of earlier ones, no two alike, in families it
\* has, each registered once.
WellMade(ns, fams) ==
    /\ ns \in Seq(ContentsUpTo(Len(ns))) /\ fams \in Seq(Names)
    /\ \A i \in DOMAIN ns : ns[i] \in ContentsUpTo(i - 1) /\ ns[i][1][2] <= Len(fams)
    /\ \A i, j \in DOMAIN ns : ns[i] = ns[j] => i = j
    /\ \A k, l \in DOMAIN fams : fams[k] = fams[l] => k = l

ASSUME TranslationAssumption ==
    /\ IsFiniteSet(Names) /\ "basic" \in Names /\ "none" \notin Names
    /\ MaxCalls \in Nat /\ Own \subseteq ContentsUpTo(MaxNodes)
    /\ \A h \in Heads : /\ h = <<h[1], h[2]>> /\ h[2] \in Nat
                         /\ \A f \in 0 .. Cardinality(Names) :
                               <<h[1], f>> \in Heads /\ Arity[<<h[1], f>>] = Arity[h]
    /\ \A s \in Sources : WellMade(s.nodes, s.families)

VARIABLES
    families,      \* the destination's; a head is <<symbol, family id>>, 0 for none
    src,           \* the manager copied from
    frames,        \* the recursion: <<source id, position>>
    memo,          \* what this call has copied: <<source id, id>>
    answers        \* what the calls returned

copy == <<src, frames, memo, answers>>
allVars == <<vars, families, copy>>

Position(s, name) == {k \in DOMAIN s : s[k] = name}

\* Slip: a family is taken for the one registered last.
FamilySlip(fams, fid) ==
    IF fid = 0 THEN 0
    ELSE IF Position(fams, src.families[fid]) = {} THEN Len(fams) + 1 ELSE Len(fams)

\* translate_family and mk_family_id: the id of a name, a new one for a new name.
Family(fams, fid) ==
    IF fid = 0 THEN 0
    ELSE LET known == Position(fams, src.families[fid])
         IN  IF known = {} THEN Len(fams) + 1 ELSE CHOOSE k \in known : TRUE
Registered(fams, fid) ==
    IF fid = 0 \/ Position(fams, src.families[fid]) # {} THEN fams
    ELSE Append(fams, src.families[fid])

Source(i) == src.nodes[i]
Copied(i) == {m \in memo : m[1] = i}
CopyOf(i) == (CHOOSE m \in memo : m[1] = i)[2]
FrameTop == frames[Len(frames)]
FramesBelow == SubSeq(frames, 1, Len(frames) - 1)
Advance == frames' = [frames EXCEPT ![Len(frames)][2] = @ + 1]

\* translate: with a memo of its own.
Translate(i) ==
    /\ frames = <<>> /\ Cardinality(answers) < MaxCalls
    /\ frames' = <<<<i, 0>>>> /\ memo' = {}
    /\ UNCHANGED <<vars, families, src, answers>>

\* translate_info comes before the children.
Register ==
    /\ frames # <<>> /\ FrameTop[2] = 0
    /\ families' = Registered(families, Source(FrameTop[1])[1][2])
    /\ Advance
    /\ UNCHANGED <<vars, src, memo, answers>>

Child == Source(FrameTop[1])[2][FrameTop[2]]
AtChild == frames # <<>> /\ FrameTop[2] \in DOMAIN Source(FrameTop[1])[2]

Known ==
    /\ AtChild /\ Copied(Child) # {}
    /\ Advance
    /\ UNCHANGED <<vars, families, src, memo, answers>>

Descend ==
    /\ AtChild /\ Copied(Child) = {}
    /\ frames' = Append(frames, <<Child, 0>>)
    /\ UNCHANGED <<vars, families, src, memo, answers>>

\* The node is made, or found, in the destination.
Build ==
    /\ frames # <<>> /\ FrameTop[2] > Len(Source(FrameTop[1])[2])
    /\ LET i == FrameTop[1]
           head == Source(i)[1]
           n == <<<<head[1], Family(families, head[2])>>,
                  [k \in DOMAIN Source(i)[2] |-> CopyOf(Source(i)[2][k])]>>
       IN  /\ IF Same(n) # {} THEN UNCHANGED table ELSE Len(nodes) < MaxNodes /\ Create(n)
           /\ LET id == IF Same(n) # {} THEN CHOOSE k \in Same(n) : TRUE ELSE Len(nodes) + 1
              IN  /\ memo' = memo \cup {<<i, id>>}
                  /\ answers' = IF Len(frames) = 1 THEN answers \cup {<<i, id>>} ELSE answers
    /\ frames' = FramesBelow
    /\ UNCHANGED <<marks, walk, families, src>>

\* Between calls the destination makes terms and families of its own.
Elsewhere ==
    /\ frames = <<>>
    /\ \/ /\ \E n \in Own :
             /\ n[1][2] <= Len(families) /\ \A k \in DOMAIN n[2] : n[2][k] \in Ids
             /\ Intern(n)
          /\ UNCHANGED families
       \/ /\ \E name \in Names : Position(families, name) = {} /\ families' = Append(families, name)
          /\ UNCHANGED vars
    /\ UNCHANGED copy

TranslateStart(source) ==
    /\ Init
    /\ families = <<"basic">> /\ src = source
    /\ frames = <<>> /\ memo = {} /\ answers = {}

TranslateInit == \E source \in Sources : TranslateStart(source)

TranslateNext ==
    \/ \E i \in DOMAIN src.nodes : Translate(i)
    \/ Register \/ Known \/ Descend \/ Build
    \/ Elsewhere

TranslateSpec == TranslateInit /\ [][TranslateNext]_allVars

-----------------------------------------------------------------------------
(* Properties *)

\* What a node says, with families by name.
Term(ns, fams) ==
    LET T[i \in DOMAIN ns] ==
            <<ns[i][1][1], IF ns[i][1][2] = 0 THEN "none" ELSE fams[ns[i][1][2]],
              [k \in DOMAIN ns[i][2] |-> T[ns[i][2][k]]]>>
    IN  T

\* A copy says what its source says, whatever family ids the two managers gave out
\* and however the destination's table was filled before.
SameTerm ==
    \A m \in memo \cup answers :
        Term(nodes, families)[m[2]] = Term(src.nodes, src.families)[m[1]]

\* Sharing survives: a source term has one copy, in every call, and different
\* terms have different copies.
OneCopy == \A m, n \in memo \cup answers : m[1] = n[1] <=> m[2] = n[2]

\* A copy is its source: in what it says and in what it shares.
CopiesRight == SameTerm /\ OneCopy
=============================================================================
