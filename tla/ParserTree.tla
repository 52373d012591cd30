------------------------------ MODULE ParserTree ------------------------------
(***************************************************************************)
(* parser_tree.c: the binary search tree in which requests.c keeps the     *)
(* headers of an HTTP response.  req_parse_headers hands a name or a value *)
(* over in fragments, then pushes the pair or aborts it; names are         *)
(* compared without case.  Texts are sequences of characters.              *)
(*                                                                         *)
(* A node is identified by the way that leads to it from the root, a       *)
(* sequence of "left" and "right"; the tree is a function from such paths  *)
(* to nodes, and a path outside its domain is a NULL child.                *)
(***************************************************************************)
EXTENDS Integers, SequencesExt

CONSTANTS
    Lower,         \* Lower[c]: tolower(c), as a number in the order of strcasecmp
    Names,         \* the names looked up
    NULL

ASSUME LowerAssumption == \A c \in DOMAIN Lower : Lower[c] \in Nat

VARIABLES tree, current_key, current_value,
          latest   \* history: the value last pushed under each folded name

treeVars == << tree, current_key, current_value, latest >>

ptree_init == /\ tree = << >>
              /\ current_key = NULL /\ current_value = NULL
              /\ latest = << >>

-----------------------------------------------------------------------------
(* strcasecmp *)

Folded(text) == [i \in DOMAIN text |-> Lower[text[i]]]

Before(s, t) ==
    LET a == Folded(s)
        b == Folded(t)
    IN  \E i \in 0..Len(a) :
            /\ i < Len(b)
            /\ \A j \in 1..i : a[j] = b[j]
            /\ i = Len(a) \/ a[i + 1] < b[i + 1]

SameName(s, t) == Folded(s) = Folded(t)

-----------------------------------------------------------------------------
(* Walking down *)

Root == << >>
Parent(p) == Front(p)

\* The child of node p under which a key is looked for.
Side(t, p, key) == IF Before(key, t[p].key) THEN "left" ELSE "right"

Children(t) == {Root} \union { Append(p, s) : p \in DOMAIN t, s \in {"left", "right"} }

\* The walk for key comes through p: no node above p has the key, and each one
\* sends the walk towards p.
LeadsTo(t, key, p) ==
    \A i \in 1..Len(p) :
        LET above == SubSeq(p, 1, i - 1)
        IN  /\ above \in DOMAIN t
            /\ ~SameName(key, t[above].key)
            /\ p[i] = Side(t, above, key)

\* Where the walk for key stops: at the node that has it, or at a NULL child.
PlaceOf(t, key) ==
    CHOOSE p \in Children(t) :
        /\ LeadsTo(t, key, p)
        /\ p \in DOMAIN t => SameName(key, t[p].key)

-----------------------------------------------------------------------------
(* Operations *)

\* Mutant: a later fragment replaces the earlier ones.
LastFragment(text, fragment) == fragment

Extended(text, fragment) == IF text = NULL THEN fragment ELSE text \o fragment

ptree_update_key(fragment) ==
    /\ current_key' = Extended(current_key, fragment)
    /\ UNCHANGED << tree, current_value, latest >>

ptree_update_value(fragment) ==
    /\ current_value' = Extended(current_value, fragment)
    /\ UNCHANGED << tree, current_key, latest >>

ptree_abort ==
    /\ current_key' = NULL /\ current_value' = NULL
    /\ UNCHANGED << tree, latest >>

\* Mutant: a pair whose name is there already is ignored.
StoredOnce(t, key, value) ==
    LET p == PlaceOf(t, key)
    IN  [q \in DOMAIN t \union {p} |->
            IF q \in DOMAIN t THEN t[q] ELSE [key |-> key, value |-> value]]

\* Mutant: a new leaf is hung on the right of its parent, always.
StoredOnTheRight(t, key, value) ==
    LET p == PlaceOf(t, key)
        q == IF p = Root \/ p \in DOMAIN t THEN p ELSE Append(Parent(p), "right")
    IN  [r \in DOMAIN t \union {q} |->
            IF r = q THEN [key |-> key, value |-> value] ELSE t[r]]

\* Mutant: the new leaf is not linked to its parent.
UnlinkedLeaf(t, key, value) ==
    LET p == PlaceOf(t, key)
    IN  IF p \in DOMAIN t THEN [t EXCEPT ![p].value = value] ELSE t

\* t with the pair in it: a new leaf, or a new value in the node that has the name.
Stored(t, key, value) ==
    LET p == PlaceOf(t, key)
    IN  IF p \in DOMAIN t
        THEN [t EXCEPT ![p].value = value]
        ELSE [q \in DOMAIN t \union {p} |->
                IF q = p THEN [key |-> key, value |-> value] ELSE t[q]]

\* The pair handed over last takes its place.
ptree_push ==
    /\ tree' = Stored(tree, current_key, current_value)
    /\ current_key' = NULL /\ current_value' = NULL
    /\ latest' = LET name == Folded(current_key)
                 IN  [k \in DOMAIN latest \union {name} |->
                        IF k = name THEN current_value ELSE latest[k]]

ptree_get_value(t, key) ==
    LET p == PlaceOf(t, key)
    IN  IF p \in DOMAIN t THEN t[p].value ELSE NULL

\* ptree_free and ptree_display go down from the root without looking whether
\* there is one.
Walkable == Root \in DOMAIN tree

-----------------------------------------------------------------------------
(* Properties *)

(* The tree is a map from names without case to values: whatever the order *)
(* and the spelling in which headers come, and however their names were    *)
(* cut into fragments or aborted on the way, a name is found if and only   *)
(* if it was pushed, with the value of its last push                       *)
(* (parser_tree.c:78-162).                                                 *)
LookupFindsLatest ==
    \A name \in Names :
        ptree_get_value(tree, name) =
            IF Folded(name) \in DOMAIN latest THEN latest[Folded(name)] ELSE NULL

(* A name occurs once, and every node is where a walk for its name ends:   *)
(* no push hides a node that is already there (parser_tree.c:107-137).     *)
NodesAreReachable ==
    /\ \A p \in DOMAIN tree : p # Root => Parent(p) \in DOMAIN tree
    /\ \A p \in DOMAIN tree : PlaceOf(tree, tree[p].key) = p

=============================================================================
