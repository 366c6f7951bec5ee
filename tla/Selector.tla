------------------------------ MODULE Selector ------------------------------
(***************************************************************************)
(* Selectors (libs/selector.go) and the UiObjects derived from each other  *)
(* by Child, Sibling, Instance and ChildByText (libs/uiobject.go).         *)
(*                                                                         *)
(* A selector is a structure on the heap with pointers to the selectors of *)
(* its children and siblings.  A handle is a *Selector that a caller keeps *)
(* directly or in a UiObject; it is assigned once.  The fields stand for   *)
(* the three classes of fieldDefs, and a value is its Go type and a number.*)
(* An operation that returns an error and changes nothing is no action.    *)
(*                                                                         *)
(* The specification and its parts have names of their own: the proofs are *)
(* in one module with those of AppSession.                                 *)
(***************************************************************************)
EXTENDS Naturals, Sequences, FiniteSets

CONSTANTS
  Handles,   \* variables of the caller
  Fields,    \* the fields in use
  MaxIndex,  \* instances and counts are at most this
  Answers,   \* what childByText answers: a tree of nodes, decoded from JSON
  MaxNodes,  \* bound: selectors allocated in a behaviour
  MaxSteps     \* bound: operations in a behaviour

Nodes == 1..MaxNodes
Rels  == {"child", "sibling"}

NoValue  == <<"none", 0>>
Ints     == {"int"} \X (0..MaxIndex)
Floats   == {"float64"} \X (0..MaxIndex)

\* What a caller or an answer may have for a field: also a value of a wrong type.
Values(k) == {NoValue, <<"string", 0>>}
             \cup CASE k = "clickable" -> {<<"bool", 0>>}
                    [] k = "instance"  -> Ints \cup Floats
                    [] OTHER           -> {}

Content  == {c \in [Fields -> UNION {Values(k) : k \in Fields}] :
               \A k \in Fields : c[k] \in Values(k)}
Empty    == [fields |-> [k \in Fields |-> NoValue], mask |-> {}, rels |-> <<>>, kids |-> <<>>]
Node     == [fields : Content, mask : SUBSET Fields, rels : Seq(Rels), kids : Seq(Nodes)]
Present(content) == {k \in Fields : content[k] # NoValue}

\* No node of S is in two places: the child of two nodes, or twice of one.
Unshared(hp, S) ==
  \A m, n \in S : \A i \in DOMAIN hp[m].kids, j \in DOMAIN hp[n].kids :
    hp[m].kids[i] = hp[n].kids[j] => m = n /\ i = j

\* FromMap makes a node of every map that it visits, in the order in which they are
\* numbered: an answer is a tree, and all of it belongs to its first node.
IsAnswer(a) ==
  /\ a.size \in Nodes
  /\ a.node \in [1..a.size -> Node]
  /\ \A n \in 1..a.size :
       /\ a.node[n].mask = Present(a.node[n].fields)
       /\ Len(a.node[n].rels) = Len(a.node[n].kids)
       /\ \A i \in DOMAIN a.node[n].kids : a.node[n].kids[i] \in (n + 1)..a.size
  /\ Unshared(a.node, 1..a.size)
  /\ \A S \in SUBSET (1..a.size) :
       1 \in S /\ (\A n \in S : \A i \in DOMAIN a.node[n].kids : a.node[n].kids[i] \in S) =>
         S = 1..a.size

ASSUME SelectorAssumption ==
  /\ "instance" \in Fields /\ Fields \subseteq {"text", "clickable", "instance"}
  /\ MaxIndex \in Nat /\ MaxNodes \in Nat /\ MaxSteps \in Nat
  /\ \A a \in Answers : IsAnswer(a)

VARIABLES
  root,  \* root[h]: the node that h points to, 0 before it is assigned
  heap,  \* heap[n]: a Selector
  used,  \* nodes allocated so far
  steps  \* operations so far

selectorVars == <<root, heap, used, steps>>

-----------------------------------------------------------------------------
(* Operations on the heap.                                                 *)

\* validateValue.
Accepts(k, v) == CASE k = "clickable" -> v[1] = "bool"
                   [] k = "instance"  -> v[1] = "int"
                   [] OTHER           -> TRUE

Valid(content) == \A k \in Present(content) : Accepts(k, content[k])

\* Set, of all fields of updates in which.
SetIn(node, updates, which) ==
  [node EXCEPT !.fields = [k \in Fields |-> IF k \in which THEN updates[k] ELSE @[k]],
               !.mask = @ \cup which]

\* What callers pass: no float64, and no int but the largest.
Inputs == {c \in Content :
             \A k \in Fields : c[k] \notin Floats /\ (c[k] \in Ints => c[k][2] = MaxIndex)}

NewNode(content) == SetIn(Empty, content, Present(content))

\* UpdateInstance: of the last child or sibling, or of the selector itself.
Target(hp, n) == IF hp[n].kids = <<>> THEN n ELSE hp[n].kids[Len(hp[n].kids)]

Numbered(hp, n, i) ==
  [hp EXCEPT ![Target(hp, n)] =
     SetIn(@, [k \in Fields |-> <<"int", i>>], {"instance"})]

\* Child and Sibling of a Selector: a new node c at the end of n's lists.
Extended(hp, n, c, rel, content) ==
  [hp EXCEPT ![n].rels = Append(@, rel), ![n].kids = Append(@, c), ![c] = NewNode(content)]

\* What can be reached from n: the least set that holds n and its members' children.
Closed(S) == \A m \in S : \A i \in DOMAIN heap[m].kids : heap[m].kids[i] \in S
Reach(n)  == LET closed == {S \in SUBSET (n..used) : n \in S /\ Closed(S)}
             IN  {m \in n..used : \A S \in closed : m \in S}

\* The number of n among the nodes in S; the new nodes of a copy have the same order.
Rank(S, n) == Cardinality({m \in S : m <= n})
Renamed(S) == [n \in S |-> used + Rank(S, n)]

\* The heap with a copy of the nodes in S of another heap (or of an answer).
Copied(hp, S) ==
  LET new == Renamed(S)
  IN  [c \in Nodes |-> IF \E n \in S : new[n] = c
                       THEN LET n == CHOOSE n \in S : new[n] = c
                            IN  [hp[n] EXCEPT !.kids = [i \in DOMAIN @ |-> new[@[i]]]]
                       ELSE heap[c]]

-----------------------------------------------------------------------------
(* Selectors.                                                              *)

SelectorStep == steps < MaxSteps /\ steps' = steps + 1

Assign(h, n) == root[h] = 0 /\ root' = [root EXCEPT ![h] = n]

\* New, and FindElement and By, which make a UiObject of it.
New(h, content) ==
  /\ SelectorStep
  /\ used < MaxNodes
  /\ Valid(content)
  /\ Assign(h, used + 1)
  /\ heap' = [heap EXCEPT ![used + 1] = NewNode(content)]
  /\ used' = used + 1

\* UpdateAtPath, for any path; Set is the empty one.  Fields are set in an
\* arbitrary order up to the first one that is refused.
UpdateAtPath(h, updates) ==
  /\ SelectorStep
  /\ root[h] # 0
  /\ LET accepted == {k \in Present(updates) : Accepts(k, updates[k])}
     IN \E n \in Reach(root[h]), which \in SUBSET accepted :
          /\ accepted = Present(updates) => which = accepted
          /\ heap' = [heap EXCEPT ![n] = SetIn(@, updates, which)]
  /\ UNCHANGED <<root, used>>

\* Forgetting the mask.
Delete_KeepsMask(h, k) ==
  /\ SelectorStep
  /\ root[h] # 0
  /\ heap' = [heap EXCEPT ![root[h]].fields[k] = NoValue]
  /\ UNCHANGED <<root, used>>

Delete(h, k) ==
  /\ SelectorStep
  /\ root[h] # 0
  /\ heap[root[h]].fields[k] # NoValue
  /\ heap' = [heap EXCEPT ![root[h]].fields[k] = NoValue, ![root[h]].mask = @ \ {k}]
  /\ UNCHANGED <<root, used>>

\* Child and Sibling of a Selector.
AddChild(h, rel, content) ==
  /\ SelectorStep
  /\ root[h] # 0
  /\ used < MaxNodes
  /\ Valid(content)
  /\ heap' = Extended(heap, root[h], used + 1, rel, content)
  /\ used' = used + 1
  /\ UNCHANGED root

UpdateInstance(h, i) ==
  /\ SelectorStep
  /\ root[h] # 0
  /\ heap' = Numbered(heap, root[h], i)
  /\ UNCHANGED <<root, used>>

-----------------------------------------------------------------------------
(* UiObjects.                                                              *)

\* A clone that shares its children with the original.
Clone_Shallow(n) ==
  [heap |-> [heap EXCEPT ![used + 1] = heap[n]], node |-> used + 1, used |-> used + 1]

\* Clone, deep: what the clone of n is, in which heap.
Clone(n) ==
  LET S == Reach(n)
  IN  [heap |-> Copied(heap, S), node |-> Renamed(S)[n], used |-> used + Cardinality(S)]

\* Child and Sibling of a UiObject.
Child(h, g, rel, content) ==
  /\ SelectorStep
  /\ root[g] # 0
  /\ Valid(content)
  /\ LET clone == Clone(root[g])
     IN /\ Assign(h, clone.node)
        /\ clone.used < MaxNodes
        /\ heap' = Extended(clone.heap, clone.node, clone.used + 1, rel, content)
        /\ used' = clone.used + 1

\* The index asked for, from the end if it is negative; a Count that fails is 0 here.
Resolved(i, back, count) == IF back = 0 THEN i ELSE IF count >= back THEN count - back ELSE 0

\* Instance, with the index i, or with the index -back.
Instance(h, g, i, back, count) ==
  /\ SelectorStep
  /\ root[g] # 0
  /\ LET clone == Clone(root[g])
     IN /\ Assign(h, clone.node)
        /\ clone.used <= MaxNodes
        /\ heap' = Numbered(clone.heap, clone.node, Resolved(i, back, count))
        /\ used' = clone.used

\* FromMap accepts an answer: its numbers are float64, since they come from JSON.
Decodes(a) == \A n \in 1..a.size : Valid(a.node[n].fields)

\* ChildByText and ChildByDescription, of an object that is not kept: the selector
\* that FromMap makes of the answer.
ChildByText(h, a) ==
  /\ SelectorStep
  /\ used + a.size <= MaxNodes
  /\ Decodes(a)
  /\ heap' = Copied(a.node, 1..a.size)
  /\ used' = used + a.size
  /\ Assign(h, used + 1)

SelectorInit ==
  /\ root = [h \in Handles |-> 0]
  /\ heap = [n \in Nodes |-> Empty]
  /\ used = 0
  /\ steps = 0

SelectorNext ==
  \E h \in Handles :
    \/ \E c \in Inputs : New(h, c) \/ \E rel \in Rels : AddChild(h, rel, c)
    \/ \E c \in Inputs : UpdateAtPath(h, c)
    \/ \E k \in Fields : Delete(h, k)
    \/ \E i \in 0..MaxIndex : UpdateInstance(h, i)
    \/ \E g \in Handles, rel \in Rels, c \in Inputs : Child(h, g, rel, c)
    \/ \E g \in Handles, i, back, count \in 0..MaxIndex : Instance(h, g, i, back, count)
    \/ \E a \in Answers : ChildByText(h, a)

SelectorSpec == SelectorInit /\ [][SelectorNext]_selectorVars

-----------------------------------------------------------------------------
(* Properties.                                                             *)

\* The variables have their types, and nodes that are not allocated are empty.
SelectorTypeOK ==
  /\ root \in [Handles -> 0..used]
  /\ used \in 0..MaxNodes /\ steps \in 0..MaxSteps
  /\ heap \in [Nodes -> Node]
  /\ \A n \in Nodes :
       /\ \A i \in DOMAIN heap[n].kids : heap[n].kids[i] \in (n + 1)..used
       /\ n > used => heap[n] = Empty

\* The types are right, and whatever was set, refused or deleted on the way, the
\* mask names the fields that are present, there is one relation for each child or
\* sibling, and no field has a value of another type than fieldDefs gives it (Set,
\* Delete, FromMap, UpdateAtPath): the service matches nothing else.
WellFormed ==
  /\ SelectorTypeOK
  /\ \A n \in 1..used :
       /\ heap[n].mask = Present(heap[n].fields)
       /\ Len(heap[n].rels) = Len(heap[n].kids)
       /\ Valid(heap[n].fields)

\* No selector can be reached from two handles, nor twice from one: an update
\* through one UiObject never shows in another (Clone, FromMap).
Separate ==
  /\ \A g, h \in Handles :
       g # h /\ root[g] # 0 /\ root[h] # 0 =>
         Reach(root[g]) \cap Reach(root[h]) = {}
  /\ Unshared(heap, Nodes)

\* An operation on one handle touches nothing that any other can reach: not the
\* handle, not the nodes, not what is in them (Clone, UpdateInstance, AddChild).
Confined ==
  [][\E h \in Handles : \A g \in Handles \ {h} :
       /\ root'[g] = root[g]
       /\ root[g] # 0 =>
            /\ Reach(root[g])' = Reach(root[g])
            /\ \A n \in Reach(root[g]) : heap'[n] = heap[n]]_selectorVars

\* The inductive invariant: each half needs the types only.
SelectorIInv == WellFormed /\ Separate

\* ToMap as the service reads it: a field counts if its bit is set in the mask.  The
\* map is nested; here its entries stand one after the other, the children of an
\* entry are the numbers of others, and the first is the selector itself.
Read(node) == [k \in Fields |-> IF k \in node.mask THEN node.fields[k] ELSE NoValue]

EntryOf(node, S) == [fields |-> Read(node), rels |-> node.rels,
                     kids |-> [i \in DOMAIN node.kids |-> Rank(S, node.kids[i])]]

Entries[S \in SUBSET Nodes] ==
  [k \in 1..Cardinality(S) |-> EntryOf(heap[CHOOSE m \in S : Rank(S, m) = k], S)]

ToMap(n) == Entries[Reach(n)]

ValidContents  == {c \in Content : Valid(c)}
FoundSelectors == {[n \in 1..a.size |-> [fields |-> a.node[n].fields, rels |-> a.node[n].rels,
                                         kids |-> a.node[n].kids]] : a \in {a \in Answers : Decodes(a)}}

NoSelector == <<>>

Abstract == INSTANCE SelectorValues WITH
  Contents  <- ValidContents,
  Instances <- Ints,
  Found     <- FoundSelectors,
  value     <- [h \in Handles |-> IF root[h] = 0 THEN NoSelector ELSE ToMap(root[h])]

\* Selectors behave as values: each operation makes or changes the map of one
\* handle, from the maps as they were, and leaves every other map alone.
SelectorPromise == Abstract!Spec
=============================================================================
