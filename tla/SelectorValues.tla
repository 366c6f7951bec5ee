--------------------------- MODULE SelectorValues ---------------------------
(***************************************************************************)
(* What a caller of libs/selector.go and of UiObject's Child, Sibling and  *)
(* Instance may rely on: a selector is a value.  Deriving one from another *)
(* leaves the other alone, and an operation on one changes no other.       *)
(***************************************************************************)
EXTENDS Naturals, Sequences

CONSTANTS
  Handles,   \* where a caller keeps selectors
  Contents,  \* what the fields of a selector can be
  Instances, \* what the field instance can be set to
  Found      \* the selectors the service can answer with

VARIABLE value  \* value[h]: the selector kept in h, Nil at first

\* A selector is the sequence of its entries.  The children of an entry are the
\* numbers of others, and the first entry is the one that the others belong to.
Nil     == <<>>
Leaf(c) == [fields |-> c, rels |-> <<>>, kids |-> <<>>]

With(v, rel, c) ==
  Append([v EXCEPT ![1].rels = Append(@, rel), ![1].kids = Append(@, Len(v) + 1)], Leaf(c))

\* The last child or sibling is the element that is looked for.
Target(v) == IF v[1].kids = <<>> THEN 1 ELSE v[1].kids[Len(v[1].kids)]
WithInstance(v, i) == [v EXCEPT ![Target(v)].fields["instance"] = i]

\* What can be derived from v.
Derived(v) == {With(v, rel, c) : rel \in {"child", "sibling"}, c \in Contents}
              \cup {WithInstance(v, i) : i \in Instances}

\* v with other fields in one entry.
WithFields(v, k, c) == [v EXCEPT ![k].fields = c]
Refilled(v) == {WithFields(v, k, c) : k \in DOMAIN v, c \in Contents}

\* What is new, found by the service, or derived from the selector of some handle.
Made == {<<Leaf(c)>> : c \in Contents} \cup Found
        \cup UNION {Derived(v) : v \in {value[g] : g \in Handles} \ {Nil}}

Changed(v) == Derived(v) \cup Refilled(v)

Init == value = [h \in Handles |-> Nil]

Next ==
  \E h \in Handles :
    /\ value' = [value EXCEPT ![h] = value'[h]]
    /\ value'[h] \in IF value[h] = Nil THEN Made ELSE Changed(value[h])

Spec == Init /\ [][Next]_value
=============================================================================
