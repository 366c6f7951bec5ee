----------------------------- MODULE MCSelector -----------------------------
(* A small instance of Selector for TLC. *)
EXTENDS Selector, TLC

Only(k, v) == [j \in Fields |-> IF j = k THEN v ELSE NoValue]
Answered(content, rels, kids) ==
  [fields |-> content, mask |-> Present(content), rels |-> rels, kids |-> kids]

\* A chain of three nodes, one node, and one with a number in it.
Chain  == [size |-> 3, node |-> <<Answered(Only("text", <<"string", 0>>), <<"child">>, <<2>>),
                                 Answered(Only("text", <<"string", 0>>), <<"sibling">>, <<3>>),
                                 Answered(Only("text", NoValue), <<>>, <<>>)>>]
Single == [size |-> 1, node |-> <<Answered(Only("text", <<"string", 0>>), <<>>, <<>>)>>]
Number == [size |-> 1, node |-> <<Answered(Only("instance", <<"float64", 1>>), <<>>, <<>>)>>]

MCAnswers == {Chain, Single, Number}

HandleSymmetry == Permutations(Handles)
=============================================================================
