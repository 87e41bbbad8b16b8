------------------------------ MODULE MCBTree ------------------------------
(***************************************************************************)
(* Two clients call the tree after one of several sequences of calls that  *)
(* bring it to the states where the next call splits, borrows, merges,     *)
(* collapses the root or meets an empty tree.                              *)
(***************************************************************************)
EXTENDS BTree

Puts(keys) == [i \in DOMAIN keys |-> <<"put", keys[i]>>]
Deletes(keys) == [i \in DOMAIN keys |-> <<"delete", keys[i]>>]

Up(n) == [i \in 1..n |-> i]
Down(n, m) == [i \in 1..(n - m + 1) |-> n + 1 - i]

Script(calls, use) == [calls |-> calls, use |-> use, vals |-> {"b"}, ends |-> {0}, ops |-> 2, faults |-> 1]
Empties(s) == [s EXCEPT !.vals = @ \cup {Empty}]
Three(s) == [s EXCEPT !.ops = 3, !.faults = 0]

MCScripts ==
    {[Script(Puts(Up(6)), {1}) EXCEPT !.ends = {2, 4}],        \* ranges with an end
     Empties(Script(<<>>, {1, 2})),                            \* no root
     Empties(Script(Puts(<<2>>), {1, 2})),                     \* the last key can be deleted
     Empties(Script(Puts(<<1, 3, 5, 7>>), {3, 4})),            \* a full leaf as root
     Three(Script(<<>>, {1})),                                 \* two writers and a reader: no root,
     Three(Script(Puts(<<1, 3, 5, 7>>), {4})),                 \* a full leaf as root
     Script(Puts(Up(6)), {1, 7}),                              \* a leaf that can borrow
     Script(Puts(Up(5)) \o Deletes(<<5>>), {1, 3}),            \* two leaves that merge, the root collapses
     Script(Puts(Up(10)), {4, 11}),                            \* a full root, a leaf with two neighbours
     Script(Puts(Down(20, 2)), {1}),                           \* a full internal node with a right sibling
     Script(Puts(Down(17, 1)) \o Deletes(<<12, 15>>), {13}),   \* an internal node that borrows from the left
     Script(Puts(Up(15)) \o Deletes(<<1, 5>>), {}),            \* and one that borrows from the right
     Script(Puts(Up(11)) \o Deletes(<<11>>), {7}),             \* two internal nodes that merge
     Script(Puts(Up(11)) \o Deletes(<<6, 3, 7, 8, 2, 2, 1>>), {})}  \* an internal node without siblings

\* One call after each of them, and no failures.
MCOneCall == {[s EXCEPT !.ops = 1, !.faults = 0] : s \in MCScripts}
=============================================================================
