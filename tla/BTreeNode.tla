----------------------------- MODULE BTreeNode -----------------------------
(***************************************************************************)
(* The nodes of the B+ tree (pkg/bptree/bp_tree.go) and what the tree      *)
(* computes on them: the search in a node, the insertion in a leaf, the    *)
(* split, and the redistribution and the merge of two siblings.  Keys are  *)
(* numbers, a page id is a number, 0 is no page.  An index counts from 0,  *)
(* as in the code; only the accesses to a sequence add 1.                  *)
(***************************************************************************)
EXTENDS Integers, SequencesExt

DEGREE == 2

ORDER == 2 * DEGREE

Node(leaf, keys, vals, kids) ==
    [leaf |-> leaf, keys |-> keys, vals |-> vals, kids |-> kids,
     left |-> 0, right |-> 0, dead |-> FALSE]

\* helpers.InsertBinarySearch: the index of k, or of a neighbour of its place.
\* at[lo, l] searches the l keys from index lo on.
InsertBinarySearch(keys, k) ==
    LET at[lo \in 0..Len(keys), l \in 0..Len(keys)] ==
            LET m == lo + l \div 2
                key == keys[m + 1]
            IN  IF key = k \/ l = 1 \/ (key > k /\ k > keys[m]) THEN m
                ELSE IF key > k THEN at[lo, l \div 2] ELSE at[m, l - l \div 2]
    IN  at[0, Len(keys)]

\* helpers.InsertToList: an index past the end appends.
InsertToList(s, idx, e) ==
    IF idx > Len(s) - 1 THEN Append(s, e) ELSE InsertAt(s, idx + 1, e)

Drop(s, idx) == SubSeq(s, 1, idx) \o SubSeq(s, idx + 2, Len(s))

KeyAt(n, k) == n.keys[InsertBinarySearch(n.keys, k) + 1]

\* The index of the child that leads to k.
ChildIdx(n, k) ==
    LET idx == InsertBinarySearch(n.keys, k)
    IN  IF k < n.keys[idx + 1] THEN idx ELSE idx + 1

\* Mutation: the value goes to the index that the search returned.
LeafInsert_ValueAtIdx(n, k, v) ==
    LET idx == InsertBinarySearch(n.keys, k)
        to == IF k < n.keys[idx + 1] THEN idx ELSE idx + 1
    IN  IF n.keys = <<>> THEN [n EXCEPT !.keys = <<k>>, !.vals = <<v>>]
        ELSE IF k = n.keys[idx + 1] THEN [n EXCEPT !.vals[idx + 1] = v]
        ELSE [n EXCEPT !.keys = InsertToList(@, to, k), !.vals = InsertToList(@, idx, v)]

\* insert on a node without keys or on a leaf.
LeafInsert(n, k, v) ==
    LET idx == InsertBinarySearch(n.keys, k)
        to == IF k < n.keys[idx + 1] THEN idx ELSE idx + 1
    IN  IF n.keys = <<>> THEN [n EXCEPT !.keys = <<k>>, !.vals = <<v>>]
        ELSE IF k = n.keys[idx + 1] THEN [n EXCEPT !.vals[idx + 1] = v]
        ELSE [n EXCEPT !.keys = InsertToList(@, to, k), !.vals = InsertToList(@, to, v)]

LeafRemove(n, k) ==
    LET idx == InsertBinarySearch(n.keys, k)
    IN  [n EXCEPT !.keys = Drop(@, idx), !.vals = Drop(@, idx)]

From(s, i) == SubSeq(s, i + 1, Len(s))

UpTo(s, i) == SubSeq(s, 1, i)

\* Mutation: the promoted key of an internal node stays in the right node, too.
split_KeepPromoted(n) ==
    LET mid == Len(n.keys) \div 2
        vals == IF n.leaf THEN <<UpTo(n.vals, mid), From(n.vals, mid)>> ELSE <<<<>>, <<>>>>
        kids == IF n.leaf THEN <<<<>>, <<>>>> ELSE <<UpTo(n.kids, mid + 1), From(n.kids, mid + 1)>>
    IN  [left |-> [n EXCEPT !.keys = UpTo(@, mid), !.vals = vals[1], !.kids = kids[1]],
         right |-> Node(n.leaf, From(n.keys, mid), vals[2], kids[2]),
         promoted |-> n.keys[mid + 1]]

\* Mutation: the left internal node keeps as many children as keys.
split_OneChildLess(n) ==
    LET mid == Len(n.keys) \div 2
        vals == IF n.leaf THEN <<UpTo(n.vals, mid), From(n.vals, mid)>> ELSE <<<<>>, <<>>>>
        kids == IF n.leaf THEN <<<<>>, <<>>>> ELSE <<UpTo(n.kids, mid), From(n.kids, mid + 1)>>
    IN  [left |-> [n EXCEPT !.keys = UpTo(@, mid), !.vals = vals[1], !.kids = kids[1]],
         right |-> Node(n.leaf, From(n.keys, IF n.leaf THEN mid ELSE mid + 1), vals[2], kids[2]),
         promoted |-> n.keys[mid + 1]]

\* Node.split: what stays, the new right node and the key that is promoted.
split(n) ==
    LET mid == Len(n.keys) \div 2
    IN  IF n.leaf
        THEN [left |-> [n EXCEPT !.keys = UpTo(@, mid), !.vals = UpTo(@, mid)],
              right |-> Node(TRUE, From(n.keys, mid), From(n.vals, mid), <<>>),
              promoted |-> n.keys[mid + 1]]
        ELSE [left |-> [n EXCEPT !.keys = UpTo(@, mid), !.kids = UpTo(@, mid + 1)],
              right |-> Node(FALSE, From(n.keys, mid + 1), <<>>, From(n.kids, mid + 1)),
              promoted |-> n.keys[mid + 1]]

\* Mutation: the right leaf starts one entry late.
LeafShare_OffByOne(a, b) ==
    LET keys == a.keys \o b.keys
        vals == a.vals \o b.vals
        mid == Len(keys) \div 2
    IN  <<[a EXCEPT !.keys = UpTo(keys, mid), !.vals = UpTo(vals, mid)],
          [b EXCEPT !.keys = From(keys, mid + 1), !.vals = From(vals, mid + 1)]>>

\* The redistribution between two adjacent leaves a and b.
LeafShare(a, b) ==
    LET keys == a.keys \o b.keys
        vals == a.vals \o b.vals
        mid == Len(keys) \div 2
    IN  <<[a EXCEPT !.keys = UpTo(keys, mid), !.vals = UpTo(vals, mid)],
          [b EXCEPT !.keys = From(keys, mid), !.vals = From(vals, mid)]>>

\* The redistribution between two adjacent internal nodes: the code gives the
\* right one its share only when the left one is not the node that underflowed.
InternalShare(a, b, fromRight) ==
    LET keys == a.keys \o b.keys
        kids == a.kids \o b.kids
        midK == Len(keys) \div 2
        midC == Len(kids) \div 2
    IN  <<[a EXCEPT !.keys = UpTo(keys, midK), !.kids = UpTo(kids, midC)],
          IF fromRight THEN b
          ELSE [b EXCEPT !.keys = From(keys, midK), !.kids = From(kids, midC)]>>
=============================================================================
