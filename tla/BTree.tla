------------------------------- MODULE BTree -------------------------------
(***************************************************************************)
(* The B+ tree (pkg/bptree): InsertValue, Get, RangeSearch and DeleteValue *)
(* as the HTTP handlers of main.go call them, first one call after the     *)
(* other, then any number at a time.                                       *)
(*                                                                         *)
(* A Node is a copy that buildPage makes of a page; its latch protects the *)
(* copy only.  The pages are shared: one step reads a page, one step is    *)
(* one SyncFrame.  What runs between two page accesses touches nothing     *)
(* that another goroutine sees, so it belongs to the step before it.       *)
(***************************************************************************)
EXTENDS BTreeNode, FiniteSets

CONSTANTS Clients,    \* goroutines of the HTTP server
          First,      \* the goroutine of the calls made before the others
          Keys, Vals, \* Vals holds the value FirstVal that First puts
          FirstVal,
          Empty,      \* the value without bytes, which the log does not take
          Scripts,    \* what First may call; then how many calls the others make, with which keys,
                      \* values and range ends, and how many calls of the cache may fail
          Limits      \* limits of a range

ASSUME BTreeAssumption ==
    /\ First \notin Clients /\ FirstVal \in Vals \ {Empty}
    /\ Keys \subseteq Nat \ {0}
    /\ \A s \in Scripts : /\ s.use \subseteq Keys /\ s.vals \subseteq Vals /\ s.ends \subseteq Nat
                          /\ s.ops \in Nat /\ s.faults \in Nat
                          /\ \A i \in DOMAIN s.calls : s.calls[i][2] \in Keys
    /\ Limits \subseteq Int
    /\ {"err", "io", "abort", "panic", "ok", "none"} \cap Vals = {}

VARIABLES
    Root,       \* BTree.Root, 0 when there is none
    pages,      \* the pages, by id
    leaked,     \* how BTree.mu is held by calls that have returned: "R", "W"
    waiting,    \* the goroutines blocked in BTree.mu.Lock
    cl,         \* the call that each goroutine executes
    script, ops, faults,
    harm,       \* history: what has happened that the tree does not survive unharmed
    torn,       \* history: the readers that overlap a split or a removed root
    puts,       \* history: the pairs that were put
    want        \* history: the map after the writes begun so far

vars == <<Root, pages, leaked, waiting, cl, script, ops, faults, harm, torn, puts, want>>
ghosts == <<script, ops, puts, want>>

Procs == Clients \cup {First}
Ids == DOMAIN pages

NoSplit == [key |-> 0, id |-> 0]
NoMerge == [rebal |-> 0, merged |-> FALSE, right |-> FALSE]
NoNode == Node(TRUE, <<>>, <<>>, <<>>)

\* A call: its arguments (end = 0: a range without an end), the page it visits next, the copies it works on
\* (n, and stack: the internal nodes on the way with the index followed), the
\* frames it has still to sync and what follows the last of them, its
\* SplitResponse and MergeMetadata, and its answer: "io" is an error of the
\* cache, "abort" the panic of a call that met an error of the cache or of the
\* log, "panic" any other panic (an index out of range, an invalid node).
Idle == [pc |-> "idle", op |-> "none", key |-> 0, val |-> FirstVal, limit |-> 0, end |-> 0,
         top |-> 0, page |-> 0, sib |-> 0, n |-> NoNode, stack |-> <<>>, todo |-> <<>>,
         next |-> "idle", res |-> NoSplit, mr |-> NoMerge, items |-> <<>>,
         applied |-> FALSE, ret |-> "ok"]

\* BTStack: the copy of an internal node on the way, and the index followed.
TraversePath(n, page, idx) == [n |-> n, page |-> page, idx |-> idx]
Add(stack, path) == Append(stack, path)
Pop(stack) == Front(stack)
Top(stack) == Last(stack)

Busy(c) == cl[c].pc # "idle"
Writer(c) == cl[c].op \in {"put", "delete"}

\* Writers overlapped, a deletion needed a sibling, a writer began after that,
\* the root collapsed, or the cache failed in the middle of a change of several
\* pages.  Up to a deletion that needs a sibling every key stays in a leaf.
Mild == harm \subseteq {"underflow"}

Init ==
    /\ Root = 0 /\ pages = <<>>
    /\ leaked = {} /\ waiting = {}
    /\ cl = [c \in Procs |-> Idle]
    /\ script \in Scripts
    /\ ops = 0 /\ faults = 0
    /\ harm = {} /\ torn = {} /\ puts = {}
    /\ want = [k \in Keys |-> "none"]

-----------------------------------------------------------------------------
(* The cache (external) and the lock.                                      *)

\* One call of SyncFrame: page p takes the content of n.  err: how the call ends
\* if it fails.  kill: the frame was marked dead before.  takes: the call takes
\* effect here.
Frame(p, n, err) == [p |-> p, n |-> n, err |-> err, kill |-> FALSE, takes |-> FALSE]
Takes(p, n, err) == [Frame(p, n, err) EXCEPT !.takes = TRUE]
Dead(p, n, err) == [Frame(p, n, err) EXCEPT !.kill = TRUE]

\* A page keeps its kind: a leaf page holds no children, an internal one no values.
Stored(old, n, kill) ==
    [n EXCEPT !.leaf = old.leaf,
              !.vals = IF old.leaf THEN @ ELSE <<>>,
              !.kids = IF old.leaf THEN <<>> ELSE @,
              !.dead = old.dead \/ kill]

\* cache.CreateNewEntry gives a new node a page id.
NewId == Len(pages) + 1
CreateNewEntry(n) == pages' = Append(pages, n)

\* One call of the cache by c fails.  The tree is unharmed while the call has not
\* changed a page of it, and no deletion is between two siblings.  The calls of
\* First prepare the tree and do not fail, except the last if no others follow.
CacheFails(c) ==
    /\ faults < script.faults /\ (c # First \/ (script.use = {} /\ script.calls = <<>>))
    /\ faults' = faults + 1

Fault(c) ==
    /\ CacheFails(c)
    /\ harm' = IF Writer(c) /\ (cl[c].applied \/ harm # {}) THEN harm \cup {"fault"} ELSE harm

Lock(c) == leaked = {} /\ waiting' = waiting \ {c}
RLock == "W" \notin leaked /\ waiting = {}

-----------------------------------------------------------------------------
(* Steps common to the calls.                                              *)

Do(c, call) == cl' = [cl EXCEPT ![c] = call]

Done(call, ret) ==
    [Idle EXCEPT !.pc = "done", !.op = call.op, !.key = call.key, !.val = call.val,
                 !.limit = call.limit, !.end = call.end, !.items = call.items, !.applied = call.applied, !.ret = ret]

Reply(c, ret) == Do(c, Done(cl[c], ret))

Syncing(call, todo, next) ==
    [call EXCEPT !.pc = "sync", !.todo = todo, !.next = next]

\* Mutation: a search does not go on to the child.
Follow_Stay(c, n, record) ==
    LET call == cl[c]
        i == ChildIdx(n, call.key)
    IN  Do(c, [call EXCEPT !.page = IF record THEN n.kids[i + 1] ELSE @,
                           !.stack = IF record THEN Add(@, TraversePath(n, call.page, i)) ELSE @])

\* The next child on the way down, with or without a record of the path.
Follow(c, n, record) ==
    LET call == cl[c]
        i == ChildIdx(n, call.key)
    IN  IF i + 1 > Len(n.kids) THEN Reply(c, "panic")
        ELSE Do(c, [call EXCEPT !.page = n.kids[i + 1],
                                !.stack = IF record THEN Add(@, TraversePath(n, call.page, i))
                                          ELSE @])

\* SyncFrame of the next frame of c.
Sync(c) ==
    LET call == cl[c]
        fr == Head(call.todo)
        rest == Tail(call.todo)
        then == [call EXCEPT !.todo = rest, !.applied = @ \/ fr.takes]
    IN  /\ call.pc = "sync"
        /\ pages' = [pages EXCEPT ![fr.p] = Stored(@, fr.n, fr.kill)]
        /\ CASE rest # <<>> -> Do(c, then)
             [] rest = <<>> /\ call.next = "done" -> Do(c, Done(then, "ok"))
             [] OTHER -> Do(c, [then EXCEPT !.pc = call.next])
        /\ UNCHANGED <<Root, leaked, waiting, faults, harm, ghosts>>

\* SyncFrame fails and leaves the page as it is.
SyncFault(c) ==
    LET fr == Head(cl[c].todo)
    IN  /\ cl[c].pc = "sync"
        /\ Fault(c)
        /\ pages' = [pages EXCEPT ![fr.p].dead = @ \/ fr.kill]
        /\ Reply(c, fr.err)
        /\ UNCHANGED <<Root, leaked, waiting, ghosts>>

\* A goroutine blocks in BTree.mu.Lock; as a waiting writer it keeps readers out.
Block(c) ==
    /\ leaked # {} /\ c \notin waiting
    /\ \/ cl[c].pc \in {"setroot", "rootleaf", "ilone", "collapse"}
       \/ cl[c].pc = "visit" /\ cl[c].op = "put"
    /\ waiting' = waiting \cup {c}
    /\ UNCHANGED <<Root, pages, leaked, cl, faults, harm, ghosts>>

\* The answer reaches the caller.
Return(c) ==
    /\ cl[c].pc = "done"
    /\ Do(c, Idle)
    /\ UNCHANGED <<Root, pages, leaked, waiting, faults, harm, ghosts>>

-----------------------------------------------------------------------------
(* InsertValue                                                             *)

\* The unprotected test of bt.Root; without a root a new leaf gets a page.
PutTest(c) ==
    LET call == cl[c]
    IN  /\ call.pc = "test"
        /\ IF Root = 0
           THEN /\ CreateNewEntry(Node(TRUE, <<call.key>>, <<call.val>>, <<>>))
                /\ Do(c, [call EXCEPT !.pc = "setroot", !.page = NewId])
           ELSE /\ Do(c, [call EXCEPT !.pc = "rlock"])
                /\ UNCHANGED pages
        /\ UNCHANGED <<Root, leaked, waiting, faults, harm, ghosts>>

\* bt.Root is set under the lock: to the first leaf, or to the root above a split.
SetRoot(c) ==
    /\ cl[c].pc = "setroot"
    /\ cl[c].applied \/ cl[c].val # Empty
    /\ Lock(c)
    /\ Root' = cl[c].page
    /\ Do(c, Done([cl[c] EXCEPT !.applied = TRUE], "ok"))
    /\ UNCHANGED <<pages, leaked, faults, harm, ghosts>>

\* The first leaf is the root when the log refuses an empty value, or SyncFrame
\* fails: the call panics with the lock held.
FirstRootFails(c) ==
    LET call == cl[c]
    IN  /\ call.pc = "setroot" /\ ~call.applied
        /\ Lock(c)
        /\ IF call.val = Empty THEN UNCHANGED <<faults, harm>> ELSE Fault(c)
        /\ Root' = call.page
        /\ leaked' = leaked \cup {"W"}
        /\ Do(c, Done([call EXCEPT !.applied = TRUE], "abort"))
        /\ want' = [want EXCEPT ![call.key] = call.val]
        /\ UNCHANGED <<pages, script, ops, puts>>

PutRLock(c) ==
    /\ cl[c].pc = "rlock" /\ cl[c].op = "put"
    /\ RLock
    /\ IF Root = 0 THEN Reply(c, "ok")
       ELSE Do(c, [cl[c] EXCEPT !.pc = "visit", !.page = Root])
    /\ UNCHANGED <<Root, pages, leaked, waiting, faults, harm, ghosts>>

\* Mutation: the old node is synced before the new one.
LeafSplit_OldFirst(c, n) ==
    LET call == cl[c]
        s == split(n)
        right == [s.right EXCEPT !.left = call.page, !.right = n.right]
        left == [s.left EXCEPT !.right = NewId]
        todo == <<Takes(call.page, left, "abort"), Frame(NewId, right, "abort")>>
    IN  /\ CreateNewEntry(s.right)
        /\ Do(c, [Syncing(call, todo, "prop") EXCEPT
                    !.res = [key |-> s.promoted, id |-> NewId], !.sib = n.right,
                    !.pc = IF n.right > 0 THEN "leafsib" ELSE "sync"])

\* insert on a leaf that overflows: the new right node gets a page; the frames
\* to sync are the new node, the old one and, once it is read, the old right
\* sibling.
LeafSplit(c, n) ==
    LET call == cl[c]
        s == split(n)
        right == [s.right EXCEPT !.left = call.page, !.right = n.right]
        left == [s.left EXCEPT !.right = NewId]
        todo == <<Frame(NewId, right, "abort"), Takes(call.page, left, "abort")>>
        res == [key |-> s.promoted, id |-> NewId]
    IN  /\ CreateNewEntry(s.right)
        /\ Do(c, [Syncing(call, todo, "prop") EXCEPT
                    !.res = res, !.sib = n.right, !.pc = IF n.right > 0 THEN "leafsib" ELSE "sync"])

\* One round of the loop of InsertValue: the page is read, the lock taken and
\* released, and insert runs on the copy.  AddPutLog refuses an empty value, and
\* insert panics before it changes a page.  Outside a split the error of
\* SyncFrame reaches nobody: insert drops it, or addKey, which answers 200.
PutVisit(c) ==
    LET call == cl[c]
        n == pages[call.page]
        n2 == LeafInsert(n, call.key, call.val)
    IN  /\ call.pc = "visit" /\ call.op = "put"
        /\ Lock(c)
        /\ CASE n.keys # <<>> /\ ~n.leaf -> Follow(c, n, TRUE) /\ UNCHANGED pages
             [] call.val = Empty /\ (n.leaf \/ n.keys = <<>>) -> Reply(c, "abort") /\ UNCHANGED pages
             [] call.val # Empty /\ n.leaf /\ Len(n2.keys) > ORDER -> LeafSplit(c, n2)
             [] OTHER -> /\ Do(c, Syncing(call, <<Takes(call.page, n2, "ok")>>, "done"))
                         /\ UNCHANGED pages
        /\ UNCHANGED <<Root, leaked, faults, harm, ghosts>>

\* The old right sibling of a split node is read; its left link is the new node.
\* After a leaf split it is synced last, after an internal one first.
PutSibling(c) ==
    LET call == cl[c]
        old == <<Frame(call.sib, [pages[call.sib] EXCEPT !.left = call.res.id], "abort")>>
    IN  /\ \/ call.pc = "leafsib" /\ Do(c, Syncing(call, call.todo \o old, call.next))
           \/ call.pc = "parentsib" /\ Do(c, Syncing(call, old \o call.todo, call.next))
        /\ UNCHANGED <<Root, pages, leaked, waiting, faults, harm, ghosts>>

\* One round of the propagation of a split: the copy of the parent on the stack
\* takes the promoted key and the new child, and is split if it overflows.
PutParent(c) ==
    LET call == cl[c]
        path == Top(call.stack)
        n == [path.n EXCEPT !.keys = InsertToList(@, path.idx, call.res.key),
                            !.kids = InsertToList(@, path.idx + 1, call.res.id)]
        s == split(n)
        right == [s.right EXCEPT !.left = path.page, !.right = n.right]
        left == [s.left EXCEPT !.right = NewId]
        up == [call EXCEPT !.stack = Pop(@)]
    IN  /\ call.pc = "prop" /\ call.stack # <<>>
        /\ IF Len(n.keys) > ORDER - 1
           THEN /\ CreateNewEntry(s.right)
                /\ Do(c, [Syncing(up, <<Frame(NewId, right, "abort"), Frame(path.page, left, "abort")>>, "prop") EXCEPT
                            !.res = [key |-> s.promoted, id |-> NewId], !.sib = n.right,
                            !.pc = IF n.right > 0 THEN "parentsib" ELSE "sync"])
           ELSE /\ Do(c, Syncing([up EXCEPT !.res = NoSplit], <<Frame(path.page, n, "abort")>>, "done"))
                /\ UNCHANGED pages
        /\ UNCHANGED <<Root, leaked, waiting, faults, harm, ghosts>>

\* The root was split: a new root above bt.Root and the new node gets a page.
PutNewRoot(c) ==
    LET call == cl[c]
        n == Node(FALSE, <<call.res.key>>, <<>>, <<Root, call.res.id>>)
    IN  /\ call.pc = "prop" /\ call.stack = <<>>
        /\ CreateNewEntry(n)
        /\ Do(c, Syncing([call EXCEPT !.page = NewId, !.res = NoSplit], <<Frame(NewId, n, "abort")>>, "setroot"))
        /\ UNCHANGED <<Root, leaked, waiting, faults, harm, ghosts>>

\* CreateNewEntry fails: for the first leaf and for an internal split InsertValue
\* returns the error, which addKey drops; for a leaf split and for a new root it
\* panics.
EntryFault(c) ==
    LET call == cl[c]
        leaf == pages[call.page]
    IN  /\ Fault(c)
        /\ \/ call.pc = "test" /\ Root = 0 /\ Reply(c, "ok") /\ UNCHANGED waiting
           \/ /\ call.pc = "visit" /\ call.op = "put" /\ call.val # Empty
              /\ leaf.leaf /\ Len(LeafInsert(leaf, call.key, call.val).keys) > ORDER
              /\ Lock(c)
              /\ Reply(c, "abort")
           \/ /\ call.pc = "prop" /\ call.stack # <<>> /\ Len(Top(call.stack).n.keys) + 1 > ORDER - 1
              /\ Reply(c, "ok")
              /\ UNCHANGED waiting
           \/ call.pc = "prop" /\ call.stack = <<>> /\ Reply(c, "abort") /\ UNCHANGED waiting
        /\ UNCHANGED <<Root, pages, leaked, ghosts>>

-----------------------------------------------------------------------------
(* Get and RangeSearch                                                     *)

GetRLock(c) ==
    /\ cl[c].pc = "rlock" /\ cl[c].op = "get"
    /\ RLock
    /\ IF Root = 0 THEN Reply(c, "err")
       ELSE Do(c, [cl[c] EXCEPT !.pc = "visit", !.page = Root])
    /\ UNCHANGED <<Root, pages, leaked, waiting, faults, harm, ghosts>>

\* search
GetVisit(c) ==
    LET call == cl[c]
        n == pages[call.page]
    IN  /\ call.pc = "visit" /\ call.op = "get"
        /\ CASE n.keys = <<>> \/ (n.vals = <<>> /\ n.kids = <<>>) -> Reply(c, "panic")
             [] n.leaf /\ n.keys # <<>> /\ n.vals # <<>> ->
                    Reply(c, IF KeyAt(n, call.key) = call.key
                             THEN n.vals[InsertBinarySearch(n.keys, call.key) + 1] ELSE "err")
             [] OTHER -> Follow(c, n, FALSE)
        /\ UNCHANGED <<Root, pages, leaked, waiting, faults, harm, ghosts>>

Pairs(n, from, to) == [i \in 1..(to - from) |-> <<n.keys[from + i], n.vals[from + i]>>]

\* RangeSearch reads bt.Root twice without the lock: to test it, and as the page
\* to start from.
RangeStart(c) ==
    /\ cl[c].pc = "start"
    /\ IF Root = 0 THEN Reply(c, "err") ELSE Do(c, [cl[c] EXCEPT !.pc = "load"])
    /\ UNCHANGED <<Root, pages, leaked, waiting, faults, harm, ghosts>>

\* Without a page the loop does not run, and the nil node that it leaves is
\* dereferenced.
RangeLoad(c) ==
    /\ cl[c].pc = "load"
    /\ IF Root = 0 THEN Reply(c, "panic")
       ELSE Do(c, [cl[c] EXCEPT !.pc = "visit", !.page = Root])
    /\ UNCHANGED <<Root, pages, leaked, waiting, faults, harm, ghosts>>

\* rangeSearch: on a page without content it returns without a next page and the
\* loop visits the same page again, so there is no step then.
RangeVisit(c) ==
    LET call == cl[c]
        n == pages[call.page]
        items == Pairs(n, InsertBinarySearch(n.keys, call.key), Len(n.keys))
    IN  /\ call.pc = "visit" /\ call.op = "range"
        /\ n.keys # <<>> /\ (n.vals # <<>> \/ n.kids # <<>>)
        /\ CASE ~n.leaf -> Follow(c, n, FALSE)
             [] n.leaf /\ KeyAt(n, call.key) # call.key -> Reply(c, "err")
             [] n.leaf /\ KeyAt(n, call.key) = call.key ->
                    IF n.right > 0 THEN Do(c, [call EXCEPT !.pc = "scan", !.sib = n.right, !.items = items])
                    ELSE Do(c, Done([call EXCEPT !.items = items], "ok"))
        /\ UNCHANGED <<Root, pages, leaked, waiting, faults, harm, ghosts>>

\* One round of RangeLoop.  The loop ends at the first key k with end > k, and
\* as soon as an item has been added and the limit is reached.
RangeScan(c) ==
    LET call == cl[c]
        n == pages[call.sib]
        len == Len(n.keys)
        cut == {i \in 1..len : call.end > 0 /\ call.end > n.keys[i]}
        full == {i \in 1..len : Len(call.items) + i >= call.limit}
        stops == {i - 1 : i \in cut} \cup full
        taken == IF stops = {} THEN len ELSE CHOOSE i \in stops : \A j \in stops : i <= j
        items == call.items \o Pairs(n, 0, taken)
    IN  /\ call.pc = "scan"
        /\ CASE ~n.leaf -> Reply(c, "err")
             [] n.leaf /\ (stops # {} \/ n.right <= 0) -> Do(c, Done([call EXCEPT !.items = items], "ok"))
             [] OTHER -> Do(c, [call EXCEPT !.sib = n.right, !.items = items])
        /\ UNCHANGED <<Root, pages, leaked, waiting, faults, harm, ghosts>>

-----------------------------------------------------------------------------
(* DeleteValue                                                             *)

\* Without a root the read lock is kept: the early return skips RUnlock.
DelRLock(c) ==
    /\ cl[c].pc = "rlock" /\ cl[c].op = "delete"
    /\ RLock
    /\ IF Root = 0 THEN Reply(c, "err") /\ leaked' = leaked \cup {"R"}
       ELSE Do(c, [cl[c] EXCEPT !.pc = "visit", !.page = Root]) /\ UNCHANGED leaked
    /\ UNCHANGED <<Root, pages, waiting, faults, harm, ghosts>>

\* deleteValue.  A leaf that does not underflow is synced and 1 returned, which
\* the loop takes for the page to visit next.
DelVisit(c) ==
    LET call == cl[c]
        n == pages[call.page]
        n2 == LeafRemove(n, call.key)
        sib == IF n.right > 0 THEN n.right ELSE n.left
    IN  /\ call.pc = "visit" /\ call.op = "delete"
        /\ CASE n.keys = <<>> \/ (n.leaf /\ KeyAt(n, call.key) # call.key) ->
                    Reply(c, "ok") /\ UNCHANGED harm
             [] n.keys # <<>> /\ ~n.leaf -> Follow(c, n, TRUE) /\ UNCHANGED harm
             [] OTHER ->
                    IF Len(n2.keys) >= DEGREE
                    THEN /\ Do(c, [Syncing(call, <<Takes(call.page, n2, "io")>>, "visit") EXCEPT !.page = 1])
                         /\ UNCHANGED harm
                    ELSE /\ Do(c, [call EXCEPT !.pc = IF sib > 0 THEN "leafmerge" ELSE "rootleaf", !.n = n2,
                                               !.sib = sib, !.mr.right = n.right > 0])
                         /\ harm' = IF sib > 0 THEN harm \cup {"underflow"} ELSE harm
        /\ UNCHANGED <<Root, pages, leaked, waiting, faults, ghosts>>

\* handleLeafUnderflow without a sibling: a root may underflow, and a root
\* without keys is removed.  The error of SyncFrame is dropped, and so is that
\* of a node that is not the root.
DelRootLeaf(c) ==
    LET call == cl[c]
        empty == call.n.keys = <<>>
    IN  /\ call.pc = "rootleaf"
        /\ Lock(c)
        /\ \/ /\ Root = call.page
              /\ Root' = IF empty THEN 0 ELSE Root
              /\ \/ /\ pages' = [pages EXCEPT ![call.page] = Stored(@, call.n, empty)]
                    /\ UNCHANGED <<faults, harm>>
                 \/ /\ pages' = [pages EXCEPT ![call.page].dead = @ \/ empty]
                    /\ Fault(c)
              /\ Do(c, Done([call EXCEPT !.applied = TRUE], "ok"))
           \/ Root # call.page /\ Reply(c, "ok") /\ UNCHANGED <<Root, pages, faults, harm>>
        /\ UNCHANGED <<leaked, ghosts>>

\* A merge of n with its sibling, whose new content is s: n is marked dead.  On
\* a merge with the right sibling the left neighbour of n, if there is one, is
\* read and linked to that sibling first.
Merging(call, s) ==
    LET outer == call.mr.right /\ call.n.left > 0
    IN  [Syncing(call, <<Dead(call.page, call.n, "abort"), Frame(call.sib, s, "abort")>>, "dprop") EXCEPT
            !.pc = IF outer THEN "outer" ELSE "sync", !.mr.merged = TRUE]

Sharing(call, pair, rebal) ==
    LET n == IF call.mr.right THEN pair[1] ELSE pair[2]
        s == IF call.mr.right THEN pair[2] ELSE pair[1]
        err == IF n.leaf THEN "abort" ELSE "io"
    IN  [Syncing(call, <<Frame(call.page, n, err), Frame(call.sib, s, err)>>, "dprop") EXCEPT !.mr.rebal = rebal]

\* handleLeafUnderflow with a sibling: borrow from it or merge into it.  The
\* left link of a right sibling changes only if n has a left sibling.
DelLeafMerge(c) ==
    LET call == cl[c]
        n == call.n
        s == pages[call.sib]
        a == IF call.mr.right THEN n ELSE s
        b == IF call.mr.right THEN s ELSE n
        pair == LeafShare(a, b)
        merged == [s EXCEPT !.keys = a.keys \o b.keys, !.vals = a.vals \o b.vals,
                            !.left = IF call.mr.right /\ n.left > 0 THEN n.left ELSE @]
    IN  /\ call.pc = "leafmerge"
        /\ Do(c, IF Len(n.keys) + Len(s.keys) >= ORDER THEN Sharing(call, pair, pair[2].keys[1])
                 ELSE Merging(call, merged))
        /\ UNCHANGED <<Root, pages, leaked, waiting, faults, harm, ghosts>>

\* The left neighbour of the merged node is read; it is synced first.
DelOuter(c) ==
    LET call == cl[c]
        outer == Frame(call.n.left, [pages[call.n.left] EXCEPT !.right = call.n.right],
                       IF call.n.leaf THEN "abort" ELSE "io")
    IN  /\ call.pc = "outer"
        /\ Do(c, Syncing(call, <<outer>> \o call.todo, call.next))
        /\ UNCHANGED <<Root, pages, leaked, waiting, faults, harm, ghosts>>

\* The copy of the parent after a redistribution or a merge below it, <<>> where
\* the code indexes out of range.  keyIdx is the place of the deleted key.
Parent(call) ==
    LET path == Top(call.stack)
        n == path.n
        keyIdx == InsertBinarySearch(n.keys, call.key)
        i == IF call.mr.right THEN keyIdx ELSE keyIdx - 1
    IN  IF call.mr.rebal > 0 /\ Len(n.keys) = 1 THEN <<[n EXCEPT !.keys[keyIdx + 1] = call.mr.rebal]>>
        ELSE IF i < 0 THEN <<>>
        ELSE IF call.mr.rebal > 0 THEN <<[n EXCEPT !.keys = InsertAt(@, i + 1, call.mr.rebal)]>>
        ELSE IF path.idx + 1 > Len(n.kids) THEN <<>>
        ELSE <<[n EXCEPT !.keys = Drop(@, i), !.kids = Drop(@, path.idx)]>>

\* One round of the propagation of a merge.
DelParent(c) ==
    LET call == cl[c]
        page == Top(call.stack).page
        n == Parent(call)[1]
        up == [call EXCEPT !.stack = Pop(@), !.page = page, !.n = n,
                           !.mr = [NoMerge EXCEPT !.right = n.right > 0],
                           !.sib = IF n.right > 0 THEN n.right ELSE n.left]
        under == Len(n.keys) < DEGREE - 1
    IN  /\ call.pc = "dprop"
        /\ IF call.stack = <<>> THEN Reply(c, "err")
           ELSE IF Parent(call) = <<>> THEN Reply(c, "panic")
           ELSE CASE under /\ Root # page /\ up.stack = <<>> -> Reply(c, IF call.top # page THEN "err" ELSE "ok")
                  [] under /\ Root # page /\ up.stack # <<>> ->
                         Do(c, [up EXCEPT !.pc = IF up.sib > 0 THEN "internalmerge" ELSE "ilone"])
                  [] under /\ Root = page /\ Len(n.kids) = 1 -> Do(c, [up EXCEPT !.pc = "collapse"])
                  [] OTHER -> Do(c, Syncing(up, <<Frame(page, n, "io")>>, "done"))
        /\ UNCHANGED <<Root, pages, leaked, waiting, faults, harm, ghosts>>

\* handleInternalUnderflow with a sibling.
DelInternalMerge(c) ==
    LET call == cl[c]
        n == call.n
        s == pages[call.sib]
        right == call.mr.right
        a == IF right THEN n ELSE s
        b == IF right THEN s ELSE n
        path == Top(call.stack)
        sep == IF right THEN path.idx ELSE path.idx - 1
        pair == InternalShare(a, b, right)
        merged == [s EXCEPT !.keys = a.keys \o <<path.n.keys[sep + 1]>> \o b.keys, !.kids = a.kids \o b.kids,
                            !.left = IF right THEN n.left ELSE @, !.right = IF right THEN @ ELSE n.right]
    IN  /\ call.pc = "internalmerge"
        /\ IF Len(n.kids) + Len(s.kids) >= ORDER + 1
           THEN IF pair[2].keys = <<>> THEN Reply(c, "panic") ELSE Do(c, Sharing(call, pair, pair[2].keys[1]))
           ELSE IF sep + 1 \notin DOMAIN path.n.keys THEN Reply(c, "panic")
           ELSE Do(c, Merging(call, merged))
        /\ UNCHANGED <<Root, pages, leaked, waiting, faults, harm, ghosts>>

\* handleInternalUnderflow without a sibling: the root that the call started
\* from is marked dead and this node takes its place.  The first return, and the
\* one after a failed read, skip Unlock.
DelLone(c) ==
    LET call == cl[c]
    IN  /\ call.pc = "ilone"
        /\ Lock(c)
        /\ \/ /\ IF call.top = call.page THEN Reply(c, "ok") /\ UNCHANGED <<faults, harm>>
                 ELSE Reply(c, "io") /\ Fault(c)
              /\ leaked' = leaked \cup {"W"}
              /\ UNCHANGED <<Root, pages>>
           \/ /\ call.top # call.page
              /\ Root' = call.page
              /\ pages' = [pages EXCEPT ![call.top].dead = TRUE]
              /\ Do(c, Syncing(call, <<Frame(call.top, pages[call.top], "io")>>, "done"))
              /\ harm' = harm \cup {"root"}
              /\ UNCHANGED <<leaked, faults>>
        /\ UNCHANGED ghosts

\* A root with one child: the child becomes the root, is marked dead, and takes
\* the content of the old root.  If SyncFrame fails the lock is kept.
DelCollapse(c) ==
    LET call == cl[c]
        child == call.n.kids[1]
    IN  /\ call.pc = "collapse"
        /\ Lock(c)
        /\ Root' = child
        /\ \/ /\ pages' = [pages EXCEPT ![child] = Stored(@, call.n, TRUE)]
              /\ Reply(c, "ok")
              /\ UNCHANGED <<leaked, faults>>
           \/ /\ CacheFails(c)
              /\ pages' = [pages EXCEPT ![child].dead = TRUE]
              /\ Reply(c, "io")
              /\ leaked' = leaked \cup {"W"}
        /\ harm' = harm \cup {"root"}
        /\ UNCHANGED ghosts

-----------------------------------------------------------------------------
(* Calls, failures of the cache, and the whole.                            *)

Call(op, k, v, limit, end) ==
    [Idle EXCEPT !.pc = CASE op = "put" -> "test" [] op = "range" -> "start" [] OTHER -> "rlock",
                 !.op = op, !.key = k, !.val = v, !.limit = limit, !.end = end, !.top = Root]

\* c begins a call; top is the root that BTStack records.
Begin(c, call) ==
    /\ cl[c].pc = "idle"
    /\ Do(c, call)
    /\ puts' = IF call.op = "put" THEN puts \cup {<<call.key, call.val>>} ELSE puts
    /\ want' = CASE call.op = "put" /\ call.val # Empty -> [want EXCEPT ![call.key] = call.val]
                 [] call.op = "delete" -> [want EXCEPT ![call.key] = "none"]
                 [] OTHER -> want
    /\ harm' = IF call.op \notin {"put", "delete"} THEN harm
               ELSE harm \cup {h \in {"overlap"} : \E d \in Procs : Writer(d)}
                         \cup {h \in {"late"} : "underflow" \in harm}
    /\ UNCHANGED <<Root, pages, leaked, waiting, faults>>

\* First makes its calls one after the other.
FirstCall ==
    /\ script.calls # <<>>
    /\ LET next == Head(script.calls)
       IN  Begin(First, Call(next[1], next[2], FirstVal, 0, 0))
    /\ script' = [script EXCEPT !.calls = Tail(@)]
    /\ UNCHANGED ops

Request(c) ==
    /\ script.calls = <<>> /\ ~Busy(First)
    /\ ops < script.ops /\ ops' = ops + 1
    /\ harm \subseteq {"underflow", "overlap"}
    /\ \E k \in script.use :
        \/ \E v \in script.vals : Begin(c, Call("put", k, v, 0, 0))
        \/ Begin(c, Call("get", k, FirstVal, 0, 0))
        \/ Begin(c, Call("delete", k, FirstVal, 0, 0))
        \/ \E limit \in Limits, end \in script.ends : Begin(c, Call("range", k, FirstVal, limit, end))
    /\ UNCHANGED script

\* cache.Get fails.  A PUT answers 200 all the same, since addKey drops the error;
\* deleteValue drops that of handleLeafUnderflow.
CacheFault(c) ==
    LET call == cl[c]
        dropped == call.op = "put" \/ (call.pc \in {"leafmerge", "outer"} /\ call.n.leaf)
    IN  /\ \/ call.pc \in {"visit", "scan", "leafsib", "parentsib", "leafmerge", "internalmerge", "outer", "collapse"}
           \/ call.pc \in {"prop", "dprop"} /\ call.stack # <<>>
        /\ Fault(c)
        /\ Reply(c, CASE dropped -> "ok" [] call.pc = "collapse" -> "abort" [] OTHER -> "io")
        /\ UNCHANGED <<Root, pages, leaked, waiting, ghosts>>

PutStep(c) ==
    \/ PutTest(c) \/ SetRoot(c) \/ FirstRootFails(c) \/ PutRLock(c) \/ PutVisit(c)
    \/ PutSibling(c) \/ PutParent(c) \/ PutNewRoot(c)

ReadStep(c) == GetRLock(c) \/ GetVisit(c) \/ RangeStart(c) \/ RangeLoad(c) \/ RangeVisit(c) \/ RangeScan(c)

DelStep(c) ==
    \/ DelRLock(c) \/ DelVisit(c) \/ DelRootLeaf(c) \/ DelLeafMerge(c) \/ DelOuter(c)
    \/ DelParent(c) \/ DelInternalMerge(c) \/ DelLone(c) \/ DelCollapse(c)

Step(c) == PutStep(c) \/ ReadStep(c) \/ DelStep(c) \/ Sync(c) \/ Return(c)

\* A split is under way: its leaf is cut, the new node not yet under a parent.
Splitting == \E c \in Procs : cl[c].op = "put" /\ cl[c].applied /\ cl[c].pc # "done"

\* History: a reader is torn if a split, the removal of the root or an underflow
\* happened while it ran, a range also if any page changed.
Tear ==
    torn' = {c \in Procs : /\ cl'[c].op \in {"get", "range"} /\ cl'[c].pc # "idle"
                           /\ \/ c \in torn \/ Splitting' \/ harm' # {}
                              \/ Root # 0 /\ Root' = 0 /\ Busy(c)
                              \/ cl'[c].op = "range" /\ pages' # pages /\ Busy(c)}

Next ==
    /\ \/ FirstCall
       \/ \E c \in Clients : Request(c)
       \/ \E c \in Procs : Step(c) \/ Block(c) \/ CacheFault(c) \/ SyncFault(c) \/ EntryFault(c)
    /\ Tear

\* The Go scheduler runs every goroutine; a call that can go on does.
Fairness == WF_vars(FirstCall /\ Tear) /\ \A c \in Procs : WF_vars(Step(c) /\ Tear)

Spec == Init /\ [][Next]_vars /\ Fairness

-----------------------------------------------------------------------------
(* The map that the tree holds.                                            *)

\* The leftmost pages, from the root down; the last one is a leaf.
Leftmost ==
    LET down[p \in 0..Len(pages), d \in 0..Len(pages)] ==
            IF p = 0 \/ d = 0 \/ pages[p].leaf \/ pages[p].kids = <<>> THEN p ELSE down[pages[p].kids[1], d - 1]
    IN  down[Root, Len(pages)]

\* The pairs of a leaf.
LeafMap(n) == [k \in {n.keys[i] : i \in DOMAIN n.vals} |-> n.vals[CHOOSE i \in DOMAIN n.vals : n.keys[i] = k]]

\* The pairs of the leaves, from the leftmost one along the right links.
ChainMap ==
    LET from[p \in 0..Len(pages), d \in 0..Len(pages)] ==
            IF p = 0 \/ d = 0 THEN [k \in Keys |-> "none"] ELSE LeafMap(pages[p]) @@ from[pages[p].right, d - 1]
    IN  from[Leftmost, Len(pages)]

-----------------------------------------------------------------------------
(* Properties                                                              *)

Quiet == \A c \in Procs : ~Writer(c)

TypeOK ==
    /\ Root \in 0..Len(pages)
    /\ \A p \in Ids : /\ pages[p].left \in 0..Len(pages) /\ pages[p].right \in 0..Len(pages)
                      /\ Len(pages[p].keys) = Len(pages[p].vals) \/ ~pages[p].leaf
    /\ leaked \subseteq {"R", "W"} /\ waiting \subseteq Procs /\ torn \subseteq Procs
    /\ harm \subseteq {"overlap", "underflow", "late", "root", "fault"}
    /\ \A c \in Procs : cl[c].page \in 0..Len(pages) /\ cl[c].sib \in 0..Len(pages)

\* The nodes of each level, from left to right, with the bounds lo <= k < hi of
\* the keys below them.
Levels ==
    LET key(n, i, default) == IF i \in DOMAIN n.keys THEN n.keys[i] ELSE default
        below(e) == LET n == pages[e.p]
                    IN  [i \in DOMAIN n.kids |-> [p |-> n.kids[i], lo |-> key(n, i - 1, e.lo), hi |-> key(n, i, e.hi)]]
        level[d \in 0..Len(pages)] ==
            LET above == level[d - 1]
            IN  IF d = 0 THEN <<[p |-> Root, lo |-> 0, hi |-> 1 + Max(Keys)]>>
                ELSE IF above = <<>> THEN <<>>
                ELSE FlattenSeq([i \in DOMAIN above |-> below(above[i])])
    IN  level

\* The entry i of a level is a live node, its keys are sorted and within their
\* bounds, its size is legal and its links lead to its neighbours.
SoundNode(level, i) ==
    LET e == level[i]
        n == pages[e.p]
    IN  /\ ~n.dead
        /\ \A j \in DOMAIN n.keys : e.lo <= n.keys[j] /\ n.keys[j] < e.hi
        /\ \A j \in 1..(Len(n.keys) - 1) : n.keys[j] < n.keys[j + 1]
        /\ n.leaf => Len(n.keys) \in (IF e.p = Root THEN 1 ELSE DEGREE)..ORDER
        /\ ~n.leaf => Len(n.keys) \in (DEGREE - 1)..(ORDER - 1) /\ Len(n.kids) = Len(n.keys) + 1
        /\ n.left = (IF i = 1 THEN 0 ELSE level[i - 1].p)
        /\ n.right = (IF i = Len(level) THEN 0 ELSE level[i + 1].p)
        /\ n.leaf = pages[level[1].p].leaf

\* InsertValue, Node.split and the propagation of splits (and a deletion that
\* needs no sibling): whenever no writer is at work the tree is a B+ tree, that
\* is every level is sorted, bounded by its separators, linked in both
\* directions, and all leaves have the same depth; no live page is outside it.
TreeIsSound ==
    harm = {} /\ Quiet /\ Root # 0 =>
        LET levels == Levels
        IN  /\ \A d \in DOMAIN levels : \A i \in DOMAIN levels[d] : SoundNode(levels[d], i)
            /\ faults = 0 => {p \in Ids : ~pages[p].dead}
                             = UNION {{levels[d][i].p : i \in DOMAIN levels[d]} : d \in DOMAIN levels}

\* handleLeafUnderflow and handleInternalUnderflow: a deletion that borrows from
\* or merges with a sibling leaves every other key with its value in the chain
\* of leaves, however far the merge propagates, as long as the root stays.
DeletionKeepsOtherKeys == Mild /\ Quiet /\ faults = 0 => ChainMap = want

\* search and rangeSearch: however calls interleave and whatever state the tree
\* is in, a reader only ever returns a value together with a key it was put for.
ReadersAreHonest ==
    \A c \in Procs : cl[c].pc = "done" =>
        /\ cl[c].op = "get" /\ cl[c].ret \in Vals => <<cl[c].key, cl[c].ret>> \in puts
        /\ cl[c].op = "range" /\ cl[c].ret = "ok" => ToSet(cl[c].items) \subseteq puts

\* search, insert, and the index arithmetic on nodes: however PUTs, GETs, RANGEs
\* and deletions that need no sibling interleave, overlapping writers included,
\* and wherever the cache fails, no call indexes out of range or meets an invalid
\* node, unless the root page was removed.  (A call that reports an error of the
\* cache or of the log by a panic answers "abort".)
NoPanicWithoutDeletion ==
    \A c \in Procs : cl[c].ret = "panic" =>
        harm \cap {"underflow", "root"} # {} \/ \E p \in Ids : pages[p].dead

\* InsertValue, Get, RangeSearch, DeleteValue: every call returns, whatever the
\* other calls do and wherever the cache fails, with three exceptions: a call
\* that takes BTree.mu after a return that kept it, a range on a page that was
\* emptied under it, and any call once the root has collapsed.
EveryCallEnds ==
    \A c \in Procs :
        LET call == cl[c]
        IN  Busy(c) ~> \/ ~Busy(c) \/ "root" \in harm
                       \/ leaked # {} /\ call.op # "range"
                       \/ call.op = "range" /\ call.pc = "visit" /\ pages[call.page].keys = <<>>

\* DeleteValue, "mark old root for deletion": when the root collapses into its
\* only child, the page that is marked dead is not the new root.
RootIsLive == Root # 0 => ~pages[Root].dead

\* RangeSearch, count, "A range query will return a number of items(`item_count`)":
\* a range returns no more items than it was asked for.
RangeKeepsLimit ==
    \A c \in Procs : cl[c].op = "range" /\ cl[c].pc = "done" => Len(cl[c].items) <= cl[c].limit

-----------------------------------------------------------------------------
(* The promise of the store (KVStore), and how it is kept.                 *)

req ==
    [c \in Procs |->
        LET call == cl[c]
            done == call.pc = "done" \/ call.applied
        IN  [op |-> call.op, key |-> call.key, val |-> call.val, limit |-> call.limit, end |-> call.end,
             stage |-> CASE call.pc = "idle" -> "idle" [] done -> "done" [] OTHER -> "called",
             ret |-> IF done THEN call.ret ELSE "none",
             items |-> IF call.ret = "ok" /\ call.pc = "done" THEN call.items ELSE <<>>]]

Store == INSTANCE KVStore WITH kv <- ChainMap, req <- req, free <- torn, void <- harm # {}, broken <- faults, Slack <- ORDER

\* Each call takes effect on the map once, between its request and its answer: a
\* PUT when its leaf is synced, a GET when it reads a leaf.  Promised until two
\* writers overlap or a deletion needs a sibling; a reader that overlaps a split
\* may miss a key.
ImplementsKVStore == Store!Spec
=============================================================================
