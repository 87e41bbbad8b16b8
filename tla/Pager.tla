------------------------------- MODULE Pager -------------------------------
(***************************************************************************)
(* The pager's page ids (pkg/pager): the counter and the free list that    *)
(* NewPageId takes ids from, dead pages whose ids return to the list, the  *)
(* free list file written by FlushFreeList, the metadata page, and what a  *)
(* restart makes of both files after a crash of the process.               *)
(*                                                                         *)
(* Pages are read and written in one step, as module PageFile promises; a  *)
(* read, or a write that fails, changes nothing here.                      *)
(***************************************************************************)
EXTENDS Naturals, Sequences, FiniteSets

CONSTANTS MaxId,                 \* bound on the page ids
          Flushers,              \* watchFreeList goroutines, one per shard
          ITEMS_PER_PAGE,
          FREE_LIST_ENTRY_SIZE,
          Timeouts,              \* whether FlushFreeList may time out
          MaxDying,              \* bound on the deletions that overlap
          MaxMetas,              \* bound on the calls of FlushMetadata
          MaxCrashes             \* bound on the crashes

ASSUME PagerAssumption ==
    /\ MaxId \in Nat /\ MaxDying \in Nat /\ MaxMetas \in Nat /\ MaxCrashes \in Nat /\ Timeouts \in BOOLEAN
    /\ ITEMS_PER_PAGE \in Nat \ {0} /\ FREE_LIST_ENTRY_SIZE \in Nat \ {0}
    /\ "none" \notin Flushers

FREE_LIST_PAGE_SIZE == ITEMS_PER_PAGE * FREE_LIST_ENTRY_SIZE

Ids == 1..MaxId

VARIABLES
    maxPageId, pageCount,   \* Pager
    freePages, dirty,       \* FreeList
    page,       \* page[p]: unused, issued, live (in memory), stored or zeroed (on disk)
    dying,      \* dead pages in the free list and still in pageCount
    flMu,       \* the flusher that holds FreeList.mu
    flush,      \* flush[w]: the progress of w
    flFile,     \* the pages of the free list file
    metaReq,    \* the content that FlushMetadata is writing
    meta,       \* the metadata page of the data file
    up, panic, crashes, metas,
    clean       \* history: no crash has found ids that were not flushed

vars == <<maxPageId, pageCount, freePages, dirty, page, dying, flMu, flush, flFile,
          metaReq, meta, up, panic, crashes, metas, clean>>

flVars == <<flMu, flush, flFile>>
diskVars == <<metaReq, meta, up, panic, crashes, metas, clean>>

Meta == [maxPageId : 0..MaxId, pageCount : Nat]

NoMeta == [maxPageId |-> 0, pageCount |-> 0]

Flush == [pc : {"idle", "lock", "write", "sync", "send"}, i : Nat, waits : BOOLEAN]

FlushIdle == [pc |-> "idle", i |-> 0, waits |-> FALSE]

TypeOK ==
    /\ maxPageId \in 0..MaxId /\ pageCount \in Nat
    /\ freePages \in Seq(Ids) /\ dirty \in BOOLEAN
    /\ page \in [Ids -> {"unused", "issued", "live", "stored", "zeroed"}]
    /\ dying \in 0..MaxDying
    /\ flMu \in Flushers \cup {"none"}
    /\ flush \in [Flushers -> Flush]
    /\ flFile \in Seq(Seq(Ids))
    /\ metaReq \in Meta \cup {<<>>} /\ meta \in Meta
    /\ up \in BOOLEAN /\ panic \in BOOLEAN /\ clean \in BOOLEAN
    /\ crashes \in 0..MaxCrashes /\ metas \in 0..MaxMetas

\* NewPager on empty files.
Init ==
    /\ maxPageId = 0 /\ pageCount = 0
    /\ freePages = <<>> /\ dirty = FALSE
    /\ page = [p \in Ids |-> "unused"]
    /\ dying = 0
    /\ flMu = "none"
    /\ flush = [w \in Flushers |-> FlushIdle]
    /\ flFile = <<>>
    /\ metaReq = <<>> /\ meta = NoMeta
    /\ up = TRUE /\ panic = FALSE /\ crashes = 0 /\ metas = 0
    /\ clean = TRUE

Running == up /\ ~panic

-----------------------------------------------------------------------------
(* Ids and pages.                                                          *)

\* NewPageId, under Pager.mu and FreeList.mu: the last id of the free list (pop), or
\* the next one of the counter.
NewPageId ==
    /\ Running /\ flMu = "none"
    /\ \/ /\ freePages = <<>> /\ maxPageId < MaxId
          /\ maxPageId' = maxPageId + 1
          /\ page' = [page EXCEPT ![maxPageId + 1] = "issued"]
          /\ UNCHANGED <<freePages, dirty>>
       \/ /\ freePages # <<>>
          /\ page' = [page EXCEPT ![freePages[Len(freePages)]] = "issued"]
          /\ freePages' = SubSeq(freePages, 1, Len(freePages) - 1)
          /\ dirty' = TRUE
          /\ maxPageId' = maxPageId
    /\ UNCHANGED <<pageCount, dying, flVars, diskVars>>

NewPage(p) ==
    /\ Running
    /\ page[p] = "issued"
    /\ page' = [page EXCEPT ![p] = "live"]
    /\ pageCount' = pageCount + 1
    /\ UNCHANGED <<maxPageId, freePages, dirty, dying, flVars, diskVars>>

\* WritePage, up to the answer of the disk manager; a dead page is zeroed there.
WritePage(p, isDead) ==
    /\ Running
    /\ page[p] \in {"live", "stored"}
    /\ page' = [page EXCEPT ![p] = IF isDead THEN "zeroed" ELSE "stored"]
    /\ UNCHANGED <<maxPageId, pageCount, freePages, dirty, dying, flVars, diskVars>>

\* The rest of it for a dead page: freeList.add, which puts the id in front ...
add(p) ==
    /\ Running /\ flMu = "none"
    /\ page[p] = "zeroed" /\ dying < MaxDying
    /\ page' = [page EXCEPT ![p] = "unused"]
    /\ freePages' = <<p>> \o freePages
    /\ dirty' = TRUE
    /\ dying' = dying + 1
    /\ UNCHANGED <<maxPageId, pageCount, flVars, diskVars>>

\* Mutation: pageCount is not decremented.
decPageCount_Skip ==
    /\ Running
    /\ dying > 0
    /\ dying' = dying - 1
    /\ UNCHANGED <<maxPageId, pageCount, freePages, dirty, page, flVars, diskVars>>

\* ... then the page count, under Pager.mu.
decPageCount ==
    /\ Running
    /\ dying > 0
    /\ dying' = dying - 1
    /\ pageCount' = IF pageCount > 0 THEN pageCount - 1 ELSE pageCount
    /\ UNCHANGED <<maxPageId, freePages, dirty, page, flVars, diskVars>>

-----------------------------------------------------------------------------
(* FlushFreeList and flushFreeList.                                        *)

numOfPages == (Len(freePages) + FREE_LIST_PAGE_SIZE - 1) \div FREE_LIST_PAGE_SIZE

Goto(w, pc) == flush' = [flush EXCEPT ![w].pc = pc]

\* FlushFreeList starts flushFreeList and waits for what it sends ...
FlushFreeList(w) ==
    /\ Running
    /\ flush[w].pc = "idle"
    /\ flush' = [flush EXCEPT ![w] = [pc |-> "lock", i |-> 0, waits |-> TRUE]]
    /\ UNCHANGED <<maxPageId, pageCount, freePages, dirty, page, dying, flMu, flFile, diskVars>>

\* ... or for the timeout, and then closes the channel.
timeout(w) ==
    /\ Running /\ Timeouts
    /\ flush[w].pc # "idle" /\ flush[w].waits
    /\ flush' = [flush EXCEPT ![w].waits = FALSE]
    /\ UNCHANGED <<maxPageId, pageCount, freePages, dirty, page, dying, flMu, flFile, diskVars>>

\* FreeList.mu is taken and held to the end.
lockFreeList(w) ==
    /\ Running
    /\ flush[w].pc = "lock" /\ flMu = "none"
    /\ flMu' = w
    /\ Goto(w, IF ~dirty THEN "send" ELSE IF freePages = <<>> THEN "sync" ELSE "write")
    /\ UNCHANGED <<maxPageId, pageCount, freePages, dirty, page, dying, flFile, diskVars>>

\* WriteAt of page i of the list, which may be the last one.
writeListPage(w) ==
    LET i == flush[w].i
        last == IF Len(freePages) >= (i + 1) * ITEMS_PER_PAGE THEN (i + 1) * ITEMS_PER_PAGE
                ELSE Len(freePages)
        items == SubSeq(freePages, i * ITEMS_PER_PAGE + 1, last)
    IN  /\ Running
        /\ flush[w].pc = "write"
        /\ flFile' = IF i < Len(flFile) THEN [flFile EXCEPT ![i + 1] = items]
                     ELSE Append(flFile, items)
        /\ flush' = [flush EXCEPT ![w].i = @ + 1,
                                  ![w].pc = IF i + 1 < numOfPages THEN "write" ELSE "sync"]
        /\ UNCHANGED <<maxPageId, pageCount, freePages, dirty, page, dying, flMu, diskVars>>

\* Mutation: the file is not truncated.
syncFreeList_NoTruncate(w) ==
    /\ Running
    /\ flush[w].pc = "sync"
    /\ dirty' = FALSE
    /\ Goto(w, "send")
    /\ UNCHANGED <<maxPageId, pageCount, freePages, page, dying, flMu, flFile, diskVars>>

\* Truncate to the pages of the list (none for an empty list), and Sync.
syncFreeList(w) ==
    /\ Running
    /\ flush[w].pc = "sync"
    /\ flFile' = SubSeq(flFile, 1, numOfPages)
    /\ dirty' = FALSE
    /\ Goto(w, "send")
    /\ UNCHANGED <<maxPageId, pageCount, freePages, page, dying, flMu, diskVars>>

\* The unbuffered send, FreeList.mu still held: received by FlushFreeList, or a panic
\* when it has closed the channel.
sendWritten(w) ==
    /\ Running
    /\ flush[w].pc = "send"
    /\ panic' = ~flush[w].waits
    /\ flMu' = "none"
    /\ flush' = [flush EXCEPT ![w] = FlushIdle]
    /\ UNCHANGED <<maxPageId, pageCount, freePages, dirty, page, dying, flFile, metaReq, meta,
                   up, crashes, metas, clean>>

-----------------------------------------------------------------------------
(* FlushMetadata, crash and restart.                                       *)

\* FlushMetadata copies the fields under Pager.mu ...
FlushMetadata ==
    /\ Running
    /\ metaReq = <<>> /\ metas < MaxMetas
    /\ metas' = metas + 1
    /\ metaReq' = [maxPageId |-> maxPageId, pageCount |-> pageCount]
    /\ UNCHANGED <<maxPageId, pageCount, freePages, dirty, page, dying, flVars, meta, up, panic,
                   crashes, clean>>

\* ... and writes them without it.
writeMetadata ==
    /\ Running
    /\ metaReq # <<>>
    /\ meta' = metaReq
    /\ metaReq' = <<>>
    /\ UNCHANGED <<maxPageId, pageCount, freePages, dirty, page, dying, flVars, up, panic,
                   crashes, metas, clean>>

Flushed == ~dirty /\ meta.maxPageId = maxPageId

\* The process stops, by itself or by the panic; what was not written is lost.
Crash ==
    /\ up /\ crashes < MaxCrashes
    /\ up' = FALSE /\ panic' = FALSE
    /\ crashes' = crashes + 1
    /\ clean' = (clean /\ Flushed)
    /\ page' = [p \in Ids |-> IF page[p] = "stored" THEN "stored" ELSE "unused"]
    /\ dying' = 0
    /\ flMu' = "none" /\ flush' = [w \in Flushers |-> FlushIdle]
    /\ metaReq' = <<>>
    /\ maxPageId' = 0 /\ pageCount' = 0 /\ freePages' = <<>> /\ dirty' = FALSE
    /\ UNCHANGED <<flFile, meta, metas>>

\* loadFreeList: the items of the file up to the first empty one.
loadFreeList(f) ==
    LET full == {n \in 0..Len(f) : \A j \in 1..n : Len(f[j]) = ITEMS_PER_PAGE}
        pages == CHOOSE n \in full : \A m \in full : m <= n
        rest == IF pages < Len(f) THEN Len(f[pages + 1]) ELSE 0
        item(k) == f[(k \div ITEMS_PER_PAGE) + 1][(k % ITEMS_PER_PAGE) + 1]
    IN  [k \in 1..(pages * ITEMS_PER_PAGE + rest) |-> item(k - 1)]

\* NewPager and InitFromMetadata.
Restart ==
    /\ ~up
    /\ up' = TRUE
    /\ freePages' = loadFreeList(flFile) /\ dirty' = FALSE
    /\ maxPageId' = meta.maxPageId /\ pageCount' = meta.pageCount
    /\ UNCHANGED <<page, dying, flVars, metaReq, meta, panic, crashes, metas, clean>>

Next ==
    \/ NewPageId \/ decPageCount \/ FlushMetadata \/ writeMetadata \/ Crash \/ Restart
    \/ \E p \in Ids : NewPage(p) \/ WritePage(p, FALSE) \/ WritePage(p, TRUE) \/ add(p)
    \/ \E w \in Flushers : \/ FlushFreeList(w) \/ timeout(w) \/ lockFreeList(w)
                           \/ writeListPage(w) \/ syncFreeList(w) \/ sendWritten(w)

Spec == Init /\ [][Next]_vars

-----------------------------------------------------------------------------
(* Properties.                                                             *)

InUse == {p \in Ids : page[p] # "unused"}

\* An id has one owner: it is in use, or in the free list once, or not yet counted.
IdsUnique ==
    /\ \A k, l \in 1..Len(freePages) : freePages[k] = freePages[l] => k = l
    /\ \A k \in 1..Len(freePages) : freePages[k] \notin InUse /\ freePages[k] <= maxPageId
    /\ \A p \in InUse : p <= maxPageId

\* Ids have one owner in every run of the program that follows crashes only at times
\* when the free list and the metadata were flushed, however flushes, timeouts,
\* deletions and new pages interleaved before.
FlushedIdsUnique == up /\ clean => IdsUnique

\* pageCount is the number of the initialized pages, the ones being freed included,
\* as long as the program has not crashed.
PageCountExact ==
    crashes = 0 => pageCount = dying + Cardinality({p \in Ids : page[p] \in {"live", "stored", "zeroed"}})

\* pager.go:148, "NewPageId assignes a new monotonically increasing pageId": the id that
\* it would return is not the one of a page in use.
NewPageIdIsNew ==
    up => (IF freePages = <<>> THEN maxPageId + 1 ELSE freePages[Len(freePages)]) \notin InUse

\* README.md:44, "a free list file. This stores all the available page IDs on a 4K page.":
\* once flushed, the file holds the free list.
FileHoldsFreeList == up /\ ~dirty => loadFreeList(flFile) = freePages
=============================================================================
