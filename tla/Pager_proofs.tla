---------------------------- MODULE Pager_proofs ----------------------------
(***************************************************************************)
(* Theorems about the page ids and the page count of the pager (module     *)
(* Pager): for any number of ids, flushers, overlapping deletions, crashes *)
(* and restarts, and any layout of the free list file.                     *)
(***************************************************************************)
EXTENDS Pager, Integers, TLAPS

\* The pages that pageCount counts.
Counted == {p \in Ids : page[p] \in {"live", "stored", "zeroed"}}

IdsType ==
    /\ maxPageId \in 0..MaxId /\ pageCount \in Nat /\ dying \in Nat
    /\ freePages \in Seq(Ids)
    /\ page \in [Ids -> {"unused", "issued", "live", "stored", "zeroed"}]

\* Nothing is in use and the free list is empty when the pager starts.
LEMMA InitIds == Init => IdsType /\ IdsUnique
<1> SUFFICES ASSUME Init PROVE IdsType /\ IdsUnique
    OBVIOUS
<1>1. IdsType
    BY PagerAssumption DEF Init, IdsType
<1>2. InUse = {} /\ Len(freePages) = 0
    BY Zenon DEF Init, InUse
<1> QED
    BY <1>1, <1>2 DEF IdsUnique

\* NewPageId takes an id that nobody has.
LEMMA NewIdStep ==
    ASSUME IdsType, IdsUnique, NewPageId
    PROVE  IdsType' /\ IdsUnique' /\ Counted' = Counted
<1>0. MaxId \in Nat /\ maxPageId \in Nat /\ Len(freePages) \in Nat
    BY PagerAssumption DEF IdsType
<1>1. CASE freePages = <<>> /\ maxPageId < MaxId
    <2>1. /\ maxPageId' = maxPageId + 1 /\ freePages' = freePages
          /\ page' = [page EXCEPT ![maxPageId + 1] = "issued"]
          /\ UNCHANGED <<pageCount, dying>>
        BY <1>1, Zenon DEF NewPageId
    <2>2. maxPageId + 1 \in Ids /\ page[maxPageId + 1] = "unused"
        <3>1. maxPageId + 1 \in Ids
            BY <1>0, <1>1 DEF Ids
        <3>2. ~(maxPageId + 1 <= maxPageId)
            BY <1>0
        <3> QED
            BY <3>1, <3>2, Zenon DEF IdsUnique, InUse
    <2>3. IdsType'
        BY <1>0, <1>1, <2>1, <2>2 DEF IdsType
    <2>4. Counted' = Counted
        BY <2>1, <2>2, Zenon DEF Counted, IdsType
    <2>5. InUse' = InUse \cup {maxPageId + 1}
        BY <2>1, <2>2, Zenon DEF InUse, IdsType
    <2>6. \A p \in InUse' : p <= maxPageId'
        BY <1>0, <2>1, <2>5 DEF IdsUnique, InUse, Ids
    <2>7. Len(freePages') = 0
        BY <1>1, <2>1, Zenon
    <2> QED
        BY <2>3, <2>4, <2>6, <2>7 DEF IdsUnique
<1>2. CASE freePages # <<>>
    <2> DEFINE n == Len(freePages)
               p == freePages[n]
    <2>1. /\ maxPageId' = maxPageId /\ freePages' = SubSeq(freePages, 1, n - 1)
          /\ page' = [page EXCEPT ![p] = "issued"] /\ UNCHANGED <<pageCount, dying>>
        BY <1>2, Zenon DEF NewPageId
    <2>2. n \in 1..n /\ p \in Ids
        BY <1>0, <1>2 DEF IdsType
    <2>3. page[p] = "unused" /\ p <= maxPageId
        BY <2>2, Zenon DEF IdsUnique, InUse
    <2>4. /\ freePages' \in Seq(Ids) /\ Len(freePages') = n - 1
          /\ \A k \in 1..(n - 1) : freePages'[k] = freePages[k] /\ k \in 1..n /\ k # n
        <3>1. \A k \in 1..(n - 1) : k \in 1..n /\ k # n /\ freePages[k] \in Ids
            BY <1>0 DEF IdsType
        <3>2. /\ freePages' \in Seq(Ids)
              /\ Len(freePages') = IF 1 <= n - 1 THEN n - 1 - 1 + 1 ELSE 0
              /\ \A k \in 1..(n - 1 - 1 + 1) : freePages'[k] = freePages[1 + k - 1]
            BY <1>0, <2>1, <3>1
        <3>3. Len(freePages') = n - 1 /\ \A k \in 1..(n - 1) : k \in 1..(n - 1 - 1 + 1) /\ 1 + k - 1 = k
            <4> HIDE DEF n
            <4>1. n \in Nat \ {0}
                BY <1>0, <2>2
            <4> QED
                BY <3>2, <4>1
        <3> QED
            BY <3>1, <3>2, <3>3, Zenon
    <2>5. IdsType'
        BY <2>1, <2>2, <2>4, Zenon DEF IdsType
    <2>6. Counted' = Counted
        BY <2>1, <2>2, <2>3, Zenon DEF Counted, IdsType
    <2>7. InUse' = InUse \cup {p}
        BY <2>1, <2>2, Zenon DEF InUse, IdsType
    <2>8. \A k \in 1..(n - 1) : freePages[k] # p
        BY <2>2, <2>4, Zenon DEF IdsUnique
    <2>9. IdsUnique'
        BY <2>1, <2>3, <2>4, <2>7, <2>8 DEF IdsUnique
    <2> QED
        BY <2>5, <2>6, <2>9, Zenon
<1> QED
    BY <1>1, <1>2, Zenon DEF NewPageId

\* A dead page's id returns to the free list, where it was not.
LEMMA AddStep ==
    ASSUME IdsType, IdsUnique, NEW p \in Ids, add(p)
    PROVE  /\ IdsType' /\ IdsUnique' /\ Counted' = Counted \ {p} /\ p \in Counted
           /\ dying' = dying + 1 /\ pageCount' = pageCount
<1> DEFINE n == Len(freePages)
<1>0. n \in Nat /\ freePages \in Seq(Ids)
    BY DEF IdsType
<1>1. /\ page[p] = "zeroed" /\ page' = [page EXCEPT ![p] = "unused"]
      /\ freePages' = <<p>> \o freePages /\ dying' = dying + 1
      /\ UNCHANGED <<maxPageId, pageCount>>
    BY Zenon DEF add
<1>2. /\ freePages' \in Seq(Ids) /\ Len(freePages') = n + 1 /\ freePages'[1] = p
      /\ \A k \in 2..(n + 1) : freePages'[k] = freePages[k - 1] /\ k - 1 \in 1..n
    BY <1>0, <1>1
<1>3. IdsType'
    BY <1>1, <1>2 DEF IdsType
<1>4. Counted' = Counted \ {p} /\ p \in Counted
    BY <1>1, Zenon DEF Counted, IdsType
<1>5. InUse' = InUse \ {p} /\ p \in InUse
    BY <1>1, Zenon DEF InUse, IdsType
<1>6. \A k \in 1..n : freePages[k] # p
    BY <1>5, Zenon DEF IdsUnique
<1>7. \A k \in 1..(n + 1) : k = 1 \/ k \in 2..(n + 1)
    BY <1>0
<1>8. \A k, l \in 1..(n + 1) : freePages'[k] = freePages'[l] => k = l
    <2> SUFFICES ASSUME NEW k \in 1..(n + 1), NEW l \in 1..(n + 1), freePages'[k] = freePages'[l]
                 PROVE  k = l
        OBVIOUS
    <2>1. CASE k = 1 /\ l = 1
        BY <2>1, Zenon
    <2>2. CASE k = 1 /\ l # 1
        BY <1>2, <1>6, <1>7, <2>2, Zenon
    <2>3. CASE k # 1 /\ l = 1
        BY <1>2, <1>6, <1>7, <2>3, Zenon
    <2>4. CASE k # 1 /\ l # 1
        <3>1. freePages[k - 1] = freePages[l - 1] /\ k - 1 \in 1..n /\ l - 1 \in 1..n
            BY <1>2, <1>7, <2>4, Zenon
        <3>2. k - 1 = l - 1
            BY <3>1, Zenon DEF IdsUnique
        <3> QED
            BY <3>2
    <2> QED
        BY <2>1, <2>2, <2>3, <2>4, Zenon
<1>9. \A k \in 1..(n + 1) : freePages'[k] \notin InUse' /\ freePages'[k] <= maxPageId'
    BY <1>1, <1>2, <1>5, <1>7, Zenon DEF IdsUnique
<1>10. IdsUnique'
    BY <1>1, <1>2, <1>5, <1>8, <1>9, Zenon DEF IdsUnique
<1> QED
    BY <1>1, <1>3, <1>4, <1>10, Zenon

-----------------------------------------------------------------------------
(* The free list file, crashes and restarts.                               *)

\* q is the jth page of list s: full, unless it is the last one, and never empty.
PageOf(q, s, j) ==
    /\ (j - 1) * ITEMS_PER_PAGE < Len(s)
    /\ j * ITEMS_PER_PAGE <= Len(s) => Len(q) = ITEMS_PER_PAGE
    /\ ~(j * ITEMS_PER_PAGE <= Len(s)) => Len(q) = Len(s) - (j - 1) * ITEMS_PER_PAGE
    /\ \A m \in 1..Len(q) : q[m] = s[(j - 1) * ITEMS_PER_PAGE + m]

\* The first n pages of the file are those of s.
Holds(f, n, s) == \A j \in 1..n : PageOf(f[j], s, j)

\* A flusher works under FreeList.mu, on a list that nobody changes meanwhile.
FlusherInv(w) ==
    LET f == flush[w]
    IN  /\ f.pc \in {"write", "sync", "send"} <=> flMu = w
        /\ f.pc = "lock" => f.i = 0
        /\ f.pc \in {"write", "sync"} => dirty
        /\ f.pc = "write" => /\ f.i < numOfPages /\ f.i <= Len(flFile)
                             /\ Holds(flFile, f.i, freePages)
        /\ f.pc = "sync" => numOfPages <= Len(flFile) /\ Holds(flFile, numOfPages, freePages)

\* Each of a list's ids is in it once, not in use, and counted by max.
Free(s, max) ==
    /\ \A k, l \in 1..Len(s) : s[k] = s[l] => k = l
    /\ \A k \in 1..Len(s) : s[k] \notin InUse /\ s[k] <= max

\* What the files hold for a restart: the pages of some list of free ids.
RestartInv ==
    /\ \A p \in InUse : p <= meta.maxPageId
    /\ \E s \in Seq(Ids) : Holds(flFile, Len(flFile), s) /\ Free(s, meta.maxPageId)

FilesType ==
    /\ flush \in [Flushers -> Flush] /\ flFile \in Seq(Seq(Ids)) /\ dirty \in BOOLEAN
    /\ meta \in Meta /\ metaReq \in Meta \cup {<<>>}

\* A list that is not dirty is in the file, or as much of it as flushFreeList counts.
ListInv ==
    /\ \A w \in Flushers : FlusherInv(w)
    /\ ~dirty => Holds(flFile, Len(flFile), freePages)

Stopped == flMu = "none" /\ flush = [w \in Flushers |-> FlushIdle]

\* The invariant while no crash has found ids that were not flushed.
CleanInv == clean => /\ IdsType /\ FilesType
                     /\ up => IdsUnique /\ ListInv
                     /\ ~up => RestartInv /\ Stopped

\* Multiplication is monotone.
LEMMA TimesMono ==
    ASSUME NEW a \in Nat, NEW b \in Nat, NEW c \in Nat, a <= b
    PROVE  a * c \in Nat /\ b * c \in Nat /\ a * c <= b * c
OBVIOUS

\* Division with remainder.
LEMMA DivMod ==
    ASSUME NEW n \in Nat, NEW d \in Nat \ {0}
    PROVE  /\ n \div d \in Nat /\ n % d \in Nat /\ n % d < d
           /\ n = (n \div d) * d + (n % d)
<1>1. n \div d \in Nat
    OBVIOUS
<1>2. n % d \in Nat /\ n % d < d
    OBVIOUS
<1>3. n - d * (n \div d) = n % d
    OBVIOUS
<1>4. ASSUME NEW q \in Nat, NEW r \in Nat, n - d * q = r PROVE n = q * d + r
    BY <1>4
<1> QED
    BY <1>1, <1>2, <1>3, <1>4, Zenon

\* flushFreeList counts no page that would be empty, and counts one if there are ids.
LEMMA NumOfPages ==
    ASSUME freePages \in Seq(Ids)
    PROVE  /\ numOfPages \in Nat
           /\ freePages = <<>> => numOfPages = 0
           /\ freePages # <<>> => numOfPages > 0
           /\ \A i \in Nat : i < numOfPages => i * ITEMS_PER_PAGE < Len(freePages)
<1> DEFINE n == Len(freePages)
           d == FREE_LIST_PAGE_SIZE
<1>1. n \in Nat /\ ITEMS_PER_PAGE \in Nat \ {0} /\ FREE_LIST_ENTRY_SIZE \in Nat \ {0}
    BY PagerAssumption
<1>2. d \in Nat \ {0} /\ \A i \in Nat : i * ITEMS_PER_PAGE <= i * d
    <2>1. 1 * ITEMS_PER_PAGE <= FREE_LIST_ENTRY_SIZE * ITEMS_PER_PAGE
        BY <1>1, TimesMono
    <2>2. d = FREE_LIST_ENTRY_SIZE * ITEMS_PER_PAGE
        BY <1>1 DEF FREE_LIST_PAGE_SIZE
    <2>3. d \in Nat \ {0} /\ ITEMS_PER_PAGE <= d
        BY <1>1, <2>1, <2>2
    <2>4. ASSUME NEW i \in Nat PROVE i * ITEMS_PER_PAGE <= i * d
        <3>1. ITEMS_PER_PAGE * i <= d * i
            BY <1>1, <2>3, TimesMono, Zenon
        <3> QED
            BY <1>1, <2>3, <3>1
    <2> QED
        BY <2>3, <2>4, Zenon
<1> HIDE DEF n, d
<1>3. PICK m \in Nat : m = n + d - 1 /\ numOfPages = m \div d
    <2>1. numOfPages = (n + d - 1) \div d
        BY Zenon DEF numOfPages, n, d
    <2>2. n + d - 1 \in Nat
        BY <1>1, <1>2
    <2> QED
        BY <2>1, <2>2, Zenon
<1>4. PICK q \in Nat, r \in Nat : q = m \div d /\ r < d /\ m = q * d + r
    BY <1>2, DivMod, Zenon
<1>5. n = 0 => q = 0
    <2>1. q # 0 => 1 * d <= q * d
        BY <1>2, TimesMono
    <2> QED
        BY <1>1, <1>2, <1>3, <1>4, <2>1
<1>6. n # 0 => q > 0
    BY <1>1, <1>2, <1>3, <1>4
<1>7. ASSUME NEW i \in Nat, i < q PROVE i * ITEMS_PER_PAGE < n
    <2>1. (i + 1) * d <= q * d
        BY <1>2, <1>7, TimesMono
    <2>2. (i + 1) * d = i * d + d /\ i * d \in Nat /\ q * d \in Nat
        BY <1>2
    <2>3. i * d < n
        BY <1>1, <1>2, <1>3, <1>4, <2>1, <2>2
    <2> QED
        BY <1>1, <1>2, <2>3
<1>8. freePages = <<>> <=> n = 0
    BY <1>1 DEF n
<1> QED
    BY <1>3, <1>4, <1>5, <1>6, <1>7, <1>8, Zenon DEF n

\* The first position behind each page of a list.
Bounds(b) ==
    /\ b \in [Nat -> Nat]
    /\ \A j \in Nat : b[j] = j * ITEMS_PER_PAGE

\* They are ITEMS_PER_PAGE apart.
LEMMA BoundsStep ==
    ASSUME NEW b, Bounds(b)
    PROVE  /\ b[0] = 0
           /\ \A j \in Nat : b[j] \in Nat /\ b[j + 1] = b[j] + ITEMS_PER_PAGE
           /\ \A i, j \in Nat : i < j => b[i + 1] <= b[j]
<1>1. ITEMS_PER_PAGE \in Nat
    BY PagerAssumption, Zenon
<1>2. b[0] = 0
    BY <1>1 DEF Bounds
<1>3. ASSUME NEW j \in Nat PROVE b[j] \in Nat /\ b[j + 1] = b[j] + ITEMS_PER_PAGE
    <2>1. (j + 1) * ITEMS_PER_PAGE = j * ITEMS_PER_PAGE + ITEMS_PER_PAGE
        BY <1>1
    <2>2. j + 1 \in Nat
        OBVIOUS
    <2> QED
        BY <2>1, <2>2, Zenon DEF Bounds
<1>4. ASSUME NEW i \in Nat, NEW j \in Nat, i < j PROVE b[i + 1] <= b[j]
    <2>1. i + 1 \in Nat /\ i + 1 <= j
        BY <1>4
    <2>2. (i + 1) * ITEMS_PER_PAGE <= j * ITEMS_PER_PAGE
        BY <1>1, <2>1, TimesMono, Zenon
    <2> QED
        BY <2>1, <2>2, Zenon DEF Bounds
<1> QED
    BY <1>2, <1>3, <1>4, Zenon

\* There are such bounds.
LEMMA BoundsExist == \E b : Bounds(b)
<1>1. [j \in Nat |-> j * ITEMS_PER_PAGE] \in [Nat -> Nat]
    BY PagerAssumption
<1> DEFINE b == [j \in Nat |-> j * ITEMS_PER_PAGE]
<1>2. \A j \in Nat : b[j] = j * ITEMS_PER_PAGE
    OBVIOUS
<1>3. Bounds(b)
    BY <1>1, <1>2, Zenon DEF Bounds
<1> QED
    BY <1>3, Zenon

\* Pages in terms of these bounds.
Laid(b, f, n, s) ==
    \A i \in Nat : i < n =>
       /\ b[i] < Len(s)
       /\ b[i + 1] <= Len(s) => Len(f[i + 1]) = ITEMS_PER_PAGE
       /\ ~(b[i + 1] <= Len(s)) => Len(f[i + 1]) = Len(s) - b[i]
       /\ \A m \in 1..Len(f[i + 1]) : f[i + 1][m] = s[b[i] + m]

\* A file with the pages of a list is laid out like this.
LEMMA PageBounds ==
    ASSUME NEW b, Bounds(b), NEW f, NEW n \in Nat, NEW s, Holds(f, n, s)
    PROVE  Laid(b, f, n, s)
<1> SUFFICES ASSUME NEW i \in Nat, i < n
             PROVE  /\ b[i] < Len(s)
                    /\ b[i + 1] <= Len(s) => Len(f[i + 1]) = ITEMS_PER_PAGE
                    /\ ~(b[i + 1] <= Len(s)) => Len(f[i + 1]) = Len(s) - b[i]
                    /\ \A m \in 1..Len(f[i + 1]) : f[i + 1][m] = s[b[i] + m]
    BY Zenon DEF Laid
<1>1. i + 1 - 1 = i /\ i + 1 \in Nat /\ i + 1 \in 1..n
    OBVIOUS
<1>2. b[i] = (i + 1 - 1) * ITEMS_PER_PAGE /\ b[i + 1] = (i + 1) * ITEMS_PER_PAGE
    BY <1>1, Zenon DEF Bounds
<1>3. PageOf(f[i + 1], s, i + 1)
    BY <1>1, Zenon DEF Holds
<1> QED
    BY <1>2, <1>3 DEF PageOf

\* ... and back.
LEMMA BoundsPage ==
    ASSUME NEW b, Bounds(b), NEW q, NEW s, NEW i \in Nat,
           b[i] < Len(s),
           b[i + 1] <= Len(s) => Len(q) = ITEMS_PER_PAGE,
           ~(b[i + 1] <= Len(s)) => Len(q) = Len(s) - b[i],
           \A m \in 1..Len(q) : q[m] = s[b[i] + m]
    PROVE  PageOf(q, s, i + 1)
<1>1. i + 1 - 1 = i /\ i + 1 \in Nat
    OBVIOUS
<1>2. b[i] = (i + 1 - 1) * ITEMS_PER_PAGE /\ b[i + 1] = (i + 1) * ITEMS_PER_PAGE
    BY <1>1, Zenon DEF Bounds
<1> QED
    BY <1>2 DEF PageOf

\* The file has n full pages, r ids on the page behind them, and L ids.
Split(N, M, I, b, len, n, r, L) ==
    /\ n <= N /\ \A i \in Nat : i < n => len[i] = I
    /\ \/ n = N /\ r = 0
       \/ n + 1 = N /\ r = len[n] /\ r < I
    /\ L = b[n] + r /\ L <= M
    /\ \A q, t \in Nat : t < I /\ b[q] + t < L => q < N /\ t < len[q]
    /\ \A i \in Nat : i < N => /\ b[i] < L
                               /\ b[i + 1] <= L => len[i] = I
                               /\ ~(b[i + 1] <= L) => len[i] = L - b[i]
                               /\ \A m \in 1..len[i] : b[i] + m \in 1..L

\* What the lengths of the pages say: all of them are full but the last one, which ends
\* at its bound or where the list ends.
LEMMA Layout ==
    ASSUME NEW N \in Nat, NEW M \in Nat, NEW I \in Nat \ {0}, NEW b, NEW len,
           b[0] = 0,
           \A j \in Nat : b[j] \in Nat /\ b[j + 1] = b[j] + I,
           \A i, j \in Nat : i < j => b[i + 1] <= b[j],
           \A i \in Nat : i < N => /\ len[i] \in Nat /\ b[i] < M
                                   /\ b[i + 1] <= M => len[i] = I
                                   /\ ~(b[i + 1] <= M) => len[i] = M - b[i]
    PROVE  \E n, r, L \in Nat : Split(N, M, I, b, len, n, r, L)
<1>1. \A i \in Nat : i + 1 < N => len[i] = I
    OBVIOUS
<1>2. \A i \in Nat : i < N => len[i] <= I
    OBVIOUS
<1>3. PICK n \in Nat, r \in Nat :
        /\ n <= N /\ \A i \in Nat : i < n => len[i] = I
        /\ \/ n = N /\ r = 0
           \/ n + 1 = N /\ r = len[n] /\ r < I
    <2>1. CASE \A i \in Nat : i < N => len[i] = I
        <3>1. N <= N /\ 0 \in Nat
            OBVIOUS
        <3> QED
            BY <2>1, <3>1, Zenon
    <2>2. CASE ~ \A i \in Nat : i < N => len[i] = I
        <3>1. PICK x \in Nat : x < N /\ len[x] # I
            BY <2>2, Zenon
        <3>2. x + 1 = N /\ x <= N
            BY <1>1, <3>1
        <3>3. len[x] < I /\ len[x] \in Nat
            BY <1>2, <3>1
        <3>4. \A i \in Nat : i < x => i + 1 < N
            BY <3>2
        <3> QED
            BY <1>1, <3>2, <3>3, <3>4, Zenon
    <2> QED
        BY <2>1, <2>2, Zenon
<1>4. PICK L \in Nat : L = b[n] + r
    OBVIOUS
<1>5. r < I
    BY <1>3
<1>6. L <= M /\ (n + 1 = N => L = M)
    <2>1. CASE n = N /\ r = 0 /\ n = 0
        BY <1>4, <2>1
    <2>2. CASE n = N /\ r = 0 /\ n # 0
        <3>1. PICK i \in Nat : i + 1 = n
            <4>1. n - 1 \in Nat /\ n - 1 + 1 = n
                BY <2>2
            <4> QED
                BY <4>1, Zenon
        <3>2. len[i] = I /\ i < N
            BY <1>3, <2>2, <3>1
        <3>3. b[n] <= M
            BY <3>1, <3>2
        <3> QED
            BY <1>4, <2>2, <3>3
    <2>3. CASE n + 1 = N /\ r = len[n] /\ r < I
        <3>1. r = M - b[n]
            BY <2>3
        <3> QED
            BY <1>4, <3>1
    <2> QED
        BY <1>3, <2>1, <2>2, <2>3, Zenon
<1>7. ASSUME NEW q \in Nat, NEW t \in Nat, t < I, b[q] + t < L PROVE q < N /\ t < len[q]
    <2>1. q <= n
        BY <1>4, <1>5, <1>7
    <2>2. CASE q < n
        BY <1>3, <1>7, <2>2
    <2>3. CASE q = n
        BY <1>3, <1>4, <1>7, <2>3
    <2> QED
        BY <2>1, <2>2, <2>3
<1>8. ASSUME NEW i \in Nat, i < N
      PROVE  /\ b[i] < L
             /\ b[i + 1] <= L => len[i] = I
             /\ ~(b[i + 1] <= L) => len[i] = L - b[i]
             /\ \A m \in 1..len[i] : b[i] + m \in 1..L
    <2>1. CASE n + 1 = N
        BY <1>6, <1>8, <2>1
    <2>2. CASE n = N /\ r = 0
        <3>1. b[i + 1] <= b[n] /\ len[i] = I
            BY <1>3, <1>8, <2>2, Zenon
        <3> QED
            BY <1>4, <2>2, <3>1
    <2> QED
        BY <1>3, <2>1, <2>2, Zenon
<1>9. Split(N, M, I, b, len, n, r, L)
    BY <1>3, <1>4, <1>6, <1>7, <1>8, Zenon DEF Split
<1> QED
    BY <1>9, Zenon

\* loadFreeList: from a file that holds pages of a list it reads the beginning of that
\* list, whose pages these are as well.
LEMMA Loaded ==
    ASSUME NEW f \in Seq(Seq(Ids)), NEW s \in Seq(Ids), Holds(f, Len(f), s)
    PROVE  /\ loadFreeList(f) \in Seq(Ids)
           /\ Len(loadFreeList(f)) <= Len(s)
           /\ \A k \in 1..Len(loadFreeList(f)) : loadFreeList(f)[k] = s[k]
           /\ Holds(f, Len(f), loadFreeList(f))
<1> DEFINE list == loadFreeList(f)
<1>1. PICK I \in Nat \ {0} : I = ITEMS_PER_PAGE
    BY PagerAssumption, Zenon
<1>2. PICK N \in Nat : N = Len(f)
    OBVIOUS
<1>3. PICK M \in Nat : M = Len(s)
    OBVIOUS
<1>4. PICK b : Bounds(b)
    BY BoundsExist, Zenon
<1>5. /\ b[0] = 0
      /\ \A j \in Nat : b[j] \in Nat /\ b[j + 1] = b[j] + I
      /\ \A i, j \in Nat : i < j => b[i + 1] <= b[j]
    BY <1>1, <1>4, BoundsStep, Zenon
<1>6. \A i \in Nat : i < N => i + 1 \in 1..Len(f) /\ f[i + 1] \in Seq(Ids) /\ Len(f[i + 1]) \in Nat
    BY <1>2
<1>7. PICK len : \A i \in Nat : i < N => len[i] = Len(f[i + 1]) /\ len[i] \in Nat
    <2> DEFINE g == [i \in Nat |-> Len(f[i + 1])]
    <2>1. \A i \in Nat : g[i] = Len(f[i + 1])
        BY Zenon
    <2> HIDE DEF g
    <2>2. \A i \in Nat : i < N => g[i] = Len(f[i + 1]) /\ g[i] \in Nat
        BY <1>6, <2>1, Zenon
    <2> QED
        BY <2>2, Zenon
<1>8. ASSUME NEW i \in Nat, i < N
      PROVE  /\ b[i] < M
             /\ b[i + 1] <= M => len[i] = I
             /\ ~(b[i + 1] <= M) => len[i] = M - b[i]
             /\ \A m \in 1..len[i] : f[i + 1][m] = s[b[i] + m]
    <2>0. Laid(b, f, N, s)
        BY <1>2, <1>4, PageBounds, Zenon
    <2>1. /\ b[i] < Len(s)
          /\ b[i + 1] <= Len(s) => Len(f[i + 1]) = ITEMS_PER_PAGE
          /\ ~(b[i + 1] <= Len(s)) => Len(f[i + 1]) = Len(s) - b[i]
          /\ \A m \in 1..Len(f[i + 1]) : f[i + 1][m] = s[b[i] + m]
        BY <1>8, <2>0, Zenon DEF Laid
    <2>2. len[i] = Len(f[i + 1])
        BY <1>7, <1>8, Zenon
    <2> QED
        BY <1>1, <1>3, <2>1, <2>2, Zenon
<1>9. PICK n \in Nat, r \in Nat, L \in Nat : Split(N, M, I, b, len, n, r, L)
    <2>1. \A i \in Nat : i < N => /\ len[i] \in Nat /\ b[i] < M
                                  /\ b[i + 1] <= M => len[i] = I
                                  /\ ~(b[i + 1] <= M) => len[i] = M - b[i]
        BY <1>7, <1>8, Zenon
    <2> QED
        BY <1>5, <2>1, Layout, Zenon
<1>10. list = [k \in 1..L |-> f[((k - 1) \div I) + 1][((k - 1) % I) + 1]]
    <2> DEFINE full == {m \in 0..Len(f) : \A j \in 1..m : Len(f[j]) = ITEMS_PER_PAGE}
    <2>1. n \in full
        <3>1. n \in 0..Len(f)
            BY <1>2, <1>9 DEF Split
        <3>2. ASSUME NEW j \in 1..n PROVE Len(f[j]) = ITEMS_PER_PAGE
            <4>1. j - 1 \in Nat /\ j - 1 < n /\ j - 1 < N /\ j - 1 + 1 = j
                BY <1>9 DEF Split
            <4> QED
                BY <1>1, <1>7, <1>9, <4>1, Zenon DEF Split
        <3> QED
            BY <3>1, <3>2, Zenon
    <2>2. ASSUME NEW m \in full PROVE m \in Nat /\ m <= n
        <3>1. m \in Nat /\ m <= N /\ \A j \in 1..m : Len(f[j]) = ITEMS_PER_PAGE
            BY <1>2
        <3>2. n + 1 = N /\ n + 1 \in 1..m => I = len[n]
            <4>1. n + 1 = N => n < N
                OBVIOUS
            <4> QED
                BY <1>1, <1>7, <3>1, <4>1, Zenon
        <3> QED
            BY <1>9, <3>1, <3>2 DEF Split
    <2>3. n = CHOOSE x \in full : \A m \in full : m <= x
        <3>1. ASSUME NEW x \in full, \A m \in full : m <= x PROVE x = n
            <4>1. x \in Nat /\ x <= n
                BY <2>2, Zenon
            <4>2. n <= x
                BY <2>1, <3>1, Zenon
            <4> QED
                BY <4>1, <4>2
        <3>2. \A m \in full : m <= n
            BY <2>2, Zenon
        <3> HIDE DEF full
        <3> QED
            BY <2>1, <3>1, <3>2, Zenon
    <2>4. r = IF n < Len(f) THEN Len(f[n + 1]) ELSE 0
        <3>1. CASE n = N /\ r = 0
            BY <1>2, <3>1
        <3>2. CASE n + 1 = N /\ r = len[n]
            <4>1. n < N
                BY <3>2
            <4> QED
                BY <1>2, <1>7, <3>2, <4>1, Zenon
        <3> QED
            BY <1>9, <3>1, <3>2, Zenon DEF Split
    <2>5. L = n * ITEMS_PER_PAGE + r
        BY <1>4, <1>9, Zenon DEF Bounds, Split
    <2> QED
        BY <1>1, <2>3, <2>4, <2>5 DEF loadFreeList
<1>11. ASSUME NEW k \in 1..L
       PROVE  f[((k - 1) \div I) + 1][((k - 1) % I) + 1] = s[k] /\ s[k] \in Ids
    <2>1. k - 1 \in Nat
        OBVIOUS
    <2>2. PICK q \in Nat, t \in Nat : /\ q = (k - 1) \div I /\ t = (k - 1) % I
                                      /\ t < I /\ k - 1 = q * I + t
        BY <2>1, DivMod, ZenonT(60)
    <2>3. b[q] \in Nat /\ b[q] = q * I
        BY <1>1, <1>4, <1>5, Zenon DEF Bounds
    <2>4. k - 1 = b[q] + t
        BY <2>2, <2>3, Zenon
    <2>5. b[q] + t < L /\ b[q] + (t + 1) = k
        BY <2>3, <2>4
    <2>6. q < N /\ t < len[q] /\ len[q] \in Nat
        BY <1>7, <1>9, <2>2, <2>5, Zenon DEF Split
    <2>7. t + 1 \in 1..len[q]
        BY <2>6
    <2>8. f[q + 1][t + 1] = s[b[q] + (t + 1)]
        BY <1>8, <2>6, <2>7, Zenon
    <2>9. k \in 1..Len(s)
        BY <1>3, <1>9 DEF Split
    <2>10. s[k] \in Ids
        BY <2>9
    <2> QED
        BY <2>2, <2>5, <2>8, <2>10, Zenon
<1>12. list \in [1..L -> Ids] /\ \A k \in 1..L : list[k] = s[k]
    BY <1>10, <1>11, Zenon
<1>13. list \in Seq(Ids) /\ Len(list) = L
    BY <1>12
<1> HIDE DEF list
<1>14. ASSUME NEW i \in Nat, i < N PROVE PageOf(f[i + 1], list, i + 1)
    <2>1. b[i] \in Nat /\ b[i + 1] = b[i] + I /\ len[i] \in Nat
        BY <1>5, <1>7, <1>14, Zenon
    <2>2. /\ b[i] < L
          /\ b[i + 1] <= L => len[i] = I
          /\ ~(b[i + 1] <= L) => len[i] = L - b[i]
        BY <1>9, <1>14, Zenon DEF Split
    <2>3. ASSUME NEW m \in 1..len[i] PROVE f[i + 1][m] = list[b[i] + m]
        <3>1. b[i] + m \in 1..L
            BY <1>9, <1>14, Zenon DEF Split
        <3> QED
            BY <1>8, <1>12, <1>14, <3>1, Zenon
    <2>4. len[i] = Len(f[i + 1])
        BY <1>7, <1>14, Zenon
    <2>5. /\ b[i] < Len(list)
          /\ b[i + 1] <= Len(list) => Len(f[i + 1]) = I
          /\ ~(b[i + 1] <= Len(list)) => Len(f[i + 1]) = Len(list) - b[i]
          /\ \A m \in 1..Len(f[i + 1]) : f[i + 1][m] = list[b[i] + m]
        BY <1>13, <2>2, <2>3, <2>4, Zenon
    <2> QED
        BY <1>1, <1>4, <2>5, BoundsPage, Zenon
<1>15. Holds(f, Len(f), list)
    <2> SUFFICES ASSUME NEW j \in 1..Len(f) PROVE PageOf(f[j], list, j)
        BY Zenon DEF Holds
    <2>1. j - 1 \in Nat /\ j - 1 < N /\ j - 1 + 1 = j
        BY <1>2
    <2> QED
        BY <1>14, <2>1, Zenon
<1>16. Len(list) <= Len(s)
    BY <1>3, <1>9, <1>13, Zenon DEF Split
<1> QED
    BY <1>12, <1>13, <1>15, <1>16, Zenon DEF list

\* The pager starts with an empty list and an empty file.
LEMMA InitClean == Init => CleanInv
<1> SUFFICES ASSUME Init PROVE CleanInv
    OBVIOUS
<1>1. IdsType /\ IdsUnique
    BY InitIds
<1>2. FlushIdle \in Flush /\ NoMeta \in Meta
    BY PagerAssumption DEF FlushIdle, Flush, NoMeta, Meta
<1>3. FilesType
    <2>1. flFile \in Seq(Seq(Ids))
        BY DEF Init
    <2>2. flush \in [Flushers -> Flush] /\ dirty \in BOOLEAN
        BY <1>2, Zenon DEF Init
    <2>3. meta \in Meta /\ metaReq \in Meta \cup {<<>>}
        BY <1>2, Zenon DEF Init
    <2> QED
        BY <2>1, <2>2, <2>3, Zenon DEF FilesType
<1>4. ASSUME NEW w \in Flushers PROVE FlusherInv(w)
    <2>1. flush[w].pc = "idle" /\ flMu # w
        BY PagerAssumption, Zenon DEF Init, FlushIdle
    <2> QED
        BY <2>1, Zenon DEF FlusherInv
<1>5. Holds(flFile, Len(flFile), freePages)
    BY DEF Init, Holds
<1> QED
    BY <1>1, <1>3, <1>4, <1>5, Zenon DEF CleanInv, ListInv, Init

\* A flusher that leaves the list alone does not disturb another one.
LEMMA OthersKept ==
    ASSUME NEW x \in Flushers, FlusherInv(x), flush'[x] = flush[x], freePages' = freePages,
           flMu' = x <=> flMu = x, flMu = x => UNCHANGED <<dirty, flFile>>
    PROVE  FlusherInv(x)'
<1>1. numOfPages' = numOfPages
    BY Zenon DEF numOfPages
<1>2. CASE flMu = x
    BY <1>1, <1>2, Zenon DEF FlusherInv, Holds
<1>3. CASE flMu # x
    BY <1>3, Zenon DEF FlusherInv
<1> QED
    BY <1>2, <1>3, Zenon

\* Nobody changes the list while a flusher holds FreeList.mu, and a change makes it
\* dirty.
LEMMA ListKept ==
    ASSUME ListInv, UNCHANGED <<flMu, flush, flFile>>,
           \/ UNCHANGED <<dirty, freePages>>
           \/ flMu = "none" /\ dirty' = TRUE
    PROVE  ListInv'
<1>1. CASE UNCHANGED <<dirty, freePages>>
    <2>1. ASSUME NEW x \in Flushers PROVE FlusherInv(x)'
        BY <1>1, OthersKept, Zenon DEF ListInv
    <2> QED
        BY <1>1, <2>1, Zenon DEF ListInv, Holds
<1>2. CASE flMu = "none" /\ dirty' = TRUE
    <2>1. ASSUME NEW x \in Flushers PROVE FlusherInv(x)'
        <3>1. flMu # x /\ flMu' # x /\ FlusherInv(x)
            BY <1>2, PagerAssumption, Zenon DEF ListInv
        <3> QED
            BY <3>1, Zenon DEF FlusherInv
    <2> QED
        BY <1>2, <2>1, Zenon DEF ListInv
<1> QED
    BY <1>1, <1>2, Zenon

\* FlushFreeList and its timeout.
LEMMA BeginStep ==
    ASSUME IdsType, FilesType, ListInv, NEW w \in Flushers, FlushFreeList(w) \/ timeout(w)
    PROVE  FilesType' /\ ListInv'
<1>1. UNCHANGED <<freePages, dirty, flMu, flFile, meta, metaReq>>
    BY Zenon DEF FlushFreeList, timeout, diskVars
<1>2. /\ flush' \in [Flushers -> Flush]
      /\ \A x \in Flushers \ {w} : flush'[x] = flush[x]
      /\ \/ flush[w].pc = "idle" /\ flush'[w].pc = "lock" /\ flush'[w].i = 0
         \/ flush'[w].pc = flush[w].pc /\ flush'[w].i = flush[w].i
    <2>0. flush \in [Flushers -> Flush]
        BY Zenon DEF FilesType
    <2>1. CASE FlushFreeList(w)
        <3> DEFINE r == [pc |-> "lock", i |-> 0, waits |-> TRUE]
        <3>1. flush[w].pc = "idle" /\ flush' = [flush EXCEPT ![w] = r]
            BY <2>1, Zenon DEF FlushFreeList
        <3>2. r \in Flush
            BY Zenon DEF Flush
        <3> QED
            BY <2>0, <3>1, <3>2, Zenon
    <2>2. CASE timeout(w)
        <3> DEFINE r == [flush[w] EXCEPT !.waits = FALSE]
        <3>1. flush' = [flush EXCEPT ![w] = r]
            BY <2>2, Zenon DEF timeout
        <3>2. r \in Flush /\ r.pc = flush[w].pc /\ r.i = flush[w].i
            BY <2>0, Zenon DEF Flush
        <3> QED
            BY <2>0, <3>1, <3>2, Zenon
    <2> QED
        BY <2>1, <2>2, Zenon
<1>3. FlusherInv(w) /\ numOfPages' = numOfPages
    BY <1>1, Zenon DEF ListInv, numOfPages
<1>4. FlusherInv(w)'
    BY <1>1, <1>2, <1>3, Zenon DEF FlusherInv, Holds
<1>5. ASSUME NEW x \in Flushers \ {w} PROVE FlusherInv(x)'
    BY <1>1, <1>2, OthersKept, Zenon DEF ListInv
<1>6. FilesType'
    BY <1>1, <1>2, Zenon DEF FilesType
<1> QED
    BY <1>1, <1>4, <1>5, <1>6, Zenon DEF ListInv, Holds

\* A flusher takes FreeList.mu.
LEMMA LockStep ==
    ASSUME IdsType, FilesType, ListInv, NEW w \in Flushers, lockFreeList(w)
    PROVE  FilesType' /\ ListInv'
<1>1. /\ UNCHANGED <<freePages, dirty, flFile, meta, metaReq>>
      /\ flush[w].pc = "lock" /\ flMu = "none" /\ flMu' = w
    BY Zenon DEF lockFreeList, diskVars
<1>2. PICK pc \in {"send", "sync", "write"} :
        /\ pc = (IF ~dirty THEN "send" ELSE IF freePages = <<>> THEN "sync" ELSE "write")
        /\ flush' = [flush EXCEPT ![w].pc = pc]
    BY Zenon DEF lockFreeList, Goto
<1>3. /\ flush' \in [Flushers -> Flush] /\ flush'[w].pc = pc /\ flush'[w].i = flush[w].i
      /\ \A x \in Flushers \ {w} : flush'[x] = flush[x]
    BY <1>2, ZenonT(60) DEF FilesType, Flush
<1>4. flush[w].i = 0
    BY <1>1, Zenon DEF ListInv, FlusherInv
<1>5. /\ freePages = <<>> => numOfPages = 0
      /\ freePages # <<>> => numOfPages > 0
      /\ numOfPages' = numOfPages /\ numOfPages \in Nat /\ Len(flFile) \in Nat
    BY <1>1, NumOfPages DEF IdsType, FilesType, numOfPages
<1>6. Holds(flFile, 0, freePages)'
    BY DEF Holds
<1>7. FlusherInv(w)'
    <2>1. CASE pc = "send"
        BY <1>1, <1>3, <2>1, Zenon DEF FlusherInv
    <2>2. CASE pc = "sync"
        <3>1. dirty /\ numOfPages' = 0 /\ 0 <= Len(flFile)
            BY <1>2, <1>5, <2>2
        <3> QED
            BY <1>1, <1>3, <1>6, <2>2, <3>1, Zenon DEF FlusherInv
    <2>3. CASE pc = "write"
        <3>1. dirty /\ 0 < numOfPages' /\ 0 <= Len(flFile)
            BY <1>2, <1>5, <2>3
        <3> QED
            BY <1>1, <1>3, <1>4, <1>6, <2>3, <3>1, Zenon DEF FlusherInv
    <2> QED
        BY <2>1, <2>2, <2>3, Zenon
<1>8. ASSUME NEW x \in Flushers \ {w} PROVE FlusherInv(x)'
    <2>1. flMu # x /\ flMu' # x
        BY <1>1, PagerAssumption, Zenon
    <2> QED
        BY <1>1, <1>3, <2>1, OthersKept, Zenon DEF ListInv
<1>9. FilesType'
    BY <1>1, <1>3, Zenon DEF FilesType
<1> QED
    BY <1>1, <1>7, <1>8, <1>9, Zenon DEF ListInv, Holds

\* The items that writeListPage takes are the next page of the list.
LEMMA NextPage ==
    ASSUME NEW s \in Seq(Ids), NEW i \in Nat, i * ITEMS_PER_PAGE < Len(s), NEW last,
           last = IF Len(s) >= (i + 1) * ITEMS_PER_PAGE THEN (i + 1) * ITEMS_PER_PAGE ELSE Len(s)
    PROVE  LET q == SubSeq(s, i * ITEMS_PER_PAGE + 1, last)
           IN  q \in Seq(Ids) /\ PageOf(q, s, i + 1)
<1>1. PICK I \in Nat \ {0} : I = ITEMS_PER_PAGE
    BY PagerAssumption, Zenon
<1>2. PICK b \in Nat : b = i * ITEMS_PER_PAGE
    BY <1>1
<1>3. (i + 1) * ITEMS_PER_PAGE = b + I /\ (i + 1) - 1 = i
    BY <1>1, <1>2
<1>4. PICK n \in Nat : n = Len(s)
    OBVIOUS
<1>5. /\ b < n
      /\ b + I <= n => last = b + I
      /\ ~(b + I <= n) => last = n
    BY <1>2, <1>3, <1>4, Zenon
<1>6. last \in Nat /\ last <= n /\ b + 1 <= last + 1
    BY <1>5
<1> DEFINE q == SubSeq(s, b + 1, last)
<1>7. q \in Seq(Ids) /\ Len(q) = last - b /\ \A m \in 1..Len(q) : q[m] = s[b + m]
    BY <1>4, <1>6
<1>8. /\ b + I <= n => Len(q) = I
      /\ ~(b + I <= n) => Len(q) = n - b
    <2>1. b + I <= n => last - b = I
        BY <1>5
    <2>2. ~(b + I <= n) => last - b = n - b
        BY <1>5, Zenon
    <2> QED
        BY <1>7, <2>1, <2>2, Zenon
<1> HIDE DEF q
<1>9. PageOf(q, s, i + 1)
    <2>1. ((i + 1) - 1) * ITEMS_PER_PAGE = b
        BY <1>2, <1>3, Zenon
    <2> QED
        BY <1>1, <1>3, <1>4, <1>5, <1>7, <1>8, <2>1, Zenon DEF PageOf
<1> QED
    BY <1>2, <1>7, <1>9, Zenon DEF q

\* WriteAt, at a page of the file or at its end.
LEMMA PutPage ==
    ASSUME NEW S, NEW f \in Seq(S), NEW q \in S, NEW i \in Nat, i <= Len(f), NEW g,
           g = IF i < Len(f) THEN [f EXCEPT ![i + 1] = q] ELSE Append(f, q)
    PROVE  /\ g \in Seq(S) /\ i + 1 <= Len(g) /\ g[i + 1] = q
           /\ \A j \in 1..i : g[j] = f[j]
<1>1. CASE i < Len(f)
    BY <1>1
<1>2. CASE i = Len(f)
    BY <1>2
<1> QED
    BY <1>1, <1>2

\* Truncate.
LEMMA Truncated ==
    ASSUME NEW S, NEW f \in Seq(S), NEW n \in Nat, n <= Len(f)
    PROVE  /\ SubSeq(f, 1, n) \in Seq(S) /\ Len(SubSeq(f, 1, n)) = n
           /\ \A j \in 1..n : SubSeq(f, 1, n)[j] = f[j]
OBVIOUS

Advance(g, i, pc) == [g EXCEPT !.i = i + 1, !.pc = pc]

\* The progress of a flusher after a page.
LEMMA Advanced ==
    ASSUME NEW g \in Flush, NEW i \in Nat, NEW pc \in {"write", "sync"}
    PROVE  /\ Advance(g, i, pc) \in Flush
           /\ Advance(g, i, pc).pc = pc /\ Advance(g, i, pc).i = i + 1
<1> DEFINE h == [g EXCEPT !.i = i + 1]
<1>1. h \in Flush /\ h.i = i + 1
    BY DEF Flush
<1>2. Advance(g, i, pc) = [h EXCEPT !.pc = pc]
    BY Zenon DEF Advance
<1> HIDE DEF h
<1> QED
    BY <1>1, <1>2, Zenon DEF Flush

\* A flusher writes a page.
LEMMA WriteStep ==
    ASSUME IdsType, FilesType, ListInv, NEW w \in Flushers, writeListPage(w)
    PROVE  FilesType' /\ ListInv'
<1>1. /\ UNCHANGED <<freePages, dirty, flMu, meta, metaReq>>
      /\ flush[w].pc = "write"
    BY Zenon DEF writeListPage, diskVars
<1>2. PICK i \in Nat : i = flush[w].i
    BY Zenon DEF FilesType, Flush
<1>3. flMu = w /\ dirty /\ i < numOfPages /\ i <= Len(flFile) /\ Holds(flFile, i, freePages)
    BY <1>1, <1>2, Zenon DEF ListInv, FlusherInv
<1>4. /\ freePages \in Seq(Ids) /\ numOfPages \in Nat
      /\ i * ITEMS_PER_PAGE < Len(freePages)
    BY <1>2, <1>3, NumOfPages, Zenon DEF IdsType
<1> DEFINE last == IF Len(freePages) >= (i + 1) * ITEMS_PER_PAGE THEN (i + 1) * ITEMS_PER_PAGE
                   ELSE Len(freePages)
           items == SubSeq(freePages, i * ITEMS_PER_PAGE + 1, last)
<1>5. /\ flFile' = IF i < Len(flFile) THEN [flFile EXCEPT ![i + 1] = items]
                   ELSE Append(flFile, items)
      /\ flush' = [flush EXCEPT ![w].i = i + 1,
                                ![w].pc = IF i + 1 < numOfPages THEN "write" ELSE "sync"]
    BY <1>2, Zenon DEF writeListPage
<1>6. items \in Seq(Ids) /\ PageOf(items, freePages, i + 1)
    BY <1>4, NextPage, Zenon
<1> HIDE DEF last, items
<1>7. /\ flFile' \in Seq(Seq(Ids)) /\ i + 1 <= Len(flFile') /\ flFile'[i + 1] = items
      /\ \A j \in 1..i : flFile'[j] = flFile[j]
    <2>1. flFile \in Seq(Seq(Ids))
        BY Zenon DEF FilesType
    <2> QED
        BY <1>3, <1>5, <1>6, <2>1, PutPage
<1>8. Holds(flFile', i + 1, freePages)
    <2> SUFFICES ASSUME NEW j \in 1..(i + 1) PROVE PageOf(flFile'[j], freePages, j)
        BY Zenon DEF Holds
    <2>1. CASE j = i + 1
        BY <1>6, <1>7, <2>1, Zenon
    <2>2. CASE j # i + 1
        <3>1. j \in 1..i
            BY <2>2
        <3> QED
            BY <1>3, <1>7, <3>1, Zenon DEF Holds
    <2> QED
        BY <2>1, <2>2, Zenon
<1>9. PICK pc \in {"write", "sync"} : pc = IF i + 1 < numOfPages THEN "write" ELSE "sync"
    OBVIOUS
<1>10. /\ flush' \in [Flushers -> Flush] /\ flush'[w].pc = pc /\ flush'[w].i = i + 1
       /\ \A x \in Flushers \ {w} : flush'[x] = flush[x]
    <2>1. flush \in [Flushers -> Flush]
        BY Zenon DEF FilesType
    <2>2. PICK r : r = Advance(flush[w], i, pc)
        OBVIOUS
    <2>3. flush' = [flush EXCEPT ![w] = r]
        BY <1>5, <1>9, <2>1, <2>2, Zenon DEF Advance
    <2>4. flush[w] \in Flush
        BY <2>1, Zenon
    <2>5. r \in Flush /\ r.pc = pc /\ r.i = i + 1
        BY <1>2, <1>9, <2>2, <2>4, Advanced, Zenon
    <2> QED
        BY <2>1, <2>3, <2>5, Zenon
<1>11. numOfPages' = numOfPages
    BY <1>1, Zenon DEF numOfPages
<1>12. Holds(flFile, i + 1, freePages)'
    BY <1>1, <1>8, Zenon DEF Holds
<1>13. FlusherInv(w)'
    <2>1. CASE pc = "write"
        <3>1. i + 1 < numOfPages'
            BY <1>9, <1>11, <2>1, Zenon
        <3> QED
            BY <1>1, <1>3, <1>7, <1>10, <1>12, <2>1, <3>1, Zenon DEF FlusherInv
    <2>2. CASE pc = "sync"
        <3>1. numOfPages' = i + 1
            BY <1>2, <1>3, <1>4, <1>9, <1>11, <2>2
        <3> QED
            BY <1>1, <1>3, <1>7, <1>10, <1>12, <2>2, <3>1, Zenon DEF FlusherInv
    <2> QED
        BY <2>1, <2>2, Zenon
<1>14. ASSUME NEW x \in Flushers \ {w} PROVE FlusherInv(x)'
    BY <1>1, <1>3, <1>10, OthersKept, Zenon DEF ListInv
<1>15. FilesType'
    BY <1>1, <1>7, <1>10, Zenon DEF FilesType
<1> QED
    BY <1>1, <1>3, <1>13, <1>14, <1>15, Zenon DEF ListInv

\* A flusher truncates the file, and the list is no longer dirty.
LEMMA SyncStep ==
    ASSUME IdsType, FilesType, ListInv, NEW w \in Flushers, syncFreeList(w)
    PROVE  FilesType' /\ ListInv'
<1>1. /\ UNCHANGED <<freePages, flMu, meta, metaReq>>
      /\ flush[w].pc = "sync" /\ dirty' = FALSE
      /\ flFile' = SubSeq(flFile, 1, numOfPages)
      /\ flush' = [flush EXCEPT ![w].pc = "send"]
    BY Zenon DEF syncFreeList, diskVars, Goto
<1>2. flMu = w /\ numOfPages <= Len(flFile) /\ Holds(flFile, numOfPages, freePages)
    BY <1>1, Zenon DEF ListInv, FlusherInv
<1>3. numOfPages \in Nat
    BY NumOfPages, Zenon DEF IdsType
<1>4. /\ flFile' \in Seq(Seq(Ids)) /\ Len(flFile') = numOfPages
      /\ \A j \in 1..numOfPages : flFile'[j] = flFile[j]
    <2>1. flFile \in Seq(Seq(Ids))
        BY Zenon DEF FilesType
    <2> QED
        BY <1>1, <1>2, <1>3, <2>1, Truncated, Zenon
<1>5. Holds(flFile, Len(flFile), freePages)'
    BY <1>1, <1>2, <1>4, Zenon DEF Holds
<1>6. /\ flush' \in [Flushers -> Flush] /\ flush'[w].pc = "send"
      /\ \A x \in Flushers \ {w} : flush'[x] = flush[x]
    <2>1. flush \in [Flushers -> Flush]
        BY Zenon DEF FilesType
    <2> QED
        BY <1>1, <2>1, Zenon DEF Flush
<1>7. FlusherInv(w)'
    BY <1>1, <1>2, <1>6, Zenon DEF FlusherInv
<1>8. ASSUME NEW x \in Flushers \ {w} PROVE FlusherInv(x)'
    BY <1>1, <1>2, <1>6, OthersKept, Zenon DEF ListInv
<1>9. FilesType'
    <2>1. dirty' \in BOOLEAN
        BY <1>1, Zenon
    <2> QED
        BY <1>1, <1>4, <1>6, <2>1, Zenon DEF FilesType
<1> QED
    BY <1>5, <1>7, <1>8, <1>9, Zenon DEF ListInv

\* A flusher reports and releases FreeList.mu.
LEMMA SendStep ==
    ASSUME IdsType, FilesType, ListInv, NEW w \in Flushers, sendWritten(w)
    PROVE  FilesType' /\ ListInv'
<1>1. /\ UNCHANGED <<freePages, dirty, flFile, meta, metaReq>>
      /\ flush[w].pc = "send" /\ flMu' = "none" /\ flush' = [flush EXCEPT ![w] = FlushIdle]
    BY Zenon DEF sendWritten
<1>2. flMu = w
    BY <1>1, Zenon DEF ListInv, FlusherInv
<1>3. /\ flush' \in [Flushers -> Flush] /\ flush'[w].pc = "idle"
      /\ \A x \in Flushers \ {w} : flush'[x] = flush[x]
    <2>1. flush \in [Flushers -> Flush]
        BY Zenon DEF FilesType
    <2>2. FlushIdle \in Flush /\ FlushIdle.pc = "idle"
        BY Zenon DEF Flush, FlushIdle
    <2> QED
        BY <1>1, <2>1, <2>2, Zenon
<1>4. \A x \in Flushers : flMu' # x
    BY <1>1, PagerAssumption, Zenon
<1>5. FlusherInv(w)'
    BY <1>3, <1>4, Zenon DEF FlusherInv
<1>6. ASSUME NEW x \in Flushers \ {w} PROVE FlusherInv(x)'
    BY <1>1, <1>2, <1>3, <1>4, OthersKept, Zenon DEF ListInv
<1>7. FilesType'
    BY <1>1, <1>3, Zenon DEF FilesType
<1>8. Holds(flFile, Len(flFile), freePages)' <=> Holds(flFile, Len(flFile), freePages)
    BY <1>1, Zenon DEF Holds
<1> QED
    BY <1>1, <1>5, <1>6, <1>7, <1>8, Zenon DEF ListInv

\* A crash when everything is flushed leaves the list and the greatest id in the files.
LEMMA CrashStep ==
    ASSUME IdsType, FilesType, IdsUnique, ListInv, Crash, Flushed
    PROVE  IdsType' /\ FilesType' /\ RestartInv' /\ Stopped'
<1>1. /\ page' = [p \in Ids |-> IF page[p] = "stored" THEN "stored" ELSE "unused"]
      /\ dying' = 0 /\ maxPageId' = 0 /\ pageCount' = 0 /\ freePages' = <<>> /\ dirty' = FALSE
    BY Zenon DEF Crash
<1>2. /\ flMu' = "none" /\ flush' = [w \in Flushers |-> FlushIdle]
      /\ metaReq' = <<>> /\ UNCHANGED <<flFile, meta>>
    BY Zenon DEF Crash
<1>3. IdsType'
    <2>1. /\ page' \in [Ids -> {"unused", "issued", "live", "stored", "zeroed"}]
          /\ dying' \in Nat /\ maxPageId' \in 0..MaxId /\ pageCount' \in Nat
        BY <1>1, PagerAssumption
    <2>2. freePages' \in Seq(Ids)
        BY <1>1
    <2> QED
        BY <2>1, <2>2, Zenon DEF IdsType
<1>4. FilesType'
    <2>1. FlushIdle \in Flush
        BY Zenon DEF Flush, FlushIdle
    <2>2. flush' \in [Flushers -> Flush] /\ dirty' \in BOOLEAN
        BY <1>1, <1>2, <2>1, Zenon
    <2>3. metaReq' \in Meta \cup {<<>>}
        BY <1>2, Zenon
    <2> QED
        BY <1>2, <2>2, <2>3, Zenon DEF FilesType
<1>5. InUse' \subseteq InUse
    BY <1>1, Zenon DEF InUse
<1>6. meta'.maxPageId = maxPageId /\ Holds(flFile, Len(flFile), freePages)
    BY <1>2, Zenon DEF Flushed, ListInv
<1>7. \A p \in InUse' : p <= meta'.maxPageId
    BY <1>5, <1>6, Zenon DEF IdsUnique
<1>8. PICK s \in Seq(Ids) : s = freePages
    BY Zenon DEF IdsType
<1>9. Holds(flFile', Len(flFile'), s)
    BY <1>2, <1>6, <1>8, Zenon
<1>10. /\ \A k, l \in 1..Len(s) : s[k] = s[l] => k = l
       /\ \A k \in 1..Len(s) : s[k] \notin InUse' /\ s[k] <= meta'.maxPageId
    BY <1>5, <1>6, <1>8, Zenon DEF IdsUnique
<1>11. RestartInv'
    BY <1>7, <1>9, <1>10, Zenon DEF RestartInv, Free, Holds
<1> QED
    BY <1>2, <1>3, <1>4, <1>11, Zenon DEF Stopped

\* NewPager reads a list of free ids, and the file holds it.
LEMMA RestartStep ==
    ASSUME IdsType, FilesType, RestartInv, Stopped, Restart
    PROVE  IdsType' /\ FilesType' /\ IdsUnique' /\ ListInv'
<1>1. /\ UNCHANGED <<page, dying, flMu, flush, flFile, metaReq, meta>> /\ dirty' = FALSE
      /\ freePages' = loadFreeList(flFile)
      /\ maxPageId' = meta.maxPageId /\ pageCount' = meta.pageCount
    BY Zenon DEF Restart, flVars
<1>2. PICK s \in Seq(Ids) : Holds(flFile, Len(flFile), s) /\ Free(s, meta.maxPageId)
    BY Zenon DEF RestartInv
<1>3. /\ freePages' \in Seq(Ids) /\ Len(freePages') <= Len(s)
      /\ \A k \in 1..Len(freePages') : freePages'[k] = s[k]
      /\ Holds(flFile, Len(flFile), freePages')
    BY <1>1, <1>2, Loaded, Zenon DEF FilesType
<1>4. meta \in Meta
    BY Zenon DEF FilesType
<1>5. maxPageId' \in 0..MaxId /\ pageCount' \in Nat
    BY <1>1, <1>4, Zenon DEF Meta
<1>6. IdsType'
    BY <1>1, <1>3, <1>5, Zenon DEF IdsType
<1>7. InUse' = InUse
    BY <1>1, Zenon DEF InUse
<1>8. \A k \in 1..Len(freePages') : k \in 1..Len(s)
    BY <1>3
<1>9. IdsUnique'
    <2>1. \A p \in InUse' : p <= maxPageId'
        BY <1>1, <1>7, Zenon DEF RestartInv
    <2>2. \A k, l \in 1..Len(freePages') : freePages'[k] = freePages'[l] => k = l
        BY <1>2, <1>3, <1>8, Zenon DEF Free
    <2>3. \A k \in 1..Len(freePages') : freePages'[k] \notin InUse' /\ freePages'[k] <= maxPageId'
        BY <1>1, <1>2, <1>3, <1>7, <1>8, Zenon DEF Free
    <2> QED
        BY <2>1, <2>2, <2>3, Zenon DEF IdsUnique
<1>10. ASSUME NEW w \in Flushers PROVE FlusherInv(w)'
    <2>1. flush'[w].pc = "idle" /\ flMu' # w
        BY <1>1, PagerAssumption, Zenon DEF Stopped, FlushIdle
    <2> QED
        BY <2>1, Zenon DEF FlusherInv
<1>11. ListInv'
    BY <1>1, <1>3, <1>10, Zenon DEF ListInv, Holds
<1>12. FilesType'
    <2>1. dirty' \in BOOLEAN
        BY <1>1, Zenon
    <2> QED
        BY <1>1, <2>1, Zenon DEF FilesType
<1> QED
    BY <1>6, <1>9, <1>11, <1>12, Zenon

\* What creates, stores and zeroes pages changes neither the list nor the greatest id.
LEMMA PageStep ==
    ASSUME IdsType, IdsUnique,
           \/ \E p \in Ids : NewPage(p) \/ WritePage(p, FALSE) \/ WritePage(p, TRUE)
           \/ decPageCount
    PROVE  /\ IdsType' /\ IdsUnique'
           /\ UNCHANGED <<freePages, dirty, flMu, flush, flFile, metaReq, meta>>
<1>1. CASE decPageCount
    <2>1. /\ dying > 0 /\ dying' = dying - 1
          /\ UNCHANGED <<maxPageId, freePages, page, dirty, flMu, flush, flFile, metaReq, meta>>
          /\ pageCount' = IF pageCount > 0 THEN pageCount - 1 ELSE pageCount
        BY <1>1, Zenon DEF decPageCount, flVars, diskVars
    <2>2. dying' \in Nat /\ pageCount' \in Nat
        BY <2>1 DEF IdsType
    <2> QED
        BY <2>1, <2>2, Zenon DEF IdsType, IdsUnique, InUse
<1>2. ASSUME NEW p \in Ids, NewPage(p) \/ WritePage(p, FALSE) \/ WritePage(p, TRUE)
      PROVE  /\ IdsType' /\ IdsUnique'
             /\ UNCHANGED <<freePages, dirty, flMu, flush, flFile, metaReq, meta>>
    <2>1. /\ UNCHANGED <<maxPageId, freePages, dying, dirty, flMu, flush, flFile, metaReq, meta>>
          /\ page[p] # "unused"
          /\ pageCount' = pageCount + 1 \/ pageCount' = pageCount
        BY <1>2, Zenon DEF NewPage, WritePage, flVars, diskVars
    <2>2. \E v \in {"live", "stored", "zeroed"} : page' = [page EXCEPT ![p] = v]
        BY <1>2, Zenon DEF NewPage, WritePage
    <2>3. IdsType' /\ InUse' = InUse
        BY <2>1, <2>2 DEF IdsType, InUse
    <2> QED
        BY <2>1, <2>3, Zenon DEF IdsUnique
<1> QED
    BY <1>1, <1>2, Zenon

\* Every step keeps the invariant.
LEMMA NextClean == CleanInv /\ [Next]_vars => CleanInv'
<1> SUFFICES ASSUME CleanInv, [Next]_vars, clean' PROVE CleanInv'
    BY Zenon DEF CleanInv
\* A step of the running process.
<1>0. ASSUME up, up' = up, clean' = clean,
             IdsType /\ FilesType /\ IdsUnique /\ ListInv =>
                IdsType' /\ FilesType' /\ IdsUnique' /\ ListInv'
      PROVE  CleanInv'
    BY <1>0, Zenon DEF CleanInv
<1>1. ASSUME IdsType, IdsUnique, UNCHANGED <<maxPageId, pageCount, freePages, page, dying>>
      PROVE  IdsType' /\ IdsUnique'
    BY <1>1, Zenon DEF IdsType, IdsUnique, InUse
<1>2. ASSUME FilesType, ListInv, UNCHANGED <<flush, flMu, flFile, meta, metaReq>>, dirty' \in BOOLEAN,
             UNCHANGED <<dirty, freePages>> \/ (flMu = "none" /\ dirty' = TRUE)
      PROVE  FilesType' /\ ListInv'
    BY <1>2, ListKept, Zenon DEF FilesType
<1>3. CASE NewPageId \/ \E p \in Ids : add(p)
    <2>1. up /\ up' = up /\ clean' = clean
        BY <1>3, Zenon DEF NewPageId, add, Running, diskVars
    <2>2. ASSUME IdsType, FilesType, IdsUnique, ListInv
          PROVE  IdsType' /\ FilesType' /\ IdsUnique' /\ ListInv'
        <3>1. IdsType' /\ IdsUnique'
            BY <1>3, <2>2, NewIdStep, AddStep, Zenon
        <3>2. /\ UNCHANGED <<flush, flMu, flFile, meta, metaReq>>
              /\ UNCHANGED <<dirty, freePages>> \/ (flMu = "none" /\ dirty' = TRUE)
            BY <1>3, Zenon DEF NewPageId, add, flVars, diskVars
        <3>3. dirty' \in BOOLEAN
            BY <2>2, <3>2, Zenon DEF FilesType
        <3> QED
            BY <1>2, <2>2, <3>1, <3>2, <3>3, Zenon
    <2> QED
        BY <1>0, <2>1, <2>2, Zenon
<1>4. CASE \/ \E p \in Ids : NewPage(p) \/ WritePage(p, FALSE) \/ WritePage(p, TRUE)
           \/ decPageCount
    <2>1. up /\ up' = up /\ clean' = clean
        BY <1>4, Zenon DEF NewPage, WritePage, decPageCount, Running, diskVars
    <2>2. ASSUME IdsType, FilesType, IdsUnique, ListInv
          PROVE  IdsType' /\ FilesType' /\ IdsUnique' /\ ListInv'
        <3>1. /\ IdsType' /\ IdsUnique'
              /\ UNCHANGED <<freePages, dirty, flMu, flush, flFile, metaReq, meta>>
            BY <1>4, <2>2, PageStep, Zenon
        <3>2. dirty' \in BOOLEAN
            BY <2>2, <3>1, Zenon DEF FilesType
        <3> QED
            BY <1>2, <2>2, <3>1, <3>2, Zenon
    <2> QED
        BY <1>0, <2>1, <2>2, Zenon
<1>5. CASE FlushMetadata \/ writeMetadata
    <2>1. /\ up /\ up' = up /\ clean' = clean
          /\ UNCHANGED <<maxPageId, pageCount, freePages, page, dying, dirty, flush, flMu, flFile>>
        BY <1>5, Zenon DEF FlushMetadata, writeMetadata, Running, flVars
    <2>2. ASSUME IdsType, FilesType, IdsUnique, ListInv
          PROVE  IdsType' /\ FilesType' /\ IdsUnique' /\ ListInv'
        <3>1. IdsType' /\ IdsUnique'
            BY <1>1, <2>1, <2>2, Zenon
        <3>2. ListInv'
            BY <2>1, <2>2, ListKept, Zenon
        <3>3. [maxPageId |-> maxPageId, pageCount |-> pageCount] \in Meta
            BY <2>2, Zenon DEF IdsType, Meta
        <3>4. meta' \in Meta /\ metaReq' \in Meta \cup {<<>>}
            BY <1>5, <2>2, <3>3, Zenon DEF FlushMetadata, writeMetadata, FilesType
        <3> QED
            BY <2>1, <2>2, <3>1, <3>2, <3>4, Zenon DEF FilesType
    <2> QED
        BY <1>0, <2>1, <2>2, Zenon
<1>6. ASSUME NEW w \in Flushers,
             \/ FlushFreeList(w) \/ timeout(w) \/ lockFreeList(w)
             \/ writeListPage(w) \/ syncFreeList(w) \/ sendWritten(w)
      PROVE  CleanInv'
    <2>1. /\ up /\ up' = up /\ clean' = clean
          /\ UNCHANGED <<maxPageId, pageCount, freePages, page, dying>>
        BY <1>6, Zenon DEF FlushFreeList, timeout, lockFreeList, writeListPage, syncFreeList,
                           sendWritten, Running, diskVars
    <2>2. ASSUME IdsType, FilesType, IdsUnique, ListInv
          PROVE  IdsType' /\ FilesType' /\ IdsUnique' /\ ListInv'
        <3>1. IdsType' /\ IdsUnique'
            BY <1>1, <2>1, <2>2, Zenon
        <3>2. FilesType' /\ ListInv'
            BY <1>6, <2>2, BeginStep, LockStep, WriteStep, SyncStep, SendStep, Zenon
        <3> QED
            BY <3>1, <3>2, Zenon
    <2> QED
        BY <1>0, <2>1, <2>2, Zenon
<1>7. CASE Crash
    <2>1. clean /\ Flushed /\ up /\ ~up'
        BY <1>7, Zenon DEF Crash
    <2>2. IdsType' /\ FilesType' /\ RestartInv' /\ Stopped'
        BY <1>7, <2>1, CrashStep, Zenon DEF CleanInv
    <2> QED
        BY <2>1, <2>2, Zenon DEF CleanInv
<1>8. CASE Restart
    <2>1. ~up /\ up' /\ clean
        BY <1>8, Zenon DEF Restart
    <2>2. IdsType' /\ FilesType' /\ IdsUnique' /\ ListInv'
        BY <1>8, <2>1, RestartStep, Zenon DEF CleanInv
    <2> QED
        BY <2>1, <2>2, Zenon DEF CleanInv
<1>9. CASE UNCHANGED vars
    <2>1. /\ UNCHANGED <<maxPageId, pageCount, freePages, page, dying>>
          /\ UNCHANGED <<flush, flMu, flFile, meta, metaReq, dirty, up, clean>>
        BY <1>9, Zenon DEF vars
    <2>2. IdsType /\ FilesType /\ clean
        BY <2>1, Zenon DEF CleanInv
    <2>3. CASE up
        BY <1>1, <1>2, <2>1, <2>2, <2>3, Zenon DEF CleanInv, FilesType
    <2>4. CASE ~up
        <3>1. IdsType' /\ FilesType' /\ Stopped'
            BY <2>1, <2>2, <2>4, Zenon DEF CleanInv, IdsType, FilesType, Stopped
        <3>2. RestartInv'
            BY <2>1, <2>2, <2>4, Zenon DEF CleanInv, RestartInv, Holds, Free, InUse
        <3> QED
            BY <2>1, <2>4, <3>1, <3>2, Zenon DEF CleanInv
    <2> QED
        BY <2>3, <2>4, Zenon
<1> QED
    BY <1>3, <1>4, <1>5, <1>6, <1>7, <1>8, <1>9, Zenon DEF Next

\* Ids keep one owner over crashes and restarts, as long as each crash came at a time
\* when the free list and the metadata were flushed: what loadFreeList reads is a list
\* that flushFreeList wrote under FreeList.mu, and what it leaves out is lost, not
\* assigned twice.
THEOREM IdsStayUnique == Spec => []FlushedIdsUnique
<1>1. CleanInv => FlushedIdsUnique
    BY Zenon DEF CleanInv, FlushedIdsUnique
<1> QED
    BY InitClean, NextClean, <1>1, PTL DEF Spec

-----------------------------------------------------------------------------
(* The page count, until a crash.                                          *)

INSTANCE FiniteSetTheorems

\* IdsUnique keeps NewPageId from issuing the id of a counted page, and the sum keeps
\* the guard of decPageCount from being needed.
IInv ==
    /\ crashes \in Nat
    /\ crashes = 0 => /\ up /\ IdsType /\ IdsUnique
                      /\ pageCount = dying + Cardinality(Counted)

\* The counted pages are finitely many.
LEMMA FiniteIds == IsFiniteSet(Counted) /\ Cardinality(Counted) \in Nat
<1>1. IsFiniteSet(Ids)
    BY FS_Interval, PagerAssumption DEF Ids
<1>2. IsFiniteSet(Counted)
    BY <1>1, FS_Subset, Zenon DEF Counted
<1> QED
    BY <1>2, FS_CardinalityType, Zenon

\* The invariant holds when the pager starts.
LEMMA InitIInv == Init => IInv
<1> SUFFICES ASSUME Init PROVE IInv
    OBVIOUS
<1>1. Counted = {}
    BY Zenon DEF Init, Counted
<1>2. Cardinality(Counted) = 0
    BY <1>1, FS_EmptySet, Zenon
<1>3. IdsType /\ IdsUnique
    BY InitIds
<1> QED
    BY <1>2, <1>3 DEF Init, IInv

\* Every step of the pager keeps the invariant.
LEMMA NextIInv == IInv /\ [Next]_vars => IInv'
<1> SUFFICES ASSUME IInv, [Next]_vars PROVE IInv'
    OBVIOUS
<1>0. ASSUME UNCHANGED <<maxPageId, pageCount, freePages, page, dying, up, crashes>> PROVE IInv'
    BY <1>0, Zenon DEF IInv, IdsType, IdsUnique, InUse, Counted
\* After a crash nothing is left to show.
<1>1. CASE Crash
    BY <1>1 DEF Crash, IInv
<1>2. CASE crashes # 0 /\ crashes' = crashes
    BY <1>2, Zenon DEF IInv
<1>3. ASSUME crashes = 0, NewPageId PROVE IInv'
    <2>1. IdsType' /\ IdsUnique' /\ Counted' = Counted
        BY <1>3, NewIdStep, Zenon DEF IInv
    <2>2. UNCHANGED <<pageCount, dying, up, crashes>>
        BY <1>3, Zenon DEF NewPageId, diskVars
    <2> QED
        BY <1>3, <2>1, <2>2, Zenon DEF IInv
<1>4. ASSUME crashes = 0, NEW p \in Ids, NewPage(p) PROVE IInv'
    <2>1. /\ page[p] = "issued" /\ page' = [page EXCEPT ![p] = "live"]
          /\ pageCount' = pageCount + 1 /\ UNCHANGED <<maxPageId, freePages, dying, up, crashes>>
        BY <1>4, Zenon DEF NewPage, diskVars
    <2>2. IdsType /\ IdsUnique /\ up /\ pageCount = dying + Cardinality(Counted)
        BY <1>4, Zenon DEF IInv
    <2>3. IdsType'
        BY <2>1, <2>2 DEF IdsType
    <2>4. InUse' = InUse
        BY <2>1, <2>2, Zenon DEF InUse, IdsType
    <2>5. IdsUnique'
        BY <2>1, <2>2, <2>4, Zenon DEF IdsUnique
    <2>6. Counted' = Counted \cup {p} /\ p \notin Counted
        BY <2>1, <2>2, Zenon DEF Counted, IdsType
    <2>7. Cardinality(Counted') = Cardinality(Counted) + 1
        BY <2>6, FiniteIds, FS_AddElement, Zenon
    <2>8. pageCount' = dying' + Cardinality(Counted')
        BY <2>1, <2>2, <2>7, FiniteIds DEF IdsType
    <2> QED
        BY <1>4, <2>1, <2>2, <2>3, <2>5, <2>8, Zenon DEF IInv
<1>5. ASSUME crashes = 0, NEW p \in Ids, NEW d \in BOOLEAN, WritePage(p, d) PROVE IInv'
    <2>1. /\ page[p] \in {"live", "stored"}
          /\ page' = [page EXCEPT ![p] = IF d THEN "zeroed" ELSE "stored"]
          /\ UNCHANGED <<maxPageId, pageCount, freePages, dying, up, crashes>>
        BY <1>5, Zenon DEF WritePage, diskVars
    <2>2. IdsType /\ IdsUnique /\ up /\ pageCount = dying + Cardinality(Counted)
        BY <1>5, Zenon DEF IInv
    <2>3. IdsType' /\ InUse' = InUse /\ Counted' = Counted
        BY <2>1, <2>2, Zenon DEF IdsType, InUse, Counted
    <2>4. IdsUnique'
        BY <2>1, <2>2, <2>3, Zenon DEF IdsUnique
    <2> QED
        BY <1>5, <2>1, <2>2, <2>3, <2>4, Zenon DEF IInv
<1>6. ASSUME crashes = 0, NEW p \in Ids, add(p) PROVE IInv'
    <2>1. /\ IdsType' /\ IdsUnique' /\ Counted' = Counted \ {p} /\ p \in Counted
          /\ dying' = dying + 1 /\ pageCount' = pageCount
        BY <1>6, AddStep, Zenon DEF IInv
    <2>2. IdsType /\ up /\ pageCount = dying + Cardinality(Counted)
        BY <1>6, Zenon DEF IInv
    <2>3. Cardinality(Counted') = Cardinality(Counted) - 1
        BY <2>1, FiniteIds, FS_RemoveElement, Zenon
    <2>4. pageCount' = dying' + Cardinality(Counted')
        BY <2>1, <2>2, <2>3, FiniteIds DEF IdsType
    <2>5. UNCHANGED <<up, crashes>>
        BY <1>6, Zenon DEF add, diskVars
    <2> QED
        BY <1>6, <2>1, <2>2, <2>4, <2>5, Zenon DEF IInv
<1>7. ASSUME crashes = 0, decPageCount PROVE IInv'
    <2>1. /\ dying > 0 /\ dying' = dying - 1 /\ UNCHANGED <<maxPageId, freePages, page, up, crashes>>
          /\ pageCount' = IF pageCount > 0 THEN pageCount - 1 ELSE pageCount
        BY <1>7, Zenon DEF decPageCount, diskVars
    <2>2. IdsType /\ IdsUnique /\ up /\ pageCount = dying + Cardinality(Counted)
        BY <1>7, Zenon DEF IInv
    <2>3. Counted' = Counted /\ IdsUnique'
        BY <2>1, <2>2, Zenon DEF Counted, IdsUnique, InUse
    <2>4. dying' \in Nat /\ pageCount' \in Nat /\ pageCount' = dying' + Cardinality(Counted)
        BY <2>1, <2>2, FiniteIds DEF IdsType
    <2>5. IdsType'
        BY <2>1, <2>2, <2>4, Zenon DEF IdsType
    <2> QED
        BY <1>7, <2>1, <2>2, <2>3, <2>4, <2>5, Zenon DEF IInv
<1>8. ASSUME crashes = 0, Restart PROVE FALSE
    BY <1>8, Zenon DEF Restart, IInv
<1>9. ASSUME FlushMetadata \/ writeMetadata PROVE IInv'
    BY <1>0, <1>9, Zenon DEF FlushMetadata, writeMetadata
<1>10. ASSUME NEW w \in Flushers,
              \/ FlushFreeList(w) \/ timeout(w) \/ lockFreeList(w)
              \/ writeListPage(w) \/ syncFreeList(w) \/ sendWritten(w)
       PROVE  IInv'
    <2>1. UNCHANGED <<maxPageId, pageCount, freePages, page, dying, up, crashes>>
        BY <1>10, Zenon DEF FlushFreeList, timeout, lockFreeList, writeListPage, syncFreeList,
                     sendWritten, diskVars
    <2> QED
        BY <1>0, <2>1, Zenon
<1>11. CASE UNCHANGED vars
    BY <1>0, <1>11, Zenon DEF vars
<1>12. ASSUME NEW p \in Ids, NewPage(p) \/ WritePage(p, FALSE) \/ WritePage(p, TRUE) \/ add(p)
       PROVE  IInv'
    <2>1. crashes' = crashes
        BY <1>12, Zenon DEF NewPage, WritePage, add, diskVars
    <2> QED
        BY <1>2, <1>4, <1>5, <1>6, <1>12, <2>1, ZenonT(60)
<1>13. ASSUME NewPageId \/ decPageCount \/ Restart PROVE IInv'
    <2>1. crashes' = crashes
        BY <1>13, Zenon DEF NewPageId, decPageCount, Restart, diskVars
    <2> QED
        BY <1>2, <1>3, <1>7, <1>8, <1>13, <2>1, Zenon
<1> QED
    BY <1>1, <1>9, <1>10, <1>11, <1>12, <1>13, ZenonT(60) DEF Next

\* So the invariant always holds.
LEMMA Inductive == Spec => []IInv
BY InitIInv, NextIInv, PTL DEF Spec

\* WritePage, NewPage: as long as the process runs, pageCount is exact whenever no
\* deletion is under way, and the guard against going below zero is never needed.
THEOREM PageCountIsExact == Spec => []PageCountExact
<1>1. IInv => PageCountExact
    BY Zenon DEF IInv, PageCountExact, Counted
<1> QED
    BY Inductive, <1>1, PTL

\* NewPageId, freeList.add: as long as the process runs, an id is in use, in the free
\* list once, or not yet issued.
THEOREM IdsHaveOneOwner == Spec => [](crashes = 0 => IdsUnique)
<1>1. IInv => (crashes = 0 => IdsUnique)
    BY Zenon DEF IInv
<1> QED
    BY Inductive, <1>1, PTL
=============================================================================
