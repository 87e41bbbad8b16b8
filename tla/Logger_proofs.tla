---------------------------- MODULE Logger_proofs ---------------------------
(***************************************************************************)
(* Proofs about the logger, for any number of callers and requests.        *)
(***************************************************************************)
EXTENDS Logger, TLAPS

\* The number of requests that were taken off the list.
Taken == Len(added) - itemCount

\* QueueIsList, no request twice in it, and nothing behind its tail.
ListInv ==
    /\ itemCount <= Len(added)
    /\ \A i, j \in 1..Len(added) : added[i] = added[j] => i = j
    /\ itemCount = 0 => head = NoLog /\ tail = NoLog
    /\ itemCount > 0 => head = added[Taken + 1] /\ tail = added[Len(added)] /\ next[tail] = NoLog
    /\ \A i \in (Taken + 1)..(Len(added) - 1) : next[added[i]] = added[i + 1]
    /\ \A l \in Logs : (\A i \in 1..Len(added) : added[i] # l) => next[l] = NoLog

\* Only requests that were taken are held or written.
TakenInv ==
    /\ \A i \in 1..Len(written) : \E j \in 1..Taken : written[i] = added[j]
    /\ \A r \in Logs : runner[r].pc = "write" => \E j \in 1..Taken : runner[r].log = added[j]

HeldOnce ==
    \A r, q \in Logs : /\ runner[r].pc = "write" => \A i \in 1..Len(written) : written[i] # runner[r].log
                       /\ runner[r].pc = "write" /\ runner[q].pc = "write"
                          /\ runner[r].log = runner[q].log => r = q

FileOnce == \A i, j \in 1..Len(written) : written[i] = written[j] => i = j

\* The goroutine that a call of Write will start has a name nobody has.
FreshInv ==
    /\ \A w \in Writers : writer[w].pc = "added" =>
            writer[w].log \in Elements(added) /\ runner[writer[w].log].pc = "none"
    /\ \A w, v \in Writers : writer[w].pc = "added" /\ writer[v].pc = "added"
                                /\ writer[w].log = writer[v].log => w = v
    /\ \A l \in Logs : l \notin Elements(added) => runner[l].pc = "none"

\* A request that was taken and is to be written is in the file or held.
NoneLost ==
    \A j \in 1..Taken : added[j] \in Enabled =>
        \/ \E i \in 1..Len(written) : written[i] = added[j]
        \/ \E r \in Logs : runner[r].pc = "write" /\ runner[r].log = added[j]

-----------------------------------------------------------------------------

\* Type correctness is inductive.
LEMMA TypeStep == TypeOK /\ [Next]_vars => TypeOK'
<1> SUFFICES ASSUME TypeOK, [Next]_vars PROVE TypeOK'
    OBVIOUS
<1>1. ASSUME NEW w \in Writers, NEW l \in Logs, addItem(w, l) PROVE TypeOK'
    <2>1. writer' \in [Writers -> [pc : {"idle", "added", "wait"}, log : Logs \cup {NoLog}]]
        BY <1>1 DEF TypeOK, addItem
    <2>2. next' \in [Logs -> Logs \cup {NoLog}] /\ head' \in Logs \cup {NoLog}
        BY <1>1, ZenonT(60) DEF TypeOK, addItem
    <2>3. added' \in Seq(Logs)
        BY <1>1 DEF TypeOK, addItem
    <2> QED
        BY <1>1, <2>1, <2>2, <2>3 DEF TypeOK, addItem
<1>2. ASSUME NEW w \in Writers, Start(w) PROVE TypeOK'
    <2>1. writer' \in [Writers -> [pc : {"idle", "added", "wait"}, log : Logs \cup {NoLog}]]
        BY <1>2 DEF TypeOK, Start
    <2>2. runner' \in [Logs -> [pc : {"none", "start", "loop", "write", "send"}, log : Logs \cup {NoLog}]]
        <3>1. CASE running
            BY <1>2, <3>1, SMTT(60) DEF TypeOK, Start
        <3>2. CASE ~running
            BY <1>2, <3>2, ZenonT(60) DEF TypeOK, Start
        <3> QED
            BY <3>1, <3>2
    <2> QED
        BY <1>2, <2>1, <2>2 DEF TypeOK, Start
<1>3. ASSUME NEW r \in Logs, run(r) PROVE TypeOK'
    BY <1>3 DEF TypeOK, run
<1>4. ASSUME NEW r \in Logs, getOldest(r) PROVE TypeOK'
    BY <1>4 DEF TypeOK, getOldest
<1>5. ASSUME NEW r \in Logs, Output(r) PROVE TypeOK'
    BY <1>5, LoggerAssumption, SMTT(60) DEF TypeOK, Output, Enabled
<1>6. ASSUME NEW r \in Logs, NEW w \in Writers, Send(r, w) PROVE TypeOK'
    BY <1>6, ZenonT(60) DEF TypeOK, Send
<1>7. CASE UNCHANGED vars
    BY <1>7 DEF TypeOK, vars
<1> QED
    BY <1>1, <1>2, <1>3, <1>4, <1>5, <1>6, <1>7 DEF Next, RunnerStep, Spin

\* The steps that leave the list alone keep ListInv.
LEMMA ListKept ==
    ListInv /\ UNCHANGED <<head, tail, itemCount, next, added>> => ListInv'
BY DEF ListInv, Taken

\* A request that is added becomes the tail, behind the old one.
LEMMA ListAdd ==
    ASSUME TypeOK, ListInv, NEW w \in Writers, NEW l \in Logs, addItem(w, l)
    PROVE  ListInv' /\ Taken' = Taken
<1>1. /\ Len(added) \in Nat /\ itemCount \in Nat /\ added \in Seq(Logs)
      /\ added' = Append(added, l) /\ itemCount' = itemCount + 1 /\ tail' = l
    BY DEF TypeOK, addItem
<1>2. /\ Len(added') = Len(added) + 1
      /\ added'[Len(added) + 1] = l
      /\ \A i \in 1..Len(added) : added'[i] = added[i]
    BY <1>1
<1>3. \A i \in 1..Len(added) : added[i] # l
    BY DEF addItem, Elements
<1>4. Taken' = Taken /\ itemCount' <= Len(added') /\ Taken \in Nat
    BY <1>1, <1>2 DEF Taken, ListInv
<1>5. \A i, j \in 1..Len(added') : added'[i] = added'[j] => i = j
    BY <1>1, <1>2, <1>3 DEF ListInv
<1>6. CASE itemCount = 0
    <2>1. Taken = Len(added) /\ head' = l /\ next' = next /\ next[l] = NoLog
        BY <1>1, <1>3, <1>6 DEF Taken, addItem, ListInv
    <2> QED
        BY <1>1, <1>2, <1>3, <1>4, <1>5, <1>6, <2>1 DEF ListInv
<1>7. CASE itemCount # 0
    <2>1. head' = head /\ next' = [next EXCEPT ![tail] = l] /\ tail \in Logs
        BY <1>7 DEF TypeOK, addItem
    <2>2. tail = added[Len(added)] /\ head = added[Taken + 1] /\ Len(added) \in 1..Len(added)
        BY <1>1, <1>7 DEF ListInv
    <2>3. tail # l /\ next'[tail] = l /\ next'[l] = NoLog
        BY <1>1, <1>3, <2>1, <2>2, ZenonT(60) DEF TypeOK, ListInv
    <2>4. Taken + 1 \in 1..Len(added)
        BY <1>1, <1>4, <1>7 DEF Taken
    <2>5. ASSUME NEW i \in (Taken + 1)..(Len(added') - 1) PROVE next'[added'[i]] = added'[i + 1]
        <3>1. CASE i = Len(added)
            BY <1>2, <2>2, <2>3, <3>1
        <3>2. CASE i # Len(added)
            <4>1. i \in (Taken + 1)..(Len(added) - 1) /\ i \in 1..Len(added) /\ i + 1 \in 1..Len(added)
                BY <1>1, <1>2, <1>4, <3>2
            <4>2. added[i] # tail /\ added[i] \in Logs
                BY <1>1, <2>2, <3>2, <4>1 DEF ListInv
            <4>3. next[added[i]] = added[i + 1]
                BY <4>1 DEF ListInv
            <4> QED
                BY <1>2, <2>1, <4>1, <4>2, <4>3 DEF TypeOK
        <3> QED
            BY <3>1, <3>2
    <2>6. ASSUME NEW m \in Logs, \A i \in 1..Len(added') : added'[i] # m PROVE next'[m] = NoLog
        <3>1. \A i \in 1..Len(added) : added[i] # m
            BY <1>1, <1>2, <2>6
        <3>2. next[m] = NoLog /\ m # tail
            BY <2>2, <3>1 DEF ListInv
        <3> QED
            BY <2>1, <3>2 DEF TypeOK
    <2>7. head' = added'[Taken' + 1] /\ tail' = added'[Len(added')] /\ next'[tail'] = NoLog
        BY <1>1, <1>2, <1>4, <2>1, <2>2, <2>3, <2>4
    <2> QED
        BY <1>1, <1>4, <1>5, <2>5, <2>6, <2>7 DEF ListInv
<1> QED
    BY <1>4, <1>6, <1>7

\* The request that is taken is the oldest one, and the list goes on behind it.
LEMMA ListTake ==
    ASSUME TypeOK, ListInv, NEW r \in Logs, getOldest(r)
    PROVE  ListInv' /\ Taken' = Taken + 1 /\ head = added[Taken + 1] /\ Taken + 1 \in 1..Len(added)
<1>1. /\ Len(added) \in Nat /\ itemCount \in Nat /\ itemCount > 0 /\ itemCount <= Len(added)
      /\ added' = added /\ next' = next /\ itemCount' = itemCount - 1
      /\ head' = next[head] /\ tail' = IF itemCount = 1 THEN NoLog ELSE tail
    BY DEF TypeOK, getOldest, ListInv
<1>2. /\ Taken \in Nat /\ Taken' = Taken + 1 /\ Taken + 1 \in 1..Len(added)
      /\ head = added[Taken + 1] /\ tail = added[Len(added)] /\ next[tail] = NoLog
    BY <1>1 DEF Taken, ListInv
<1>3. itemCount' = 0 => head' = NoLog /\ tail' = NoLog
    <2> SUFFICES ASSUME itemCount' = 0 PROVE head' = NoLog /\ tail' = NoLog
        OBVIOUS
    <2>1. itemCount = 1 /\ Taken + 1 = Len(added)
        BY <1>1 DEF Taken
    <2> QED
        BY <1>1, <1>2, <2>1
<1>4. itemCount' > 0 => head' = added[Taken + 2] /\ tail' = tail
    <2> SUFFICES ASSUME itemCount' > 0 PROVE head' = added[Taken + 2] /\ tail' = tail
        OBVIOUS
    <2>1. itemCount # 1 /\ Taken + 1 \in (Taken + 1)..(Len(added) - 1) /\ (Taken + 1) + 1 = Taken + 2
        BY <1>1, <1>2 DEF Taken
    <2>2. next[added[Taken + 1]] = added[(Taken + 1) + 1]
        BY <2>1 DEF ListInv
    <2> QED
        BY <1>1, <1>2, <2>1, <2>2
<1>5. \A i \in (Taken' + 1)..(Len(added) - 1) : next[added[i]] = added[i + 1]
    BY <1>1, <1>2 DEF ListInv
<1>6. Taken' + 1 = Taken + 2 /\ itemCount' <= Len(added)
    BY <1>1, <1>2
<1>7. /\ \A i, j \in 1..Len(added) : added[i] = added[j] => i = j
      /\ \A l \in Logs : (\A i \in 1..Len(added) : added[i] # l) => next[l] = NoLog
    BY DEF ListInv
<1>8. ListInv'
    BY <1>1, <1>2, <1>3, <1>4, <1>5, <1>6, <1>7 DEF ListInv
<1> QED
    BY <1>2, <1>8

\* ListInv is inductive.
LEMMA ListStep == TypeOK /\ ListInv /\ [Next]_vars => ListInv'
<1> SUFFICES ASSUME TypeOK, ListInv, [Next]_vars PROVE ListInv'
    OBVIOUS
<1>1. ASSUME NEW w \in Writers, NEW l \in Logs, addItem(w, l) PROVE ListInv'
    BY <1>1, ListAdd
<1>2. ASSUME NEW r \in Logs, getOldest(r) PROVE ListInv'
    BY <1>2, ListTake
<1>3. ASSUME \/ \E w \in Writers : Start(w)
             \/ \E r \in Logs : run(r) \/ Output(r) \/ \E w \in Writers : Send(r, w)
             \/ UNCHANGED vars
      PROVE  ListInv'
    BY <1>3, ListKept, ZenonT(60) DEF Start, run, Output, Send, vars
<1> QED
    BY <1>1, <1>2, <1>3 DEF Next, RunnerStep, Spin

\* What the steps other than addItem, getOldest and Output leave alone.
LEMMA HeldKept ==
    ASSUME TypeOK, TakenInv, HeldOnce, FileOnce, UNCHANGED <<itemCount, added, written>>,
           \A r \in Logs : runner'[r].pc = "write" => runner'[r] = runner[r]
    PROVE  TakenInv' /\ HeldOnce' /\ FileOnce'
BY DEF TakenInv, HeldOnce, FileOnce, Taken

\* TakenInv, HeldOnce and FileOnce are inductive: getOldest hands out a request that
\* nobody has had, because its place in the list is behind all those taken before.
LEMMA OnceStep ==
    TypeOK /\ ListInv /\ TakenInv /\ HeldOnce /\ FileOnce /\ [Next]_vars
        => TakenInv' /\ HeldOnce' /\ FileOnce'
<1> SUFFICES ASSUME TypeOK, ListInv, TakenInv, HeldOnce, FileOnce, [Next]_vars
             PROVE  TakenInv' /\ HeldOnce' /\ FileOnce'
    OBVIOUS
<1>1. ASSUME NEW w \in Writers, NEW l \in Logs, addItem(w, l)
      PROVE  TakenInv' /\ HeldOnce' /\ FileOnce'
    <2>1. UNCHANGED <<runner, written>> /\ added' = Append(added, l)
        BY <1>1 DEF addItem
    <2>2. Taken' = Taken
        BY <1>1, ListAdd
    <2>3. \A j \in 1..Taken : j \in 1..Len(added) /\ added'[j] = added[j]
        BY <2>1 DEF TypeOK, ListInv, Taken
    <2>4. TakenInv'
        BY <2>1, <2>2, <2>3 DEF TakenInv
    <2> QED
        BY <2>1, <2>4 DEF HeldOnce, FileOnce
<1>2. ASSUME NEW w \in Writers, Start(w) PROVE TakenInv' /\ HeldOnce' /\ FileOnce'
    <2>1. ASSUME NEW r \in Logs, runner'[r].pc = "write" PROVE runner'[r] = runner[r]
        BY <1>2, <2>1 DEF TypeOK, Start
    <2> QED
        BY <1>2, <2>1, HeldKept DEF Start
<1>3. ASSUME NEW r \in Logs, run(r) PROVE TakenInv' /\ HeldOnce' /\ FileOnce'
    <2>1. ASSUME NEW q \in Logs, runner'[q].pc = "write" PROVE runner'[q] = runner[q]
        BY <1>3, <2>1 DEF TypeOK, run
    <2> QED
        BY <1>3, <2>1, HeldKept DEF run
<1>4. ASSUME NEW r \in Logs, getOldest(r) PROVE TakenInv' /\ HeldOnce' /\ FileOnce'
    <2>1. /\ UNCHANGED <<added, written>>
          /\ runner' = [runner EXCEPT ![r] = [pc |-> "write", log |-> head]]
        BY <1>4 DEF getOldest
    <2>2. /\ Taken' = Taken + 1 /\ head = added[Taken + 1] /\ Taken + 1 \in 1..Len(added)
          /\ Taken \in Nat
        <3>1. Taken' = Taken + 1 /\ head = added[Taken + 1] /\ Taken + 1 \in 1..Len(added)
            BY <1>4, ListTake
        <3>2. Taken \in Nat
            BY DEF TypeOK, ListInv, Taken
        <3> QED
            BY <3>1, <3>2
    <2>3. \A j \in 1..Taken : added[j] # head /\ j \in 1..Taken'
        BY <2>2 DEF TypeOK, ListInv
    <2>4. /\ runner'[r] = [pc |-> "write", log |-> head]
          /\ \A q \in Logs : q # r => runner'[q] = runner[q]
        BY <2>1 DEF TypeOK
    <2>5. TakenInv'
        <3>1. \A i \in 1..Len(written) : \E j \in 1..Taken' : written[i] = added[j]
            BY <2>3 DEF TakenInv
        <3>2. ASSUME NEW q \in Logs, runner'[q].pc = "write"
              PROVE  \E j \in 1..Taken' : runner'[q].log = added[j]
            <4>1. CASE q = r
                BY <2>2, <2>4, <4>1
            <4>2. CASE q # r
                BY <2>3, <2>4, <3>2, <4>2 DEF TakenInv
            <4> QED
                BY <4>1, <4>2
        <3> QED
            BY <2>1, <3>1, <3>2 DEF TakenInv
    <2>6. /\ \A i \in 1..Len(written) : written[i] # head
          /\ \A q \in Logs : runner[q].pc = "write" => runner[q].log # head
        BY <2>3 DEF TakenInv
    <2>7. HeldOnce'
        BY <2>1, <2>4, <2>6 DEF HeldOnce
    <2> QED
        BY <2>1, <2>5, <2>7 DEF FileOnce
<1>5. ASSUME NEW r \in Logs, Output(r) PROVE TakenInv' /\ HeldOnce' /\ FileOnce'
    <2> DEFINE l == runner[r].log
    <2>1. /\ UNCHANGED <<added, itemCount>> /\ Taken' = Taken
          /\ runner[r].pc = "write" /\ runner'[r].pc # "write"
          /\ \A q \in Logs : q # r => runner'[q] = runner[q]
        BY <1>5 DEF TypeOK, Output, Taken
    <2>2. /\ \E j \in 1..Taken : l = added[j]
          /\ \A i \in 1..Len(written) : written[i] # l
          /\ \A q \in Logs : q # r /\ runner[q].pc = "write" => runner[q].log # l
        BY <2>1 DEF TakenInv, HeldOnce
    <2>3. CASE l \notin Enabled
        <3>1. written' = written
            BY <1>5, <2>3 DEF Output
        <3> QED
            BY <2>1, <3>1 DEF TakenInv, HeldOnce, FileOnce
    <2>4. CASE l \in Enabled
        <3>1. /\ Len(written') = Len(written) + 1 /\ Len(written) \in Nat
              /\ written'[Len(written) + 1] = l
              /\ \A i \in 1..Len(written) : written'[i] = written[i]
            BY <1>5, <2>4 DEF Output, TypeOK
        <3>2. \A i \in 1..Len(written') : i \in 1..Len(written) \/ i = Len(written) + 1
            BY <3>1
        <3>3. TakenInv'
            BY <2>1, <2>2, <3>1, <3>2, SMTT(60) DEF TakenInv
        <3>4. HeldOnce'
            BY <2>1, <2>2, <3>1, <3>2 DEF HeldOnce
        <3>5. FileOnce'
            BY <2>2, <3>1, <3>2 DEF FileOnce
        <3> QED
            BY <3>3, <3>4, <3>5
    <2> QED
        BY <2>3, <2>4
<1>6. ASSUME NEW r \in Logs, NEW w \in Writers, Send(r, w)
      PROVE  TakenInv' /\ HeldOnce' /\ FileOnce'
    <2>1. ASSUME NEW q \in Logs, runner'[q].pc = "write" PROVE runner'[q] = runner[q]
        BY <1>6, <2>1 DEF TypeOK, Send
    <2> QED
        BY <1>6, <2>1, HeldKept DEF Send
<1>7. CASE UNCHANGED vars
    BY <1>7, HeldKept DEF vars
<1> QED
    BY <1>1, <1>2, <1>3, <1>4, <1>5, <1>6, <1>7 DEF Next, RunnerStep, Spin

\* FreshInv is inductive.
LEMMA FreshStep == TypeOK /\ FreshInv /\ [Next]_vars => FreshInv'
<1> SUFFICES ASSUME TypeOK, FreshInv, [Next]_vars PROVE FreshInv'
    OBVIOUS
<1>1. ASSUME NEW w \in Writers, NEW l \in Logs, addItem(w, l) PROVE FreshInv'
    <2>1. /\ runner' = runner /\ l \notin Elements(added)
          /\ writer'[w] = [pc |-> "added", log |-> l]
          /\ \A v \in Writers : v # w => writer'[v] = writer[v]
        BY <1>1 DEF TypeOK, addItem
    <2>2. Elements(added') = Elements(added) \cup {l}
        BY <1>1 DEF TypeOK, addItem, Elements
    <2> QED
        BY <2>1, <2>2 DEF FreshInv
<1>2. ASSUME NEW w \in Writers, Start(w) PROVE FreshInv'
    <2>1. /\ added' = added /\ writer[w].pc = "added" /\ writer'[w].pc # "added"
          /\ \A v \in Writers : v # w => writer'[v] = writer[v]
        BY <1>2 DEF TypeOK, Start
    <2>2. \A q \in Logs : q # writer[w].log => runner'[q].pc = runner[q].pc
        BY <1>2 DEF TypeOK, Start
    <2>3. Elements(added') = Elements(added) /\ Elements(added) \subseteq Logs
        BY <2>1 DEF TypeOK, Elements
    <2> QED
        BY <2>1, <2>2, <2>3 DEF FreshInv
<1>3. ASSUME UNCHANGED added,
             \A v \in Writers : writer'[v].pc = "added" => writer'[v] = writer[v],
             \A q \in Logs : runner[q].pc = "none" => runner'[q].pc = "none"
      PROVE  FreshInv'
    <2>1. Elements(added') = Elements(added) /\ Elements(added) \subseteq Logs
        BY <1>3 DEF TypeOK, Elements
    <2> QED
        BY <1>3, <2>1 DEF FreshInv
<1>4. ASSUME NEW r \in Logs, run(r) PROVE FreshInv'
    <2>1. \A q \in Logs : runner[q].pc = "none" => runner'[q].pc = "none"
        BY <1>4 DEF TypeOK, run
    <2> QED
        BY <1>3, <1>4, <2>1 DEF run
<1>5. ASSUME NEW r \in Logs, getOldest(r) PROVE FreshInv'
    <2>1. \A q \in Logs : runner[q].pc = "none" => runner'[q].pc = "none"
        BY <1>5 DEF TypeOK, getOldest
    <2> QED
        BY <1>3, <1>5, <2>1 DEF getOldest
<1>6. ASSUME NEW r \in Logs, Output(r) PROVE FreshInv'
    <2>1. \A q \in Logs : runner[q].pc = "none" => runner'[q].pc = "none"
        BY <1>6 DEF TypeOK, Output
    <2> QED
        BY <1>3, <1>6, <2>1 DEF Output
<1>7. ASSUME NEW r \in Logs, NEW w \in Writers, Send(r, w) PROVE FreshInv'
    <2>1. \A q \in Logs : runner[q].pc = "none" => runner'[q].pc = "none"
        BY <1>7 DEF TypeOK, Send
    <2>2. \A v \in Writers : writer'[v].pc = "added" => writer'[v] = writer[v]
        BY <1>7 DEF TypeOK, Send
    <2> QED
        BY <1>3, <1>7, <2>1, <2>2 DEF Send
<1>8. CASE UNCHANGED vars
    BY <1>3, <1>8 DEF vars
<1> QED
    BY <1>1, <1>2, <1>4, <1>5, <1>6, <1>7, <1>8 DEF Next, RunnerStep, Spin

\* NoneLost is inductive.
LEMMA NoneLostStep == TypeOK /\ ListInv /\ FreshInv /\ NoneLost /\ [Next]_vars => NoneLost'
<1> SUFFICES ASSUME TypeOK, ListInv, FreshInv, NoneLost, [Next]_vars PROVE NoneLost'
    OBVIOUS
<1>1. ASSUME NEW w \in Writers, NEW l \in Logs, addItem(w, l) PROVE NoneLost'
    <2>1. UNCHANGED <<runner, written>> /\ added' = Append(added, l) /\ Enabled' = Enabled
        BY <1>1 DEF addItem, Enabled
    <2>2. Taken' = Taken
        BY <1>1, ListAdd
    <2>3. \A j \in 1..Taken : added'[j] = added[j]
        BY <2>1 DEF TypeOK, ListInv, Taken
    <2> QED
        BY <2>1, <2>2, <2>3, ZenonT(60) DEF NoneLost
<1>2. ASSUME NEW r \in Logs, getOldest(r) PROVE NoneLost'
    <2>1. /\ UNCHANGED <<added, written>> /\ Enabled' = Enabled
          /\ runner' = [runner EXCEPT ![r] = [pc |-> "write", log |-> head]]
          /\ runner[r].pc = "loop"
        BY <1>2 DEF getOldest, Enabled
    <2>2. Taken' = Taken + 1 /\ head = added[Taken + 1]
        BY <1>2, ListTake
    <2>3. \A j \in 1..Taken' : j \in 1..Taken \/ j = Taken + 1
        <3>1. Taken \in Nat
            BY DEF TypeOK, ListInv, Taken
        <3> QED
            BY <2>2, <3>1
    <2>4. /\ runner'[r].pc = "write" /\ runner'[r].log = head
          /\ \A q \in Logs : runner[q].pc = "write" => runner'[q] = runner[q]
        BY <2>1 DEF TypeOK
    <2> QED
        BY <2>1, <2>2, <2>3, <2>4 DEF NoneLost
<1>3. ASSUME NEW r \in Logs, Output(r) PROVE NoneLost'
    <2>1. /\ UNCHANGED <<added, itemCount>> /\ Enabled' = Enabled /\ Taken' = Taken
          /\ \A q \in Logs : q # r => runner'[q] = runner[q]
        BY <1>3 DEF TypeOK, Output, Taken, Enabled
    <2>2. CASE runner[r].log \notin Enabled
        <3>1. written' = written
            BY <1>3, <2>2 DEF Output
        <3> QED
            BY <2>1, <2>2, <3>1 DEF NoneLost
    <2>3. CASE runner[r].log \in Enabled
        <3>1. /\ Len(written') = Len(written) + 1 /\ Len(written) \in Nat
              /\ written'[Len(written) + 1] = runner[r].log
              /\ \A i \in 1..Len(written) : written'[i] = written[i] /\ i \in 1..Len(written')
              /\ Len(written) + 1 \in 1..Len(written')
            BY <1>3, <2>3 DEF Output, TypeOK
        <3> QED
            BY <2>1, <3>1 DEF NoneLost
    <2> QED
        BY <2>2, <2>3
<1>4. ASSUME UNCHANGED <<added, itemCount, logMode, written>>,
             \A q \in Logs : runner[q].pc = "write" => runner'[q] = runner[q]
      PROVE  NoneLost'
    <2>1. Taken' = Taken /\ Enabled' = Enabled
        BY <1>4 DEF Taken, Enabled
    <2> QED
        BY <1>4, <2>1 DEF NoneLost
<1>5. ASSUME NEW w \in Writers, Start(w) PROVE NoneLost'
    <2>1. \A q \in Logs : runner[q].pc = "write" => runner'[q] = runner[q]
        BY <1>5 DEF TypeOK, Start, FreshInv
    <2> QED
        BY <1>4, <1>5, <2>1 DEF Start
<1>6. ASSUME NEW r \in Logs, run(r) PROVE NoneLost'
    <2>1. \A q \in Logs : runner[q].pc = "write" => runner'[q] = runner[q]
        BY <1>6 DEF TypeOK, run
    <2> QED
        BY <1>4, <1>6, <2>1 DEF run
<1>7. ASSUME NEW r \in Logs, NEW w \in Writers, Send(r, w) PROVE NoneLost'
    <2>1. \A q \in Logs : runner[q].pc = "write" => runner'[q] = runner[q]
        BY <1>7 DEF TypeOK, Send
    <2> QED
        BY <1>4, <1>7, <2>1 DEF Send
<1>8. CASE UNCHANGED vars
    BY <1>4, <1>8 DEF vars
<1> QED
    BY <1>1, <1>2, <1>3, <1>5, <1>6, <1>7, <1>8 DEF Next, RunnerStep, Spin

INSTANCE FiniteSetTheorems

\* A step that adds nothing to the file keeps the order, if no goroutine ends.
LEMMA OrderKept ==
    ASSUME TypeOK, OrderUpToRunners, written' = written, Runners \subseteq Runners',
           \A i \in 1..Len(written) : Late(i)' = Late(i)
    PROVE  OrderUpToRunners'
<1>1. IsFiniteSet(Runners') /\ IsFiniteSet(Runners)
    BY LoggerAssumption, FS_Subset DEF Runners
<1>2. Cardinality(Runners) <= Cardinality(Runners')
    BY <1>1, FS_Subset
<1>3. Cardinality(Runners) \in Nat /\ Cardinality(Runners') \in Nat
    BY <1>1, FS_CardinalityType
<1>4. ASSUME NEW i \in 1..Len(written) PROVE Cardinality(Late(i)') < Cardinality(Runners')
    <2>1. Cardinality(Late(i)) < Cardinality(Runners)
        BY DEF OrderUpToRunners
    <2>2. Late(i) \in SUBSET Logs
        BY LoggerAssumption DEF Late, Enabled
    <2>3. Cardinality(Late(i)) \in Nat
        BY <2>2, LoggerAssumption, FS_Subset, FS_CardinalityType
    <2> QED
        BY <1>2, <1>3, <2>1, <2>3
<1> QED
    BY <1>4 DEF OrderUpToRunners

\* The requests that are late when r writes are in the hands of other goroutines.
LEMMA OrderOutput ==
    ASSUME TypeOK, ListInv, TakenInv, NoneLost, OrderUpToRunners, NEW r \in Logs, Output(r)
    PROVE  OrderUpToRunners'
<1>0. PICK l, n : l = runner[r].log /\ n = Len(written) + 1
    OBVIOUS
<1>1. /\ UNCHANGED <<added, itemCount, logMode>> /\ runner[r].pc = "write"
      /\ \A q \in Logs : q # r => runner'[q] = runner[q]
      /\ runner'[r].pc # "none"
    BY DEF TypeOK, Output
<1>2. Runners' = Runners /\ r \in Runners /\ IsFiniteSet(Runners)
    BY <1>1, LoggerAssumption, FS_Subset DEF Runners
<1>3. Enabled' = Enabled /\ \A m : Before(m)' = Before(m)
    BY <1>1 DEF Enabled, Before
<1>4. CASE l \notin Enabled
    <2>1. written' = written
        BY <1>0, <1>4 DEF Output
    <2>2. \A i \in 1..Len(written) : Late(i)' = Late(i)
        BY <1>3, <2>1 DEF Late
    <2> QED
        BY <1>2, <2>1, <2>2, OrderKept
<1>5. CASE l \in Enabled
    <2>1. /\ Len(written') = n /\ Len(written) \in Nat /\ written'[n] = l
          /\ \A i \in 1..Len(written) : written'[i] = written[i]
        BY <1>0, <1>5 DEF Output, TypeOK
    <2>2. ASSUME NEW i \in 1..Len(written) PROVE Late(i)' = Late(i)
        <3>1. \A j \in 1..i : written'[j] = written[j]
            BY <2>1
        <3> QED
            BY <1>3, <2>1, <3>1 DEF Late
    <2> DEFINE M == Late(n)'
               Q == {q \in Runners : runner[q].pc = "write" /\ runner[q].log \in M}
               f == [q \in Q |-> runner[q].log]
    <2>3. ASSUME NEW m \in M PROVE \E q \in Q : runner[q].log = m
        <3>1. m \in Before(l) /\ m \in Enabled /\ \A j \in 1..n : written'[j] # m
            BY <1>3, <2>1, SMTT(60) DEF Late, Before
        <3>2. PICK i \in 1..Len(added), k \in 1..Len(added) : i < k /\ m = added[i] /\ added[k] = l
            BY <3>1 DEF Before, TypeOK
        <3>3. PICK j \in 1..Taken : l = added[j]
            BY <1>0, <1>1 DEF TakenInv
        <3>4. Taken \in Nat /\ Taken <= Len(added) /\ Len(added) \in Nat
            BY DEF TypeOK, ListInv, Taken
        <3>5. k = j
            BY <3>2, <3>3, <3>4, SMTT(60) DEF ListInv
        <3>6. i \in 1..Taken
            BY <3>2, <3>4, <3>5
        <3>7. \A h \in 1..Len(written) : written[h] # m
            BY <1>0, <2>1, <3>1
        <3>8. PICK q \in Logs : runner[q].pc = "write" /\ runner[q].log = m
            BY <3>1, <3>2, <3>6, <3>7 DEF NoneLost
        <3> QED
            BY <3>8 DEF Runners
    <2>4. r \notin Q /\ Q \in SUBSET (Runners \ {r})
        <3>1. l \notin M
            BY <1>0, <2>1 DEF Late, TypeOK
        <3> QED
            BY <1>0, <3>1
    <2>5. /\ IsFiniteSet(Runners \ {r}) /\ Cardinality(Runners \ {r}) = Cardinality(Runners) - 1
          /\ Cardinality(Runners) \in Nat
        BY <1>2, FS_RemoveElement, FS_CardinalityType
    <2>6. /\ IsFiniteSet(Q) /\ Cardinality(Q) <= Cardinality(Runners \ {r}) /\ Cardinality(Q) \in Nat
        BY <2>4, <2>5, FS_Subset, FS_CardinalityType
    <2>7. f \in Surjection(Q, M)
        <3>1. f \in [Q -> M]
            OBVIOUS
        <3>2. \A m \in M : \E q \in Q : f[q] = m
            BY <2>3
        <3> QED
            BY <3>1, <3>2 DEF Surjection
    <2>8. IsFiniteSet(M) /\ Cardinality(M) <= Cardinality(Q)
        <3> HIDE DEF f, M, Q
        <3> QED
            BY <2>6, <2>7, FS_Surjection
    <2>9. Cardinality(M) < Cardinality(Runners)
        <3>1. Cardinality(M) \in Nat
            BY <2>8, FS_CardinalityType
        <3> HIDE DEF M, Q
        <3> QED
            BY <2>5, <2>6, <2>8, <3>1
    <2>10. ASSUME NEW i \in 1..Len(written') PROVE Cardinality(Late(i)') < Cardinality(Runners')
        <3>1. CASE i = n
            BY <1>2, <2>9, <3>1 DEF Late
        <3>2. CASE i # n
            <4>1. i \in 1..Len(written)
                BY <1>0, <2>1, <3>2
            <4> QED
                BY <1>2, <2>2, <4>1 DEF OrderUpToRunners
        <3> QED
            BY <3>1, <3>2
    <2> QED
        BY <2>10 DEF OrderUpToRunners
<1> QED
    BY <1>4, <1>5

\* OrderUpToRunners is preserved by every step.
LEMMA OrderStep ==
    TypeOK /\ ListInv /\ TakenInv /\ FreshInv /\ NoneLost /\ OrderUpToRunners /\ [Next]_vars
        => OrderUpToRunners'
<1> SUFFICES ASSUME TypeOK, ListInv, TakenInv, FreshInv, NoneLost, OrderUpToRunners, [Next]_vars
             PROVE  OrderUpToRunners'
    OBVIOUS
<1>1. ASSUME NEW w \in Writers, NEW l \in Logs, addItem(w, l) PROVE OrderUpToRunners'
    <2>1. /\ UNCHANGED <<runner, written, logMode>> /\ added' = Append(added, l)
          /\ \A i \in 1..Len(added) : added[i] # l
        BY <1>1 DEF addItem, Elements
    <2>2. /\ Len(added') = Len(added) + 1 /\ Len(added) \in Nat /\ added'[Len(added) + 1] = l
          /\ \A i \in 1..Len(added) : added'[i] = added[i]
        BY <2>1 DEF TypeOK
    <2>3. ASSUME NEW m, m # l PROVE Before(m)' = Before(m)
        <3>1. \A j \in 1..Len(added') : (\E k \in (j + 1)..Len(added') : added'[k] = m)
                    <=> j \in 1..Len(added) /\ \E k \in (j + 1)..Len(added) : added[k] = m
            BY <2>2, <2>3
        <3>2. {j \in 1..Len(added') : \E k \in (j + 1)..Len(added') : added'[k] = m}
                = {j \in 1..Len(added) : \E k \in (j + 1)..Len(added) : added[k] = m}
            BY <2>2, <3>1
        <3>3. \A j \in {j \in 1..Len(added) : \E k \in (j + 1)..Len(added) : added[k] = m} :
                    added'[j] = added[j]
            BY <2>2
        <3> QED
            BY <3>2, <3>3, ZenonT(60) DEF Before
    <2>4. \A i \in 1..Len(written) : written[i] # l
        <3>1. \A j \in 1..Taken : j \in 1..Len(added)
            BY DEF TypeOK, ListInv, Taken
        <3> QED
            BY <2>1, <3>1 DEF TakenInv
    <2>5. \A i \in 1..Len(written) : Late(i)' = Late(i)
        BY <2>1, <2>3, <2>4 DEF Late, Enabled
    <2>6. Runners' = Runners
        BY <2>1 DEF Runners
    <2> QED
        BY <2>1, <2>5, <2>6, OrderKept
<1>2. ASSUME NEW r \in Logs, Output(r) PROVE OrderUpToRunners'
    BY <1>2, OrderOutput
<1>3. ASSUME UNCHANGED <<added, written, logMode>>, Runners \subseteq Runners'
      PROVE  OrderUpToRunners'
    <2>1. \A i \in 1..Len(written) : Late(i)' = Late(i)
        BY <1>3 DEF Late, Before, Enabled
    <2> QED
        BY <1>3, <2>1, OrderKept
<1>4. ASSUME NEW w \in Writers, Start(w) PROVE OrderUpToRunners'
    <2>1. Runners \subseteq Runners'
        BY <1>4 DEF TypeOK, Start, Runners
    <2> QED
        BY <1>3, <1>4, <2>1 DEF Start
<1>5. ASSUME NEW r \in Logs, run(r) PROVE OrderUpToRunners'
    <2>1. Runners \subseteq Runners'
        BY <1>5 DEF TypeOK, run, Runners
    <2> QED
        BY <1>3, <1>5, <2>1 DEF run
<1>6. ASSUME NEW r \in Logs, getOldest(r) PROVE OrderUpToRunners'
    <2>1. Runners \subseteq Runners'
        BY <1>6 DEF TypeOK, getOldest, Runners
    <2> QED
        BY <1>3, <1>6, <2>1 DEF getOldest
<1>7. ASSUME NEW r \in Logs, NEW w \in Writers, Send(r, w) PROVE OrderUpToRunners'
    <2>1. Runners \subseteq Runners'
        BY <1>7 DEF TypeOK, Send, Runners
    <2> QED
        BY <1>3, <1>7, <2>1 DEF Send
<1>8. CASE UNCHANGED vars
    BY <1>3, <1>8 DEF vars, Runners
<1> QED
    BY <1>1, <1>2, <1>4, <1>5, <1>6, <1>7, <1>8 DEF Next, RunnerStep, Spin

-----------------------------------------------------------------------------

\* NewLogger: type correctness, for any number of callers and requests.
THEOREM TypeCorrect == Spec => []TypeOK
<1>1. Init => TypeOK
    <2> SUFFICES ASSUME Init PROVE TypeOK
        OBVIOUS
    <2>1. added \in Seq(Logs) /\ written \in Seq(Logs)
        BY DEF Init
    <2>2. writer \in [Writers -> [pc : {"idle", "added", "wait"}, log : Logs \cup {NoLog}]]
        BY DEF Init
    <2>3. runner \in [Logs -> [pc : {"none", "start", "loop", "write", "send"}, log : Logs \cup {NoLog}]]
        BY DEF Init
    <2> QED
        BY <2>1, <2>2, <2>3, ZenonT(60) DEF Init, TypeOK
<1> QED
    BY <1>1, TypeStep, PTL DEF Spec

\* ListInv holds in every state.
LEMMA ListInvariant == Spec => []ListInv
<1>1. Init => ListInv
    BY DEF Init, ListInv, Taken
<1> QED
    BY <1>1, TypeCorrect, ListStep, PTL DEF Spec

\* addItem, getOldest: the list from head to tail is what was added and not taken.
THEOREM ListCorrect == Spec => []QueueIsList
<1>1. ListInv => QueueIsList
    BY DEF ListInv, QueueIsList, Taken
<1> QED
    BY <1>1, ListInvariant, PTL

\* TakenInv, HeldOnce and FileOnce hold in every state.
LEMMA OnceInvariant == Spec => [](TakenInv /\ HeldOnce /\ FileOnce)
<1>1. Init => TakenInv /\ HeldOnce /\ FileOnce
    BY DEF Init, TakenInv, HeldOnce, FileOnce
<1> QED
    BY <1>1, TypeCorrect, ListInvariant, OnceStep, PTL DEF Spec

\* run: a request is taken by one goroutine and written once, however many there are.
THEOREM OnceCorrect == Spec => []WrittenOnce
<1>1. HeldOnce /\ FileOnce => WrittenOnce
    BY DEF HeldOnce, FileOnce, WrittenOnce, Elements, Runners
<1> QED
    BY <1>1, OnceInvariant, PTL

\* Write, run: the file keeps the order of the calls up to one request less than
\* there are goroutines of run, and with a single one it is the total order.
THEOREM OrderCorrect == Spec => []OrderUpToRunners
<1>1. Init => FreshInv /\ NoneLost /\ OrderUpToRunners
    BY DEF Init, FreshInv, NoneLost, Taken, OrderUpToRunners
<1> QED
    BY <1>1, TypeCorrect, ListInvariant, OnceInvariant, FreshStep, NoneLostStep, OrderStep, PTL DEF Spec
=============================================================================
