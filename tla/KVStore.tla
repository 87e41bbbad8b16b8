------------------------------ MODULE KVStore ------------------------------
(***************************************************************************)
(* What the key-value store promises its clients: a map, on which each     *)
(* call takes effect in one step between its request and its answer.  When *)
(* the cache fails, the call that meets the failure may end with an error  *)
(* or a panic, a PUT or DELETE also with "ok", with or without an effect.  *)
(* The answer of a reader that is free is not promised, and once void      *)
(* holds nothing is.                                                       *)
(***************************************************************************)
EXTENDS Integers, Sequences, FiniteSets

CONSTANTS Procs, Keys, Vals,
          Empty,   \* the value that the store refuses
          Slack    \* a range may exceed its limit up to Slack items

VARIABLES kv,    \* kv[k]: the value of k, "none" if there is none
          req,   \* req[p]: the call of p, its stage and its answer
          free,  \* the readers whose answer is not promised
          void,
          broken \* the failures of the cache

Ops == {"put", "get", "delete", "range"}

Init ==
    /\ kv = [k \in Keys |-> "none"]
    /\ \A p \in Procs : req[p].stage = "idle"
    /\ free = {} /\ void = FALSE

Request(p) ==
    /\ req[p].stage = "idle"
    /\ LET r == req'[p]
       IN  /\ r.stage = "called" /\ r.op \in Ops /\ r.key \in Keys /\ r.val \in Vals
           /\ req' = [req EXCEPT ![p] = r]
    /\ UNCHANGED kv

Answer(p, ret) == req' = [req EXCEPT ![p].stage = "done", ![p].ret = ret]

\* What is left of the map when the call of p takes effect.
Effect(p) ==
    [kv EXCEPT ![req[p].key] = CASE req[p].op = "put" -> req[p].val
                                 [] req[p].op = "delete" -> "none"
                                 [] OTHER -> @]

IsEmpty == \A k \in Keys : kv[k] = "none"

Put(p) ==
    /\ req[p].val # Empty
    /\ kv' = Effect(p)
    /\ Answer(p, "ok")

\* The empty value is refused, but only after the first leaf has been stored.
Refuse(p) ==
    /\ req[p].val = Empty
    /\ kv' = IF IsEmpty THEN Effect(p) ELSE kv
    /\ Answer(p, "abort")

Delete(p) ==
    /\ kv' = Effect(p)
    /\ Answer(p, IF IsEmpty THEN "err" ELSE "ok")

Get(p) ==
    /\ Answer(p, IF kv[req[p].key] = "none" THEN "err" ELSE kv[req[p].key])
    /\ UNCHANGED kv

\* The pairs from key k on, in the order of their keys.
PairsFrom(k) ==
    LET ks == {j \in Keys : j >= k /\ kv[j] # "none"}
        nth(i) == CHOOSE j \in ks : Cardinality({m \in ks : m < j}) = i - 1
    IN  [i \in 1..Cardinality(ks) |-> <<nth(i), kv[nth(i)]>>]

\* The pairs from the start key on: as many as the limit asks for or as there
\* are, and more than the limit only up to Slack.  A range with an end may stop
\* anywhere.
RangeQuery(p) ==
    LET k == req[p].key
        all == PairsFrom(k)
        limit == req[p].limit
    IN  /\ IF kv[k] = "none" THEN Answer(p, "err")
           ELSE \E j \in 1..Len(all) :
                    /\ j >= limit \/ j = Len(all) \/ req[p].end > 0
                    /\ j <= limit \/ j <= Slack
                    /\ req' = [req EXCEPT ![p].stage = "done", ![p].ret = "ok", ![p].items = SubSeq(all, 1, j)]
        /\ UNCHANGED kv

TakeEffect(p) ==
    /\ req[p].stage = "called"
    /\ \/ req[p].op = "put" /\ (Put(p) \/ Refuse(p))
       \/ req[p].op = "delete" /\ Delete(p)
       \/ req[p].op = "get" /\ Get(p)
       \/ req[p].op = "range" /\ RangeQuery(p)

\* addKey answers 200 whatever InsertValue returns, and deleteValue drops errors.
Fail(p) ==
    /\ req[p].stage # "idle"
    /\ \E ret \in {"io", "abort"} \cup {r \in {"ok"} : req[p].op \in {"put", "delete"}} : Answer(p, ret)
    /\ kv' \in {kv, Effect(p)}

AnswerFree(p) ==
    /\ p \in free'
    /\ req[p].stage = "called"
    /\ req'[p].stage = "done"
    /\ req' = [req EXCEPT ![p] = req'[p]]
    /\ UNCHANGED kv

Return(p) ==
    /\ req[p].stage = "done"
    /\ req'[p].stage = "idle"
    /\ req' = [req EXCEPT ![p] = req'[p]]
    /\ UNCHANGED kv

\* A reader is set free only while a writer is at work.
Loosen ==
    free' \subseteq free \cup {p \in Procs : /\ req'[p].op \in {"get", "range"}
                                             /\ \E w \in Procs : req[w].op \in {"put", "delete"}}

Next ==
    \/ void'
    \/ /\ ~void /\ ~void' /\ Loosen
       /\ \/ /\ UNCHANGED broken
             /\ \/ UNCHANGED <<kv, req>>
                \/ \E p \in Procs : Request(p) \/ TakeEffect(p) \/ AnswerFree(p) \/ Return(p)
          \/ broken' # broken /\ \E p \in Procs : Fail(p)

vars == <<kv, req, free, void, broken>>

Spec == Init /\ [][Next]_vars
=============================================================================
