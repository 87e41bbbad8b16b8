------------------------------ MODULE PageFile ------------------------------
(***************************************************************************)
(* What the disk manager promises its caller, the pager: a request is      *)
(* submitted, takes effect on the file once, in one step, and is answered  *)
(* after that.  Nothing else changes the content of a page, and a request  *)
(* that is answered "ok" has taken effect.                                 *)
(***************************************************************************)
EXTENDS Naturals, Sequences

CONSTANTS Requests, Offsets, Kinds, Nil

VARIABLES req,     \* what each request asks for
          stage,   \* idle, pending, performed or answered
          file,    \* the writes applied to each page, in order
          reply    \* the answer to each request

Init ==
    /\ req = [r \in Requests |-> Nil]
    /\ stage = [r \in Requests |-> "idle"]
    /\ file = [o \in Offsets |-> <<>>]
    /\ reply = [r \in Requests |-> Nil]

Submit(r) ==
    /\ stage[r] = "idle"
    /\ \E o \in Offsets, kind \in Kinds :
            req' = [req EXCEPT ![r] = [off |-> o, kind |-> kind]]
    /\ stage' = [stage EXCEPT ![r] = "pending"]
    /\ UNCHANGED <<file, reply>>

\* A write is applied here or, when it fails, possibly not at all.
Perform(r) ==
    /\ stage[r] = "pending"
    /\ stage' = [stage EXCEPT ![r] = "performed"]
    /\ \/ file' = file
       \/ /\ req[r].kind # "read"
          /\ file' = [file EXCEPT ![req[r].off] = Append(@, r)]
    /\ UNCHANGED <<req, reply>>

Applied(r) == \E i \in 1..Len(file[req[r].off]) : file[req[r].off][i] = r

Answer(r) ==
    /\ stage[r] = "performed"
    /\ stage' = [stage EXCEPT ![r] = "answered"]
    /\ \E e \in {"ok", "err"} :
        /\ e = "ok" /\ req[r].kind # "read" => Applied(r)
        /\ reply' = [reply EXCEPT ![r] = e]
    /\ UNCHANGED <<req, file>>

Next == \E r \in Requests : Submit(r) \/ Perform(r) \/ Answer(r)

vars == <<req, stage, file, reply>>

Spec == Init /\ [][Next]_vars
=============================================================================
