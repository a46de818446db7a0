------------------------------ MODULE Handlers ------------------------------
(***************************************************************************)
(* The handlers of requests, as the components of an organization share    *)
(* them: each is a sequence of queries, and another handler may run        *)
(* between any two of them.                                                *)
(***************************************************************************)

CONSTANT
  Procs        \* handlers that may be running at the same time

VARIABLE
  req          \* what each handler will do next, with what it has read

Idle == [at |-> "idle"]

Goto(p, k) == req' = [req EXCEPT ![p] = k]
Finish(p) == Goto(p, Idle)
At(p, label) == req[p].at = label

\* A query fails, a transaction takes longer than Prisma allows, a mail is refused,
\* or the process restarts: what was not committed has no effect.
Abandon(p) == ~ At(p, "idle") /\ Finish(p)

\* Table t with a row added.
Insert(t, key, row) == [x \in DOMAIN t \cup {key} |-> IF x = key THEN row ELSE t[x]]
=============================================================================
