---------------------------- MODULE PayrollLedger ----------------------------
(***************************************************************************)
(* What the payroll component promises, with approvals as single steps:    *)
(* the ledger of payrolls only grows, a preview is APPROVED from the step  *)
(* that issues its first payroll on, and a payroll forgets nobody who      *)
(* belongs to its preview when it is issued.                               *)
(***************************************************************************)

CONSTANTS Employees, Previews, Payrolls

VARIABLES
  status,      \* of each preview there is: "PENDING" or "APPROVED"
  member,      \* the preview of each employee who belongs to one
  issued       \* the payrolls: the preview each is for, and whom it pays

vars == <<status, member, issued>>

MembersOf(v) == {e \in DOMAIN member : member[e] = v}

Init ==
  /\ status = [v \in {} |-> "PENDING"]
  /\ member = [e \in {} |-> {}]
  /\ issued = [k \in {} |-> {}]

Open(v) ==
  /\ v \notin DOMAIN status
  /\ status' = [w \in DOMAIN status \cup {v} |-> IF w = v THEN "PENDING" ELSE status[w]]
  /\ UNCHANGED <<member, issued>>

\* An employee belongs to one preview at a time, and may change to another.
Join(e, v) ==
  /\ v \in DOMAIN status
  /\ member' = [x \in DOMAIN member \cup {e} |-> IF x = e THEN v ELSE member[x]]
  /\ UNCHANGED <<status, issued>>

Quit(e) ==
  /\ member' = [x \in DOMAIN member \ {e} |-> member[x]]
  /\ UNCHANGED <<status, issued>>

Issue(k, v, paid) ==
  /\ v \in DOMAIN status
  /\ k \notin DOMAIN issued
  /\ MembersOf(v) \subseteq paid
  /\ status' = [w \in DOMAIN status |-> IF w = v THEN "APPROVED" ELSE status[w]]
  /\ issued' = [x \in DOMAIN issued \cup {k} |->
                  IF x = k THEN [v |-> v, paid |-> paid] ELSE issued[x]]
  /\ UNCHANGED member

Next ==
  \/ \E v \in Previews : Open(v)
  \/ \E e \in Employees : Quit(e) \/ \E v \in Previews : Join(e, v)
  \/ \E k \in Payrolls, v \in Previews, paid \in SUBSET Employees : Issue(k, v, paid)

Spec == Init /\ [][Next]_vars

\* Exactly the previews that a payroll was issued for are APPROVED.
ApprovedMeansIssued ==
  \A v \in DOMAIN status : status[v] = "APPROVED" <=> \E k \in DOMAIN issued : issued[k].v = v
=============================================================================
