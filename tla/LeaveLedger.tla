----------------------------- MODULE LeaveLedger -----------------------------
(***************************************************************************)
(* What the leave component promises of an employee's days and claims, with*)
(* each decision and each deletion a single step.  A claim is decided only *)
(* after the team was asked, and it is asked in the order team, branch,    *)
(* department, each once.  An approval takes the claimed days from a       *)
(* balance that is there, and a decline takes nothing.  A deletion takes   *)
(* balances and claims of one employee together, and nothing happens to a  *)
(* deleted claim.  How many days a balance holds when they are taken is not*)
(* promised, nor that a renewal or a deletion reaches what was granted or  *)
(* claimed while it ran.                                                   *)
(***************************************************************************)
EXTENDS Integers

CONSTANTS Employees, Plans, Apps, Durations, Spans

VARIABLES
  balance,     \* days left to an employee of a plan, for each entitlement there is
  claim,       \* of each application: whose days, how many, and its status
  asked        \* which units have been asked about an application

vars == <<balance, claim, asked>>

Units == {"team", "branch", "dept"}
Entitlements == Employees \X Plans
Standing == {a \in DOMAIN claim : claim[a].status # "DELETED"}

Init ==
  /\ balance = [k \in {} |-> 0]
  /\ claim = [a \in {} |-> {}]
  /\ asked = [a \in Apps |-> {}]

\* Employees get days of plans that they had none of; no other balance changes.
Grant(K, more) ==
  /\ K \cap DOMAIN balance = {}
  /\ balance' = [k \in DOMAIN balance \cup K |-> IF k \in K THEN more[k] ELSE balance[k]]
  /\ UNCHANGED <<claim, asked>>

\* A plan gets another length, and those of its balances that it reaches that many days.
Renew(l, d, K) ==
  /\ \A k \in K : k[2] = l
  /\ balance' = [k \in DOMAIN balance |-> IF k \in K THEN d ELSE balance[k]]
  /\ UNCHANGED <<claim, asked>>

Submit(a, k, days) ==
  /\ a \notin DOMAIN claim
  /\ k \in DOMAIN balance
  /\ claim' = [b \in DOMAIN claim \cup {a} |->
                 IF b = a THEN [of |-> k, days |-> days, status |-> "PENDING"] ELSE claim[b]]
  /\ UNCHANGED <<balance, asked>>

\* Who must have been asked before a unit is.
Before(unit) ==
  CASE unit = "team" -> {} [] unit = "branch" -> {"team"} [] unit = "dept" -> {"team", "branch"}

\* Nobody has decided when the team is asked.
Ask(a, unit) ==
  /\ a \in Standing
  /\ asked[a] = Before(unit)
  /\ unit = "team" => claim[a].status = "PENDING"
  /\ asked' = [asked EXCEPT ![a] = @ \cup {unit}]
  /\ UNCHANGED <<balance, claim>>

Judged(S, status) ==
  claim' = [a \in DOMAIN claim |-> IF a \in S THEN [claim[a] EXCEPT !.status = status]
                                              ELSE claim[a]]

Approve(a) ==
  /\ a \in Standing /\ "team" \in asked[a]
  /\ claim[a].of \in DOMAIN balance
  /\ balance' = [balance EXCEPT ![claim[a].of] = @ - claim[a].days]
  /\ Judged({a}, "APPROVED")
  /\ UNCHANGED asked

Decline(a) ==
  /\ a \in Standing /\ "team" \in asked[a]
  /\ Judged({a}, "DECLINED")
  /\ UNCHANGED <<balance, asked>>

\* Balances and claims of an employee go, and of nobody else.
Delete(e, gone, lost) ==
  /\ \A a \in gone : claim[a].of[1] = e
  /\ \A k \in lost : k[1] = e
  /\ balance' = [k \in DOMAIN balance \ lost |-> balance[k]]
  /\ Judged(gone, "DELETED")
  /\ UNCHANGED asked

Next ==
  \/ \E K \in SUBSET Entitlements : \E more \in [K -> Durations] : Grant(K, more)
  \/ \E l \in Plans, d \in Durations : \E K \in SUBSET DOMAIN balance : Renew(l, d, K)
  \/ \E a \in Apps :
       \/ \E k \in Entitlements, days \in Spans : Submit(a, k, days)
       \/ \E unit \in Units : Ask(a, unit)
       \/ Approve(a) \/ Decline(a)
  \/ \E e \in Employees : \E gone \in SUBSET DOMAIN claim, lost \in SUBSET DOMAIN balance :
       Delete(e, gone, lost)

Spec == Init /\ [][Next]_vars
=============================================================================
