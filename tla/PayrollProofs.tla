--------------------------- MODULE PayrollProofs ---------------------------
(***************************************************************************)
(* Theorems about Payroll: the types, the invariants of open approvals and *)
(* of the totals, and that Payroll implements PayrollLedger.               *)
(***************************************************************************)
EXTENDS Payroll, TLAPS

-----------------------------------------------------------------------------
(* Types.                                                                  *)

\* What moving on or ending means for a handler.
LEMMA GotoType ==
  ASSUME TypeOK, NEW p \in Procs, NEW k \in Continuation, Goto(p, k)
  PROVE  req' \in [Procs -> Continuation]
  BY DEF Goto, TypeOK

LEMMA FinishType ==
  ASSUME TypeOK, NEW p \in Procs, Finish(p)
  PROVE  req' \in [Procs -> Continuation]
  BY DEF Finish, Goto, TypeOK, Continuation

\* What a handler holds, by what it does next.
LEMMA ReqFields ==
  ASSUME TypeOK, NEW p \in Procs
  PROVE  /\ At(p, "create") => req[p].name \in Names
         /\ At(p, "createTx") => req[p].name \in Names /\ req[p].listed \subseteq Employees
         /\ At(p, "add") \/ At(p, "remove") => req[p].e \in Employees /\ req[p].v \in Previews
         /\ At(p, "approve") => req[p].v \in Previews /\ req[p].counted \in PayTables
         /\ At(p, "approveTx") => /\ req[p].v \in Previews
                                  /\ req[p].counted \in PayTables
                                  /\ req[p].slips \in PayTables
<1>1. req[p] \in Continuation
  BY DEF TypeOK
<1>. QED BY <1>1 DEF Continuation, At, Idle

\* The pay of a set of employees is a table of pays.
LEMMA PaysOfType ==
  ASSUME TypeOK, NEW E \in SUBSET DOMAIN staff
  PROVE  PaysOf(E) \in PayTables /\ DOMAIN PaysOf(E) = E
<1>1. E \subseteq Employees /\ PaysOf(E) \in [E -> PayValues]
  BY DEF TypeOK, IsTable, StaffRow, PaysOf
<1>. QED BY <1>1 DEF PayTables, PaysOf

-----------------------------------------------------------------------------
(* The inductive invariant.                                                *)

\* What a handler holds names rows that are there; rows are never removed.
Sound(k) ==
  /\ k.at = "createTx" => k.listed \subseteq DOMAIN staff
  /\ k.at \in {"add", "remove"} => k.e \in DOMAIN staff /\ k.v \in DOMAIN preview
  /\ k.at \in {"approve", "approveTx"} => /\ k.v \in DOMAIN preview
                                          /\ DOMAIN k.counted = preview[k.v].listed

Known ==
  /\ \A v \in DOMAIN preview : preview[v].listed \subseteq DOMAIN staff
  /\ \A p \in Procs : Sound(req[p])

\* OpenApprovalsMissNobody and TotalsFollowTheListing are preserved only where
\* handlers hold rows that exist, and figures of the employees that are listed.
IInv == TypeOK /\ Known /\ OpenApprovalsMissNobody /\ TotalsFollowTheListing

LEMMA InitIInv == Init => IInv
  BY DEF Init, IInv, TypeOK, IsTable, Continuation, Known, Sound, Idle,
     OpenApprovalsMissNobody, TotalsFollowTheListing, At

\* A step that writes employee rows only, and makes nobody a member.
LEMMA StaffStep ==
  ASSUME IInv, UNCHANGED <<preview, payroll, req>>,
         IsTable(staff', Employees, StaffRow), DOMAIN staff \subseteq DOMAIN staff',
         \A v \in Previews : Members(v)' \subseteq Members(v)
  PROVE  IInv'
<1>1. TypeOK'
  BY DEF IInv, TypeOK
<1>2. Known'
  BY DEF IInv, Known, Sound
<1>3. OpenApprovalsMissNobody'
  BY ReqFields DEF IInv, OpenApprovalsMissNobody, At
<1>4. TotalsFollowTheListing'
  BY DEF IInv, TotalsFollowTheListing
<1>. QED BY <1>1, <1>2, <1>3, <1>4 DEF IInv

\* A step in which a handler only moves on, not to an open approval.
LEMMA HandlerStep ==
  ASSUME IInv, UNCHANGED <<staff, preview, payroll>>,
         NEW p \in Procs, NEW k \in Continuation, Goto(p, k),
         Sound(k), k.at # "approveTx"
  PROVE  IInv'
<1>1. \A q \in Procs : req'[q] = IF q = p THEN k ELSE req[q]
  BY DEF Goto, IInv, TypeOK
<1>2. TypeOK'
  BY GotoType DEF IInv, TypeOK
<1>3. Known'
  BY <1>1 DEF IInv, Known, Sound
<1>4. OpenApprovalsMissNobody'
  BY <1>1 DEF IInv, OpenApprovalsMissNobody, At, Members
<1>5. TotalsFollowTheListing'
  BY DEF IInv, TotalsFollowTheListing
<1>. QED BY <1>2, <1>3, <1>4, <1>5 DEF IInv

\* The same when the handler ends.
LEMMA FinishSound == Idle \in Continuation /\ Sound(Idle) /\ Idle.at # "approveTx"
  BY DEF Idle, Sound, Continuation

-----------------------------------------------------------------------------
(* Every action preserves it.                                              *)

LEMMA AtOnceIInv ==
  ASSUME IInv, AtOnce
  PROVE  IInv'
<1>1. ASSUME NEW e \in Employees, NEW active \in BOOLEAN, Hire(e, active)
      PROVE  IInv'
  <2>1. IsTable(staff', Employees, StaffRow) /\ DOMAIN staff \subseteq DOMAIN staff'
    BY <1>1 DEF Hire, Insert, IInv, TypeOK, IsTable, StaffRow, PayValues
  <2>2. \A v \in Previews : Members(v)' \subseteq Members(v)
    BY <1>1, PayrollAssumption DEF Hire, Insert, Members
  <2>. QED BY <1>1, <2>1, <2>2, StaffStep DEF Hire
<1>2. ASSUME NEW e \in Employees, NEW active \in BOOLEAN, SetStatus(e, active)
      PROVE  IInv'
  <2>1. IsTable(staff', Employees, StaffRow) /\ DOMAIN staff \subseteq DOMAIN staff'
    BY <1>2 DEF SetStatus, IInv, TypeOK, IsTable, StaffRow
  <2>2. \A v \in Previews : Members(v)' \subseteq Members(v)
    BY <1>2 DEF SetStatus, Members, IInv, TypeOK, IsTable, StaffRow
  <2>. QED BY <1>2, <2>1, <2>2, StaffStep DEF SetStatus
<1>3. ASSUME NEW e \in Employees, NEW v \in Previews, NEW pay \in Pays, UpdatePay(e, v, pay)
      PROVE  IInv'
  <2>1. IsTable(staff', Employees, StaffRow) /\ DOMAIN staff \subseteq DOMAIN staff'
    BY <1>3 DEF UpdatePay, IInv, TypeOK, IsTable, StaffRow, PayValues
  <2>2. \A w \in Previews : Members(w)' \subseteq Members(w)
    BY <1>3 DEF UpdatePay, Members, IInv, TypeOK, IsTable, StaffRow
  <2>. QED BY <1>3, <2>1, <2>2, StaffStep DEF UpdatePay
<1>4. ASSUME NEW v \in Previews, NEW E \in SUBSET Employees, NEW file \in [E -> Pays],
             BulkPay(v, file)
      PROVE  IInv'
  <2>1. IsTable(staff', Employees, StaffRow) /\ DOMAIN staff \subseteq DOMAIN staff'
    BY <1>4 DEF BulkPay, IInv, TypeOK, IsTable, StaffRow, PayValues
  <2>2. \A w \in Previews : Members(w)' \subseteq Members(w)
    BY <1>4 DEF BulkPay, Members, IInv, TypeOK, IsTable, StaffRow
  <2>. QED BY <1>4, <2>1, <2>2, StaffStep DEF BulkPay
<1>. QED BY <1>1, <1>2, <1>3, <1>4 DEF AtOnce, Files

LEMMA ArriveIInv ==
  ASSUME IInv, NEW p \in Procs, Arrive(p)
  PROVE  IInv'
<1>1. ASSUME NEW n \in Names, Create(p, n) PROVE IInv'
  <2>1. /\ [at |-> "create", name |-> n] \in Continuation
        /\ Sound([at |-> "create", name |-> n])
    BY DEF Continuation, Sound
  <2>. QED BY <1>1, <2>1, HandlerStep DEF Create
<1>2. ASSUME NEW v \in Previews, Approve(p, v) PROVE IInv'
  <2>. DEFINE k == [at |-> "approve", v |-> v, counted |-> PaysOf(preview[v].listed)]
  <2>1. preview[v].listed \subseteq DOMAIN staff
    BY <1>2 DEF Approve, IInv, Known
  <2>2. k \in Continuation /\ Sound(k)
    BY <1>2, <2>1, PaysOfType DEF Approve, IInv, Continuation, Sound
  <2>. QED BY <1>2, <2>2, HandlerStep DEF Approve
<1>3. ASSUME NEW v \in Previews, NEW e \in Employees, Add(p, e, v) \/ Remove(p, e, v)
      PROVE  IInv'
  <2>. DEFINE k(step) == [at |-> step, e |-> e, v |-> v]
  <2>1. k("add") \in Continuation /\ k("remove") \in Continuation
    BY DEF Continuation
  <2>2. Sound(k("add")) /\ Sound(k("remove"))
    BY <1>3 DEF Add, Remove, Sound
  <2>3. Goto(p, k("add")) \/ Goto(p, k("remove"))
    BY <1>3 DEF Add, Remove
  <2>. QED BY <1>3, <2>1, <2>2, <2>3, HandlerStep DEF Add, Remove
<1>. QED BY <1>1, <1>2, <1>3 DEF Arrive, Approvals

LEMMA FailIInv ==
  ASSUME IInv, NEW p \in Procs, Fail(p)
  PROVE  IInv'
  BY FinishSound, HandlerStep DEF Fail, Finish

LEMMA CreateReadIInv ==
  ASSUME IInv, NEW p \in Procs, CreateRead(p)
  PROVE  IInv'
<1>. DEFINE k == [at |-> "createTx", name |-> req[p].name,
                  listed |-> {e \in DOMAIN staff : staff[e].active}]
<1>1. k \in Continuation /\ Sound(k)
  BY ReqFields DEF CreateRead, IInv, TypeOK, IsTable, Continuation, Sound
<1>. QED BY <1>1, HandlerStep DEF CreateRead

\* A new preview lists employees that are there; nobody is a member of it yet
\* that an open approval of it could have missed.
LEMMA CreateCommitIInv ==
  ASSUME IInv, NEW p \in Procs, CreateCommit(p)
  PROVE  IInv'
<1>1. CASE UNCHANGED preview
  BY <1>1, FinishSound, HandlerStep DEF CreateCommit, Finish
<1>2. ASSUME NEW v \in Previews \ DOMAIN preview,
             preview' = Insert(preview, v, [name |-> req[p].name, status |-> "PENDING",
                                            listed |-> req[p].listed])
      PROVE  IInv'
  <2>1. req[p].name \in Names /\ req[p].listed \subseteq DOMAIN staff
    BY ReqFields DEF CreateCommit, IInv, Known, Sound, At
  <2>2. /\ DOMAIN preview' = DOMAIN preview \cup {v}
        /\ \A w \in DOMAIN preview : preview'[w] = preview[w]
        /\ preview'[v].listed = req[p].listed
    BY <1>2 DEF Insert
  <2>3. \A q \in Procs : req'[q] = IF q = p THEN Idle ELSE req[q]
    BY DEF CreateCommit, Finish, Goto, IInv, TypeOK
  <2>4. TypeOK'
    <3>1. IsTable(preview', Previews, PreviewRow)
      BY <1>2, <2>1 DEF Insert, IInv, TypeOK, IsTable, PreviewRow
    <3>. QED BY <3>1, FinishType DEF CreateCommit, IInv, TypeOK
  <2>5. Known'
    BY <2>1, <2>2, <2>3 DEF CreateCommit, IInv, Known, Sound, Idle
  <2>6. OpenApprovalsMissNobody'
    BY <2>3 DEF CreateCommit, IInv, OpenApprovalsMissNobody, At, Idle, Members
  <2>7. TotalsFollowTheListing'
    BY <2>2 DEF CreateCommit, IInv, TotalsFollowTheListing
  <2>. QED BY <2>4, <2>5, <2>6, <2>7 DEF IInv
<1>. QED BY <1>1, <1>2 DEF CreateCommit

\* The handler that adds or removes an employee ends, and writes that employee's
\* row only.
LEMMA MembershipStep ==
  ASSUME IInv, NEW p \in Procs, AddCommit(p) \/ RemoveCommit(p)
  PROVE  /\ DOMAIN staff' = DOMAIN staff
         /\ IsTable(staff', Employees, StaffRow)
         /\ \A q \in Procs : req'[q] = IF q = p THEN Idle ELSE req[q]
         /\ \A v \in Previews : Held(v) => Members(v)' \subseteq Members(v)
<1>. DEFINE e == req[p].e
            row == [pay : PayValues, member : Previews \cup {NoPreview}, active : BOOLEAN]
<1>1. e \in DOMAIN staff /\ req[p].v \in Previews
  BY ReqFields DEF AddCommit, RemoveCommit, IInv, Known, Sound, At
<1>3. staff[e] \in row
  BY <1>1 DEF IInv, TypeOK, IsTable, StaffRow
<1>2. PICK m \in {req[p].v, NoPreview, staff[e].member} :
        staff' = [staff EXCEPT ![e] = [staff[e] EXCEPT !.member = m]] /\
        (m = req[p].v => ~ Held(m) \/ m = staff[e].member)
  <2>1. CASE AddCommit(p)
    BY <2>1 DEF AddCommit
  <2>2. CASE RemoveCommit(p)
    <3>1. CASE staff' = [staff EXCEPT ![e].member = NoPreview]
      BY <1>1, <3>1, PayrollAssumption
    <3>2. CASE UNCHANGED staff
      BY <1>1, <1>3, <3>2 DEF IInv, TypeOK, IsTable, StaffRow
    <3>. QED BY <2>2, <3>1, <3>2 DEF RemoveCommit
  <2>. QED BY <2>1, <2>2
<1>4. [staff[e] EXCEPT !.member = m] \in row /\ [staff[e] EXCEPT !.member = m].member = m
  BY <1>1, <1>2, <1>3
<1>5. /\ DOMAIN staff' = DOMAIN staff
      /\ \A x \in DOMAIN staff : staff'[x].member = IF x = e THEN m ELSE staff[x].member
  BY <1>1, <1>2, <1>4
<1>6. IsTable(staff', Employees, StaffRow)
  BY <1>1, <1>2, <1>4 DEF IInv, TypeOK, IsTable, StaffRow
<1>7. \A q \in Procs : req'[q] = IF q = p THEN Idle ELSE req[q]
  BY DEF AddCommit, RemoveCommit, Finish, Goto, IInv, TypeOK
<1>8. \A v \in Previews : Held(v) => Members(v)' \subseteq Members(v)
  BY <1>1, <1>2, <1>5, PayrollAssumption DEF Members
<1>. QED BY <1>5, <1>6, <1>7, <1>8

LEMMA MembershipIInv ==
  ASSUME IInv, NEW p \in Procs, AddCommit(p) \/ RemoveCommit(p)
  PROVE  IInv'
<1>1. UNCHANGED <<preview, payroll>>
  BY DEF AddCommit, RemoveCommit
<1>2. TypeOK'
  BY <1>1, MembershipStep, FinishType DEF AddCommit, RemoveCommit, IInv, TypeOK
<1>3. Known'
  BY <1>1, MembershipStep DEF IInv, Known, Sound, Idle
<1>4. OpenApprovalsMissNobody'
  <2>1. \A q \in Procs : At(q, "approveTx")' => At(q, "approveTx") /\ req'[q] = req[q]
    BY MembershipStep DEF At, Idle
  <2>2. ASSUME NEW q \in Procs, At(q, "approveTx"), NEW v \in Previews, v = req[q].v
        PROVE  Members(v)' \subseteq DOMAIN req[q].slips
    <3>1. Held(v)
      BY <2>2 DEF Held
    <3>. QED BY <2>2, <3>1, MembershipStep DEF IInv, OpenApprovalsMissNobody
  <2>. QED BY <2>1, <2>2, ReqFields DEF IInv, OpenApprovalsMissNobody, Members, At
<1>5. TotalsFollowTheListing'
  BY <1>1 DEF IInv, TotalsFollowTheListing
<1>. QED BY <1>2, <1>3, <1>4, <1>5 DEF IInv

\* An approval opens with the members of the moment, and alone on its preview.
LEMMA ApproveReadIInv ==
  ASSUME IInv, NEW p \in Procs, ApproveRead(p)
  PROVE  IInv'
<1>. DEFINE v == req[p].v
            k == [at |-> "approveTx", v |-> v, counted |-> req[p].counted,
                  slips |-> PaysOf(Members(v))]
<1>1. v \in Previews /\ k \in Continuation /\ DOMAIN k.slips = Members(v)
  BY ReqFields, PaysOfType DEF ApproveRead, IInv, Continuation, Members
<1>2. Sound(k)
  BY DEF ApproveRead, IInv, Known, Sound, At
<1>3. UNCHANGED <<staff, preview, payroll>> /\ Goto(p, k)
  BY DEF ApproveRead
<1>4. \A q \in Procs : req'[q] = IF q = p THEN k ELSE req[q]
  BY <1>3 DEF Goto, IInv, TypeOK
<1>5. TypeOK'
  BY <1>1, <1>3, GotoType DEF IInv, TypeOK
<1>6. Known'
  BY <1>2, <1>3, <1>4 DEF IInv, Known, Sound
<1>7. OpenApprovalsMissNobody'
  <2>1. \A q \in Procs : At(q, "approveTx") => req[q].v # v
    BY DEF ApproveRead, Held
  <2>2. \A u : Members(u)' = Members(u)
    BY <1>3 DEF Members
  <2>. QED BY <1>1, <1>4, <2>1, <2>2 DEF IInv, OpenApprovalsMissNobody, At
<1>8. TotalsFollowTheListing'
  BY <1>3 DEF IInv, TotalsFollowTheListing
<1>. QED BY <1>5, <1>6, <1>7, <1>8 DEF IInv

\* An approval that commits issues a payroll of the listed employees' figures.
LEMMA ApproveCommitIInv ==
  ASSUME IInv, NEW p \in Procs, ApproveCommit(p)
  PROVE  IInv'
<1>1. CASE UNCHANGED <<preview, payroll>>
  BY <1>1, FinishSound, HandlerStep DEF ApproveCommit, Finish
<1>2. ASSUME NEW k \in Payrolls \ DOMAIN payroll,
             preview' = [preview EXCEPT ![req[p].v].status = "APPROVED"],
             payroll' = Insert(payroll, k, [v |-> req[p].v, counted |-> req[p].counted,
                                            slips |-> req[p].slips])
      PROVE  IInv'
  <2>1. /\ req[p].v \in DOMAIN preview /\ req[p].v \in Previews
        /\ req[p].counted \in PayTables /\ req[p].slips \in PayTables
        /\ DOMAIN req[p].counted = preview[req[p].v].listed
    BY ReqFields DEF ApproveCommit, IInv, Known, Sound, At
  <2>2. /\ DOMAIN preview' = DOMAIN preview
        /\ \A w \in DOMAIN preview : preview'[w].listed = preview[w].listed
        /\ IsTable(preview', Previews, PreviewRow)
    BY <1>2, <2>1 DEF IInv, TypeOK, IsTable, PreviewRow
  <2>3. \A q \in Procs : req'[q] = IF q = p THEN Idle ELSE req[q]
    BY DEF ApproveCommit, Finish, Goto, IInv, TypeOK
  <2>4. TypeOK'
    <3>1. IsTable(payroll', Payrolls, PayrollRow)
      BY <1>2, <2>1 DEF Insert, IInv, TypeOK, IsTable, PayrollRow
    <3>. QED BY <2>2, <3>1, FinishType DEF ApproveCommit, IInv, TypeOK
  <2>5. Known'
    BY <2>2, <2>3 DEF ApproveCommit, IInv, Known, Sound, Idle
  <2>6. OpenApprovalsMissNobody'
    BY <2>3 DEF ApproveCommit, IInv, OpenApprovalsMissNobody, At, Idle, Members
  <2>7. TotalsFollowTheListing'
    BY <1>2, <2>1, <2>2 DEF Insert, IInv, TotalsFollowTheListing
  <2>. QED BY <2>4, <2>5, <2>6, <2>7 DEF IInv
<1>. QED BY <1>1, <1>2 DEF ApproveCommit

LEMMA NextIInv == IInv /\ [Next]_vars => IInv'
<1>. SUFFICES ASSUME IInv, [Next]_vars PROVE IInv'
  OBVIOUS
<1>1. CASE UNCHANGED vars
  BY <1>1 DEF vars, IInv, TypeOK, Known, Sound, OpenApprovalsMissNobody,
     TotalsFollowTheListing, At, Members
<1>2. ASSUME NEW p \in Procs, Advance(p) PROVE IInv'
  BY <1>2, CreateReadIInv, CreateCommitIInv, MembershipIInv, ApproveReadIInv,
     ApproveCommitIInv DEF Advance
<1>. QED BY <1>1, <1>2, AtOnceIInv, ArriveIInv, FailIInv DEF Next

LEMMA SpecIInv == Spec => []IInv
  BY InitIInv, NextIInv, PTL DEF Spec

\* Every state of Payroll is well typed.
THEOREM TypeCorrect == Spec => []TypeOK
<1>1. IInv => TypeOK
  BY DEF IInv
<1>. QED BY <1>1, SpecIInv, PTL

\* An open approval is alone on its preview and has a payslip for each of its
\* members, for any number of handlers, employees and previews.
THEOREM ApprovalsMissNobody == Spec => []OpenApprovalsMissNobody
<1>1. IInv => OpenApprovalsMissNobody
  BY DEF IInv
<1>. QED BY <1>1, SpecIInv, PTL

\* All payrolls of a preview total the employees that it lists.
THEOREM TotalsCountTheListed == Spec => []TotalsFollowTheListing
<1>1. IInv => TotalsFollowTheListing
  BY DEF IInv
<1>. QED BY <1>1, SpecIInv, PTL

-----------------------------------------------------------------------------
(* Payroll implements PayrollLedger.                                       *)

LEMMA RefinesInit == Init => Ledger!Init
  BY DEF Init, Ledger!Init, StatusOf, MemberOf, Issued

\* Employee rows of which no membership changes look the same to the ledger.
LEMMA SameMembers ==
  ASSUME DOMAIN staff \subseteq DOMAIN staff',
         \A e \in DOMAIN staff : staff'[e].member = staff[e].member,
         \A e \in DOMAIN staff' \ DOMAIN staff : staff'[e].member = NoPreview
  PROVE  MemberOf' = MemberOf
  BY DEF MemberOf

\* Hiring people and writing their status or their pay are not steps of the ledger.
LEMMA AtOnceRefines ==
  ASSUME IInv, AtOnce
  PROVE  UNCHANGED Ledger!vars
<1>1. UNCHANGED <<preview, payroll>>
  BY DEF AtOnce, Files, Hire, SetStatus, UpdatePay, BulkPay
<1>2. MemberOf' = MemberOf
  <2>1. ASSUME NEW e \in Employees, NEW active \in BOOLEAN, Hire(e, active)
        PROVE  MemberOf' = MemberOf
    BY <2>1, SameMembers DEF Hire, Insert
  <2>2. ASSUME NEW e \in Employees, NEW active \in BOOLEAN, SetStatus(e, active)
        PROVE  MemberOf' = MemberOf
    <3>1. \A x \in DOMAIN staff : staff'[x].member = staff[x].member
      BY <2>2 DEF SetStatus, IInv, TypeOK, IsTable, StaffRow
    <3>. QED BY <2>2, <3>1, SameMembers DEF SetStatus
  <2>3. ASSUME NEW e \in Employees, NEW v \in Previews, NEW pay \in Pays, UpdatePay(e, v, pay)
        PROVE  MemberOf' = MemberOf
    <3>1. \A x \in DOMAIN staff : staff'[x].member = staff[x].member
      BY <2>3 DEF UpdatePay, IInv, TypeOK, IsTable, StaffRow
    <3>. QED BY <2>3, <3>1, SameMembers DEF UpdatePay
  <2>4. ASSUME NEW v \in Previews, NEW E \in SUBSET Employees, NEW file \in [E -> Pays],
               BulkPay(v, file)
        PROVE  MemberOf' = MemberOf
    <3>1. \A x \in DOMAIN staff : staff'[x].member = staff[x].member
      BY <2>4 DEF BulkPay, IInv, TypeOK, IsTable, StaffRow
    <3>. QED BY <2>4, <3>1, SameMembers DEF BulkPay
  <2>. QED BY <2>1, <2>2, <2>3, <2>4 DEF AtOnce, Files
<1>. QED BY <1>1, <1>2 DEF Ledger!vars, StatusOf, Issued

\* Nor are the steps in which a handler reads, starts, or fails.
LEMMA ReadingRefines ==
  ASSUME NEW p \in Procs, Arrive(p) \/ Fail(p) \/ CreateRead(p) \/ ApproveRead(p)
  PROVE  UNCHANGED Ledger!vars
<1>1. UNCHANGED <<staff, preview, payroll>>
  BY DEF Arrive, Approvals, Create, Approve, Add, Remove, Fail, CreateRead, ApproveRead
<1>. QED BY <1>1 DEF Ledger!vars, StatusOf, MemberOf, Issued

\* Creating a preview opens it.
LEMMA CreateCommitRefines ==
  ASSUME IInv, NEW p \in Procs, CreateCommit(p)
  PROVE  Ledger!Next \/ UNCHANGED Ledger!vars
<1>1. UNCHANGED <<staff, payroll>>
  BY DEF CreateCommit
<1>2. CASE UNCHANGED preview
  BY <1>1, <1>2 DEF Ledger!vars, StatusOf, MemberOf, Issued
<1>3. ASSUME NEW v \in Previews \ DOMAIN preview,
             preview' = Insert(preview, v, [name |-> req[p].name, status |-> "PENDING",
                                            listed |-> req[p].listed])
      PROVE  Ledger!Open(v)
  <2>1. /\ v \notin DOMAIN StatusOf
        /\ StatusOf' = [w \in DOMAIN StatusOf \cup {v} |->
                          IF w = v THEN "PENDING" ELSE StatusOf[w]]
    BY <1>3 DEF StatusOf, Insert
  <2>2. MemberOf' = MemberOf /\ Issued' = Issued
    BY <1>1 DEF MemberOf, Issued
  <2>. QED BY <2>1, <2>2 DEF Ledger!Open
<1>. QED BY <1>2, <1>3 DEF CreateCommit, Ledger!Next

\* Adding an employee is joining, away from any other preview.
LEMMA AddCommitRefines ==
  ASSUME IInv, NEW p \in Procs, AddCommit(p)
  PROVE  Ledger!Join(req[p].e, req[p].v) /\ req[p].e \in Employees /\ req[p].v \in Previews
<1>. DEFINE e == req[p].e
            v == req[p].v
<1>1. /\ e \in DOMAIN staff /\ e \in Employees
      /\ v \in DOMAIN preview /\ v \in Previews
  BY ReqFields DEF AddCommit, IInv, Known, Sound, At
<1>2. /\ DOMAIN staff' = DOMAIN staff
      /\ \A x \in DOMAIN staff : staff'[x].member = IF x = e THEN v ELSE staff[x].member
  BY <1>1 DEF AddCommit, IInv, TypeOK, IsTable, StaffRow
<1>3. MemberOf' = [x \in DOMAIN MemberOf \cup {e} |-> IF x = e THEN v ELSE MemberOf[x]]
  BY <1>1, <1>2, PayrollAssumption DEF MemberOf
<1>4. v \in DOMAIN StatusOf /\ StatusOf' = StatusOf /\ Issued' = Issued
  BY <1>1 DEF AddCommit, StatusOf, Issued
<1>. QED BY <1>1, <1>3, <1>4 DEF Ledger!Join

\* Removing an employee is quitting, unless somebody was faster.
LEMMA RemoveCommitRefines ==
  ASSUME IInv, NEW p \in Procs, RemoveCommit(p)
  PROVE  Ledger!Next \/ UNCHANGED Ledger!vars
<1>. DEFINE e == req[p].e
<1>1. e \in DOMAIN staff /\ e \in Employees
  BY ReqFields DEF RemoveCommit, IInv, Known, Sound, At
<1>2. StatusOf' = StatusOf /\ Issued' = Issued
  BY DEF RemoveCommit, StatusOf, Issued
<1>3. CASE staff' = [staff EXCEPT ![e].member = NoPreview]
  <2>1. /\ DOMAIN staff' = DOMAIN staff
        /\ \A x \in DOMAIN staff : staff'[x].member = IF x = e THEN NoPreview
                                                              ELSE staff[x].member
    BY <1>1, <1>3 DEF IInv, TypeOK, IsTable, StaffRow
  <2>2. MemberOf' = [x \in DOMAIN MemberOf \ {e} |-> MemberOf[x]]
    BY <1>1, <2>1, PayrollAssumption DEF MemberOf
  <2>. QED BY <1>1, <1>2, <2>2 DEF Ledger!Quit, Ledger!Next
<1>4. CASE UNCHANGED staff
  BY <1>2, <1>4 DEF Ledger!vars, MemberOf
<1>. QED BY <1>3, <1>4 DEF RemoveCommit

\* Committing an approval issues a payroll, to all members of its preview.
LEMMA ApproveCommitRefines ==
  ASSUME IInv, NEW p \in Procs, ApproveCommit(p)
  PROVE  Ledger!Next \/ UNCHANGED Ledger!vars
<1>. DEFINE v == req[p].v
            paid == DOMAIN req[p].slips
<1>1. UNCHANGED staff
  BY DEF ApproveCommit
<1>2. CASE UNCHANGED <<preview, payroll>>
  BY <1>1, <1>2 DEF Ledger!vars, StatusOf, MemberOf, Issued
<1>3. ASSUME NEW k \in Payrolls \ DOMAIN payroll,
             preview' = [preview EXCEPT ![v].status = "APPROVED"],
             payroll' = Insert(payroll, k, [v |-> v, counted |-> req[p].counted,
                                            slips |-> req[p].slips])
      PROVE  Ledger!Next
  <2>1. v \in DOMAIN preview /\ v \in Previews /\ paid \in SUBSET Employees
    BY ReqFields DEF ApproveCommit, IInv, Known, Sound, At, PayTables
  <2>2. /\ DOMAIN preview' = DOMAIN preview
        /\ \A w \in DOMAIN preview :
             preview'[w].status = IF w = v THEN "APPROVED" ELSE preview[w].status
    BY <1>3, <2>1 DEF IInv, TypeOK, IsTable, PreviewRow
  <2>3. StatusOf' = [w \in DOMAIN StatusOf |-> IF w = v THEN "APPROVED" ELSE StatusOf[w]]
    BY <2>2 DEF StatusOf
  <2>4. /\ k \notin DOMAIN Issued
        /\ Issued' = [x \in DOMAIN Issued \cup {k} |->
                        IF x = k THEN [v |-> v, paid |-> paid] ELSE Issued[x]]
    BY <1>3 DEF Issued, Insert
  <2>5. Ledger!MembersOf(v) \subseteq paid
    <3>1. Members(v) \subseteq paid
      BY DEF ApproveCommit, IInv, OpenApprovalsMissNobody
    <3>. QED BY <3>1 DEF Ledger!MembersOf, MemberOf, Members
  <2>6. MemberOf' = MemberOf /\ v \in DOMAIN StatusOf
    BY <1>1, <2>1 DEF MemberOf, StatusOf
  <2>7. Ledger!Issue(k, v, paid)
    BY <2>3, <2>4, <2>5, <2>6 DEF Ledger!Issue
  <2>. QED BY <2>1, <2>7 DEF Ledger!Next
<1>. QED BY <1>2, <1>3 DEF ApproveCommit

LEMMA RefinesNext == IInv /\ [Next]_vars => [Ledger!Next]_(Ledger!vars)
<1>. SUFFICES ASSUME IInv, [Next]_vars PROVE Ledger!Next \/ UNCHANGED Ledger!vars
  OBVIOUS
<1>1. CASE UNCHANGED vars
  BY <1>1 DEF vars, Ledger!vars, StatusOf, MemberOf, Issued
<1>2. ASSUME NEW p \in Procs, AddCommit(p) PROVE Ledger!Next
  BY <1>2, AddCommitRefines DEF Ledger!Next
<1>3. ASSUME NEW p \in Procs, Advance(p) PROVE Ledger!Next \/ UNCHANGED Ledger!vars
  BY <1>2, <1>3, ReadingRefines, CreateCommitRefines, RemoveCommitRefines,
     ApproveCommitRefines DEF Advance
<1>. QED BY <1>1, <1>3, AtOnceRefines, ReadingRefines DEF Next

\* Payroll keeps the promises of PayrollLedger: approvals look atomic, payrolls
\* are never changed, and no member is forgotten when one is issued.
THEOREM Refinement == Spec => ImplementsLedger
  BY RefinesInit, RefinesNext, SpecIInv, PTL DEF Spec, Ledger!Spec, ImplementsLedger

\* In the ledger a preview is APPROVED by the step that issues, and only by it.
LEMMA ApprovalIssues ==
  ASSUME Ledger!ApprovedMeansIssued, [Ledger!Next]_(Ledger!vars),
         \A k \in DOMAIN Issued : Issued[k].v \in DOMAIN StatusOf
  PROVE  Ledger!ApprovedMeansIssued'
<1>. USE DEF Ledger!ApprovedMeansIssued
<1>1. ASSUME NEW v \in Previews, Ledger!Open(v) PROVE Ledger!ApprovedMeansIssued'
  BY <1>1 DEF Ledger!Open
<1>2. CASE UNCHANGED <<StatusOf, Issued>>
  BY <1>2
<1>3. ASSUME NEW k \in Payrolls, NEW v \in Previews, NEW paid \in SUBSET Employees,
             Ledger!Issue(k, v, paid)
      PROVE  Ledger!ApprovedMeansIssued'
  <2>1. /\ k \notin DOMAIN Issued /\ v \in DOMAIN StatusOf
        /\ StatusOf' = [w \in DOMAIN StatusOf |-> IF w = v THEN "APPROVED" ELSE StatusOf[w]]
        /\ Issued' = [x \in DOMAIN Issued \cup {k} |->
                        IF x = k THEN [v |-> v, paid |-> paid] ELSE Issued[x]]
    BY <1>3 DEF Ledger!Issue
  <2>2. Issued'[k].v = v /\ \A x \in DOMAIN Issued : Issued'[x] = Issued[x]
    BY <2>1
  <2>. QED BY <2>1, <2>2
<1>. QED BY <1>1, <1>2, <1>3 DEF Ledger!Next, Ledger!vars, Ledger!Join, Ledger!Quit

\* A preview shows APPROVED exactly when it has a payroll: a consequence of
\* PayrollLedger, and so of the code that it stands for.
THEOREM ApprovalsIssue == Spec => []ApprovedMeansIssued
<1>1. Init => ApprovedMeansIssued
  BY DEF Init, ApprovedMeansIssued, Ledger!ApprovedMeansIssued, StatusOf
<1>2. IInv /\ ApprovedMeansIssued /\ [Next]_vars => ApprovedMeansIssued'
  <2>1. IInv => \A k \in DOMAIN Issued : Issued[k].v \in DOMAIN StatusOf
    BY DEF IInv, TotalsFollowTheListing, Issued, StatusOf
  <2>. QED BY <2>1, RefinesNext, ApprovalIssues DEF ApprovedMeansIssued
<1>. QED BY <1>1, <1>2, SpecIInv, PTL DEF Spec

-----------------------------------------------------------------------------
(* What the check of a name is good for while creations do not overlap.     *)

\* Nobody is about to create a preview of a name there is.
NamesAreFree ==
  \A p \in Procs : Creating(p) => \A v \in DOMAIN preview : preview[v].name # req[p].name

\* A handler that is to create a preview has been at it, or has just checked its name.
LEMMA CreatingStep ==
  ASSUME IInv, [Next]_vars, NEW p \in Procs, Creating(p)'
  PROVE  \/ Creating(p) /\ req'[p].name = req[p].name
         \/ UNCHANGED preview /\ \A v \in DOMAIN preview : preview[v].name # req'[p].name
<1>. DEFINE Goal == \/ Creating(p) /\ req'[p].name = req[p].name
                    \/ /\ UNCHANGED preview
                       /\ \A v \in DOMAIN preview : preview[v].name # req'[p].name
<1>1. CASE req'[p] = req[p]
  BY <1>1 DEF Creating, At
<1>2. ASSUME NEW q \in Procs, NEW k, Goto(q, k)
      PROVE  req'[p] = IF q = p THEN k ELSE req[p]
  BY <1>2 DEF Goto, IInv, TypeOK
<1>3. ASSUME NEW q \in Procs, NEW k, Goto(q, k), k.at \notin {"create", "createTx"} PROVE Goal
  <2>1. CASE q = p
    BY <1>2, <1>3, <2>1 DEF Creating, At
  <2>. QED BY <1>1, <1>2, <1>3, <2>1
<1>4. CASE AtOnce
  BY <1>1, <1>4 DEF AtOnce, Files, Hire, SetStatus, UpdatePay, BulkPay
<1>5. ASSUME NEW q \in Procs, NEW n \in Names, Create(q, n) PROVE Goal
  <2>. DEFINE k == [at |-> "create", name |-> n]
  <2>1. UNCHANGED preview /\ req'[p] = IF q = p THEN k ELSE req[p]
    BY <1>2, <1>5 DEF Create
  <2>. QED BY <1>1, <1>5, <2>1 DEF Create
<1>6. ASSUME NEW q \in Procs, Arrive(q) PROVE Goal
  <2>1. ASSUME NEW v \in Previews, Approve(q, v) PROVE Goal
    BY <1>3, <2>1 DEF Approve
  <2>2. ASSUME NEW v \in Previews, NEW e \in Employees, Add(q, e, v) \/ Remove(q, e, v)
        PROVE  Goal
    BY <1>3, <2>2 DEF Add, Remove
  <2>. QED BY <1>5, <1>6, <2>1, <2>2 DEF Arrive, Approvals
<1>7. ASSUME NEW q \in Procs, CreateRead(q) PROVE Goal
  <2>. DEFINE k == [at |-> "createTx", name |-> req[q].name,
                    listed |-> {e \in DOMAIN staff : staff[e].active}]
  <2>1. At(q, "create") /\ req'[p] = IF q = p THEN k ELSE req[p]
    BY <1>2, <1>7 DEF CreateRead
  <2>. QED BY <1>1, <2>1 DEF Creating
<1>8. ASSUME NEW q \in Procs, ApproveRead(q) PROVE Goal
  BY <1>3, <1>8 DEF ApproveRead
<1>9. ASSUME NEW q \in Procs, Finish(q) PROVE Goal
  BY <1>3, <1>9 DEF Finish, Idle
<1>10. CASE UNCHANGED vars
  BY <1>1, <1>10 DEF vars
<1>. QED BY <1>4, <1>6, <1>7, <1>8, <1>9, <1>10
     DEF Next, Advance, CreateCommit, AddCommit, RemoveCommit, ApproveCommit, Fail

\* Previews keep their names; a new one is that of a creation, which ends with it.
LEMMA NameStep ==
  ASSUME IInv, [Next]_vars
  PROVE  \/ /\ DOMAIN preview' = DOMAIN preview
            /\ \A v \in DOMAIN preview : preview'[v].name = preview[v].name
         \/ \E q \in Procs, v \in Previews \ DOMAIN preview :
              /\ Creating(q) /\ ~ Creating(q)'
              /\ DOMAIN preview' = DOMAIN preview \cup {v}
              /\ preview'[v].name = req[q].name
              /\ \A w \in DOMAIN preview : preview'[w].name = preview[w].name
<1>. DEFINE Same == /\ DOMAIN preview' = DOMAIN preview
                    /\ \A v \in DOMAIN preview : preview'[v].name = preview[v].name
            New(q, v) == /\ Creating(q) /\ ~ Creating(q)'
                         /\ DOMAIN preview' = DOMAIN preview \cup {v}
                         /\ preview'[v].name = req[q].name
                         /\ \A w \in DOMAIN preview : preview'[w].name = preview[w].name
<1>1. CASE UNCHANGED preview
  BY <1>1
<1>2. ASSUME NEW p \in Procs, CreateCommit(p), ~ UNCHANGED preview
      PROVE  \E v \in Previews \ DOMAIN preview : New(p, v)
  <2>1. PICK v \in Previews \ DOMAIN preview :
          preview' = Insert(preview, v, [name |-> req[p].name, status |-> "PENDING",
                                         listed |-> req[p].listed])
    BY <1>2 DEF CreateCommit
  <2>2. Creating(p) /\ ~ Creating(p)'
    BY <1>2 DEF CreateCommit, Creating, Finish, Goto, IInv, TypeOK, At, Idle
  <2>3. New(p, v)
    BY <2>1, <2>2 DEF Insert
  <2>. QED BY <2>3
<1>3. ASSUME NEW p \in Procs, ApproveCommit(p) PROVE Same
  <2>1. CASE preview' = [preview EXCEPT ![req[p].v].status = "APPROVED"]
    BY <2>1 DEF IInv, TypeOK, IsTable, PreviewRow
  <2>. QED BY <1>1, <1>3, <2>1 DEF ApproveCommit
<1>4. ASSUME NEW p \in Procs, Arrive(p) PROVE UNCHANGED preview
  BY <1>4 DEF Arrive, Approvals, Create, Approve, Add, Remove
<1>5. ASSUME NEW p \in Procs,
             CreateRead(p) \/ ApproveRead(p) \/ AddCommit(p) \/ RemoveCommit(p) \/ Fail(p)
      PROVE  UNCHANGED preview
  BY <1>5 DEF CreateRead, ApproveRead, AddCommit, RemoveCommit, Fail
<1>6. CASE AtOnce
  BY <1>1, <1>6 DEF AtOnce, Files, Hire, SetStatus, UpdatePay, BulkPay
<1>. QED BY <1>1, <1>2, <1>3, <1>4, <1>5, <1>6 DEF Next, Advance, vars

LEMMA NextNames ==
  ASSUME IInv, CreationsApart, NamesAreFree, NamesAreUnique, [Next]_vars
  PROVE  NamesAreFree' /\ NamesAreUnique'
<1>1. CASE /\ DOMAIN preview' = DOMAIN preview
           /\ \A v \in DOMAIN preview : preview'[v].name = preview[v].name
  <2>1. NamesAreUnique'
    BY <1>1 DEF NamesAreUnique
  <2>2. NamesAreFree'
    BY <1>1, CreatingStep DEF NamesAreFree
  <2>. QED BY <2>1, <2>2
<1>2. ASSUME NEW q \in Procs, NEW v \in Previews \ DOMAIN preview,
             Creating(q), ~ Creating(q)', DOMAIN preview' = DOMAIN preview \cup {v},
             preview'[v].name = req[q].name,
             \A w \in DOMAIN preview : preview'[w].name = preview[w].name
      PROVE  NamesAreFree' /\ NamesAreUnique'
  <2>1. \A w \in DOMAIN preview : preview'[w].name # preview'[v].name
    BY <1>2 DEF NamesAreFree
  <2>2. NamesAreUnique'
    BY <1>2, <2>1 DEF NamesAreUnique
  <2>3. ASSUME NEW p \in Procs, Creating(p)'
        PROVE  \A w \in DOMAIN preview' : preview'[w].name # req'[p].name
    <3>1. p # q /\ Creating(p) /\ req'[p].name = req[p].name
      BY <1>2, <2>3, CreatingStep
    <3>2. req[p].name # req[q].name
      BY <1>2, <3>1 DEF CreationsApart
    <3>3. \A w \in DOMAIN preview : preview[w].name # req[p].name
      BY <3>1 DEF NamesAreFree
    <3>. QED BY <1>2, <3>1, <3>2, <3>3
  <2>. QED BY <2>2, <2>3 DEF NamesAreFree
<1>. QED BY <1>1, <1>2, NameStep

\* The check before the transaction keeps the names of previews apart as long as no
\* two creations of one name overlap; nothing else in the code does.
THEOREM NamesStayUnique == Spec /\ []CreationsApart => []NamesAreUnique
<1>1. Init => NamesAreFree /\ NamesAreUnique
  BY DEF Init, NamesAreFree, NamesAreUnique, Creating, At, Idle
<1>2. IInv /\ CreationsApart /\ NamesAreFree /\ NamesAreUnique /\ [Next]_vars
        => NamesAreFree' /\ NamesAreUnique'
  BY NextNames
<1>. QED BY <1>1, <1>2, SpecIInv, PTL DEF Spec
=============================================================================
