------------------------------ MODULE Payroll ------------------------------
(***************************************************************************)
(* Payroll previews and their approval.                                    *)
(*                                                                         *)
(* A preview keeps its employees twice: EmployeePayrollPreview rows, made  *)
(* for all the active staff when the preview is created and never changed, *)
(* are what the preview shows and what the totals add up; the relation     *)
(* Employee.payroll_PreviewId, which adding and removing employees         *)
(* changes, decides who gets a payslip.  As in module Leave a handler      *)
(* keeps in req[p] what it has read, and other handlers run between its    *)
(* queries.                                                                *)
(***************************************************************************)

CONSTANTS
  Employees,   \* employee ids, all of one organization
  Previews,    \* ids of payroll previews
  Payrolls,    \* ids of issued payrolls
  Procs,       \* handlers that may be running at the same time
  Names,       \* names of previews, in upper case
  Pays,        \* the pay figures of an employee, all columns as one value
  Unset,       \* pay columns that are still null
  NoPreview    \* payroll_PreviewId is null

ASSUME PayrollAssumption == NoPreview \notin Previews

VARIABLES
  staff,       \* table Employee: pay columns, payroll_PreviewId, and whether ACTIVE or LEAVE
  preview,     \* table Payroll_Preview, with the employees its join rows list
  payroll,     \* table OrganizationPayroll: the figures it totals, and its payslips
  req          \* what each handler will do next, with what it has read

vars == <<staff, preview, payroll, req>>

Idle == [at |-> "idle"]
PayValues == Pays \cup {Unset}
PayTables == UNION {[E -> PayValues] : E \in SUBSET Employees}

StaffRow == [pay : PayValues, member : Previews \cup {NoPreview}, active : BOOLEAN]
PreviewRow == [name : Names, status : {"PENDING", "APPROVED"}, listed : SUBSET Employees]
PayrollRow == [v : Previews, counted : PayTables, slips : PayTables]
\* t is a table holding some of the rows that may exist.
IsTable(t, Keys, Row) == DOMAIN t \subseteq Keys /\ t \in [DOMAIN t -> Row]

Continuation ==
  {Idle}
  \cup [at : {"create"}, name : Names]
  \cup [at : {"createTx"}, name : Names, listed : SUBSET Employees]
  \cup [at : {"add", "remove"}, e : Employees, v : Previews]
  \cup [at : {"approve"}, v : Previews, counted : PayTables]
  \cup [at : {"approveTx"}, v : Previews, counted : PayTables, slips : PayTables]

TypeOK ==
  /\ IsTable(staff, Employees, StaffRow)
  /\ IsTable(preview, Previews, PreviewRow)
  /\ IsTable(payroll, Payrolls, PayrollRow)
  /\ req \in [Procs -> Continuation]

Init ==
  /\ staff = [e \in {} |-> {}]
  /\ preview = [v \in {} |-> {}]
  /\ payroll = [k \in {} |-> {}]
  /\ req = [p \in Procs |-> Idle]

-----------------------------------------------------------------------------

Goto(p, k) == req' = [req EXCEPT ![p] = k]
Finish(p) == Goto(p, Idle)
At(p, label) == req[p].at = label

Insert(t, key, row) == [x \in DOMAIN t \cup {key} |-> IF x = key THEN row ELSE t[x]]
RowsOf(E) == [e \in E |-> staff[e]]  \* mutant: whole rows
PaysOf(E) == [e \in E |-> staff[e].pay]
Members(v) == {e \in DOMAIN staff : staff[e].member = v}

NoneHeld(v) == FALSE  \* mutant: nobody waits
\* An approval that has not committed holds the row lock on its preview.
Held(v) == \E p \in Procs : At(p, "approveTx") /\ req[p].v = v

-----------------------------------------------------------------------------
(* Employees and their pay.                                                *)

\* An employee is created, with whatever status the request or the file gives.
Hire(e, active) ==
  /\ e \notin DOMAIN staff
  /\ staff' = Insert(staff, e, [pay |-> Unset, member |-> NoPreview, active |-> active])
  /\ UNCHANGED <<preview, payroll, req>>

\* updateEmployeeWorkDetails may change the status.
SetStatus(e, active) ==
  /\ e \in DOMAIN staff
  /\ staff' = [staff EXCEPT ![e].active = active]
  /\ UNCHANGED <<preview, payroll, req>>

\* updateEmployeePayrollPreviewInformation needs some preview, and writes the
\* columns of any employee, listed in it or not, whatever its status.
UpdatePay(e, v, pay) ==
  /\ e \in DOMAIN staff
  /\ v \in DOMAIN preview
  /\ staff' = [staff EXCEPT ![e].pay = pay]
  /\ UNCHANGED <<preview, payroll, req>>

\* bulkUploadEmployeePayroll: all rows of the file in one transaction; a row that
\* names no employee is skipped.
BulkPay(v, file) ==
  /\ v \in DOMAIN preview
  /\ staff' = [e \in DOMAIN staff |->
                 IF e \in DOMAIN file THEN [staff[e] EXCEPT !.pay = file[e]] ELSE staff[e]]
  /\ UNCHANGED <<preview, payroll, req>>

-----------------------------------------------------------------------------
(* Previews.                                                               *)

\* createPayrollPreview, up to validateRequest: no preview has that name.
Create(p, n) ==
  /\ At(p, "idle")
  /\ \A v \in DOMAIN preview : preview[v].name # n
  /\ Goto(p, [at |-> "create", name |-> n])
  /\ UNCHANGED <<staff, preview, payroll>>

\* In the transaction: SELECT the staff that is ACTIVE or on LEAVE.
CreateRead(p) ==
  /\ At(p, "create")
  /\ Goto(p, [at |-> "createTx", name |-> req[p].name,
              listed |-> {e \in DOMAIN staff : staff[e].active}])
  /\ UNCHANGED <<staff, preview, payroll>>

\* The preview and its join rows become visible together.  The relation stays
\* empty: connecting the employees is commented out.
CreateCommit(p) ==
  /\ At(p, "createTx")
  /\ \/ \E v \in Previews \ DOMAIN preview :
          preview' = Insert(preview, v, [name |-> req[p].name, status |-> "PENDING",
                                         listed |-> req[p].listed])
     \/ Previews \subseteq DOMAIN preview /\ UNCHANGED preview
  /\ Finish(p)
  /\ UNCHANGED <<staff, payroll>>

\* checkIfEmployeeIsAlreadyInPayrollPreview looks at the relation.
Add(p, e, v) ==
  /\ At(p, "idle")
  /\ e \in DOMAIN staff
  /\ v \in DOMAIN preview
  /\ staff[e].member # v
  /\ Goto(p, [at |-> "add", e |-> e, v |-> v])
  /\ UNCHANGED <<staff, preview, payroll>>

\* connect takes the employee away from another preview.  The same update writes
\* the preview row (modifiedBy), so it waits for an approval of that preview.
AddCommit(p) ==
  /\ At(p, "add")
  /\ ~ Held(req[p].v)
  /\ staff' = [staff EXCEPT ![req[p].e].member = req[p].v]
  /\ Finish(p)
  /\ UNCHANGED <<preview, payroll>>

\* findEmployeeInPayrollPreview looks at the relation, too.
Remove(p, e, v) ==
  /\ At(p, "idle")
  /\ e \in DOMAIN staff
  /\ v \in DOMAIN preview
  /\ staff[e].member = v
  /\ Goto(p, [at |-> "remove", e |-> e, v |-> v])
  /\ UNCHANGED <<staff, preview, payroll>>

\* disconnect finds the member and then clears the column by the employee's id:
\* one who has been taken away meanwhile is left alone, or, if that happened in
\* between, loses the other preview.  The join row is left alone in any case.
RemoveCommit(p) ==
  /\ At(p, "remove")
  /\ ~ Held(req[p].v)
  /\ \/ staff' = [staff EXCEPT ![req[p].e].member = NoPreview]
     \/ staff[req[p].e].member # req[p].v /\ UNCHANGED staff
  /\ Finish(p)
  /\ UNCHANGED <<preview, payroll>>

-----------------------------------------------------------------------------
(* Approval.                                                               *)

\* Mutant: the totals add up the members.
ApproveMembers(p, v) ==
  /\ At(p, "idle")
  /\ v \in DOMAIN preview
  /\ Goto(p, [at |-> "approve", v |-> v, counted |-> PaysOf(Members(v))])
  /\ UNCHANGED <<staff, preview, payroll>>

\* getPayrollPreviewWithTotals adds up the pay of the employees listed.
Approve(p, v) ==
  /\ At(p, "idle")
  /\ v \in DOMAIN preview
  /\ Goto(p, [at |-> "approve", v |-> v, counted |-> PaysOf(preview[v].listed)])
  /\ UNCHANGED <<staff, preview, payroll>>

\* startPayrollApproval updates the status, whatever it was, and keeps the row
\* lock that this takes; then it reads the members and their pay.
ApproveRead(p) ==
  /\ At(p, "approve")
  /\ ~ Held(req[p].v)
  /\ Goto(p, [at |-> "approveTx", v |-> req[p].v, counted |-> req[p].counted,
              slips |-> PaysOf(Members(req[p].v))])
  /\ UNCHANGED <<staff, preview, payroll>>

\* Mutant: the status is left to another request.
ApproveCommitPayroll(p) ==
  /\ At(p, "approveTx")
  /\ LET r == req[p] IN
       \/ \E k \in Payrolls \ DOMAIN payroll :
            payroll' = Insert(payroll, k, [v |-> r.v, counted |-> r.counted, slips |-> r.slips])
       \/ Payrolls \subseteq DOMAIN payroll /\ UNCHANGED payroll
  /\ Finish(p)
  /\ UNCHANGED <<staff, preview>>

\* The status, the payroll and its payslips become visible together.
ApproveCommit(p) ==
  /\ At(p, "approveTx")
  /\ LET r == req[p] IN
       \/ \E k \in Payrolls \ DOMAIN payroll :
            /\ preview' = [preview EXCEPT ![r.v].status = "APPROVED"]
            /\ payroll' = Insert(payroll, k, [v |-> r.v, counted |-> r.counted,
                                              slips |-> r.slips])
       \/ Payrolls \subseteq DOMAIN payroll /\ UNCHANGED <<preview, payroll>>
  /\ Finish(p)
  /\ UNCHANGED staff

\* A query fails, the transaction times out, or the process restarts.
Fail(p) ==
  /\ ~ At(p, "idle")
  /\ Finish(p)
  /\ UNCHANGED <<staff, preview, payroll>>

-----------------------------------------------------------------------------

Advance(p) ==
  CreateRead(p) \/ CreateCommit(p) \/ AddCommit(p) \/ RemoveCommit(p)
    \/ ApproveRead(p) \/ ApproveCommit(p)

Approvals(p) == \E v \in Previews : Approve(p, v)

Arrive(p) ==
  \/ Approvals(p)
  \/ \E n \in Names : Create(p, n)
  \/ \E v \in Previews, e \in Employees : Add(p, e, v) \/ Remove(p, e, v)

Files ==
  \E v \in Previews, E \in SUBSET Employees : \E file \in [E -> Pays] : BulkPay(v, file)

AtOnce ==
  \/ Files
  \/ \E e \in Employees, active \in BOOLEAN : Hire(e, active) \/ SetStatus(e, active)
  \/ \E v \in Previews, e \in Employees, pay \in Pays : UpdatePay(e, v, pay)

Next == AtOnce \/ \E p \in Procs : Arrive(p) \/ Advance(p) \/ Fail(p)

Spec == Init /\ [][Next]_vars

-----------------------------------------------------------------------------
(* Properties.                                                             *)

\* While an approval is open, nobody can join its preview unnoticed: whoever is a
\* member has a payslip in it, and no other approval of that preview is open.
\* This rests on adding an employee also writing the preview row.
OpenApprovalsMissNobody ==
  \A p \in Procs : At(p, "approveTx") =>
    /\ Members(req[p].v) \subseteq DOMAIN req[p].slips
    /\ \A q \in Procs : At(q, "approveTx") /\ req[q].v = req[p].v => q = p

\* However often a preview is approved and whoever was added to it or removed
\* from it in between, its payrolls total the same people: those it lists.
TotalsFollowTheListing ==
  \A k \in DOMAIN payroll : /\ payroll[k].v \in DOMAIN preview
                            /\ DOMAIN payroll[k].counted = preview[payroll[k].v].listed

\* What a reader of the tables sees of PayrollLedger's variables.
StatusOf == [v \in DOMAIN preview |-> preview[v].status]
MemberOf == [e \in {x \in DOMAIN staff : staff[x].member # NoPreview} |-> staff[e].member]
Issued == [k \in DOMAIN payroll |-> [v |-> payroll[k].v, paid |-> DOMAIN payroll[k].slips]]
Ledger == INSTANCE PayrollLedger WITH
  status <- StatusOf, member <- MemberOf, issued <- Issued

\* The component keeps the promises of PayrollLedger: the steps of a handler look
\* like one atomic approval, or like nothing at all when it fails on the way.
ImplementsLedger == Ledger!Spec

\* However approvals overlap, fail and are repeated, a preview never shows APPROVED
\* without a payroll to pay, nor a payroll for a preview that still shows PENDING.
ApprovedMeansIssued == Ledger!ApprovedMeansIssued

\* A payroll pays the employees and the figures that its totals add up, as the
\* comment "Extract the employees from the EmployeePayrollPreview array" suggests.
PayrollAddsUp == \A k \in DOMAIN payroll : payroll[k].counted = payroll[k].slips

\* No two creations of previews of one name are under way at the same time.
Creating(p) == At(p, "create") \/ At(p, "createTx")
CreationsApart ==
  \A p, q \in Procs : Creating(p) /\ Creating(q) /\ req[p].name = req[q].name => p = q

\* No two previews share a name, as validateRequest means to ensure.
NamesAreUnique == \A v, w \in DOMAIN preview : preview[v].name = preview[w].name => v = w
=============================================================================
