# Kris API in TLA+

Kris is a human-resources API: a NestJS application that talks to PostgreSQL
through Prisma 4 and sends mail through Resend. These modules model the parts
of it whose behaviour depends on the order in which requests run, model-check
them with TLC and prove their central invariants with TLAPS.

Paths below are relative to `src/` of the repository unless they start with
`prisma/`; `leave-helper` is `organization/org-prisma-helper-services/leave/leave-prisma-helper.service.ts`,
`preview-helper` and `approve-helper` are `payroll-preview-helper.service.ts` and
`payroll-approve-prisma-helper.service.ts` beside it in `payroll/`.

## 1. The system

### How it runs, and what that means for a model

* Every HTTP request is an `async` function. It runs alone until it awaits a
  query or a mail; then other requests run. So **a request is a sequence of
  steps, one per query**, and whatever it read stays in its local variables
  while the tables change. In the modules a running request is a handler
  `p \in Procs`; `req[p]` is a record of where it will continue and what it has
  read so far, and `Idle` when it is not running. The step labels are `at`.
* Several instances of the server may share the database; handlers interact
  only through the tables, so the handlers of one instance and of several are
  the same in the model.
* `prisma.$transaction(async tx => ...)` runs at PostgreSQL's default
  **READ COMMITTED**: each statement sees what is committed when it begins. A
  transaction that reads rows and then writes what it computed from them is
  split at the read. One that only writes rows by key is one step. **A statement
  that writes the rows of a predicate** (`updateMany`, `deleteMany`) finds them when
  it begins; a row committed later is not written, although the transaction commits
  after it. Such a statement is split from the commit, and `req[p]` holds what it
  found. Where a transaction keeps a row locked across a read, the lock is in the model
  (`Locked` in Leave and Heads, `Held` in Payroll, BackOffice and Accounts) and is
  derived from `req`, so it is released by whatever ends the transaction. The rows that an update has found and
  an approval changes before the commit are overwritten in either order, so they need
  no lock of their own.
* Any query may fail (a lost connection, a constraint, the 10 s limit of an
  interactive transaction) and the process may be restarted. The open
  transaction is rolled back, and what an earlier one committed stays: action
  `Fail`, which a running handler may take at any step.
* Prisma's conventions that matter: a data field that is `undefined` is left
  alone (`Given` in Leave); `connect` with a missing id throws; `update` of a
  missing row throws and rolls back; `connect` of a one-to-many child takes it
  away from its former parent; `disconnect` finds the child
  first, does nothing if there is none, and then clears its column by id;
  `connect` of a one-to-one relation does the same with the row that was connected
  before. Neither locks what it has found: **the search and the update by id are two
  steps**, and the update clears the row whoever it belongs to by then.

The steps that read rows nobody can change while the service runs (the
organization, an employee's id) are left out, and so are reads whose only effect
is an error for a row that does not exist: the model asks for an existing row.

### Components

| component | code | state | operations | talks to |
|---|---|---|---|---|
| Leave plans and entitlements | `leave-helper`, `organization/leave` | tables Leave, EmployeeLeave | create, update a plan; onboard an employee; delete an employee's leave | employees (reads), applications |
| Leave applications | same | LeaveApplication, Team/Dept/BranchRequestsAndApproval | apply, route, approve, decline | entitlements (check, charge), placement of the employee (routing), mail |
| Payroll previews | `preview-helper`, `organization/payroll-preview` | Payroll_Preview, EmployeePayrollPreview, Employee.payroll_PreviewId, pay columns of Employee | create, add, remove, edit pay, upload a file | employees |
| Payroll approval | `approve-helper`, `organization/payroll-approve` | OrganizationPayroll, EmployeePayroll | totals, approve | previews |
| Employees | `back-office/helper-services/employee-prisma-helper`, `organization/orgEmployee` | Employee | five ways to create one, placement, work details, profile, password | units, leave (onboarding), mail |
| Organization structure | `org-branch-`, `org-dept-`, `org-team-prisma-helper` | Org_Branch, Department, Team with their heads | create units, appoint and remove heads, list a unit's requests | employees, leave requests |
| Roles and authentication | `employee.service`, `employee-auth.service`, `core/guard` | Employee.role, tokens | change, add, remove a role; log in | every guarded route |
| Appraisals | `org-appraisal-prisma-helper` | five appraisal tables | sections, questions, sending, answers, completion | employees |
| Organizations, announcements, holidays | `organization-prisma-helper` | Organization and dependants | create, update, announce, hide | employees, mail |
| Back-office users | `user-prisma-helper`, `user.service` | User | super user, roles, passwords | mail |
| Onboarding documents | `org-onboard-prisma-helper` | onboarding tables | create, send | employees |
| Pay building blocks | allowances, deductions, bonuses, pay groups | one table each | create after a check, update, delete | none |
| Recruitment, work tools, clients, activity log | one helper each | one or two tables each | single-row operations | mail (recruitment) |
| Payslips | `pays-slips-prisma-helper` | none (reads EmployeePayroll) | list | payroll |
| Mail, uploads, PDF | `alert`, `cloudinary` | none | I/O | outside |

### What makes each component correct, and what is hard about it

* **Leave.** What the team decided and what the employee sees agree; a balance
  moves only for a reason; an approval charges; a deletion is final; an
  application reaches the units in order. Hard: the check of the balance, the
  storing, the three requests of the routing and the decision are four separate
  pieces; any prefix may be all that happens; decisions repeat; deletions race
  with handlers that still hold the id; copies of names and days go stale.
* **Payroll.** A payroll pays the members its preview has when it is approved,
  once or repeatedly; its figures are those of its members. Hard: membership
  exists twice, the totals are read before the transaction, members and pay
  change between and during approvals.
* **Organization structure.** Nobody heads two units of a kind, whoever heads a
  unit has been a member of it, and loses it only to a request that may take it
  away. Hard: an appointment takes the employee's former unit away as well;
  removals act on a head read earlier, in two commits; members move meanwhile.
* **Back-office users and employees' accounts.** The password stored is the one
  mailed last; addresses are unique; a password moves only by its holder or a
  mail; a role reaches the account it is meant for. Hard: mail and commit are
  two steps, in either order; accounts are found by id and updated by address;
  what is validated and what is stored differ in case.
* **Roles.** Only creation makes anybody MANAGEMENT, in the table and in the tokens
  the guards rely on. Hard: lists are read and written back whole by several
  requests, and signed after a slow password check.
* **Appraisals, announcements, documents.** What is sent to all reaches whoever
  was there; nobody sends an appraisal twice; what was sent keeps its campaign; one
  answer per question of a section and request. Hard: checks without unique indexes, staff
  hired between the check and the reading, deletion racing with sending.
* **Uniqueness by check-then-create** (organizations, clients, units, sections,
  pay items). At most one row per value of the column checked where there is an
  index (the name of an organization, the `clientele_code` of a client); elsewhere,
  namesakes only of requests that overlapped.

The hazards are listed, each at its line, in `PROJECT.json`.

## 2. The modules

| module | what it is |
|---|---|
| `LeaveLedger` | what the leave component promises of days and claims, with decisions and deletions as single steps |
| `Leave` | plans, entitlements, applications, routing, decisions, deletion, with the refinement mapping to LeaveLedger |
| `LeaveProofs` | the inductive invariant of Leave and ten theorems, the refinement among them |
| `MCLeave` | the constants of Leave's runs and their bound on employees with applications |
| `PayrollLedger` | what the payroll component promises, with approvals as single steps |
| `Payroll` | previews, members, pay and approvals, with the refinement mapping to PayrollLedger |
| `PayrollProofs` | the inductive invariant of Payroll and six theorems, the refinement among them |
| `MCPayroll` | the symmetry set of Payroll's runs |
| `BackOffice` | accounts of back-office users, their roles, passwords and mails |
| `BackOfficeProofs` | the inductive invariant of BackOffice and five theorems |
| `MCBackOffice` | the symmetry set of BackOffice's runs |
| `Accounts` | accounts of employees: the ways to create one, addresses, passwords and mails |
| `AccountsProofs` | the inductive invariant of Accounts and four theorems |
| `MCAccounts` | two addresses, one in two spellings, and the symmetry set |
| `Handlers` | what a running request is, shared by the modules below |
| `Roles` | role lists and the roles in tokens |
| `Registry` | everything an organization names: check, create, rename, delete |
| `OrgChart` | what the organization promises about who heads what, with appointments and removals as single steps |
| `Heads` | departments and teams: placement, appointment and removal of heads, with the refinement mapping to OrgChart; extends Roles and Registry |
| `Organization` | the composition of Roles, Registry and Heads: one set of handlers and employees |
| `OrganizationProofs` | the inductive invariant of Organization, part by part, and eleven theorems, the refinement among them |
| `MCOrganization` | the rows there are to begin with, the requests and bound of the run about heads, and the symmetry sets |
| `Campaigns` | appraisals, announcements and onboarding documents: sending, answering, closing, deleting |
| `CampaignsProofs` | the inductive invariant of Campaigns and seven theorems |
| `MCCampaigns` | the bound on sections, and the symmetry set |

An operator or action whose comment says *mutant* is no part of any
specification: it is what a plausible bug would make of the definition below it,
kept to see that the property it is paired with in `PROJECT.json` notices.

### Leave

Tables are partial functions: `plan` (Leave), `ent` (EmployeeLeave, keyed by its
unique index employee and plan), `app` (LeaveApplication; a removed row keeps its
id with status `"DELETED"`, because handlers may still hold the id). `units[e]`
says which of team, branch and department are set in the employee's row.
`routed[a]` is the set of requests created for an application and `decision[a]`
the decision column of its team request. `told` are the applications whose
applicant was sent the mail `leaveApproval.hbs`.

| code | actions |
|---|---|
| `createLeavePlan` | `CreatePlan` (duplicate check: no plan's name *contains* the new one), `CreatePlanRead` (staff read in the transaction), `CreatePlanCommit` |
| `updateLeavePlan` | `UpdatePlan` (the plan's row locked, its entitlements found), `UpdatePlanCommit` (the plan and those found change); fields may be left out |
| `onboardEmpToMyOrg` | `OnboardEmployee`, `OnboardRead` (plans read outside the transaction), `OnboardCommit` (all entitlements, or none if the unique index objects) |
| other ways to create an employee | `CreateEmployeeOnly` |
| `addEmpToTeam`, `addEmpToDept`, `updateEmployeeWorkDetails` | `Place` |
| `leaveApplication` | `Apply` (employee row), `ApplyFindPlan`, `ApplyCheck`, `ApplyCommit`, then `Route` up to three times |
| `approveEmployeeLeave`, `declineEmployeeLeave` | `Approve`, `Decline` |
| `deleteEmployeeLeavePlan` | `DeleteApplications` (finds the applications), `DeleteEntitlements` (waits for them and locks them, finds the entitlements), `DeleteCommit` (those found go) |

A decision is a single step: its reads name rows by id and its guard (both rows
exist and are not locked by a deletion) is evaluated by the updates themselves;
`Fail` covers its rollback. That two decisions on one application take their two
row locks in opposite orders, so that PostgreSQL may have to abort one, is below
this grain: the outcome, one decision that changes nothing, is a behaviour of
the model.

Approval counts the weekdays again, from the stored dates; they are the dates the
application was checked with, so the model charges `days`. Every mail of this
component has the same text and an application is mailed when it is stored, so a
mail sent by a decision that is rolled back afterwards adds nothing to `told`.

`LeaveLedger` knows balances, claims and whom each claim was put to. A claim is put
to the team, the branch and the department in that order, once each, and decided only
after the team has it; an approval takes exactly the claimed days from a balance
that is there; a deletion takes balances and claims of one employee at once, and
nothing happens to a deleted claim. `Leave` implements it with the mapping
`BalanceOf` (the days left), `ClaimOf` (whose days, how many, the status) and
`routed`: plans, names, checks, mails and reads are stuttering steps. A deletion and
an update of a plan find their rows before they commit, and in between an application
may be stored, or an entitlement granted, that they do not see; the ledger allows for
that (`gone`, `lost` and `K` need not be all of them), and for nothing else: `Delete`
reaches no other employee, `Renew` no other plan and gives all it reaches the same
days. It does not promise that the days are there when they are taken (finding 1).

What is abstracted: dates, document URLs, authors; plan names are model values
with the relation `Contains`, because the duplicate check is a substring search;
one organization, because every query is scoped to one.

### Payroll

`staff` holds the pay columns (one value), `payroll_PreviewId` (`member`) and
whether the status is ACTIVE or LEAVE; `preview` the status and the set of
employees its join rows list; `payroll` for each issued payroll the figures its
totals add up (`counted`) and its payslips (`slips`), each a function from
employees to pay.

| code | actions |
|---|---|
| `createPayrollPreview` | `Create` (name check), `CreateRead`, `CreateCommit` |
| `addEmployeeToPayrollPreview` | `Add` (membership check), `AddCommit` |
| `removeEmployeeFromPayrollPreview`, `deleteEmployeesFromPayrollPreview` | `Remove`, `RemoveCommit` |
| `updateEmployeePayrollPreviewInformation` | `UpdatePay` |
| `bulkUploadEmployeePayroll` | `BulkPay` |
| `approvePayrollPreview` | `Approve` (totals), `ApproveRead` (status update takes the row lock, members read), `ApproveCommit` |
| employee creation and work details | `Hire`, `SetStatus` |

The status update of an approval is the first statement of its transaction and
becomes visible at the commit; in between it is the row lock `Held`. Adding and
removing an employee also write the preview row (`modifiedBy`), so they wait for
it. Prisma's `connect` by id is taken to be one update; its `disconnect` looks
the employee up by id and preview and then clears the column by id, so
`RemoveCommit` may also take away a preview the employee got in between.

`PayrollLedger` knows previews with a status, whom each employee belongs to, and
the issued payrolls with whom they pay. Its `Issue` is atomic, pays at least the
members of that moment, marks the preview APPROVED and never touches an earlier
payroll. `Payroll` implements it with the mapping `StatusOf`, `MemberOf`,
`Issued`: the reads of a handler are stuttering steps, and each commit is one
step of the ledger. The ledger promises no more than `MembersOf(v) \subseteq
paid`, because a member who moves to another preview after the members have been
read is still paid: moving locks only the row of the preview moved to. What the ledger
promises of all this together, `ApprovedMeansIssued`, is checked of the tables: a
preview is APPROVED exactly when a payroll was issued from it.

### BackOffice

`user` is the table User (address, password, role), `told[u]` the last generated
password that was mailed to the holder of an account.

| code | actions |
|---|---|
| `createSuperUser` at start | `CreateSuperUser` |
| `onboardBackOfficeUser` | `Onboard` (validation), `OnboardMail` (insert and mail, uncommitted), `OnboardCommit` |
| `editProfile` | `EditProfile` (validation), `EditCommit` |
| `changeUserRole` | `ChangeRole` (reads by id), `RoleCommit` (updates by address) |
| `checkUserPassword` | `ChangePassword` (finds the account), `CheckPassword` (verifies), `ChangeCommit` |
| `resetUserPassword` | `ResetPassword`, `ResetMail` (update and mail, uncommitted), `ResetCommit` |

A transaction that mails a password is split at the mail: the row written before
it is a lock until the commit (`Held` for a row updated, `Reserved` for the index
entry of a row inserted, both derived from `req`), and `Fail` in between leaves a
mail that says what is not stored. `ChangeCommit` is one step because its mail
holds no password. `send` is taken to throw when the mail is not accepted, as the
`catch` around it expects.

`createSuperUser` looks for `rootadmin@kris.io` at every start; where the
configured address is another, the second creation fails on the unique krisID,
so the account is created once. `changeUserPassword` passes no user to the mail
it sends, so the mail cannot be built and the transaction is always rolled back:
it has no action. The phone number, unique and validated like the address, names
and status are left out, and so is the second query of `findUserById`, by the
address the first one found: if it fails, so does the request (`Fail`). Passwords
are compared as such, not by their hashes; a generated one differs from all in
use. The current password that a request gives is one stored or mailed: any other is
refused, which changes nothing.

### Accounts

`acct` holds address and password of each employee, `told[e]` the last password
mailed to the holder, `uploaded` (history) the rows that came with a file.
Addresses are compared as stored; `Lower` is `toLowerCase`.

| code | actions |
|---|---|
| `createOrgMgtEmployee`, `onboardEmpToMyOrg`, `onboardEmpToClient` | `Onboard` (address checked as written), `OnboardMail` (insert and mail, uncommitted), `OnboardCommit` |
| `bulkCreateEmployee`, `bulkCreateClientEmployee` with `assignProperties` and its like | `Upload` (rows in lower case, generated passwords, all or none, committed), then `WelcomeMail` or `WelcomeRefused` for each row, in any order |
| `editEmployeeProfile`, `editEmployee` | `EditProfile` (validation), `EditCommit` (whoever has the address by now) |
| `updateEmployeeWorkDetails` | `UpdateWorkInfo` |
| `changeMyPassword` | `ChangePassword` (`validatePassword`), `ChangeCommit` |
| `resetEmployeePassword` | `ResetPassword`, `ResetMail` (update and mail, uncommitted), `ResetCommit` |

Onboarding validates the address as written and stores it in lower case, so an
insert may fail on the index although the check passed; an edit stores what was
written. The parsers of the files drop rows that lack a column and pass roles
through. Left out are the personal columns (`updateMyProfile`), certificates and
pictures, single-row writes that no other request reads.

### Organization: Roles, Registry and Heads

`Organization` composes three parts that share the handlers (`req`) and the
employees; a step of one part leaves the variables of the others alone, except
that `Hire` gives a role and places, and that `Heads` reads `roles` (who there
is) and `items` (which units there are).

| code | actions |
|---|---|
| `changeEmployeeRole` | `ChangeRole` (`checkIfRoleIsManagement`), `ChangeRoleCommit` |
| `addMoreRolesToEmployee` | `AddRole` (two checks), `CheckMaximumNumOfRoles`, `AddRoleRead`, `AddRoleCommit` (whole list written back) |
| `removeRoleFrmEmp` | `RemoveRole` (`checkMinimumNumOfRoles`), `RemoveRoleRead`, `RemoveRoleCommit` |
| `employeeLogin` | `Login` (row read, password verified), `SignToken` |
| creation of organizations, clients, branches, departments, teams, allowances, deductions, bonuses, pay groups, sections | `OnboardOrganization`, `OnboardClientele`, ..., each a `Create` of its table, then `CreateCommit` |
| edits of organizations, allowances, deductions, bonuses | `EditOrganization`, ..., each a `Rename`, then `RenameCommit` |
| deletions of pay items, pay groups and sections | `DeleteAllowance`, ..., each a `Remove`, then `RemoveCommit` |
| `addEmpToDept`, `addEmployeeToATeam`, `updateEmployeeWorkInfo` | `Move` |
| `makeEmployeeHOD`, `makeEmployeeTeamLead` | `HeadOfDepartment`, `TeamLead` (membership, read), `AppointFind` (the unit headed so far, found), `AppointTx` (rows locked, mail), `AppointCommit` |
| `removeEmployeeAsHeadOfDept` | `Retire` (headship, read), `RetireFind` (the department headed by now, found), `RetireEmployee` (cleared, whoever heads it), `ClearUnit` (a second commit) |

`led[e]` and `wasIn[e]` (histories) are the units an employee has headed and has been
placed in. An appointment between `AppointFind` and `AppointTx` holds nothing: another
may be made to the unit it has found, and is undone by it. That the employee heads yet
another unit by then makes it fail on the unique index.

`OrgChart` knows the units, their heads, and where each employee has been placed and
has been head. Its `Appoint` is atomic: it makes somebody head who has been in the
unit, and in the same step takes away one unit of the same kind that this employee
has headed, from whoever heads it. `Vacate` leaves a department without a head, as
either update of a removal does. `Organization` implements it with the mapping
`KindOf`. What follows for a team, `TeamsStayLed`: once led it stays led, unless
somebody who has led it is appointed to another team.

Requests that change no row have no action: the updates of
`makeEmployeeBranchManager` and `removeTeamLead` are built and never awaited, so
Prisma never sends them; `employeeHeadOfDepartment` is always rolled back,
because its mail is given no organization; `softRemoveDept` and the removal of a
section by its name remove nothing. A name in `Registry` stands for a value of the
column that is checked (a client's is `clientele_code`) and for the scope in which
the code looks for it; a list of roles is modelled by how often
each role is in it, since its order is never used.

### Campaigns

| code | actions |
|---|---|
| creation of appraisals and onboarding documents | `CreateAppraisal`, `CreateOnboardingDocument` |
| `sendToAllEmployees`, `sendOnboardingToAllEmployees`, `makeAnnouncements` | `SendAppraisal`, `SendDocument`, `Announce` (checks), `ReadStaff` (inside the transaction), `SendCommit` |
| `sendAppraisalToEmployee`, `sendOnboardingToNewEmployees` | `SendAppraisalToEmployee`, `SendDocumentToNew`, `SendCommit` |
| hiding an announcement, completing an appraisal | `HideAnnouncement`, `CompleteAppraisal` |
| `deleteAppraisal` | `Delete` (found), `DeleteCommit` (held back by the rows that refer to it) |
| sections and questions | `AddSection`, `RemoveSection`, `RemoveSectionCommit`, `AddQuestion`, `RemoveQuestion`, `RemoveQuestionCommit` |
| `answerAppraisal` | `Answer` (`checkIfResponseHasAlreadyBeenGiven`, in the section of the path), `AnswerCommit` |

A row is named by campaign, employee and the handler that inserted it; the tables
have no such key, so `sent` and `answers` count. `due[c]` (history) is who was
there when `c` was asked to be sent to all. Which section a question is in is
left out: an answer takes both from the path and nothing compares them, so that any
section will do. The names of sections are in Registry. Comments on appraisals, which are only
ever inserted, are left out.

## 3. The runs

| run | question | instance | size |
|---|---|---|---|
| `leave_applications` | do decisions, routing, charges and deletions stay consistent, as if each were one step? when do balances move? | 2 employees, the second only as long as nobody has applied, 1 plan, 2 applications, 2 handlers, 1 name, durations 1 and 2, spans 0 and 2, column minimum -2 | 2 535 804 states |
| `leave_progress` | does every handler end? when do copied names drift? | 1 employee, 1 plan, 1 application, 2 handlers, 2 names, one a substring of the other, no symmetry | 180 026 states |
| `leave_overdrawn` | finding: can a balance go below zero? | 2 applications | stops at the violation |
| `leave_mail` | finding: is the approval mail sent to others? | 1 application | stops at the violation |
| `payroll_again` | is an approval, repeated or not, atomic to an observer? | 1 employee, 2 previews, 2 payrolls, 2 handlers, 2 names, 2 pay figures | 1 607 939 states |
| `payroll_totals` | finding: do totals and payslips agree? | 2 employees, 2 previews, 1 payroll, 2 handlers | stops at the violation |
| `back_office_mail` | is the password stored the one mailed? do addresses stay unique? | 2 accounts, 3 addresses, 2 roles, 4 passwords, 2 handlers | 81 491 states |
| `back_office_roles` | finding: does a role change reach its account? | as above, with 2 passwords | stops at the violation |
| `accounts` | the same for employees, with uploads and spellings of addresses: whose password moves, and why? | 2 employees, 2 addresses, one in two spellings, 4 passwords, 2 handlers | 293 563 states |
| `organization_items` | who becomes MANAGEMENT? which names stay unique? | 1 employee, 2 roles, none added to a list that has it twice, 2 rows in any of 8 tables, 2 names, 2 handlers | 2 372 777 states |
| `organization_heads` | who heads what, who takes it away, and does an appointment look like one step? | 2 employees, 2 departments, 2 teams, none of them used together with the second department, 2 handlers | 1 563 437 states |
| `campaigns` | what is sent to whom, kept and answered? | 2 employees, 1 campaign of any kind, 2 sections, one at a time once there are two employees, 1 question, at most 2 rows by one handler, 2 handlers | 672 924 states |

**Bounds.** `Apps`, `Plans`, `Previews` and `Payrolls` are the ids that may ever
be used; a request that finds no unused one ends without an effect
(`FreshPlans = {}`, `fresh = {}`, `Payrolls \subseteq DOMAIN payroll`), as a
failed insert would. `MinInt` bounds how far a balance falls; in the code it is the least
value of the 32-bit column, at which the decrement fails as it does in the
model. Two handlers are enough for each race the hazards name: every property
relates one handler to the tables, or two handlers to one row. Two applications
compete for one entitlement; two employees and two previews let somebody change
sides while an approval is open; two payrolls let a preview be approved again;
four passwords leave a fresh one for most mails of two accounts, and three
addresses let one be given up and taken over. `MaxRoles` is how often adding may put one role
into a list: 2 in `organization_items`, one more than the code's check allows to
requests one at a time, and 1 in `organization_heads`, where no role matters;
`MaxRows` how often one handler sends a document to the same employee; both
are bounds of the model, which the code does not have. `Kinds` are the tables in
use and `Existing` the rows at the start: `organization_items` has every table
that names only, `organization_heads` departments and teams, all made before.

Three runs bound the product of two things that need not meet, by a condition on
steps in the MC module: `OneApplies` (entitlements of two employees, which an update
of the plan finds together or not, and applications of one), `DepartmentsOrTeams` (two
departments, or one and two teams) and `StaffOrSections` (two employees, or two
sections open at once). `HeadsSpec` also leaves out the requests that concern no unit,
which `organization_items` has, and places an employee in one unit at a time.

Organizations and the other indexed and editable tables appear together so
that rows of one table cannot be taken for another's. A
span of 0 is a weekend, which `countWeekdays` counts as no days. Deadlock is
checked in every run: an idle system can always accept a request.

**Symmetry** is used for sets of interchangeable ids in safety runs only
(employees, rows, names, passwords, handlers, campaigns, as the MC modules say):
not for the addresses of `accounts`, which `Lower` tells apart, nor for the rows and
handlers that `MCUnits` names, nor in `leave_progress`.

**Fairness** is assumed in `leave_progress` only: `SF_vars(Advance(p))`. Node
resumes a handler as soon as its query answers, and a query answers or fails. Routing
writes the application row, and a deletion the rows it has found, and either may wait
for a deletion that has them locked, over and over if deletions follow each other;
PostgreSQL serves the waiters of a row in a queue, so a handler that waits gets
its turn. Nothing is assumed about requests arriving or failing.

### What the runs found

1. **Balances go below zero** (`leave_overdrawn`). The check "Employee does not
   have enough remaining leave days for this leave plan" is made when applying
   and reserves nothing (the update there decrements by 0); approval decrements
   unconditionally, and may be repeated.
2. **The approval mail goes to everybody** (`leave_mail`). Applying and declining
   send mails made from the approval's template.
3. **A payroll totals other people than it pays** (`payroll_totals`). Totals add
   up the join rows made at creation, payslips go to a relation that creation
   leaves empty.
4. **A role change may reach another account** (`back_office_roles`).
   `changeRole/:userID` reads the account by its id and updates by the address it
   read; if that address is edited and taken over in between, the account that has
   it now gets the role.

### What else the models show

No text of the repository promises the contrary of these, so they are facts about
the behaviours of the modules and not findings.

* *Roles.* The limits (one role at least, two at most, no role twice) hold for
  requests one at a time. Overlapping ones reach lists of three roles, of none and
  with a role twice, and a list written back undoes what was written in between.
  It takes two overlapping role changes of the same employee
  (`RolesStayWithinLimits`, section 4); nothing else breaks a limit.
* *Plans.* An update of a plan misses the entitlements granted while it runs: they
  keep the old name, by which applications no longer find them, and the old days.
  The same goes for an onboarding that has read the plan before. Nothing else makes
  names drift (`NamesFollowThePlan`, `NamesInSyncWhenApart`, section 4). A deletion
  leaves what was stored while it ran, an application without its entitlement too.
* *Heads.* Moving an employee leaves a headship behind, so a head may belong to
  another unit by now. The second update of a removal clears the department
  whoever heads it by then. The first, and every appointment elsewhere, clears the
  unit that the employee was found to head: somebody appointed there in between
  loses it for no reason of their own, and a team may so be left without a lead
  (`HeadsLeaveByNameWhenApart`, section 4: it takes two overlapping handlers).
* *Names.* Only organizations and clients cannot have namesakes; elsewhere each
  overlapping request may add one, and editing an allowance, deduction or bonus
  looks at no other row. Clients and pay items are looked for in all organizations.
* *Answers.* The check for an earlier answer looks in the section of the path, and
  nothing compares that with the question's, so one question is answered once per
  section by requests one at a time; the controller's closing `TODO` ("dont answer
  same question ... twice") knows that answers repeat.
* *Appraisals.* Once anybody has an appraisal it can be sent to nobody else, not
  even to one employee hired later; answers are accepted after completion.
* *Documents.* What is sent to new employees goes to those of all organizations;
  what is sent to all only copies the document's name. Neither asks what was sent
  before.
* *Twice.* An appraisal reaches an employee twice, a question is answered twice in one section and
  two previews have one name only by two overlapping requests for the same thing
  (section 4): the checks before the transactions do all the rest.
* *Mails.* A generated password may be mailed and its transaction fail, so that
  the holder has one that does not work; after an upload it may be the other way
  round.

## 4. The proofs

Every theorem holds for all values of the constants that satisfy the modules'
assumptions: `NamesAssumption` (`Contains` is a reflexive relation on names,
`Undefined` is no name and no number), `NumbersAssumption` (durations and spans
are naturals, `MinInt` is an integer), `PayrollAssumption` (`NoPreview` is no
preview), `BackOfficeAssumption` and `UnknownAssumption` (`Unknown` is no
password), `LowerAssumption` (`Lower` maps addresses to addresses; not even that
it is idempotent), `ManagementAssumption` and `MaxRolesAssumption` (MANAGEMENT is a
role, the bound a natural), `KindsAssumption` and `ExistingAssumption` (the tables
in use are among the code's, and the first rows are rows without namesakes),
`NobodyAssumption` and `NowhereAssumption` (no employee, no unit),
`MaxRowsAssumption` (a positive bound). No set needs to be finite.

**LeaveProofs.** Neither `DecisionAgreement` nor the routing properties are
inductive alone: that a new team request does not wipe out a decision needs that
the handler is the only one to route that application and that it is still
undecided; that this stays so needs that an id without a row has no requests,
and that a handler about to ask a unit has asked the units before it. The
invariant is `IInv == TypeOK /\ Routing /\ DecisionAgreement`, with `Routing` the
conjunction of `RoutedInOrder`, `RoutingIsPrivate`, `UnusedIds` and
`RoutedSoFar`. From it follow

* `TypeCorrect`, `DecisionsAgree`, `RoutingKeepsOrder`, `RoutingStaysPrivate`:
  the invariants of the runs;
* `ApprovalsAreCharged`, `DeletionsAreFinal`: action properties, from a step out of a
  state with `IInv`;
* `BalancesMoveOnlySo`, `NamesFollowThePlan`, from `HInv == TypeOK /\ HeldRows`: what an
  open update or deletion has found is there until it commits, and belongs to its
  plan or its employee; what an onboarding has read are plans that are there. A
  deletion takes what it deletes away from what others have found (`Without`), for a
  row inserted again later is not the one they found;
* `Refinement`, from a third invariant `LInv` on top of both: a handler about to
  ask a unit has asked exactly those before it (`AskedBefore`; `IInv` says only that
  it has asked no fewer), and the applications an open deletion holds
  belong to the employee whose balances it will take (`DeletionsOwn`). Each action
  is then one step of the ledger or a stutter; a renamed plan, a failed check and a
  handler that gives up change nothing the ledger sees.

**PayrollProofs.** `IInv == TypeOK /\ Known /\ OpenApprovalsMissNobody /\
TotalsFollowTheListing`, where `Known` says that the rows a handler holds ids of
exist, and that the listed employees are employees. From it follow
`TypeCorrect`, `ApprovalsMissNobody`, `TotalsCountTheListed`, and `Refinement`:
the initial states map to initial states of the ledger, and each step to a step
of it or a stutter. That `Issue` pays every member uses
`OpenApprovalsMissNobody`: what was read under the row lock still covers
everybody at the commit. `ApprovalsIssue` is proved of the ledger, where the invariant
is inductive, and carried over by the refinement.

**BackOfficeProofs.** `IInv == TypeOK /\ Known /\ QuietAtFirst /\ MailsAreApart /\
OpenMailsAreLatest /\ AddressesAreUnique`. That an open mail is the latest one of
its holder needs that no two open transactions mail the same holder
(`MailsAreApart`): the row lock keeps resets of one account apart, and an
onboarding works on an id that no reset can have (`Known`: every handler but an
onboarding holds the id of an account that is there). `QuietAtFirst`, no handler
runs before the first account exists, is what lets `CreateSuperUser` ignore them.
From it follow `TypeCorrect`, `MailsAreLatest`, `AddressesStayUnique` and the
action property `PasswordsMoveOnlySo`.

**AccountsProofs.** `IInv == TypeOK /\ Known /\ MailsAreApart /\
OpenMailsAreLatest /\ AddressesAreUnique`, along the same lines. `Known` adds that
welcome mails still to be sent are owed to rows of an upload, so that they can
overtake a reset of such a row but never the mail of an onboarding, whose row
nobody else sees yet. From it follow `TypeCorrect`, `AddressesStayUnique`,
`MailsAreLatest` and `PasswordsAreAskedFor`.

**OrganizationProofs.** `IInv == TypeOK /\ RolesInv /\ RegistryInv /\ HeadsInv`,
one invariant per part. A step of one part keeps the invariants of the others
because what it stores in `req` says nothing to them (`OthersSound`) and because
units are neither deleted nor changed into another table (`UnitsStay`), which is
what `Heads` needs of `Registry`. `RolesInv` says what a handler that changes,
adds or writes back holds: never MANAGEMENT for an employee not born with it;
`RegistryInv` what a handler about to insert or rename knows of its own rows;
`HeadsInv` that whoever heads a unit, or is placed in one, has been there
(`HeadsAreOfUnits`, `PlacedInUnits`), heads one of a kind (`OneHead`), and that what an
appointment has found (`HeadsSound`) is at most one unit, of the kind of its own, which
its employee has headed; from when its rows are locked, that employee heads no other,
and no other open appointment is for the same employee and kind
(`AppointmentsAreApart`). From it follow
`TypeCorrect`, `ManagementStaysWhereItWas`, `IndexedNamesStayUnique`,
`NamesakesAreOfOverlaps`, `HeadsStayApart`, `HeadsWereOnceMembers` and the action
property `HeadsLeaveOnlySo`.

`Refinement` maps each step to one of `OrgChart` or a stutter. Only `AppointCommit` is
hard: the unit it takes away was found before its rows were locked and before its mail,
and need not be headed by its employee any more. `HeadsSound` says that it is still a
unit of the kind that this employee has headed, which is all that the chart asks for,
and that no other is left behind. `TeamsStayLedOn` follows from the refinement: of the
steps of the chart, only an appointment takes a team's lead, of somebody who has led
the team, and it gives that employee another one.

**CampaignsProofs.** `IInv == TypeOK /\ Sounds /\ AnnouncementsAreApart /\ Tables`:
what the tables promise (`Tables`, the checked invariants in parts, answers counted by
row, section, question and handler), what each
handler still counts on (`Sounds`: a sender has sent the appraisal to nobody so
far; an announcement has no rows before it is made; whom a sender will write to
contains whoever was there when it was asked) and that an announcement is sent by
one handler. From it follow `TypeCorrect`, `AppraisalsSentOnce`,
`SentCampaignsAreKept`, `EverybodyIsReached` and `QuestionsAnsweredOnce`.

**What holds while requests do not overlap.** Seven theorems have the form
`Spec /\ []Apart => []P`: P holds in every state of every behaviour in which
certain requests do not overlap (the last one is about steps: `HeadsLeaveByName`). The code does not see to that; the theorems say
which overlaps, and no others, its checks leave open.

| theorem | kept apart | then |
|---|---|---|
| `RolesStayWithinLimits` (Organization) | role changes of one employee (`RoleChangesApart`) | one role or two, none twice, for everybody |
| `ChangesReachTheirs` (BackOffice) | edits of an account and changes of its role or password (`EditsApart`) | a change finds the account it was asked for, and no other (the contrary is finding 4) |
| `NamesStayUnique` (Payroll) | creations of previews of one name (`CreationsApart`) | no two previews share a name |
| `AppraisalsReachOnce` (Campaigns) | sendings of one appraisal (`SendsApart`) | nobody has it twice |
| `AnswersAreGivenOnce` (Campaigns) | answers to one question of one row in one section (`AnswersApart`) | no question is answered twice in one section |
| `NamesInSyncWhenApart` (Leave) | updates of plans that have found their entitlements, and onboardings that have read the plans (`UpdatesApart`) | every entitlement has its plan's name |
| `HeadsLeaveByNameWhenApart` (Organization) | handlers that have found the unit somebody heads and not yet cleared it (`HeadChangesApart`) | a head is lost only to a request for the unit or for the one who heads it |

All other requests, and those of different employees, names or rows where the
hypothesis names them, overlap at will, handlers fail and locks are waited for as
before; each hypothesis is true in every behaviour that runs one request at a time.
Each proof adds to the module's invariant what the checks of a handler still guarantee
when it writes (`LimitsInv`, `AddressKept`, `NamesAreFree`, `NobodyHasIt`, `NobodyAnswered`,
`SyncInv`, `FoundInv`), which only the requests kept apart could falsify. TLC finds each conclusion violated
without its hypothesis; for `ChangesReachTheirs` that is the run `back_office_roles`.

**Only model-checked.** `HandlersFinish` (liveness under fairness is out of this
prover's reach). The four findings are counterexamples of TLC.

## 5. Not modelled

* **Work tools, recruitment, holidays, the activity log, appraisal comments,
  certificates and the personal columns of a profile**: insertions and updates of
  single rows without a check of another row. No two requests relate, so there is
  no property but that a row is what was written. (The list of openings shows those
  whose end date is past or missing.)
* **Payslips, statistics, birthdays and anniversaries** only read.
* **Pay grades** are empty classes; the **amounts** of pay items and the links of
  employees to pay groups are columns no check looks at.
* **Mail delivery, uploads, PDF rendering**: I/O. What a mail says, where a
  property is about it, is in the modules that send it.
* **Controllers, DTOs, validators, configuration**: the definitions that gather the
  actions of a controller say which requests there are; declarative validation is
  left out. The dates of an application are compared as strings by their
  validator; the model takes the day count as an input, no days included, and the
  date helpers are not modelled.
* **Lock waits.** Two decisions on one application, and two uploads of pay that
  name the same employees, take row locks in opposite orders. Each is one step in
  the model: that one of them is rolled back is a behaviour, the wait is not.
* **Guards and tokens**: the comparison of a token's roles with a route's list, its
  expiry, the log-in of back-office users, and refresh tokens, which nothing calls.
* **Creation of the super user at two starts**: it is created once in the model.
