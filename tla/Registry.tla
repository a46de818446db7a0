------------------------------ MODULE Registry ------------------------------
(***************************************************************************)
(* What an organization names: organizations themselves, their branches,   *)
(* departments, teams and clients, the allowances, deductions, bonuses and *)
(* pay groups of their payrolls and the sections of their appraisals.      *)
(*                                                                         *)
(* All are made the same way: a query for somebody else's row of that name,*)
(* and then an insertion.  Only organizations and clients have a unique    *)
(* index as well.  A branch is looked for in its organization, a department*)
(* in its branch, a team in its department and a section in its appraisal; *)
(* clients and pay items are looked for in all organizations.  A name is a *)
(* value of the column that is checked: for a client that is its           *)
(* clientele_code.  It stands for the value and for where it is looked for.*)
(***************************************************************************)
EXTENDS Handlers

CONSTANTS
  Items,       \* ids of rows
  Kinds,       \* the tables in use
  Names,       \* values of the column that is checked
  Existing     \* the rows there are to begin with

Tables == {"organization", "client", "branch", "department", "team",
           "allowance", "deduction", "bonus", "payGroup", "section"}
\* The tables with a unique index on the column, those whose rows can be renamed,
\* and those whose rows can be deleted (softRemoveDept marks nothing).
Indexed == {"organization", "client"}
Editable == {"organization", "allowance", "deduction", "bonus"}
Deletable == {"allowance", "deduction", "bonus", "payGroup", "section"}

ASSUME KindsAssumption == Kinds \subseteq Tables
ASSUME ExistingAssumption ==
  /\ DOMAIN Existing \subseteq Items
  /\ Existing \in [DOMAIN Existing -> [kind : Kinds, name : Names, by : Procs]]
  /\ \A i, j \in DOMAIN Existing :
       Existing[i].kind = Existing[j].kind /\ Existing[i].name = Existing[j].name => i = j

VARIABLE
  items        \* the rows, each with the handler that made it (history)

Row == [kind : Kinds, name : Names, by : Procs]

RegistryContinuation ==
  [at : {"create"}, kind : Kinds, name : Names]
  \cup [at : {"rename"}, item : Items, name : Names]
  \cup [at : {"remove"}, item : Items]

RegistryTypeOK ==
  /\ DOMAIN items \subseteq Items
  /\ items \in [DOMAIN items -> Row]

RegistryInit == items = Existing

In(i, kind) == i \in DOMAIN items /\ items[i].kind = kind
Is(i, kind, name) == In(i, kind) /\ items[i].name = name
Exists(kind, name) == \E i \in Items : Is(i, kind, name)
\* No id is used twice.
Fresh == {i \in Items \ DOMAIN items : \A p \in Procs : "item" \in DOMAIN req[p] => req[p].item # i}

-----------------------------------------------------------------------------

\* Mutant: nobody looks for a row of that name.
CreateUnchecked(p, kind, name) ==
  /\ At(p, "idle")
  /\ kind \in Kinds
  /\ Fresh # {}
  /\ Goto(p, [at |-> "create", kind |-> kind, name |-> name])
  /\ UNCHANGED items

\* What every creation does first: is there a row of that name?  (Bounds: the table
\* is in use, and there is an id left.)
Create(p, kind, name) ==
  /\ At(p, "idle")
  /\ kind \in Kinds
  /\ Fresh # {}
  /\ ~ Exists(kind, name)
  /\ Goto(p, [at |-> "create", kind |-> kind, name |-> name])
  /\ UNCHANGED items

OnboardOrganization(p, name) == Create(p, "organization", name)
OnboardClientele(p, name) == Create(p, "client", name)
OnboardBranch(p, name) == Create(p, "branch", name)
AddDepartment(p, name) == Create(p, "department", name)
AddTeam(p, name) == Create(p, "team", name)
CreateAllowance(p, name) == Create(p, "allowance", name)
CreateDeduction(p, name) == Create(p, "deduction", name)
CreateBonus(p, name) == Create(p, "bonus", name)
CreatePayGroup(p, name) == Create(p, "payGroup", name)
CreateSection(p, name) == Create(p, "section", name)

\* The insertion.  An organization's waits until its welcome mail is accepted, a
\* department's until its branch is found; what others see is the commit.
CreateCommit(p) ==
  /\ At(p, "create")
  /\ req[p].kind \in Indexed => ~ Exists(req[p].kind, req[p].name)
  /\ \E i \in Fresh :
       items' = Insert(items, i, [kind |-> req[p].kind, name |-> req[p].name, by |-> p])
  /\ Finish(p)

\* An organization's new name is validated; of a bonus, an allowance and a deduction
\* only the row itself is looked for.
Rename(p, i, name) ==
  /\ At(p, "idle")
  /\ i \in DOMAIN items
  /\ items[i].kind \in Editable
  /\ items[i].kind \in Indexed => ~ Exists(items[i].kind, name)
  /\ Goto(p, [at |-> "rename", item |-> i, name |-> name])
  /\ UNCHANGED items

EditOrganization(p, i, name) == In(i, "organization") /\ Rename(p, i, name)
EditAllowance(p, i, name) == In(i, "allowance") /\ Rename(p, i, name)
EditDeduction(p, i, name) == In(i, "deduction") /\ Rename(p, i, name)
EditBonus(p, i, name) == In(i, "bonus") /\ Rename(p, i, name)

\* Mutant: relies on the validation.
RenameCommitUnchecked(p) ==
  /\ At(p, "rename")
  /\ req[p].item \in DOMAIN items
  /\ items' = [items EXCEPT ![req[p].item].name = req[p].name]
  /\ Finish(p)

RenameCommit(p) ==
  /\ At(p, "rename")
  /\ LET i == req[p].item
     IN  /\ i \in DOMAIN items
         /\ items[i].kind \in Indexed =>
              \A j \in DOMAIN items : Is(j, items[i].kind, req[p].name) => j = i
         /\ items' = [items EXCEPT ![i].name = req[p].name]
  /\ Finish(p)

\* The row is looked for, and then deleted.
Remove(p, i) ==
  /\ At(p, "idle")
  /\ i \in DOMAIN items
  /\ items[i].kind \in Deletable
  /\ Goto(p, [at |-> "remove", item |-> i])
  /\ UNCHANGED items

DeleteAllowance(p, i) == In(i, "allowance") /\ Remove(p, i)
DeleteDeduction(p, i) == In(i, "deduction") /\ Remove(p, i)
DeleteBonus(p, i) == In(i, "bonus") /\ Remove(p, i)
DeletePayGroup(p, i) == In(i, "payGroup") /\ Remove(p, i)
RemoveSection(p, i) == In(i, "section") /\ Remove(p, i)

RemoveCommit(p) ==
  /\ At(p, "remove")
  /\ req[p].item \in DOMAIN items
  /\ items' = [i \in DOMAIN items \ {req[p].item} |-> items[i]]
  /\ Finish(p)

-----------------------------------------------------------------------------
(* The requests, controller by controller; those that only read are left out. *)

OrganizationRequests(p) ==
  \E name \in Names :
    OnboardOrganization(p, name) \/ \E i \in Items : EditOrganization(p, i, name)

UnitRequests(p) ==
  \E name \in Names :
    \/ OnboardClientele(p, name) \/ OnboardBranch(p, name)
    \/ AddDepartment(p, name) \/ AddTeam(p, name)

AllowanceRequests(p) ==
  \/ \E name \in Names : CreateAllowance(p, name)
  \/ \E i \in Items : DeleteAllowance(p, i) \/ \E name \in Names : EditAllowance(p, i, name)

DeductionRequests(p) ==
  \/ \E name \in Names : CreateDeduction(p, name)
  \/ \E i \in Items : DeleteDeduction(p, i) \/ \E name \in Names : EditDeduction(p, i, name)

BonusRequests(p) ==
  \/ \E name \in Names : CreateBonus(p, name)
  \/ \E i \in Items : DeleteBonus(p, i) \/ \E name \in Names : EditBonus(p, i, name)

PayGroupRequests(p) ==
  \/ \E name \in Names : CreatePayGroup(p, name)
  \/ \E i \in Items : DeletePayGroup(p, i)

SectionRequests(p) ==
  \/ \E name \in Names : CreateSection(p, name)
  \/ \E i \in Items : RemoveSection(p, i)

RegistryArrive(p) ==
  \/ OrganizationRequests(p) \/ UnitRequests(p) \/ SectionRequests(p)
  \/ AllowanceRequests(p) \/ DeductionRequests(p) \/ BonusRequests(p) \/ PayGroupRequests(p)

RegistryAdvance(p) == CreateCommit(p) \/ RenameCommit(p) \/ RemoveCommit(p)

-----------------------------------------------------------------------------
(* Properties.                                                             *)

\* Names are unique where the table has an index, whatever was validated before.
IndexedNamesAreUnique ==
  \A i, j \in DOMAIN items :
    items[i].kind \in Indexed /\ Is(j, items[i].kind, items[i].name) => i = j

\* Where there is no index, rows of one name come only of creations that were under
\* way at the same time: each was made by another handler, and none by a handler
\* that is still about to make one.  (Renaming looks at no other row, so this says
\* nothing of the tables whose rows can be renamed.)
NamesakesWereRaced ==
  /\ \A i, j \in DOMAIN items :
       /\ items[i].kind \notin Editable
       /\ Is(j, items[i].kind, items[i].name)
       /\ items[i].by = items[j].by
       => i = j
  /\ \A p \in Procs, i \in DOMAIN items :
       /\ At(p, "create")
       /\ Is(i, req[p].kind, req[p].name)
       => req[p].kind \in Editable \/ items[i].by # p
=============================================================================
