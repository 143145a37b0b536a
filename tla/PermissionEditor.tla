-------------------------- MODULE PermissionEditor --------------------------
(***************************************************************************)
(* Which role may do what: the stored permissions of the two roles that    *)
(* can be configured, and the editor in which a super admin changes them.  *)
(* The editor keeps the last matrix it received, a draft and a snapshot of *)
(* what it believes to be stored; loads and saves overlap, and a second    *)
(* super admin may save as well.                                           *)
(***************************************************************************)
EXTENDS Integers, FiniteSets

CONSTANTS Perms,          \* the permissions
          SuperPerms,     \* those an ADMIN does not get by default
          OfficePerms,    \* those BACK_OFFICE gets by default
          MatrixCalls,    \* bound on calls under way
          MaxMoves        \* bound on clicks in the editor

ASSUME EditorAssumption ==
  /\ SuperPerms \subseteq Perms /\ OfficePerms \subseteq Perms
  /\ MatrixCalls \in Nat \ {0} /\ MaxMoves \in Nat

VARIABLES grants,    \* the RolePermission rows, by role
          matrix,    \* cachedPermMatrix
          picked,    \* the role in the selection
          draft,     \* permDraft
          snapshot,  \* permSavedSnapshot
          sift,      \* the filter of the list on a phone
          touched,   \* permissions a click has settled since the last load
          puts,      \* calls under way
          behind,    \* the matrix is older than a save
          moves      \* clicks so far

editorVars == <<grants, matrix, picked, draft, snapshot, sift, touched, puts,
                behind, moves>>

Configurable == {"BACK_OFFICE", "ADMIN"}

OtherRole(role) == IF role = "ADMIN" THEN "BACK_OFFICE" ELSE "ADMIN"

\* The server's defaults, and the editor's own copy of them.
defaultPermissionsForRole(role) ==
  IF role = "BACK_OFFICE" THEN OfficePerms ELSE Perms \ SuperPerms

defaultPermsForRole(role) ==
  IF role = "BACK_OFFICE" THEN OfficePerms ELSE Perms \ SuperPerms

\* A role without any row has its defaults.
getPermissionsForRole(role) ==
  IF grants[role] = {} THEN defaultPermissionsForRole(role) ELSE grants[role]

listRoleMatrix == [role \in Configurable |-> getPermissionsForRole(role)]

\* A first start stores the defaults.
seedDefaultsIfEmpty == [role \in Configurable |-> defaultPermissionsForRole(role)]

-----------------------------------------------------------------------------
(* The editor *)

Click == moves < MaxMoves /\ moves' = moves + 1

CanCall == Cardinality(puts) < MatrixCalls

CallWith(op, role, perms) ==
  [op |-> op, at |-> "sent", role |-> role, perms |-> perms, base |-> snapshot,
   settled |-> touched, old |-> FALSE, got |-> matrix,
   slot |-> CHOOSE n \in 1..MatrixCalls : \A c \in puts : c.slot # n]

\* Draft and snapshot become what a matrix says about a role.
loadPermDraftFromRole(m, role) ==
  /\ draft' = m[role] /\ snapshot' = m[role] /\ touched' = {}

KeepDraft(role) ==
  /\ Click /\ picked' = role /\ role # picked
  /\ snapshot' = matrix[role]
  /\ UNCHANGED <<grants, matrix, draft, touched, sift, puts, behind>>

pickRole(role) ==
  /\ Click /\ picked' = role /\ role # picked
  /\ loadPermDraftFromRole(matrix, role)
  /\ UNCHANGED <<grants, matrix, sift, puts, behind>>

\* What the list shows under its filter.
filterPermItems ==
  CASE sift = "all" -> Perms
    [] sift = "enabled" -> draft
    [] sift = "disabled" -> Perms \ draft

setFilterOfPerms(f) ==
  /\ Click /\ f # sift /\ sift' = f
  /\ UNCHANGED <<grants, matrix, picked, draft, snapshot, touched, puts, behind>>

\* The boxes on the screen, and whether they are ticked.
renderRolePermissionCheckboxes == [p \in filterPermItems |-> p \in draft]

toggle(p) ==
  /\ Click /\ p \in DOMAIN renderRolePermissionCheckboxes
  /\ draft' = IF renderRolePermissionCheckboxes[p] THEN draft \ {p}
              ELSE draft \union {p}
  /\ touched' = touched \union {p}
  /\ UNCHANGED <<grants, matrix, picked, snapshot, sift, puts, behind>>

Unsaved == draft # snapshot

discard ==
  /\ Click /\ Unsaved /\ draft' = snapshot /\ touched' = {}
  /\ UNCHANGED <<grants, matrix, picked, snapshot, sift, puts, behind>>

\* Defaults of the role, or the stored permissions of the other one, become
\* the draft; the snapshot stays.
resetToDefaults ==
  /\ Click /\ draft' = defaultPermsForRole(picked) /\ touched' = Perms
  /\ UNCHANGED <<grants, matrix, picked, snapshot, sift, puts, behind>>

copyRole ==
  /\ Click /\ draft' = matrix[OtherRole(picked)] /\ touched' = Perms
  /\ UNCHANGED <<grants, matrix, picked, snapshot, sift, puts, behind>>

SaveShown ==
  /\ Click /\ Unsaved /\ CanCall
  /\ puts' = puts \union {CallWith("put", picked, draft \intersect filterPermItems)}
  /\ UNCHANGED <<grants, matrix, picked, draft, snapshot, sift, touched, behind>>

\* The whole draft is sent, the rows a filter hides included.
savePermissions ==
  /\ Click /\ Unsaved /\ CanCall
  /\ puts' = puts \union {CallWith("put", picked, draft)}
  /\ UNCHANGED <<grants, matrix, picked, draft, snapshot, sift, touched, behind>>

\* Opening the view, and the list of users, load the matrix: twice at once.
openView ==
  /\ Click /\ CanCall
  /\ puts' = puts \union {CallWith("get", picked, {})}
  /\ UNCHANGED <<grants, matrix, picked, draft, snapshot, sift, touched, behind>>

-----------------------------------------------------------------------------
(* PermissionsService *)

\* deleteMany and createMany are one transaction.
setRolePermissions(role, perms) == grants' = [grants EXCEPT ![role] = perms]

\* Answers read before the rows changed are old from now on.
Overtaken(cs) == {IF c.at = "done" /\ c.op = "get" THEN [c EXCEPT !.old = TRUE] ELSE c : c \in cs}

answerPut(c) ==
  /\ c \in puts /\ c.op = "put" /\ c.at = "sent"
  /\ setRolePermissions(c.role, c.perms)
  /\ behind' = TRUE
  /\ puts' = Overtaken(puts \ {c}) \union {[c EXCEPT !.at = "done"]}
  /\ UNCHANGED <<matrix, picked, draft, snapshot, sift, touched, moves>>

answerGet(c) ==
  /\ c \in puts /\ c.op = "get" /\ c.at = "sent"
  /\ puts' = (puts \ {c}) \union {[c EXCEPT !.at = "done", !.got = listRoleMatrix]}
  /\ UNCHANGED <<grants, matrix, picked, draft, snapshot, sift, touched, behind, moves>>

\* The other super admin saves; the editor does not hear of it.
otherSaves(role, perms) ==
  /\ Click /\ setRolePermissions(role, perms)
  /\ behind' = TRUE /\ puts' = Overtaken(puts)
  /\ UNCHANGED <<matrix, picked, draft, snapshot, sift, touched>>

\* A call fails; the error is shown.
failCall(c) ==
  /\ Click /\ c \in puts /\ c.at = "sent" /\ puts' = puts \ {c}
  /\ UNCHANGED <<grants, matrix, picked, draft, snapshot, sift, touched, behind>>

\* A matrix arrives: draft and snapshot of the role picked by now are set
\* from it, whatever was clicked meanwhile.
loadRolePermissionsMatrix(c) ==
  /\ c \in puts /\ c.op = "get" /\ c.at = "done"
  /\ matrix' = c.got /\ loadPermDraftFromRole(c.got, picked)
  /\ behind' = c.old
  /\ puts' = puts \ {c}
  /\ UNCHANGED <<grants, picked, sift, moves>>

\* After a save the matrix is loaded again.
permissionsSaved(c) ==
  /\ c \in puts /\ c.op = "put" /\ c.at = "done"
  /\ puts' = (puts \ {c}) \union {[c EXCEPT !.op = "get", !.at = "sent", !.perms = {}]}
  /\ UNCHANGED <<grants, matrix, picked, draft, snapshot, sift, touched, behind, moves>>

-----------------------------------------------------------------------------
EditorInit ==
  /\ grants = seedDefaultsIfEmpty
  /\ matrix = listRoleMatrix /\ picked = "BACK_OFFICE"
  /\ draft = matrix[picked] /\ snapshot = matrix[picked]
  /\ sift = "all" /\ touched = {} /\ puts = {} /\ behind = FALSE /\ moves = 0

EditorNext ==
  \/ \E role \in Configurable : pickRole(role)
  \/ \E f \in {"all", "enabled", "disabled"} : setFilterOfPerms(f)
  \/ \E p \in Perms : toggle(p)
  \/ discard \/ resetToDefaults \/ copyRole \/ savePermissions \/ openView
  \/ \E role \in Configurable, perms \in SUBSET Perms : otherSaves(role, perms)
  \/ \E c \in puts : \/ answerPut(c) \/ answerGet(c) \/ failCall(c)
                     \/ loadRolePermissionsMatrix(c) \/ permissionsSaved(c)

EditorSpec == EditorInit /\ [][EditorNext]_editorVars

-----------------------------------------------------------------------------
\* An editor that says "no unsaved changes", with no call under way and no
\* save its matrix has missed, shows what the role may really do, also after
\* an empty set was saved and the defaults took its place.
EditorShowsEffective ==
  puts = {} /\ ~behind /\ ~Unsaved => draft = getPermissionsForRole(picked)

\* A save differs from what the editor had loaded for that role only in
\* permissions a click has settled: filters, late answers and changes of the
\* role in the selection never add or drop another one.
UntouchedKept ==
  \A c \in puts : c.op = "put" =>
    \A p \in Perms \ c.settled : p \in c.perms <=> p \in c.base

\* The editor shows what holds, and a save keeps what nobody touched.
EditorInv == EditorShowsEffective /\ UntouchedKept
=============================================================================
