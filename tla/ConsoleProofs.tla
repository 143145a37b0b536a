--------------------------- MODULE ConsoleProofs ---------------------------
(***************************************************************************)
(* What the console keeps for any number of users, permissions, calls and  *)
(* clicks: the permission editor, the accounts and sessions, the retention *)
(* of logs, the promise of the next cleanup, the CHECK24 desk and the      *)
(* lists that staff work from.                                             *)
(***************************************************************************)
EXTENDS PermissionEditor, AdminAccess, LogRetention, PurgeClock,
        Check24Desk, ConsoleLists, FiniteSetTheorems, WellFoundedInduction, TLAPS

----------------------------------------------------------------------------
(* The permission editor.                                                  *)

Matrices == [Configurable -> SUBSET Perms]

CallFields == {"op", "at", "role", "perms", "base", "settled", "old", "got", "slot"}

EditorTypes ==
    /\ grants \in Matrices /\ matrix \in Matrices /\ picked \in Configurable
    /\ draft \subseteq Perms /\ snapshot \subseteq Perms /\ touched \subseteq Perms
    /\ \A c \in puts : DOMAIN c = CallFields /\ c.role \in Configurable
                       /\ c.perms \subseteq Perms /\ c.got \in Matrices

\* A matrix that no save has overtaken is the one in force: in the editor
\* and in an answer on its way to it.
MatrixInForce ==
    /\ ~behind => matrix = listRoleMatrix
    /\ \A c \in puts : c.op = "get" /\ c.at = "done" /\ ~c.old => c.got = listRoleMatrix

\* The draft differs from the snapshot only where a click has settled it.
DraftFollowsClicks ==
    /\ snapshot = matrix[picked]
    /\ \A p \in Perms \ touched : p \in draft <=> p \in snapshot

EditorIInv == EditorTypes /\ MatrixInForce /\ DraftFollowsClicks /\ UntouchedKept

LEMMA DefaultTypes ==
    /\ \A role \in Configurable : defaultPermissionsForRole(role) \subseteq Perms
    /\ \A role \in Configurable : defaultPermsForRole(role) \subseteq Perms
    /\ seedDefaultsIfEmpty \in Matrices
    /\ grants \in Matrices => listRoleMatrix \in Matrices
BY EditorAssumption DEF defaultPermissionsForRole, defaultPermsForRole, seedDefaultsIfEmpty,
   listRoleMatrix, getPermissionsForRole, Matrices

LEMMA EditorStart == EditorInit => EditorIInv
<1>. SUFFICES ASSUME EditorInit PROVE EditorIInv
    OBVIOUS
<1>1. picked \in Configurable /\ puts = {} /\ touched = {}
    BY DEF EditorInit, Configurable
<1>2. grants \in Matrices /\ matrix \in Matrices
    BY DefaultTypes DEF EditorInit
<1>3. EditorTypes
    BY <1>1, <1>2 DEF EditorInit, EditorTypes, Matrices
<1>. QED
    BY <1>1, <1>3 DEF EditorInit, EditorIInv, MatrixInForce, DraftFollowsClicks, UntouchedKept

\* A call that was just made: what it sends is what it was given.
LEMMA CallMade ==
    ASSUME NEW op, NEW role, NEW perms
    PROVE  LET c == CallWith(op, role, perms)
           IN /\ DOMAIN c = CallFields /\ c.op = op /\ c.at = "sent" /\ c.role = role
              /\ c.perms = perms /\ c.base = snapshot /\ c.settled = touched /\ c.got = matrix
BY DEF CallWith, CallFields

LEMMA EditorStep == EditorIInv /\ [EditorNext]_editorVars => EditorIInv'
<1>. SUFFICES ASSUME EditorIInv, [EditorNext]_editorVars PROVE EditorIInv'
    OBVIOUS
<1>. USE DEF EditorIInv
<1>t. /\ grants \in Matrices /\ matrix \in Matrices /\ picked \in Configurable
      /\ draft \subseteq Perms /\ snapshot \subseteq Perms /\ touched \subseteq Perms
      /\ \A c \in puts : DOMAIN c = CallFields /\ c.role \in Configurable
                         /\ c.perms \subseteq Perms /\ c.got \in Matrices
    BY DEF EditorTypes
<1>d. \A role \in Configurable : matrix[role] \subseteq Perms /\ OtherRole(role) \in Configurable
    BY <1>t DEF Matrices, Configurable, OtherRole
\* Steps that leave the calls and the stored rows alone.
<1>1. ASSUME UNCHANGED <<grants, matrix, puts, behind>>, snapshot' = matrix'[picked'],
             picked' \in Configurable, draft' \subseteq Perms, touched' \subseteq Perms,
             \A p \in Perms \ touched' : p \in draft' <=> p \in snapshot'
      PROVE  EditorIInv'
  <2>1. EditorTypes'
      BY <1>1, <1>t, <1>d DEF EditorTypes
  <2>2. MatrixInForce'
      BY <1>1 DEF MatrixInForce, listRoleMatrix, getPermissionsForRole
  <2>3. DraftFollowsClicks' /\ UntouchedKept'
      BY <1>1 DEF DraftFollowsClicks, UntouchedKept
  <2>. QED
      BY <2>1, <2>2, <2>3
\* Steps that only make a call.
<1>2. ASSUME UNCHANGED <<grants, matrix, behind, picked, draft, snapshot, touched>>,
             NEW op, NEW perms \in SUBSET Perms,
             puts' = puts \union {CallWith(op, picked, perms)},
             op = "put" => \A p \in Perms \ touched : p \in perms <=> p \in snapshot
      PROVE  EditorIInv'
  <2>. DEFINE c == CallWith(op, picked, perms)
  <2>1. /\ DOMAIN c = CallFields /\ c.op = op /\ c.at = "sent" /\ c.role = picked
        /\ c.perms = perms /\ c.base = snapshot /\ c.settled = touched /\ c.got = matrix
      BY CallMade
  <2>. HIDE DEF c
  <2>2. puts' = puts \union {c}
      BY <1>2 DEF c
  <2>3. EditorTypes'
      BY <1>2, <1>t, <2>1, <2>2 DEF EditorTypes
  <2>4. MatrixInForce'
      BY <1>2, <2>1, <2>2 DEF MatrixInForce, listRoleMatrix, getPermissionsForRole
  <2>5. DraftFollowsClicks' /\ UntouchedKept'
      BY <1>2, <2>1, <2>2 DEF DraftFollowsClicks, UntouchedKept
  <2>. QED
      BY <2>3, <2>4, <2>5
\* Steps that store permissions: whatever was read before is old.
<1>3. ASSUME NEW role \in Configurable, NEW perms \in SUBSET Perms,
             setRolePermissions(role, perms), behind' = TRUE,
             UNCHANGED <<matrix, picked, draft, snapshot, touched>>,
             \A c \in puts' : /\ DOMAIN c = CallFields /\ c.role \in Configurable
                              /\ c.perms \subseteq Perms /\ c.got \in Matrices
                              /\ c.op = "get" /\ c.at = "done" => c.old
                              /\ c.op = "put" => \A p \in Perms \ c.settled : p \in c.perms <=> p \in c.base
      PROVE  EditorIInv'
  <2>1. grants' \in Matrices
      BY <1>3, <1>t DEF setRolePermissions, Matrices
  <2>2. EditorTypes'
      BY <1>3, <1>t, <2>1 DEF EditorTypes
  <2>3. MatrixInForce'
      BY <1>3 DEF MatrixInForce
  <2>4. DraftFollowsClicks' /\ UntouchedKept'
      BY <1>3 DEF DraftFollowsClicks, UntouchedKept
  <2>. QED
      BY <2>2, <2>3, <2>4
<1>4. ASSUME NEW cs, cs \subseteq puts, NEW x \in Overtaken(cs)
      PROVE  /\ DOMAIN x = CallFields /\ x.role \in Configurable
             /\ x.perms \subseteq Perms /\ x.got \in Matrices
             /\ x.op = "get" /\ x.at = "done" => x.old
             /\ x.op = "put" => \A p \in Perms \ x.settled : p \in x.perms <=> p \in x.base
  <2>1. PICK c \in cs : x = IF c.at = "done" /\ c.op = "get" THEN [c EXCEPT !.old = TRUE] ELSE c
      BY <1>4 DEF Overtaken
  <2>2. /\ DOMAIN c = CallFields /\ c.role \in Configurable
        /\ c.perms \subseteq Perms /\ c.got \in Matrices
        /\ c.op = "put" => \A p \in Perms \ c.settled : p \in c.perms <=> p \in c.base
      BY <1>4, <1>t DEF UntouchedKept
  <2>3. /\ DOMAIN x = CallFields /\ x.role = c.role /\ x.perms = c.perms /\ x.got = c.got
        /\ x.op = c.op /\ x.at = c.at /\ x.settled = c.settled /\ x.base = c.base
        /\ x.op = "get" /\ x.at = "done" => x.old
      BY <2>1, <2>2 DEF CallFields
  <2>. QED
      BY <2>2, <2>3
<1>5. CASE UNCHANGED editorVars
    BY <1>5, <1>1, <1>t DEF editorVars, DraftFollowsClicks
<1>6. ASSUME NEW role \in Configurable, pickRole(role) PROVE EditorIInv'
    BY <1>6, <1>1, <1>t, <1>d DEF pickRole, loadPermDraftFromRole
<1>7. ASSUME NEW f, setFilterOfPerms(f) PROVE EditorIInv'
    BY <1>7, <1>1, <1>t DEF setFilterOfPerms, DraftFollowsClicks
<1>8. ASSUME NEW p \in Perms, toggle(p) PROVE EditorIInv'
  <2>1. renderRolePermissionCheckboxes[p] <=> p \in draft
      BY <1>8 DEF toggle, renderRolePermissionCheckboxes
  <2>2. /\ draft' = (IF p \in draft THEN draft \ {p} ELSE draft \union {p})
        /\ touched' = touched \union {p}
        /\ UNCHANGED <<grants, matrix, picked, snapshot, puts, behind>>
      BY <1>8, <2>1 DEF toggle
  <2>. QED
      BY <2>2, <1>1, <1>t DEF DraftFollowsClicks
<1>9. CASE discard
    BY <1>9, <1>1, <1>t DEF discard, DraftFollowsClicks
<1>10. CASE resetToDefaults
    BY <1>10, <1>1, <1>t, DefaultTypes DEF resetToDefaults, DraftFollowsClicks
<1>11. CASE copyRole
    BY <1>11, <1>1, <1>t, <1>d DEF copyRole, DraftFollowsClicks
<1>12. CASE savePermissions
    BY <1>12, <1>2, <1>t DEF savePermissions, DraftFollowsClicks
<1>13. CASE openView
    BY <1>13, <1>2, <1>t DEF openView
<1>14. ASSUME NEW role \in Configurable, NEW perms \in SUBSET Perms, otherSaves(role, perms)
       PROVE  EditorIInv'
    BY <1>14, <1>3, <1>4 DEF otherSaves
<1>15. ASSUME NEW c \in puts, answerPut(c) PROVE EditorIInv'
  <2>. DEFINE d == [c EXCEPT !.at = "done"]
  <2>1. /\ DOMAIN d = CallFields /\ d.role = c.role /\ d.perms = c.perms /\ d.got = c.got
        /\ d.op = "put" /\ d.settled = c.settled /\ d.base = c.base
      BY <1>15, <1>t DEF answerPut, CallFields
  <2>. HIDE DEF d
  <2>2. /\ setRolePermissions(c.role, c.perms) /\ behind' = TRUE /\ c.op = "put"
        /\ puts' = Overtaken(puts \ {c}) \union {d}
        /\ UNCHANGED <<matrix, picked, draft, snapshot, touched>>
      BY <1>15 DEF answerPut, d
  <2>3. puts \ {c} \subseteq puts
      OBVIOUS
  <2>4. \A x \in puts' : /\ DOMAIN x = CallFields /\ x.role \in Configurable
                         /\ x.perms \subseteq Perms /\ x.got \in Matrices
                         /\ x.op = "get" /\ x.at = "done" => x.old
                         /\ x.op = "put" => \A p \in Perms \ x.settled : p \in x.perms <=> p \in x.base
    <3>. SUFFICES ASSUME NEW x \in puts'
                  PROVE  /\ DOMAIN x = CallFields /\ x.role \in Configurable
                         /\ x.perms \subseteq Perms /\ x.got \in Matrices
                         /\ x.op = "get" /\ x.at = "done" => x.old
                         /\ x.op = "put" => \A p \in Perms \ x.settled : p \in x.perms <=> p \in x.base
        OBVIOUS
    <3>1. CASE x = d
        BY <3>1, <2>1, <2>2, <1>t DEF UntouchedKept
    <3>2. CASE x \in Overtaken(puts \ {c})
        BY <3>2, <2>3, <1>4
    <3>. QED
        BY <2>2, <3>1, <3>2
  <2>. QED
      BY <2>2, <2>4, <1>3, <1>t
\* Steps that end a call or move it on.
<1>16. ASSUME NEW c \in puts, NEW d, puts' \subseteq puts \union {d}, UNCHANGED <<grants, matrix, behind, picked, draft, snapshot, touched>>,
              DOMAIN d = CallFields, d.role = c.role, d.perms \subseteq Perms, d.op = "get", d.got \in Matrices,
              d.at = "sent" \/ d.got = listRoleMatrix
       PROVE  EditorIInv'
  <2>1. EditorTypes'
      BY <1>16, <1>t DEF EditorTypes
  <2>2. MatrixInForce'
      BY <1>16 DEF MatrixInForce, listRoleMatrix, getPermissionsForRole
  <2>3. DraftFollowsClicks' /\ UntouchedKept'
      BY <1>16 DEF DraftFollowsClicks, UntouchedKept
  <2>. QED
      BY <2>1, <2>2, <2>3
<1>17. ASSUME NEW c \in puts, answerGet(c) PROVE EditorIInv'
  <2>. DEFINE d == [c EXCEPT !.at = "done", !.got = listRoleMatrix]
  <2>1. /\ DOMAIN d = CallFields /\ d.role = c.role /\ d.perms = c.perms /\ d.got = listRoleMatrix
        /\ d.op = "get"
      BY <1>17, <1>t DEF answerGet, CallFields
  <2>. HIDE DEF d
  <2>2. puts' \subseteq puts \union {d} /\ UNCHANGED <<grants, matrix, behind, picked, draft, snapshot, touched>>
      BY <1>17 DEF answerGet, d
  <2>. QED
      BY <2>1, <2>2, <1>16, <1>t, DefaultTypes
<1>18. ASSUME NEW c \in puts, failCall(c) PROVE EditorIInv'
  <2>1. puts' \subseteq puts /\ UNCHANGED <<grants, matrix, behind, picked, draft, snapshot, touched>>
      BY <1>18 DEF failCall
  <2>2. EditorTypes'
      BY <2>1, <1>t DEF EditorTypes
  <2>3. MatrixInForce'
      BY <2>1 DEF MatrixInForce, listRoleMatrix, getPermissionsForRole
  <2>4. DraftFollowsClicks' /\ UntouchedKept'
      BY <2>1 DEF DraftFollowsClicks, UntouchedKept
  <2>. QED
      BY <2>2, <2>3, <2>4
<1>19. ASSUME NEW c \in puts, loadRolePermissionsMatrix(c) PROVE EditorIInv'
  <2>1. /\ c.op = "get" /\ c.at = "done" /\ matrix' = c.got /\ behind' = c.old /\ puts' \subseteq puts
        /\ UNCHANGED <<grants, picked>> /\ touched' = {} /\ draft' = c.got[picked] /\ snapshot' = c.got[picked]
      BY <1>19 DEF loadRolePermissionsMatrix, loadPermDraftFromRole
  <2>2. EditorTypes'
      BY <2>1, <1>t DEF EditorTypes, Matrices
  <2>3. MatrixInForce'
      BY <2>1 DEF MatrixInForce, listRoleMatrix, getPermissionsForRole
  <2>4. DraftFollowsClicks' /\ UntouchedKept'
      BY <2>1 DEF DraftFollowsClicks, UntouchedKept
  <2>. QED
      BY <2>2, <2>3, <2>4
<1>20. ASSUME NEW c \in puts, permissionsSaved(c) PROVE EditorIInv'
  <2>. DEFINE d == [c EXCEPT !.op = "get", !.at = "sent", !.perms = {}]
  <2>1. /\ DOMAIN d = CallFields /\ d.role = c.role /\ d.perms = {} /\ d.got = c.got
        /\ d.op = "get" /\ d.at = "sent"
      BY <1>20, <1>t DEF permissionsSaved, CallFields
  <2>. HIDE DEF d
  <2>2. puts' \subseteq puts \union {d} /\ UNCHANGED <<grants, matrix, behind, picked, draft, snapshot, touched>>
      BY <1>20 DEF permissionsSaved, d
  <2>. QED
      BY <2>1, <2>2, <1>16, <1>t
<1>. QED
    BY <1>5, <1>6, <1>7, <1>8, <1>9, <1>10, <1>11, <1>12, <1>13, <1>14, <1>15, <1>17, <1>18,
       <1>19, <1>20 DEF EditorNext

LEMMA EditorGives == EditorIInv => EditorInv
<1>. SUFFICES ASSUME EditorIInv PROVE EditorInv
    OBVIOUS
<1>1. EditorShowsEffective
  <2>. SUFFICES ASSUME ~behind, ~Unsaved PROVE draft = getPermissionsForRole(picked)
      BY DEF EditorShowsEffective
  <2>. QED
      BY DEF EditorIInv, EditorTypes, MatrixInForce, DraftFollowsClicks, Unsaved, listRoleMatrix
<1>. QED
    BY <1>1 DEF EditorIInv, EditorInv

\* For any permissions and any order of loads, saves, answers and clicks: an
\* editor without unsaved changes shows what the role may really do, and a
\* save changes only what somebody clicked (app.js, loadRolePermissionsMatrix
\* and savePermissions; permissions.service.ts).
THEOREM EditorTheorem == EditorSpec => []EditorInv
<1>. QED
    BY EditorStart, EditorStep, EditorGives, PTL DEF EditorSpec

----------------------------------------------------------------------------
(* Accounts, requests, logins and the session of a browser.                *)

RequestFields == {"actor", "op", "target", "role", "active", "at", "saw", "then", "slot", "legit"}
LoginFields == {"who", "right", "role", "slot"}
FetchFields == {"who", "tab", "own", "verdict", "slot"}

Browser == [who : Users \cup {Anonymous}, role : Roles, at : {"login", "restoring", "app"},
            tab : Tabs, url : Tabs, poll : BOOLEAN]

IsRequest(r) ==
    /\ DOMAIN r = RequestFields /\ r.actor \in Users /\ r.target \in Users
    /\ r.role \in Roles \cup {"KEEP"} /\ r.active \in {"KEEP", "yes", "no"}
    /\ r.op = "create" => r.role = "SUPER_ADMIN" /\ r.active = "yes"

IsLogin(l) == DOMAIN l = LoginFields /\ l.who \in Users /\ l.role \in Roles

AccessTypes ==
    /\ users \in [Users -> Accounts] /\ raced \in BOOLEAN /\ browser \in Browser
    /\ \A r \in requests : IsRequest(r)
    /\ \A l \in logins : IsLogin(l)
    /\ \A f \in fetches : DOMAIN f = FetchFields

\* A session belongs to an account; while a browser is logged in, the calls
\* of its session carry its user.
SessionHasUser == browser.at # "login" => browser.who \in Users

OwnCalls == browser.at = "app" => \A f \in fetches : f.own => f.who = browser.who

\* A request that has passed the guard came from a super admin, and one from
\* somebody who is a super admin now is known to.
Legitimate ==
    \A r \in requests : /\ r.at # "sent" => r.legit
                        /\ IsSuper(users[r.actor]) /\ r.at = "sent" => r.legit

\* A request about to take away a super admin, or one that may and has not
\* seen that it would, still finds a second one.
NeedsTwo(r) ==
    /\ IsSuper(users[r.target])
    /\ \/ r.at = "read" /\ r.saw.role # "SUPER_ADMIN"
       \/ r.at = "checked" /\ ~IsSuper(AccountAfter(r))

SuperStays ==
    ~raced => /\ countActiveSuperAdmins(users) > 0
              /\ \A r \in requests : NeedsTwo(r) => countActiveSuperAdmins(users) > 1

\* A login under way may still add one failure.
Pending(u) == {l \in logins : l.who = u /\ l.role = "NONE"}

AttemptsCounted ==
    /\ IsFiniteSet(logins) /\ attempts \in [Users -> Nat]
    /\ \A u \in Users : attempts[u] + Cardinality(Pending(u)) <= Limit - 1 + MaxLogins

AccessIInv ==
    AccessTypes /\ SessionHasUser /\ TabAllowed /\ OwnCalls /\ Legitimate /\ SuperStays /\ AttemptsCounted

LEMMA OneMore ==
    ASSUME NEW S, IsFiniteSet(S), NEW x
    PROVE  /\ IsFiniteSet(S \cup {x}) /\ Cardinality(S) \in Nat /\ Cardinality(S \cup {x}) \in Nat
           /\ Cardinality(S \cup {x}) <= Cardinality(S) + 1
<1>1. IsFiniteSet(S \cup {x}) /\ Cardinality(S) \in Nat /\ Cardinality(S \cup {x}) \in Nat
    BY FS_AddElement, FS_CardinalityType
<1>2. Cardinality(S \cup {x}) = IF x \in S THEN Cardinality(S) ELSE Cardinality(S) + 1
    BY FS_AddElement
<1>. QED
    BY <1>1, <1>2

\* The number of super admins when one account changes.
LEMMA CountChange ==
    ASSUME NEW f \in [Users -> Accounts], NEW t \in Users, NEW a \in Accounts, NEW g,
           g = [f EXCEPT ![t] = a]
    PROVE  /\ countActiveSuperAdmins(f) \in Nat /\ countActiveSuperAdmins(g) \in Nat
           /\ IsSuper(a) \/ ~IsSuper(f[t]) => countActiveSuperAdmins(g) >= countActiveSuperAdmins(f)
           /\ IsSuper(a) /\ ~IsSuper(f[t]) => countActiveSuperAdmins(g) = countActiveSuperAdmins(f) + 1
           /\ countActiveSuperAdmins(g) >= countActiveSuperAdmins(f) - 1
<1>. DEFINE F == {u \in Users : IsSuper(f[u])}
            G == {u \in Users : IsSuper(g[u])}
<1>1. IsFiniteSet(F) /\ IsFiniteSet(G) /\ Cardinality(F) \in Nat /\ Cardinality(G) \in Nat
    BY AccessBounds, FS_Subset, FS_CardinalityType
<1>2. \A u \in Users : g[u] = IF u = t THEN a ELSE f[u]
    OBVIOUS
<1>3. CASE IsSuper(a)
  <2>1. G = F \cup {t}
      BY <1>2, <1>3
  <2>2. t \in F <=> IsSuper(f[t])
      OBVIOUS
  <2>. HIDE DEF F, G
  <2>3. Cardinality(G) = IF t \in F THEN Cardinality(F) ELSE Cardinality(F) + 1
      BY <1>1, <2>1, FS_AddElement
  <2>. QED
      BY <1>1, <1>3, <2>2, <2>3 DEF countActiveSuperAdmins, F, G
<1>4. CASE ~IsSuper(a)
  <2>1. G = F \ {t}
      BY <1>2, <1>4
  <2>2. t \in F <=> IsSuper(f[t])
      OBVIOUS
  <2>. HIDE DEF F, G
  <2>3. Cardinality(G) = IF t \in F THEN Cardinality(F) - 1 ELSE Cardinality(F)
      BY <1>1, <2>1, FS_RemoveElement
  <2>. QED
      BY <1>1, <1>4, <2>2, <2>3 DEF countActiveSuperAdmins, F, G
<1>. QED
    BY <1>3, <1>4

\* What a new request, and a request on its way, consist of.
LEMMA RequestMade ==
    ASSUME NEW slot, NEW actor \in Users, NEW op, NEW target \in Users,
           NEW role \in Roles \cup {"KEEP"}, NEW active \in {"KEEP", "yes", "no"},
           op = "create" => role = "SUPER_ADMIN" /\ active = "yes"
    PROVE  LET r == Request(slot, actor, op, target, role, active)
           IN IsRequest(r) /\ r.at = "sent" /\ r.actor = actor
              /\ r.legit = IsSuper(users[actor])
BY DEF Request, IsRequest, RequestFields

LEMMA RequestMoved ==
    ASSUME NEW r, IsRequest(r), NEW at, NEW saw, NEW then, NEW legit
    PROVE  /\ LET q == [r EXCEPT !.at = at]
              IN IsRequest(q) /\ q.at = at /\ q.actor = r.actor /\ q.target = r.target
                 /\ q.op = r.op /\ q.role = r.role /\ q.active = r.active
                 /\ q.saw = r.saw /\ q.legit = r.legit
           /\ LET q == [r EXCEPT !.at = at, !.saw = saw]
              IN IsRequest(q) /\ q.at = at /\ q.actor = r.actor /\ q.target = r.target
                 /\ q.op = r.op /\ q.role = r.role /\ q.active = r.active
                 /\ q.saw = saw /\ q.legit = r.legit
           /\ LET q == [r EXCEPT !.then = then]
              IN IsRequest(q) /\ q.at = r.at /\ q.actor = r.actor /\ q.legit = r.legit
           /\ LET q == [r EXCEPT !.legit = legit]
              IN IsRequest(q) /\ q.at = r.at /\ q.actor = r.actor /\ q.legit = legit
BY DEF IsRequest, RequestFields

LEMMA FormRoles ==
    ASSUME NEW a PROVE loadUserIntoForm(a) \in Roles
BY AccessStart DEF loadUserIntoForm

LEMMA AfterType ==
    ASSUME AccessTypes, NEW r, IsRequest(r) PROVE AccountAfter(r) \in Accounts
BY DEF AccessTypes, IsRequest, AccountAfter, Accounts

\* A form that was sent makes one request.
LEMMA Submitted ==
    ASSUME AccessTypes, submitUserForm
    PROVE  \E new : /\ requests' = requests \cup {new} /\ IsRequest(new) /\ new.at = "sent"
                    /\ new.legit = IsSuper(users[new.actor])
<1>1. PICK actor \in Users, target \in Users :
            IF users[target] = Absent THEN addUser(actor, target)
            ELSE saveUser(actor, target) \/ deactivateUser(actor, target)
    BY DEF submitUserForm
<1>2. CASE addUser(actor, target)
  <2>. DEFINE made == Request(NewSlot, actor, "create", target, "SUPER_ADMIN", "yes")
  <2>1. IsRequest(made) /\ made.at = "sent" /\ made.actor = actor /\ made.legit = IsSuper(users[actor])
      BY RequestMade, AccessStart
  <2>2. PICK then : requests' = requests \cup {[made EXCEPT !.then = then]}
      BY <1>2 DEF addUser
  <2>. HIDE DEF made
  <2>. DEFINE new == [made EXCEPT !.then = then]
  <2>3. IsRequest(new) /\ new.at = "sent" /\ new.actor = actor /\ new.legit = IsSuper(users[actor])
      BY <2>1 DEF IsRequest, RequestFields
  <2>. HIDE DEF new
  <2>. QED
      BY <2>2, <2>3 DEF new
<1>3. CASE saveUser(actor, target)
  <2>1. PICK role \in Roles, active \in {"yes", "no"} :
            requests' = requests \cup {Request(NewSlot, actor, "update", target, role, active)}
      BY <1>3, FormRoles, AccessStart DEF saveUser
  <2>. DEFINE made == Request(NewSlot, actor, "update", target, role, active)
  <2>2. IsRequest(made) /\ made.at = "sent" /\ made.actor = actor /\ made.legit = IsSuper(users[actor])
      BY RequestMade
  <2>. HIDE DEF made
  <2>. QED
      BY <2>1, <2>2 DEF made
<1>4. CASE deactivateUser(actor, target)
  <2>. DEFINE made == Request(NewSlot, actor, "remove", target, "KEEP", "no")
  <2>1. IsRequest(made) /\ made.at = "sent" /\ made.actor = actor /\ made.legit = IsSuper(users[actor])
      BY RequestMade
  <2>2. requests' = requests \cup {made}
      BY <1>4 DEF deactivateUser
  <2>. HIDE DEF made
  <2>. QED
      BY <2>1, <2>2
<1>. QED
    BY <1>1, <1>2, <1>3, <1>4

\* What a write does to the requests that remain.
Seen(q) == IF q.at = "sent" THEN [q EXCEPT !.legit = @ \/ IsSuper(users'[q.actor])] ELSE q

LEMMA WriteMakes ==
    ASSUME AccessTypes, NEW r \in requests, write(r)
    PROVE  \/ users' = users /\ raced' = raced /\ requests' \subseteq requests
           \/ /\ users' = [users EXCEPT ![r.target] = AccountAfter(r)]
              /\ raced' = (raced \/ ( /\ countActiveSuperAdmins(users') < countActiveSuperAdmins(users)
                                      /\ \E q \in requests \ {r} : q.at \in {"read", "checked"}))
              /\ \A x \in requests' :
                    \E q : /\ IsRequest(q) /\ x = Seen(q)
                           /\ q \in requests \/ (q.at = "sent" /\ q.legit = IsSuper(users[q.actor]))
                           /\ q.at \in {"read", "checked"} => q # r
<1>1. CASE Refused(r)
    BY <1>1 DEF Refused
<1>2. CASE \E lost \in {r.then = "KEEP", TRUE} :
             AccountsBecome([users EXCEPT ![r.target] = AccountAfter(r)],
               IF lost THEN requests \ {r}
               ELSE Replace(r, Request(r.slot, r.actor, "update", r.target, "KEEP", "no")))
  <2>. DEFINE new == [users EXCEPT ![r.target] = AccountAfter(r)]
              made == Request(r.slot, r.actor, "update", r.target, "KEEP", "no")
  <2>1. PICK lost \in {r.then = "KEEP", TRUE} :
            AccountsBecome(new, IF lost THEN requests \ {r} ELSE Replace(r, made))
      BY <1>2
  <2>2. IsRequest(r)
      BY DEF AccessTypes
  <2>3. IsRequest(made) /\ made.at = "sent" /\ made.actor = r.actor
        /\ made.legit = IsSuper(users[r.actor])
      BY <2>2, RequestMade DEF IsRequest
  <2>. HIDE DEF new, made
  <2>. DEFINE rest == IF lost THEN requests \ {r} ELSE Replace(r, made)
  <2>4. rest \subseteq (requests \ {r}) \cup {made} /\ requests \ {r} \subseteq rest
      BY DEF Replace
  <2>. HIDE DEF rest
  <2>5. /\ users' = new
        /\ raced' = (raced \/ ( /\ countActiveSuperAdmins(new) < countActiveSuperAdmins(users)
                                /\ \E q \in rest : q.at \in {"read", "checked"}))
        /\ requests' = {IF q.at = "sent" THEN [q EXCEPT !.legit = @ \/ IsSuper(new[q.actor])]
                        ELSE q : q \in rest}
      BY <2>1 DEF AccountsBecome, rest
  <2>6. (\E q \in rest : q.at \in {"read", "checked"})
            <=> (\E q \in requests \ {r} : q.at \in {"read", "checked"})
      BY <2>3, <2>4
  <2>7. ASSUME NEW x \in requests'
        PROVE  \E q : /\ IsRequest(q) /\ x = Seen(q)
                      /\ q \in requests \/ (q.at = "sent" /\ q.legit = IsSuper(users[q.actor]))
                      /\ q.at \in {"read", "checked"} => q # r
    <3>1. PICK q \in rest : x = Seen(q)
        BY <2>5 DEF Seen
    <3>2. q \in requests \ {r} \/ q = made
        BY <2>4
    <3>. QED
        BY <3>1, <3>2, <2>3 DEF AccessTypes
  <2>. QED
      BY <2>5, <2>6, <2>7 DEF new
<1>. QED
    BY <1>1, <1>2 DEF write

LEMMA SeenKeeps ==
    ASSUME NEW q, IsRequest(q)
    PROVE  /\ IsRequest(Seen(q)) /\ Seen(q).at = q.at /\ Seen(q).actor = q.actor
           /\ q.at = "sent" => (Seen(q).legit <=> q.legit \/ IsSuper(users'[q.actor]))
           /\ q.at # "sent" => Seen(q) = q
BY DEF Seen, IsRequest, RequestFields

----------------------------------------------------------------------------
LEMMA AccessStartInv == AccessInit => AccessIInv
<1>. SUFFICES ASSUME AccessInit PROVE AccessIInv
    OBVIOUS
<1>1. users \in [Users -> Accounts] /\ \E u \in Users : IsSuper(users[u])
    BY AccessStart DEF AccessInit
<1>2. browser \in Browser /\ browser.at = "login"
    BY AccessStart DEF AccessInit, Browser, Tabs
<1>3. AccessTypes
    BY <1>1, <1>2 DEF AccessInit, AccessTypes
<1>4. SessionHasUser /\ TabAllowed /\ OwnCalls /\ Legitimate
    BY <1>2 DEF AccessInit, SessionHasUser, TabAllowed, OwnCalls, Legitimate
<1>5. countActiveSuperAdmins(users) > 0
  <2>. DEFINE S == {u \in Users : IsSuper(users[u])}
  <2>1. IsFiniteSet(S) /\ S # {} /\ Cardinality(S) \in Nat
      BY <1>1, AccessBounds, FS_Subset, FS_CardinalityType
  <2>2. Cardinality(S) # 0
      BY <2>1, FS_EmptySet
  <2>. HIDE DEF S
  <2>. QED
      BY <2>1, <2>2 DEF countActiveSuperAdmins, S
<1>6. SuperStays
    BY <1>5 DEF AccessInit, SuperStays
<1>7. AttemptsCounted
  <2>1. IsFiniteSet(logins) /\ attempts \in [Users -> Nat]
        /\ \A u \in Users : attempts[u] = 0 /\ Pending(u) = {}
      BY FS_EmptySet DEF AccessInit, Pending
  <2>2. \A u \in Users : Cardinality(Pending(u)) = 0
      BY <2>1, FS_EmptySet
  <2>3. 0 + 0 <= Limit - 1 + MaxLogins
      BY AccessBounds
  <2>. QED
      BY <2>1, <2>2, <2>3 DEF AttemptsCounted
<1>. QED
    BY <1>3, <1>4, <1>6, <1>7 DEF AccessIInv

----------------------------------------------------------------------------
(* Types. *)

LEMMA ShownIsBrowser ==
    ASSUME browser \in Browser, NEW who \in Users, NEW role \in Roles
    PROVE  /\ showApp(who, role) \in Browser
           /\ showApp(who, role).who = who /\ showApp(who, role).at = "app"
           /\ showApp(who, role).role = role
           /\ NavOf[role] # {} => hasPermission(role, showApp(who, role).tab)
<1>1. browser.tab \in Tabs /\ browser.url \in Tabs
    BY DEF Browser
<1>2. FirstTab(role) \in Tabs /\ (NavOf[role] # {} => hasPermission(role, FirstTab(role)))
  <2>1. CASE hasPermission(role, "dashboard")
      BY <2>1 DEF FirstTab, Tabs, hasPermission
  <2>2. CASE ~hasPermission(role, "dashboard") /\ hasPermission(role, "payments")
      BY <2>2 DEF FirstTab, Tabs, hasPermission
  <2>3. CASE ~hasPermission(role, "dashboard") /\ ~hasPermission(role, "payments")
    <3>1. NavOf[role] \subseteq {"users"}
        BY <2>3, AccessStart DEF hasPermission, Tabs
    <3>2. CASE NavOf[role] = {"users"}
        BY <2>3, <3>2 DEF FirstTab, Tabs, hasPermission
    <3>3. CASE NavOf[role] = {}
        BY <2>3, <3>3 DEF FirstTab, Tabs, hasPermission
    <3>. QED
        BY <3>1, <3>2, <3>3
  <2>. QED
      BY <2>1, <2>2, <2>3
<1>. DEFINE tab == applyTabFromUrl(role, applyRoleUi(role, browser.tab), browser.url)
<1>3. tab \in Tabs /\ (NavOf[role] # {} => hasPermission(role, tab))
    BY <1>1, <1>2 DEF applyTabFromUrl, applyRoleUi
<1>. HIDE DEF tab
<1>. DEFINE b == [who |-> who, role |-> role, at |-> "app", tab |-> tab,
                  url |-> browser.url, poll |-> FALSE]
<1>4. b \in Browser /\ b.who = who /\ b.at = "app" /\ b.role = role /\ b.tab = tab
    BY <1>1, <1>3 DEF Browser
<1>5. showApp(who, role) = [b EXCEPT !.poll = b.tab \in Polled]
    BY DEF showApp, manageDashboardPoll, tab
<1>. DEFINE p == b.tab \in Polled
<1>. HIDE DEF b, p
<1>6. /\ [b EXCEPT !.poll = p] \in Browser
      /\ [b EXCEPT !.poll = p].who = who /\ [b EXCEPT !.poll = p].at = "app"
      /\ [b EXCEPT !.poll = p].role = role /\ [b EXCEPT !.poll = p].tab = tab
  <2>1. p \in BOOLEAN
      BY DEF p
  <2>. QED
      BY <1>4, <2>1 DEF Browser
<1>. QED
    BY <1>3, <1>5, <1>6 DEF p

LEMMA OutIsBrowser ==
    ASSUME browser \in Browser
    PROVE  LoggedOut(browser) \in Browser /\ LoggedOut(browser).at = "login"
BY AccessStart DEF LoggedOut, Browser

\* A call of the page.
LEMMA CallOfPage ==
    ASSUME NEW b, NEW others, api(b, others)
    PROVE  \E f : /\ fetches' = others \cup {f} /\ DOMAIN f = FetchFields
                  /\ f.who = b.who /\ (f.own <=> b.at = "app")
<1>. DEFINE f == [who |-> b.who, tab |-> b.tab, own |-> b.at = "app",
                  verdict |-> "none", slot |-> Slot(others, MaxFetches)]
<1>1. fetches' = others \cup {f}
    BY DEF api
<1>2. DOMAIN f = FetchFields /\ f.who = b.who /\ (f.own <=> b.at = "app")
    BY DEF FetchFields
<1>. HIDE DEF f
<1>. QED
    BY <1>1, <1>2

----------------------------------------------------------------------------
(* One step, by what it touches: the page, the logins, the accounts.       *)

PageInv ==
    /\ browser \in Browser /\ \A f \in fetches : DOMAIN f = FetchFields
    /\ SessionHasUser /\ TabAllowed /\ OwnCalls

LEMMA PageStep == AccessTypes /\ PageInv /\ [AccessNext]_accessVars => PageInv'
<1>. SUFFICES ASSUME AccessTypes, PageInv, [AccessNext]_accessVars PROVE PageInv'
    OBVIOUS
<1>. USE DEF PageInv
<1>1. CASE UNCHANGED <<browser, fetches>>
    BY <1>1 DEF SessionHasUser, TabAllowed, OwnCalls, hasPermission
<1>2. ASSUME browser' \in Browser, browser'.at # "app", browser'.at # "login" => browser'.who \in Users,
             \A f \in fetches' : DOMAIN f = FetchFields
      PROVE  PageInv'
    BY <1>2 DEF SessionHasUser, TabAllowed, OwnCalls
<1>3. ASSUME browser' \in Browser, NEW others, api(browser', others),
             browser'.at # "login" => browser'.who \in Users,
             \A f \in others : DOMAIN f = FetchFields,
             \A f \in others : browser'.at = "app" => (f.own => f.who = browser'.who),
             browser'.at = "app" /\ NavOf[browser'.role] # {} => hasPermission(browser'.role, browser'.tab)
      PROVE  PageInv'
  <2>1. PICK f : /\ fetches' = others \cup {f} /\ DOMAIN f = FetchFields
                 /\ f.who = browser'.who /\ (f.own <=> browser'.at = "app")
      BY <1>3, CallOfPage
  <2>2. TabAllowed'
      BY <1>3 DEF TabAllowed, hasPermission
  <2>3. OwnCalls' /\ SessionHasUser'
      BY <1>3, <2>1 DEF OwnCalls, SessionHasUser
  <2>. QED
      BY <1>3, <2>1, <2>2, <2>3
<1>4. CASE submitUserForm \/ seedAdmin \/ \E r \in requests : guard(r) \/ findUnique(r) \/ check(r) \/ write(r)
    BY <1>4, <1>1 DEF submitUserForm, seedAdmin, guard, findUnique, check, write
<1>5. CASE \/ \E u \in Users, right \in BOOLEAN : submitLogin(u, right)
           \/ \E l \in logins : login(l)
           \/ \E u \in Users : windowEnds(u)
    BY <1>5, <1>1 DEF submitLogin, login, windowEnds
<1>6. ASSUME NEW l \in logins, loggedIn(l) PROVE PageInv'
  <2>. DEFINE others == {[f EXCEPT !.own = FALSE] : f \in fetches}
  <2>1. /\ browser' \in Browser /\ browser'.at = "app" /\ browser'.who \in Users
        /\ NavOf[browser'.role] # {} => hasPermission(browser'.role, browser'.tab)
      BY <1>6, ShownIsBrowser DEF loggedIn, AccessTypes, IsLogin
  <2>2. \A f \in others : DOMAIN f = FetchFields /\ f.own = FALSE
      BY DEF FetchFields
  <2>3. api(browser', others)
      BY <1>6 DEF loggedIn
  <2>. HIDE DEF others
  <2>. QED
      BY <2>1, <2>2, <2>3, <1>3
<1>7. CASE logout
    BY <1>7, <1>2, OutIsBrowser DEF logout
<1>8. CASE reloadPage
  <2>1. browser' \in Browser /\ browser'.at = "restoring" /\ browser'.who \in Users
      BY <1>8 DEF reloadPage, Browser, Tabs, SessionHasUser
  <2>. QED
      BY <1>8, <2>1, <1>2 DEF reloadPage
<1>9. CASE tick
  <2>1. browser' = browser /\ api(browser', fetches)
      BY <1>9 DEF tick
  <2>. QED
      BY <2>1, <1>3 DEF OwnCalls, TabAllowed, SessionHasUser
<1>10. ASSUME NEW tab \in Tabs, activateTab(tab) PROVE PageInv'
  <2>. DEFINE b == [browser EXCEPT !.tab = tab, !.url = tab]
              p == b.tab \in Polled
  <2>1. browser.at = "app" /\ hasPermission(browser.role, tab) /\ browser' = [b EXCEPT !.poll = p]
        /\ api(browser', fetches)
      BY <1>10 DEF activateTab, manageDashboardPoll
  <2>2. b \in Browser /\ b.who = browser.who /\ b.at = browser.at /\ b.role = browser.role /\ b.tab = tab
      BY DEF Browser
  <2>3. p \in BOOLEAN
      OBVIOUS
  <2>. HIDE DEF b, p
  <2>4. browser' \in Browser /\ browser'.who = browser.who /\ browser'.at = "app"
        /\ browser'.role = browser.role /\ browser'.tab = tab
      BY <2>1, <2>2, <2>3 DEF Browser
  <2>. QED
      BY <2>1, <2>4, <1>3 DEF OwnCalls, SessionHasUser
<1>11. ASSUME NEW reached \in BOOLEAN, restoreSession(reached) PROVE PageInv'
  <2>1. CASE reached /\ users[browser.who].active /\ browser.who \in Users
    <3>1. users[browser.who].role \in Roles
        BY <2>1 DEF AccessTypes, Accounts
    <3>2. /\ browser' \in Browser /\ browser'.at = "app" /\ browser'.who \in Users
          /\ NavOf[browser'.role] # {} => hasPermission(browser'.role, browser'.tab)
          /\ api(browser', {})
        BY <1>11, <2>1, <3>1, ShownIsBrowser DEF restoreSession
    <3>. QED
        BY <3>2, <1>3
  <2>2. CASE ~(reached /\ users[browser.who].active)
    <3>1. browser' = LoggedOut(browser)
        BY <1>11, <2>2 DEF restoreSession
    <3>2. browser' \in Browser /\ browser'.at = "login" /\ fetches' = fetches
        BY <1>11, <3>1, OutIsBrowser DEF restoreSession
    <3>. QED
        BY <3>2, <1>2
  <2>3. browser.who \in Users
      BY <1>11 DEF restoreSession, SessionHasUser
  <2>. QED
      BY <2>1, <2>2, <2>3
<1>12. ASSUME NEW f \in fetches, serveFetch(f) PROVE PageInv'
  <2>. DEFINE g == [f EXCEPT !.verdict = Verdict(f)]
  <2>1. DOMAIN g = FetchFields /\ g.who = f.who /\ g.own = f.own
      BY DEF FetchFields
  <2>2. fetches' = (fetches \ {f}) \cup {g} /\ browser' = browser
      BY <1>12 DEF serveFetch
  <2>. HIDE DEF g
  <2>. QED
      BY <2>1, <2>2 DEF SessionHasUser, TabAllowed, OwnCalls, hasPermission
<1>13. ASSUME NEW f \in fetches, answered(f) PROVE PageInv'
  <2>1. CASE EndsSession(f)
      BY <1>13, <2>1, <1>2, OutIsBrowser DEF answered
  <2>2. CASE ~EndsSession(f)
      BY <1>13, <2>2 DEF answered, SessionHasUser, TabAllowed, OwnCalls, hasPermission
  <2>. QED
      BY <2>1, <2>2
<1>. QED
    BY <1>1, <1>4, <1>5, <1>6, <1>7, <1>8, <1>9, <1>10, <1>11, <1>12, <1>13
    DEF AccessNext, accessVars, Tabs

LoginInv == AttemptsCounted /\ \A l \in logins : IsLogin(l)

LEMMA LoginStep == AccessTypes /\ LoginInv /\ [AccessNext]_accessVars => LoginInv'
<1>. SUFFICES ASSUME AccessTypes, LoginInv, [AccessNext]_accessVars PROVE LoginInv'
    OBVIOUS
<1>0. /\ IsFiniteSet(logins) /\ attempts \in [Users -> Nat] /\ Limit \in Nat /\ Limit > 0 /\ MaxLogins \in Nat
      /\ \A u \in Users : attempts[u] + Cardinality(Pending(u)) <= Limit - 1 + MaxLogins
      /\ \A l \in logins : IsLogin(l)
    BY AccessBounds DEF LoginInv, AttemptsCounted
<1>f. \A u \in Users : IsFiniteSet(Pending(u)) /\ Cardinality(Pending(u)) \in Nat
    BY <1>0, FS_Subset, FS_CardinalityType DEF Pending
<1>1. CASE UNCHANGED <<attempts, logins>>
    BY <1>1 DEF LoginInv, AttemptsCounted, Pending, IsLogin, LoginFields
\* A sufficient condition, user by user.
<1>2. ASSUME IsFiniteSet(logins'), attempts' \in [Users -> Nat], \A l \in logins' : IsLogin(l),
             \A u \in Users : \/ attempts'[u] = 0 /\ Pending(u)' \subseteq Pending(u)
                              \/ attempts'[u] = attempts[u] /\ Pending(u)' \subseteq Pending(u)
                              \/ attempts'[u] + Cardinality(Pending(u)') <= Limit - 1 + MaxLogins
      PROVE  LoginInv'
  <2>1. ASSUME NEW u \in Users PROVE attempts'[u] + Cardinality(Pending(u)') <= Limit - 1 + MaxLogins
    <3>1. CASE Pending(u)' \subseteq Pending(u)
      <4>1. Cardinality(Pending(u)') <= Cardinality(Pending(u)) /\ Cardinality(Pending(u)') \in Nat
          BY <3>1, <1>f, FS_Subset, FS_CardinalityType
      <4>2. attempts[u] \in Nat /\ attempts'[u] \in Nat /\ Cardinality(Pending(u)) \in Nat
            /\ attempts[u] + Cardinality(Pending(u)) <= Limit - 1 + MaxLogins
          BY <1>0, <1>2, <1>f
      <4>3. \/ attempts'[u] = 0 \/ attempts'[u] = attempts[u]
            \/ attempts'[u] + Cardinality(Pending(u)') <= Limit - 1 + MaxLogins
          BY <1>2
      <4>. QED
          BY <4>1, <4>2, <4>3, <1>0
    <3>. QED
        BY <3>1, <1>2
  <2>. QED
      BY <2>1, <1>2 DEF LoginInv, AttemptsCounted
<1>3. CASE submitUserForm \/ \E r \in requests : guard(r) \/ findUnique(r) \/ check(r) \/ write(r)
    BY <1>3, <1>1 DEF submitUserForm, guard, findUnique, check, write
<1>4. CASE seedAdmin
  <2>1. logins' = {} /\ attempts' = [u \in Users |-> 0] /\ IsFiniteSet(logins')
      BY <1>4, FS_EmptySet DEF seedAdmin
  <2>2. \A u \in Users : Pending(u)' \subseteq Pending(u) /\ attempts'[u] = 0
      BY <2>1 DEF Pending
  <2>. QED
      BY <2>1, <2>2, <1>2
<1>5. ASSUME NEW u \in Users, NEW right \in BOOLEAN, submitLogin(u, right) PROVE LoginInv'
  <2>. DEFINE l == [who |-> u, right |-> right, role |-> "NONE", slot |-> Slot(logins, MaxLogins)]
  <2>1. logins' = logins \cup {l} /\ attempts' = attempts /\ attempts[u] < Limit /\ Cardinality(logins) < MaxLogins
      BY <1>5 DEF submitLogin, assertLoginRateLimit
  <2>2. IsLogin(l) /\ l.who = u
      BY AccessStart DEF IsLogin, LoginFields
  <2>. HIDE DEF l
  <2>3. IsFiniteSet(logins') /\ Cardinality(logins) \in Nat /\ Cardinality(logins') <= Cardinality(logins) + 1
        /\ Cardinality(logins') \in Nat
      BY <1>0, <2>1, OneMore
  <2>4. \A v \in Users : v # u => Pending(v)' \subseteq Pending(v)
      BY <2>1, <2>2 DEF Pending
  <2>5. attempts'[u] + Cardinality(Pending(u)') <= Limit - 1 + MaxLogins
    <3>1. Pending(u)' \subseteq logins'
        BY DEF Pending
    <3>2. Cardinality(Pending(u)') \in Nat /\ Cardinality(Pending(u)') <= Cardinality(logins')
        BY <2>3, <3>1, FS_Subset, FS_CardinalityType
    <3>. QED
        BY <1>0, <2>1, <2>3, <3>2
  <2>. QED
      BY <1>0, <2>1, <2>2, <2>3, <2>4, <2>5, <1>2
<1>6. ASSUME NEW l \in logins, login(l) PROVE LoginInv'
  <2>0. l.who \in Users /\ DOMAIN l = LoginFields /\ l.role = "NONE" /\ IsLogin(l)
      BY <1>0, <1>6 DEF IsLogin, login
  <2>1. CASE users[l.who].active /\ l.right
    <3>. DEFINE m == [l EXCEPT !.role = users[l.who].role]
    <3>1. attempts' = [attempts EXCEPT ![l.who] = 0] /\ logins' = (logins \ {l}) \cup {m}
        BY <1>6, <2>1 DEF login
    <3>2. IsLogin(m) /\ m.who = l.who
        BY <2>0 DEF IsLogin, LoginFields, AccessTypes, Accounts
    <3>. HIDE DEF m
    <3>3. IsFiniteSet(logins')
        BY <1>0, <3>1, FS_AddElement, FS_RemoveElement
    <3>4. \A v \in Users : v # l.who => Pending(v)' \subseteq Pending(v) /\ attempts'[v] = attempts[v]
        BY <1>0, <3>1, <3>2 DEF Pending
    <3>5. attempts'[l.who] + Cardinality(Pending(l.who)') <= Limit - 1 + MaxLogins
      <4>. DEFINE P == Pending(l.who)
                  D == P \ {l}
                  Q == D \cup {m}
      <4>1. Pending(l.who)' \subseteq Q /\ l \in P
          BY <2>0, <3>1 DEF Pending
      <4>2. IsFiniteSet(P) /\ Cardinality(P) \in Nat /\ attempts[l.who] + Cardinality(P) <= Limit - 1 + MaxLogins
            /\ attempts[l.who] \in Nat
          BY <1>0, <1>f, <2>0
      <4>. HIDE DEF P
      <4>3. IsFiniteSet(D) /\ Cardinality(D) = Cardinality(P) - 1
          BY <4>1, <4>2, FS_RemoveElement
      <4>. HIDE DEF D
      <4>4. IsFiniteSet(Q) /\ Cardinality(Q) <= Cardinality(P) /\ Cardinality(Q) \in Nat
        <5>1. IsFiniteSet(Q) /\ Cardinality(Q) <= Cardinality(D) + 1 /\ Cardinality(Q) \in Nat
            BY <4>3, OneMore, Zenon
        <5>. HIDE DEF Q
        <5>. QED
            BY <4>2, <4>3, <5>1
      <4>. HIDE DEF Q
      <4>5. Cardinality(Pending(l.who)') \in Nat /\ Cardinality(Pending(l.who)') <= Cardinality(Q)
          BY <4>1, <4>4, FS_Subset, FS_CardinalityType
      <4>6. attempts'[l.who] = 0
          BY <1>0, <2>0, <3>1
      <4>. QED
          BY <1>0, <4>2, <4>4, <4>5, <4>6
    <3>6. attempts' \in [Users -> Nat]
        BY <1>0, <3>1
    <3>. QED
        BY <1>0, <3>1, <3>2, <3>3, <3>4, <3>5, <3>6, <1>2
  <2>2. CASE ~(users[l.who].active /\ l.right)
    <3>1. attempts' = [attempts EXCEPT ![l.who] = @ + 1] /\ logins' = logins \ {l}
        BY <1>6, <2>2 DEF login, recordFailedLogin
    <3>2. IsFiniteSet(logins') /\ attempts' \in [Users -> Nat]
        BY <1>0, <2>0, <3>1, FS_RemoveElement
    <3>3. \A v \in Users : v # l.who => Pending(v)' \subseteq Pending(v) /\ attempts'[v] = attempts[v]
        BY <1>0, <3>1 DEF Pending
    <3>4. attempts'[l.who] + Cardinality(Pending(l.who)') <= Limit - 1 + MaxLogins
      <4>. DEFINE P == Pending(l.who)
      <4>1. Pending(l.who)' = P \ {l} /\ l \in P
          BY <2>0, <3>1 DEF Pending
      <4>2. IsFiniteSet(P) /\ Cardinality(P) \in Nat /\ attempts[l.who] + Cardinality(P) <= Limit - 1 + MaxLogins
            /\ attempts[l.who] \in Nat
          BY <1>0, <1>f, <2>0
      <4>. HIDE DEF P
      <4>3. Cardinality(P \ {l}) = Cardinality(P) - 1
          BY <4>1, <4>2, FS_RemoveElement
      <4>4. attempts'[l.who] = attempts[l.who] + 1
          BY <1>0, <2>0, <3>1
      <4>. QED
          BY <1>0, <4>1, <4>2, <4>3, <4>4
    <3>. QED
        BY <1>0, <3>1, <3>2, <3>3, <3>4, <1>2
  <2>. QED
      BY <2>1, <2>2
<1>7. ASSUME NEW l \in logins, loggedIn(l) PROVE LoginInv'
  <2>1. logins' = logins \ {l} /\ attempts' = attempts
      BY <1>7 DEF loggedIn
  <2>2. IsFiniteSet(logins') /\ \A u \in Users : Pending(u)' \subseteq Pending(u)
      BY <1>0, <2>1, FS_RemoveElement DEF Pending
  <2>. QED
      BY <1>0, <2>1, <2>2, <1>2
<1>8. ASSUME NEW u \in Users, windowEnds(u) PROVE LoginInv'
  <2>1. logins' = logins /\ attempts' = [attempts EXCEPT ![u] = 0]
      BY <1>8 DEF windowEnds
  <2>2. attempts' \in [Users -> Nat] /\ \A v \in Users : Pending(v)' \subseteq Pending(v)
      BY <1>0, <2>1 DEF Pending
  <2>3. \A v \in Users : attempts'[v] = 0 \/ attempts'[v] = attempts[v]
      BY <1>0, <2>1
  <2>. QED
      BY <1>0, <2>1, <2>2, <2>3, <1>2
<1>9. CASE \/ logout \/ reloadPage \/ tick
           \/ \E tab \in Tabs : activateTab(tab)
           \/ \E reached \in BOOLEAN : restoreSession(reached)
           \/ \E f \in fetches : serveFetch(f) \/ answered(f)
    BY <1>9, <1>1 DEF logout, reloadPage, tick, activateTab, restoreSession, serveFetch, answered
<1>10. CASE UNCHANGED accessVars
    BY <1>10, <1>1 DEF accessVars
<1>. QED
    BY <1>3, <1>4, <1>5, <1>6, <1>7, <1>8, <1>9, <1>10 DEF AccessNext, Tabs

AccountInv ==
    /\ users \in [Users -> Accounts] /\ raced \in BOOLEAN /\ \A r \in requests : IsRequest(r)
    /\ Legitimate /\ SuperStays

LEMMA AccountStep == AccessTypes /\ AccountInv /\ [AccessNext]_accessVars => AccountInv'
<1>. SUFFICES ASSUME AccessTypes, AccountInv, [AccessNext]_accessVars PROVE AccountInv'
    OBVIOUS
<1>0. /\ users \in [Users -> Accounts] /\ raced \in BOOLEAN
      /\ \A r \in requests : IsRequest(r)
      /\ \A r \in requests : r.at # "sent" => r.legit
      /\ \A r \in requests : IsSuper(users[r.actor]) /\ r.at = "sent" => r.legit
      /\ ~raced => countActiveSuperAdmins(users) > 0
      /\ ~raced => \A r \in requests : NeedsTwo(r) => countActiveSuperAdmins(users) > 1
    BY DEF AccountInv, Legitimate, SuperStays
\* Steps that move requests and leave the accounts.
<1>1. ASSUME UNCHANGED <<users, raced>>,
             \A x \in requests' :
                \/ x \in requests
                \/ /\ IsRequest(x) /\ (x.at # "sent" \/ IsSuper(users[x.actor]) => x.legit)
                   /\ NeedsTwo(x) /\ ~raced => countActiveSuperAdmins(users) > 1
      PROVE  AccountInv'
  <2>1. Legitimate'
      BY <1>0, <1>1 DEF Legitimate
  <2>2. \A x : NeedsTwo(x)' <=> NeedsTwo(x)
      BY <1>1 DEF NeedsTwo, AccountAfter
  <2>3. SuperStays'
      BY <1>0, <1>1, <2>2 DEF SuperStays
  <2>4. \A x \in requests' : IsRequest(x)
      BY <1>0, <1>1
  <2>. QED
      BY <1>0, <1>1, <2>1, <2>3, <2>4 DEF AccountInv, IsRequest
<1>2. CASE submitUserForm
  <2>1. PICK new : /\ requests' = requests \cup {new} /\ IsRequest(new) /\ new.at = "sent"
                   /\ new.legit = IsSuper(users[new.actor])
      BY <1>2, Submitted
  <2>2. UNCHANGED <<users, raced>> /\ ~NeedsTwo(new)
      BY <1>2, <2>1 DEF submitUserForm, NeedsTwo
  <2>. QED
      BY <2>1, <2>2, <1>1
<1>3. CASE seedAdmin
  <2>. DEFINE a == [role |-> "SUPER_ADMIN", active |-> users[Boss] = Absent \/ users[Boss].active]
  <2>1. users' = [users EXCEPT ![Boss] = a] /\ requests' = {} /\ raced' = raced
      BY <1>3 DEF seedAdmin
  <2>2. a \in Accounts /\ Boss \in Users /\ (IsSuper(a) \/ ~IsSuper(users[Boss]))
      BY AccessBounds, AccessStart DEF Accounts, IsSuper
  <2>. HIDE DEF a
  <2>3. users' \in [Users -> Accounts] /\ countActiveSuperAdmins(users') >= countActiveSuperAdmins(users)
        /\ countActiveSuperAdmins(users') \in Nat /\ countActiveSuperAdmins(users) \in Nat
      BY <1>0, <2>1, <2>2, CountChange
  <2>4. Legitimate'
      BY <2>1 DEF Legitimate
  <2>5. SuperStays'
      BY <1>0, <2>1, <2>3 DEF SuperStays
  <2>. QED
      BY <1>0, <2>1, <2>3, <2>4, <2>5 DEF AccountInv
<1>4. ASSUME NEW r \in requests, guard(r) PROVE AccountInv'
  <2>. DEFINE q == [r EXCEPT !.at = "admitted"]
  <2>1. /\ IsRequest(q) /\ q.at = "admitted" /\ q.actor = r.actor /\ q.legit = r.legit
      BY <1>0 DEF IsRequest, RequestFields
  <2>. HIDE DEF q
  <2>2. ~NeedsTwo(q)
      BY <2>1 DEF NeedsTwo
  <2>3. r.at = "sent" /\ UNCHANGED <<users, raced>>
      BY <1>4 DEF guard
  <2>4. CASE IsSuper(users[r.actor])
    <3>1. requests' = (requests \ {r}) \cup {q}
        BY <1>4, <2>4 DEF guard, validate, Replace, q
    <3>2. r.legit
        BY <1>0, <2>3, <2>4
    <3>. QED
        BY <2>1, <2>2, <2>3, <3>1, <3>2, <1>1
  <2>5. CASE ~IsSuper(users[r.actor])
      BY <1>4, <2>3, <2>5, <1>1 DEF guard, validate
  <2>. QED
      BY <2>4, <2>5
<1>5. ASSUME NEW r \in requests, findUnique(r) PROVE AccountInv'
  <2>. DEFINE q == [r EXCEPT !.at = "read", !.saw = users[r.target]]
  <2>1. /\ IsRequest(q) /\ q.at = "read" /\ q.actor = r.actor /\ q.target = r.target /\ q.legit = r.legit
        /\ q.saw = users[r.target]
      BY <1>0 DEF IsRequest, RequestFields
  <2>. HIDE DEF q
  <2>2. ~NeedsTwo(q)
      BY <2>1 DEF NeedsTwo, IsSuper
  <2>3. r.at = "admitted" /\ UNCHANGED <<users, raced>>
      BY <1>5 DEF findUnique, Refused
  <2>4. requests' = (requests \ {r}) \cup {q} \/ requests' = requests \ {r}
      BY <1>5 DEF findUnique, Refused, Replace, q
  <2>5. r.legit
      BY <1>0, <2>3
  <2>. QED
      BY <2>1, <2>2, <2>3, <2>4, <2>5, <1>1
<1>6. ASSUME NEW r \in requests, check(r) PROVE AccountInv'
  <2>. DEFINE q == [r EXCEPT !.at = "checked"]
  <2>1. /\ IsRequest(q) /\ q.at = "checked" /\ q.actor = r.actor /\ q.target = r.target
        /\ q.op = r.op /\ q.role = r.role /\ q.active = r.active /\ q.legit = r.legit
      BY <1>0 DEF IsRequest, RequestFields
  <2>. HIDE DEF q
  <2>2. r.at = "read" /\ UNCHANGED <<users, raced>>
      BY <1>6 DEF check, Refused
  <2>3. \/ requests' = requests \ {r}
        \/ /\ requests' = (requests \ {r}) \cup {q}
           /\ r.op = "create" \/ (assertCanChangeSuperAdminRole(r) /\ assertCanDeactivate(r))
      BY <1>6 DEF check, Refused, Replace, q
  <2>4. ASSUME NeedsTwo(q), ~raced,
               r.op = "create" \/ (assertCanChangeSuperAdminRole(r) /\ assertCanDeactivate(r))
        PROVE  countActiveSuperAdmins(users) > 1
    <3>1. IsSuper(users[r.target]) /\ ~IsSuper(AccountAfter(q))
        BY <2>1, <2>4 DEF NeedsTwo
    <3>2. \/ r.role \notin {"KEEP", "SUPER_ADMIN"} \/ r.active \notin {"KEEP", "yes"}
        BY <2>1, <3>1 DEF AccountAfter, IsSuper
    <3>3. r.op # "create" /\ r.active \in {"KEEP", "yes", "no"}
        BY <1>0, <3>2 DEF IsRequest
    <3>4. CASE r.saw.role = "SUPER_ADMIN"
        BY <2>4, <3>2, <3>3, <3>4 DEF assertCanChangeSuperAdminRole, assertCanDeactivate
    <3>5. CASE r.saw.role # "SUPER_ADMIN"
        BY <1>0, <2>2, <2>4, <3>1, <3>5 DEF NeedsTwo
    <3>. QED
        BY <3>4, <3>5
  <2>5. r.legit
      BY <1>0, <2>2
  <2>. QED
      BY <2>1, <2>2, <2>3, <2>4, <2>5, <1>1
<1>7. ASSUME NEW r \in requests, write(r) PROVE AccountInv'
  <2>. DEFINE a == AccountAfter(r)
  <2>1. a \in Accounts /\ r.target \in Users /\ r.at = "checked"
      BY <1>0, <1>7, AfterType DEF IsRequest, write
  <2>2. CASE users' = users /\ raced' = raced /\ requests' \subseteq requests
      BY <2>2, <1>1
  <2>3. CASE /\ users' = [users EXCEPT ![r.target] = AccountAfter(r)]
             /\ raced' = (raced \/ ( /\ countActiveSuperAdmins(users') < countActiveSuperAdmins(users)
                                     /\ \E q \in requests \ {r} : q.at \in {"read", "checked"}))
             /\ \A x \in requests' :
                   \E q : /\ IsRequest(q) /\ x = Seen(q)
                          /\ q \in requests \/ (q.at = "sent" /\ q.legit = IsSuper(users[q.actor]))
                          /\ q.at \in {"read", "checked"} => q # r
    <3>. DEFINE before == countActiveSuperAdmins(users)
                after == countActiveSuperAdmins(users')
    <3>1. /\ users' \in [Users -> Accounts] /\ before \in Nat /\ after \in Nat /\ after >= before - 1
          /\ IsSuper(a) \/ ~IsSuper(users[r.target]) => after >= before
          /\ IsSuper(a) /\ ~IsSuper(users[r.target]) => after = before + 1
        BY <1>0, <2>1, <2>3, CountChange
    <3>2. \A x \in requests' : IsRequest(x) /\ (x.at # "sent" \/ IsSuper(users'[x.actor]) => x.legit)
      <4>. SUFFICES ASSUME NEW x \in requests'
                    PROVE  IsRequest(x) /\ (x.at # "sent" \/ IsSuper(users'[x.actor]) => x.legit)
          OBVIOUS
      <4>1. PICK q : /\ IsRequest(q) /\ x = Seen(q)
                     /\ q \in requests \/ (q.at = "sent" /\ q.legit = IsSuper(users[q.actor]))
          BY <2>3
      <4>2. q.at = "sent" \/ q.legit
          BY <1>0, <4>1
      <4>. QED
          BY <4>1, <4>2, SeenKeeps
    <3>3. raced' \in BOOLEAN
        BY <1>0, <2>3
    <3>4. ASSUME ~raced' PROVE after > 0
      <4>1. ~raced
          BY <1>0, <2>3, <3>4
      <4>2. CASE IsSuper(a) \/ ~IsSuper(users[r.target])
          BY <1>0, <3>1, <4>1, <4>2
      <4>3. CASE ~IsSuper(a) /\ IsSuper(users[r.target])
        <5>1. NeedsTwo(r)
            BY <2>1, <4>3 DEF NeedsTwo
        <5>2. before > 1
            BY <1>0, <4>1, <5>1
        <5>. QED
            BY <3>1, <5>2
      <4>. QED
          BY <4>2, <4>3
    <3>5. ASSUME ~raced', NEW x \in requests', NeedsTwo(x)' PROVE after > 1
      <4>0. ~raced
          BY <1>0, <2>3, <3>5
      <4>1. PICK q : /\ IsRequest(q) /\ x = Seen(q)
                     /\ q \in requests \/ (q.at = "sent" /\ q.legit = IsSuper(users[q.actor]))
                     /\ q.at \in {"read", "checked"} => q # r
          BY <2>3
      <4>2. x.at \in {"read", "checked"}
          BY <3>5 DEF NeedsTwo
      <4>3. x = q /\ q \in requests \ {r}
          BY <4>1, <4>2, SeenKeeps
      <4>4. after >= before
        <5>1. ~(after < before)
            BY <2>3, <3>5, <4>2, <4>3
        <5>. HIDE DEF after, before
        <5>. QED
            BY <3>1, <5>1
      <4>5. CASE NeedsTwo(x)
          BY <1>0, <3>1, <4>0, <4>3, <4>4, <4>5
      <4>6. CASE ~NeedsTwo(x)
        <5>1. IsSuper(users'[x.target]) /\ x.target \in Users
            BY <3>5, <4>1, <4>3 DEF NeedsTwo, IsRequest
        <5>2. CASE IsSuper(users[x.target])
          <6>1. IsSuper(AccountAfter(x)) <=> IsSuper(AccountAfter(x)')
              BY <5>1, <5>2 DEF AccountAfter, IsSuper
          <6>. QED
              BY <3>5, <4>6, <5>2, <6>1 DEF NeedsTwo, IsSuper
        <5>3. CASE ~IsSuper(users[x.target])
          <6>1. x.target = r.target /\ IsSuper(a)
              BY <1>0, <2>1, <2>3, <5>1, <5>3
          <6>2. after = before + 1 /\ before > 0
              BY <1>0, <3>1, <4>0, <5>3, <6>1
          <6>. QED
              BY <3>1, <6>2
        <5>. QED
            BY <5>2, <5>3
      <4>. QED
          BY <4>5, <4>6
    <3>6. SuperStays'
        BY <3>4, <3>5 DEF SuperStays
    <3>7. Legitimate'
        BY <3>2 DEF Legitimate
    <3>. QED
        BY <3>1, <3>2, <3>3, <3>6, <3>7 DEF AccountInv, IsRequest
  <2>. QED
      BY <1>0, <1>7, <2>2, <2>3, WriteMakes
<1>8. CASE \/ \E u \in Users, right \in BOOLEAN : submitLogin(u, right)
           \/ \E l \in logins : login(l) \/ loggedIn(l)
           \/ \E u \in Users : windowEnds(u)
           \/ logout \/ reloadPage \/ tick
    BY <1>8, <1>1 DEF submitLogin, login, loggedIn, windowEnds, logout, reloadPage, tick
<1>9. CASE \/ \E tab \in Tabs : activateTab(tab)
           \/ \E reached \in BOOLEAN : restoreSession(reached)
           \/ \E f \in fetches : serveFetch(f) \/ answered(f)
           \/ UNCHANGED accessVars
    BY <1>9, <1>1 DEF activateTab, restoreSession, serveFetch, answered, accessVars
<1>. QED
    BY <1>2, <1>3, <1>4, <1>5, <1>6, <1>7, <1>8, <1>9 DEF AccessNext, Tabs

----------------------------------------------------------------------------
LEMMA AccessStep == AccessIInv /\ [AccessNext]_accessVars => AccessIInv'
<1>. SUFFICES ASSUME AccessIInv, [AccessNext]_accessVars PROVE AccessIInv'
    OBVIOUS
<1>1. AccessTypes /\ PageInv /\ LoginInv /\ AccountInv
    BY DEF AccessIInv, AccessTypes, PageInv, LoginInv, AccountInv
<1>2. PageInv' /\ LoginInv' /\ AccountInv'
    BY <1>1, PageStep, LoginStep, AccountStep
<1>. QED
    BY <1>2 DEF AccessIInv, AccessTypes, PageInv, LoginInv, AccountInv

LEMMA AccessGives == AccessIInv => AccessInv
<1>. SUFFICES ASSUME AccessIInv PROVE AccessInv
    OBVIOUS
<1>1. AttemptsBounded
  <2>. SUFFICES ASSUME NEW u \in Users PROVE attempts[u] < Limit + MaxLogins
      BY DEF AttemptsBounded
  <2>1. Cardinality(Pending(u)) \in Nat
      BY FS_Subset, FS_CardinalityType DEF AccessIInv, AttemptsCounted, Pending
  <2>2. attempts[u] \in Nat /\ attempts[u] + Cardinality(Pending(u)) <= Limit - 1 + MaxLogins
      BY DEF AccessIInv, AttemptsCounted
  <2>. QED
      BY <2>1, <2>2, AccessBounds
<1>2. SuperAdminRemains
    BY DEF AccessIInv, SuperStays, SuperAdminRemains
<1>. QED
    BY <1>1, <1>2 DEF AccessIInv, AccessInv

\* For any number of accounts, requests and browsers' calls: an active super
\* admin remains unless a request was overtaken between its count and its
\* write (admin-users.service.ts), failed logins stay below the limit plus the
\* logins under way (admin-auth.service.ts), and a page stands on a tab its
\* role may see (app.js, applyRoleUi).
THEOREM AccessTheorem == AccessSpec => []AccessInv
<1>. QED
    BY AccessStartInv, AccessStep, AccessGives, PTL DEF AccessSpec

\* What the two action properties say of a single step.
ChangeByAdmin ==
    \A u \in Users : users'[u] # users[u] =>
       \/ u = Boss /\ requests' = {}
       \/ \E r \in requests : r.at = "checked" /\ r.target = u /\ r.legit

EndForCause ==
    browser.at = "app" /\ browser'.at = "login" /\ fetches' # fetches =>
       \E f \in fetches \ fetches' : f.own => f.who = browser.who /\ f.verdict = "401"

LEMMA ChangeStep == AccessIInv /\ [AccessNext]_accessVars => [ChangeByAdmin]_accessVars
<1>. SUFFICES ASSUME AccessIInv, AccessNext, NEW u \in Users, users'[u] # users[u]
              PROVE  \/ u = Boss /\ requests' = {}
                     \/ \E r \in requests : r.at = "checked" /\ r.target = u /\ r.legit
    BY DEF ChangeByAdmin
<1>0. users \in [Users -> Accounts] /\ \A r \in requests : r.at # "sent" => r.legit
    BY DEF AccessIInv, AccessTypes, Legitimate
<1>1. CASE seedAdmin
    BY <1>0, <1>1 DEF seedAdmin
<1>2. ASSUME NEW r \in requests, write(r)
      PROVE  r.at = "checked" /\ r.target = u /\ r.legit
  <2>1. r.at = "checked" /\ r.legit
      BY <1>0, <1>2 DEF write
  <2>2. r.target = u
      BY <1>0, <1>2, WriteMakes DEF AccessIInv
  <2>. QED
      BY <2>1, <2>2
<1>3. CASE \/ submitUserForm
           \/ \E r \in requests : guard(r) \/ findUnique(r) \/ check(r)
           \/ \E v \in Users, right \in BOOLEAN : submitLogin(v, right)
           \/ \E l \in logins : login(l) \/ loggedIn(l)
           \/ \E v \in Users : windowEnds(v)
           \/ logout \/ reloadPage \/ tick
    BY <1>3 DEF submitUserForm, guard, findUnique, check, Refused, submitLogin, login, loggedIn,
       windowEnds, logout, reloadPage, tick
<1>4. CASE \/ \E tab \in Tabs : activateTab(tab)
           \/ \E reached \in BOOLEAN : restoreSession(reached)
           \/ \E f \in fetches : serveFetch(f) \/ answered(f)
    BY <1>4 DEF activateTab, restoreSession, serveFetch, answered
<1>. QED
    BY <1>1, <1>2, <1>3, <1>4 DEF AccessNext, Tabs

LEMMA EndStep == AccessIInv /\ [AccessNext]_accessVars => [EndForCause]_accessVars
<1>. SUFFICES ASSUME AccessIInv, AccessNext, browser.at = "app", browser'.at = "login", fetches' # fetches
              PROVE  \E f \in fetches \ fetches' : f.own => f.who = browser.who /\ f.verdict = "401"
    BY DEF EndForCause
<1>1. ASSUME NEW f \in fetches, answered(f)
      PROVE  \E g \in fetches \ fetches' : g.own => g.who = browser.who /\ g.verdict = "401"
  <2>1. fetches' = fetches \ {f} /\ EndsSession(f)
      BY <1>1 DEF answered
  <2>. QED
      BY <2>1 DEF EndsSession, AccessIInv, OwnCalls
<1>2. CASE \/ submitUserForm \/ seedAdmin
           \/ \E r \in requests : guard(r) \/ findUnique(r) \/ check(r) \/ write(r)
           \/ \E v \in Users, right \in BOOLEAN : submitLogin(v, right)
           \/ \E l \in logins : login(l)
           \/ \E v \in Users : windowEnds(v)
           \/ logout \/ tick
    BY <1>2 DEF submitUserForm, seedAdmin, guard, findUnique, check, write, submitLogin, login,
       windowEnds, logout, tick
<1>3. CASE \/ reloadPage
           \/ \E reached \in BOOLEAN : restoreSession(reached)
           \/ \E f \in fetches : serveFetch(f)
  <2>1. browser \in Browser
      BY DEF AccessIInv, AccessTypes
  <2>. QED
      BY <1>3, <2>1 DEF reloadPage, restoreSession, serveFetch, Browser
<1>4. ASSUME NEW l \in logins, loggedIn(l) PROVE FALSE
    BY <1>4, ShownIsBrowser DEF loggedIn, AccessIInv, AccessTypes, IsLogin
<1>5. ASSUME NEW tab \in Tabs, activateTab(tab) PROVE FALSE
  <2>. DEFINE b == [browser EXCEPT !.tab = tab, !.url = tab]
  <2>1. browser' = [b EXCEPT !.poll = b.tab \in Polled]
      BY <1>5 DEF activateTab, manageDashboardPoll
  <2>2. b \in Browser /\ b.at = "app"
      BY DEF Browser, AccessIInv, AccessTypes
  <2>. HIDE DEF b
  <2>. QED
      BY <2>1, <2>2 DEF Browser
<1>. QED
    BY <1>1, <1>2, <1>3, <1>4, <1>5 DEF AccessNext, Tabs

\* For any number of accounts, requests and calls: an account changes only at
\* the hands of somebody who was an active super admin since sending the
\* request, or at a restart; a session ends by itself only because of a 401
\* (admin-users.service.ts, roles.guard.ts, app.js).
THEOREM AccessStepsTheorem == AccessSpec => AccessSteps
<1>1. ChangesByAdmins <=> [][ChangeByAdmin]_accessVars
    BY PTL DEF ChangesByAdmins, ChangeByAdmin
<1>2. SessionEndsForCause <=> [][EndForCause]_accessVars
    BY PTL DEF SessionEndsForCause, EndForCause
<1>3. AccessSpec => [][ChangeByAdmin]_accessVars
    BY AccessStartInv, AccessStep, ChangeStep, PTL DEF AccessSpec
<1>4. AccessSpec => [][EndForCause]_accessVars
    BY AccessStartInv, AccessStep, EndStep, PTL DEF AccessSpec
<1>. QED
    BY <1>1, <1>2, <1>3, <1>4, PTL DEF AccessSteps

----------------------------------------------------------------------------
(* The retention of logs.                                                  *)

Settings == [debug : Int, oper : Int, pii : Int, max : Int,
             debugOn : BOOLEAN, operOn : BOOLEAN, piiOn : BOOLEAN, purgeOn : BOOLEAN]

LogCallFields == {"op", "at", "data", "slot"}

LogRow == [id : LogIds, level : {"DEBUG", "INFO", "SECURITY", "WARN"}, pii : BOOLEAN,
           early : BOOLEAN, current : BOOLEAN, age : Nat, left : Int]

LogWrite == [id : LogIds, level : {"DEBUG", "INFO", "SECURITY", "WARN"}, pii : BOOLEAN,
             days : Nat, early : BOOLEAN, current : BOOLEAN]

LogTypes ==
    /\ settings \in Settings /\ apiLogs \subseteq LogRow /\ writes \subseteq LogWrite
    /\ form \in FormType /\ skipped \in BOOLEAN /\ dirty \in BOOLEAN /\ stale \in BOOLEAN
    /\ \A c \in logCalls : DOMAIN c = LogCallFields /\ c.data \in FormType

\* Before the first use nothing is stored and nothing is asked.
NothingYet == settings = NoRow => /\ apiLogs = {} /\ writes = {} /\ logCalls = {}
                                  /\ form = NoRow \/ dirty

\* The days a row was given fit the limit of its class and, while it is
\* current, are those of the settings in force.
GivenDays(r, days) ==
    /\ days <= HardLimit(r)
    /\ r.current => days = retentionDaysFor(settings, r.level, r.pii)

DaysFit ==
    /\ \A r \in apiLogs : GivenDays(r, r.age + r.left)
    /\ \A w \in writes : GivenDays(w, w.days)
    /\ ~skipped => \A r \in apiLogs : r.left >= 0

\* A clean form that differs from what is stored is about to be loaded again.
Reloads(c) == \/ c.op = "patch" /\ c.at \in {"ok", "old"}
              \/ c.op = "get"

FormFollows ==
    /\ \A c \in logCalls : c.op = "get" /\ c.at = "ok" => c.data = settings
    /\ ~dirty /\ ~stale /\ form # NoRow /\ form # settings => \E c \in logCalls : Reloads(c)

LogIInv == LogTypes /\ NothingYet /\ DaysFit /\ FormFollows

LEMMA ClampRange ==
    ASSUME NEW value \in Int \cup {NaN}
    PROVE  /\ Clamp(value, 7, 14) \in Int /\ 7 <= Clamp(value, 7, 14) /\ Clamp(value, 7, 14) <= 14
           /\ Clamp(value, 1, 90) \in Int /\ 1 <= Clamp(value, 1, 90) /\ Clamp(value, 1, 90) <= 90
           /\ Clamp(value, 1, 30) \in Int /\ 1 <= Clamp(value, 1, 30) /\ Clamp(value, 1, 30) <= 30
           /\ Clamp(value, 30, 90) \in Int /\ 30 <= Clamp(value, 30, 90) /\ Clamp(value, 30, 90) <= 90
<1>1. CASE value = NaN
    BY <1>1 DEF Clamp
<1>2. CASE value # NaN /\ value \in Int
    BY <1>2 DEF Clamp, Least, Most
<1>. QED
    BY <1>1, <1>2

\* The settings the program sees are in range, whatever the row holds.
LEMMA Resolved ==
    ASSUME NEW data \in FormType
    PROVE  LET s == getResolved(data)
           IN /\ s \in Settings /\ s # NoRow
              /\ 7 <= s.debug /\ s.debug <= 14 /\ 1 <= s.oper /\ s.oper <= 90
              /\ 1 <= s.pii /\ s.pii <= 30 /\ 30 <= s.max /\ s.max <= 90
              /\ s.debugOn = data.debugOn /\ s.operOn = data.operOn /\ s.piiOn = data.piiOn
<1>. DEFINE d == Clamp(data.debug, 7, 14)
            m == Clamp(data.max, 30, 90)
            o == Least(Clamp(data.oper, 1, 90), m)
            p == Least(Clamp(data.pii, 1, 30), m)
<1>1. /\ data.debug \in Int \cup {NaN} /\ data.max \in Int \cup {NaN}
      /\ data.oper \in Int \cup {NaN} /\ data.pii \in Int \cup {NaN}
    BY DEF FormType
<1>2. d \in Int /\ 7 <= d /\ d <= 14
    BY <1>1, ClampRange
<1>3. m \in Int /\ 30 <= m /\ m <= 90
    BY <1>1, ClampRange
<1>. HIDE DEF m
<1>4. o \in Int /\ 1 <= o /\ o <= 90
  <2>. DEFINE x == Clamp(data.oper, 1, 90)
  <2>1. x \in Int /\ 1 <= x /\ x <= 90
      BY <1>1, ClampRange
  <2>. HIDE DEF x
  <2>2. Least(x, m) \in Int /\ 1 <= Least(x, m) /\ Least(x, m) <= 90
      BY <1>3, <2>1 DEF Least
  <2>. QED
      BY <2>2 DEF x
<1>5. p \in Int /\ 1 <= p /\ p <= 30
  <2>. DEFINE x == Clamp(data.pii, 1, 30)
  <2>1. x \in Int /\ 1 <= x /\ x <= 30
      BY <1>1, ClampRange
  <2>. HIDE DEF x
  <2>2. Least(x, m) \in Int /\ 1 <= Least(x, m) /\ Least(x, m) <= 30
      BY <1>3, <2>1 DEF Least
  <2>. QED
      BY <2>2 DEF x
<1>. HIDE DEF d, o, p
<1>6. getResolved(data) = [data EXCEPT !.debug = d, !.max = m, !.oper = o, !.pii = p]
  <2>1. data = [data EXCEPT !.debug = data.debug]
      BY DEF FormType
  <2>. QED
      BY DEF getResolved, d, m, o, p, FormType
<1>. DEFINE s == [data EXCEPT !.debug = d, !.max = m, !.oper = o, !.pii = p]
<1>7. /\ s \in Settings /\ s.debug = d /\ s.max = m /\ s.oper = o /\ s.pii = p
      /\ s.debugOn = data.debugOn /\ s.operOn = data.operOn /\ s.piiOn = data.piiOn
    BY <1>2, <1>3, <1>4, <1>5 DEF Settings, FormType
<1>. HIDE DEF s
<1>8. s # NoRow
    BY <1>2, <1>7 DEF NoRow
<1>. QED
    BY <1>2, <1>3, <1>4, <1>5, <1>6, <1>7, <1>8 DEF s

LEMMA CreatedType ==
    ASSUME NEW env \in EnvType
    PROVE  Created(env) \in Settings /\ Created(env) # NoRow
<1>1. /\ env.debug \in Int \cup {NaN} /\ env.max \in Int \cup {NaN}
      /\ env.oper \in Int \cup {NaN} /\ env.pii \in Int \cup {NaN}
    BY DEF EnvType
<1>2. /\ Clamp(env.debug, 7, 14) \in Int /\ Clamp(env.oper, 1, 90) \in Int
      /\ Clamp(env.pii, 1, 30) \in Int /\ Clamp(env.max, 30, 90) \in Int
    BY <1>1, ClampRange
<1>3. Created(env) \in Settings /\ Created(env).debugOn = TRUE
    BY <1>2 DEF Created, Settings
<1>. QED
    BY <1>3 DEF NoRow

\* What a write is given fits its class.
LEMMA WrittenFits ==
    ASSUME NEW s \in Settings, NEW id \in LogIds,
           NEW level \in {"DEBUG", "INFO", "SECURITY", "WARN"}, NEW hasPii \in BOOLEAN
    PROVE  LET w == Written(id, level, hasPii, s)
           IN /\ w \in LogWrite /\ w.level = level /\ w.pii = hasPii
              /\ w.days <= HardLimit(w) /\ w.days = retentionDaysFor(s, level, hasPii)
<1>. DEFINE t == getResolved(s)
<1>1. s \in FormType
    BY DEF Settings, FormType
<1>2. /\ t \in Settings /\ 7 <= t.debug /\ t.debug <= 14 /\ 1 <= t.oper /\ t.oper <= 90
      /\ 1 <= t.pii /\ t.pii <= 30 /\ 30 <= t.max /\ t.max <= 90
      /\ t.debugOn = s.debugOn /\ t.operOn = s.operOn /\ t.piiOn = s.piiOn
    BY <1>1, Resolved
<1>. DEFINE days == retentionDaysFor(s, level, hasPii)
            early == EarlyDelete(s, level, hasPii)
<1>3. days = IF level = "DEBUG" THEN (IF t.debugOn THEN t.debug ELSE t.max)
             ELSE IF hasPii THEN (IF t.piiOn THEN t.pii ELSE t.max)
             ELSE IF t.operOn THEN t.oper ELSE t.max
    BY DEF retentionDaysFor
<1>4. early \in BOOLEAN /\ (level = "DEBUG" => early = s.debugOn)
      /\ (level # "DEBUG" /\ hasPii => early = s.piiOn)
    BY DEF EarlyDelete, Settings
<1>. HIDE DEF t, days, early
<1>5. days \in Nat
    BY <1>2, <1>3 DEF Settings
<1>6. days <= IF early /\ level = "DEBUG" THEN 14 ELSE IF early /\ hasPii THEN 30 ELSE 90
    BY <1>2, <1>3, <1>4 DEF Settings
<1>. DEFINE w == [id |-> id, level |-> level, pii |-> hasPii, days |-> days, early |-> early, current |-> TRUE]
<1>7. w \in LogWrite /\ w.level = level /\ w.pii = hasPii /\ w.days = days /\ w.early = early
    BY <1>4, <1>5 DEF LogWrite
<1>8. Written(id, level, hasPii, s) = w
    BY DEF Written, days, early
<1>. HIDE DEF w
<1>. QED
    BY <1>6, <1>7, <1>8 DEF HardLimit, days

LEMMA LogStart == LogInit => LogIInv
<1>. SUFFICES ASSUME LogInit PROVE LogIInv
    OBVIOUS
<1>1. settings \in Settings /\ form \in FormType
    BY DEF LogInit, NoRow, Settings, FormType
<1>. QED
    BY <1>1 DEF LogInit, LogIInv, LogTypes, NothingYet, DaysFit, FormFollows

\* Rows and writes keep their days, whatever happens to their label or age.
LEMMA StillFits ==
    /\ \A s \in Settings : s \in FormType
    /\ \A rows \in SUBSET LogRow : Outdated(rows) \subseteq LogRow
    /\ \A rows \in SUBSET LogWrite : Outdated(rows) \subseteq LogWrite
    /\ \A rows \in SUBSET LogRow : \A x \in Outdated(rows) :
         \E r \in rows : x.age = r.age /\ x.left = r.left /\ HardLimit(x) = HardLimit(r) /\ x.current = FALSE
    /\ \A rows \in SUBSET LogWrite : \A x \in Outdated(rows) :
         \E w \in rows : x.days = w.days /\ HardLimit(x) = HardLimit(w) /\ x.current = FALSE
<1>1. \A s \in Settings : s \in FormType
    BY DEF Settings, FormType
<1>2. \A r \in LogRow : LET x == [r EXCEPT !.current = FALSE]
                        IN x \in LogRow /\ x.age = r.age /\ x.left = r.left /\ x.current = FALSE
                           /\ x.early = r.early /\ x.level = r.level /\ x.pii = r.pii
    BY DEF LogRow
<1>3. \A w \in LogWrite : LET x == [w EXCEPT !.current = FALSE]
                          IN x \in LogWrite /\ x.days = w.days /\ x.current = FALSE
                             /\ x.early = w.early /\ x.level = w.level /\ x.pii = w.pii
    BY DEF LogWrite
<1>4. ASSUME NEW rows \in SUBSET LogRow, NEW x \in Outdated(rows)
      PROVE  x \in LogRow /\ \E r \in rows : x.age = r.age /\ x.left = r.left
                               /\ HardLimit(x) = HardLimit(r) /\ x.current = FALSE
  <2>1. PICK r \in rows : x = [r EXCEPT !.current = FALSE]
      BY <1>4 DEF Outdated
  <2>2. x \in LogRow /\ x.age = r.age /\ x.left = r.left /\ x.current = FALSE
        /\ x.early = r.early /\ x.level = r.level /\ x.pii = r.pii
      BY <1>2, <2>1
  <2>. QED
      BY <2>2 DEF HardLimit
<1>5. ASSUME NEW rows \in SUBSET LogWrite, NEW x \in Outdated(rows)
      PROVE  x \in LogWrite /\ \E w \in rows : x.days = w.days
                                 /\ HardLimit(x) = HardLimit(w) /\ x.current = FALSE
  <2>1. PICK w \in rows : x = [w EXCEPT !.current = FALSE]
      BY <1>5 DEF Outdated
  <2>2. x \in LogWrite /\ x.days = w.days /\ x.current = FALSE
        /\ x.early = w.early /\ x.level = w.level /\ x.pii = w.pii
      BY <1>3, <2>1
  <2>. QED
      BY <2>2 DEF HardLimit
<1>. QED
    BY <1>1, <1>4, <1>5

\* The interceptor adds at most one write, which fits.
LEMMA Intercepted ==
    ASSUME settings' \in Settings, NEW ok \in BOOLEAN, NEW w \in intercept(ok)
    PROVE  /\ w \in LogWrite /\ w.days <= HardLimit(w)
           /\ w.days = retentionDaysFor(settings', w.level, w.pii)
<1>. DEFINE id == CHOOSE i \in FreeIds : TRUE
<1>1. FreeIds # {}
    BY DEF intercept
<1>2. id \in LogIds
    BY <1>1 DEF FreeIds
<1>3. PICK s \in Settings : s = settings'
    OBVIOUS
<1>4. PICK level \in {"SECURITY", "WARN"}, hasPii \in BOOLEAN : w = Written(id, level, hasPii, s)
    BY <1>1, <1>3 DEF intercept
<1>. HIDE DEF id
<1>5. level \in {"DEBUG", "INFO", "SECURITY", "WARN"}
    OBVIOUS
<1>. DEFINE x == Written(id, level, hasPii, s)
<1>6. /\ x \in LogWrite /\ x.level = level /\ x.pii = hasPii /\ x.days <= HardLimit(x)
      /\ x.days = retentionDaysFor(s, level, hasPii)
    BY <1>2, <1>5, WrittenFits
<1>. HIDE DEF x
<1>7. w = x
    BY <1>4 DEF x
<1>. QED
    BY <1>3, <1>6, <1>7

\* A call that was made, moved on or followed up.
LEMMA LogCallShapes ==
    /\ NoRow \in FormType
    /\ \A op, data : LET c == Call(op, data)
                     IN DOMAIN c = LogCallFields /\ c.op = op /\ c.at = "sent" /\ c.data = data
    /\ \A c : LET d == Follow(c)
              IN DOMAIN d = LogCallFields /\ d.op = "get" /\ d.at = "sent" /\ d.data = NoRow
    /\ \A c, at, data : DOMAIN c = LogCallFields =>
         LET d == [c EXCEPT !.at = at, !.data = data]
         IN DOMAIN d = LogCallFields /\ d.op = c.op /\ d.at = at /\ d.data = data
    /\ \A c, at : DOMAIN c = LogCallFields =>
         LET d == [c EXCEPT !.at = at]
         IN DOMAIN d = LogCallFields /\ d.op = c.op /\ d.at = at /\ d.data = c.data
<1>1. NoRow \in FormType
    BY DEF NoRow, FormType
<1>2. \A op, data : LET c == Call(op, data)
                    IN DOMAIN c = LogCallFields /\ c.op = op /\ c.at = "sent" /\ c.data = data
    BY DEF Call, LogCallFields
<1>3. \A c : LET d == Follow(c)
             IN DOMAIN d = LogCallFields /\ d.op = "get" /\ d.at = "sent" /\ d.data = NoRow
    BY DEF Follow, LogCallFields
<1>4. \A c, at, data : DOMAIN c = LogCallFields =>
         LET d == [c EXCEPT !.at = at, !.data = data]
         IN DOMAIN d = LogCallFields /\ d.op = c.op /\ d.at = at /\ d.data = data
    BY DEF LogCallFields
<1>5. \A c, at : DOMAIN c = LogCallFields =>
         LET d == [c EXCEPT !.at = at]
         IN DOMAIN d = LogCallFields /\ d.op = c.op /\ d.at = at /\ d.data = c.data
    BY DEF LogCallFields
<1>. QED
    BY <1>1, <1>2, <1>3, <1>4, <1>5

LEMMA LogStep == LogIInv /\ [LogNext]_logVars => LogIInv'
<1>. SUFFICES ASSUME LogIInv, [LogNext]_logVars PROVE LogIInv'
    OBVIOUS
<1>0. /\ settings \in Settings /\ settings \in FormType
      /\ apiLogs \subseteq LogRow /\ writes \subseteq LogWrite
      /\ form \in FormType /\ skipped \in BOOLEAN /\ dirty \in BOOLEAN /\ stale \in BOOLEAN
      /\ \A c \in logCalls : DOMAIN c = LogCallFields /\ c.data \in FormType
    BY StillFits DEF LogIInv, LogTypes
<1>d. /\ \A r \in apiLogs : r.age + r.left <= HardLimit(r)
      /\ \A w \in writes : w.days <= HardLimit(w)
      /\ \A r \in apiLogs : r.current => r.age + r.left = retentionDaysFor(settings, r.level, r.pii)
      /\ \A w \in writes : w.current => w.days = retentionDaysFor(settings, w.level, w.pii)
      /\ ~skipped => \A r \in apiLogs : r.left >= 0
    BY DEF LogIInv, DaysFit, GivenDays
<1>f. /\ \A c \in logCalls : c.op = "get" /\ c.at = "ok" => c.data = settings
      /\ ~dirty /\ ~stale /\ form # NoRow /\ form # settings => \E c \in logCalls : Reloads(c)
    BY DEF LogIInv, FormFollows
<1>y. settings = NoRow => apiLogs = {} /\ writes = {} /\ logCalls = {} /\ (form = NoRow \/ dirty)
    BY DEF LogIInv, NothingYet
\* Sufficient conditions for the part about rows and the part about the form.
<1>1. ASSUME UNCHANGED <<settings, apiLogs, writes, skipped>>,
             form' \in FormType, dirty' \in BOOLEAN, stale' \in BOOLEAN,
             \A c \in logCalls' : DOMAIN c = LogCallFields /\ c.data \in FormType
                                  /\ (c.op = "get" /\ c.at = "ok" => c.data = settings),
             settings = NoRow => logCalls' = {} /\ (form' = NoRow \/ dirty'),
             ~dirty' /\ ~stale' /\ form' # NoRow /\ form' # settings => \E c \in logCalls' : Reloads(c)
      PROVE  LogIInv'
  <2>1. LogTypes' /\ NothingYet' /\ FormFollows'
      BY <1>0, <1>1, <1>y DEF LogTypes, NothingYet, FormFollows, Reloads
  <2>2. DaysFit'
      BY <1>1, <1>d DEF DaysFit, GivenDays, HardLimit, retentionDaysFor
  <2>. QED
      BY <2>1, <2>2 DEF LogIInv
<1>2. ASSUME UNCHANGED <<form, dirty, stale>>, settings # NoRow, settings' # NoRow, settings' \in Settings,
             apiLogs' \subseteq LogRow, writes' \subseteq LogWrite, skipped' \in BOOLEAN,
             \A c \in logCalls' : DOMAIN c = LogCallFields /\ c.data \in FormType
                                  /\ (c.op = "get" /\ c.at = "ok" => c.data = settings'),
             ~dirty /\ ~stale /\ form # NoRow /\ form # settings' => \E c \in logCalls' : Reloads(c),
             \A r \in apiLogs' : r.age + r.left <= HardLimit(r)
                    /\ (r.current => r.age + r.left = retentionDaysFor(settings', r.level, r.pii)),
             \A w \in writes' : w.days <= HardLimit(w)
                    /\ (w.current => w.days = retentionDaysFor(settings', w.level, w.pii)),
             ~skipped' => \A r \in apiLogs' : r.left >= 0
      PROVE  LogIInv'
  <2>1. LogTypes' /\ NothingYet' /\ FormFollows'
      BY <1>0, <1>2 DEF LogTypes, NothingYet, FormFollows, Reloads
  <2>2. DaysFit'
      BY <1>2 DEF DaysFit, GivenDays, HardLimit, retentionDaysFor
  <2>. QED
      BY <2>1, <2>2 DEF LogIInv
<1>3. CASE UNCHANGED logVars
    BY <1>0, <1>1, <1>3, <1>f, <1>y DEF logVars
<1>4. ASSUME NEW env \in EnvDays, getOrCreate(env) PROVE LogIInv'
  <2>1. settings' \in Settings /\ settings' # NoRow
      BY <1>4, CreatedType, LogBounds DEF getOrCreate
  <2>2. /\ settings = NoRow /\ apiLogs' = {} /\ writes' = {} /\ logCalls' = {} /\ (form' = NoRow \/ dirty')
        /\ UNCHANGED <<form, dirty, stale, skipped>>
      BY <1>4, <1>y DEF getOrCreate
  <2>. QED
      BY <1>0, <2>1, <2>2 DEF LogIInv, LogTypes, NothingYet, DaysFit, FormFollows
<1>5. ASSUME NEW level \in {"DEBUG", "INFO"}, NEW hasPii \in BOOLEAN, log(level, hasPii) PROVE LogIInv'
  <2>1. PICK id \in {CHOOSE i \in FreeIds : TRUE} : writes' = writes \union {Written(id, level, hasPii, settings)}
      BY <1>5 DEF log
  <2>2. id \in LogIds
      BY <1>5 DEF log, FreeIds
  <2>. DEFINE w == Written(id, level, hasPii, settings)
  <2>3. w \in LogWrite /\ w.level = level /\ w.pii = hasPii /\ w.days <= HardLimit(w)
        /\ w.days = retentionDaysFor(settings, level, hasPii)
      BY <1>0, <2>2, WrittenFits
  <2>. HIDE DEF w
  <2>4. writes' = writes \cup {w} /\ UNCHANGED <<settings, apiLogs, skipped, form, dirty, logCalls, stale>>
        /\ settings # NoRow
      BY <1>5, <2>1 DEF log, w
  <2>. QED
      BY <1>0, <1>2, <1>d, <1>f, <2>3, <2>4
<1>6. ASSUME NEW w \in writes, insert(w) PROVE LogIInv'
  <2>. DEFINE r == [id |-> w.id, level |-> w.level, pii |-> w.pii, early |-> w.early,
                    current |-> w.current, age |-> 0, left |-> w.days]
  <2>1. /\ r \in LogRow /\ r.age + r.left = w.days /\ r.left >= 0 /\ r.current = w.current
        /\ r.level = w.level /\ r.pii = w.pii /\ r.early = w.early
      BY <1>0 DEF LogRow, LogWrite
  <2>2. writes' = writes \ {w} /\ apiLogs' = apiLogs \cup {r}
        /\ UNCHANGED <<settings, skipped, form, dirty, logCalls, stale>>
      BY <1>6 DEF insert
  <2>. HIDE DEF r
  <2>3. HardLimit(r) = HardLimit(w) /\ settings # NoRow
      BY <1>6, <1>y, <2>1 DEF HardLimit
  <2>. QED
      BY <1>0, <1>2, <1>d, <1>f, <2>1, <2>2, <2>3
<1>7. ASSUME NEW k \in Leaps, NEW up \in BOOLEAN, purgeExpiredLogs(k, up) PROVE LogIInv'
  <2>0. k \in Nat
      BY LogBounds
  <2>1. \A x \in Aged(apiLogs, k) : \E r \in apiLogs :
            /\ x \in LogRow /\ x.age + x.left = r.age + r.left /\ x.current = r.current
            /\ x.level = r.level /\ x.pii = r.pii /\ x.early = r.early
    <3>. SUFFICES ASSUME NEW r \in apiLogs, NEW x, x = [r EXCEPT !.age = @ + k, !.left = @ - k]
                  PROVE  /\ x \in LogRow /\ x.age + x.left = r.age + r.left /\ x.current = r.current
                         /\ x.level = r.level /\ x.pii = r.pii /\ x.early = r.early
        BY DEF Aged
    <3>1. r \in LogRow
        BY <1>0
    <3>2. x.age = r.age + k /\ x.left = r.left - k /\ x \in LogRow
      <4>1. r.age \in Nat /\ r.left \in Int
          BY <3>1 DEF LogRow
      <4>. DEFINE m == r.age + k
                  n == r.left - k
      <4>2. m \in Nat /\ n \in Int
          BY <2>0, <4>1
      <4>. HIDE DEF m, n
      <4>3. x = [r EXCEPT !.age = m, !.left = n]
          BY <3>1 DEF m, n, LogRow
      <4>4. x.age = m /\ x.left = n /\ x \in LogRow
          BY <3>1, <4>2, <4>3 DEF LogRow
      <4>. QED
          BY <4>4 DEF m, n
    <3>3. x.current = r.current /\ x.level = r.level /\ x.pii = r.pii /\ x.early = r.early
        BY <3>1 DEF LogRow
    <3>4. r.age \in Nat /\ r.left \in Int
        BY <3>1 DEF LogRow
    <3>. QED
        BY <2>0, <3>2, <3>3, <3>4
  <2>2. /\ UNCHANGED <<settings, writes, form, dirty, logCalls, stale>> /\ settings # NoRow
        /\ skipped' \in BOOLEAN /\ apiLogs' \subseteq Aged(apiLogs, k)
        /\ ~skipped' => apiLogs' = purgeExpired(Aged(apiLogs, k))
      BY <1>7 DEF purgeExpiredLogs, purgeExpired
  <2>3. \A x \in apiLogs' : /\ x \in LogRow /\ x.age + x.left <= HardLimit(x)
                            /\ x.current => x.age + x.left = retentionDaysFor(settings, x.level, x.pii)
      BY <1>d, <2>1, <2>2 DEF HardLimit
  <2>4. ~skipped' => \A r \in apiLogs' : r.left >= 0
      BY <2>2, <2>3 DEF purgeExpired, Expired, LogRow
  <2>. QED
      BY <1>0, <1>2, <1>d, <1>f, <2>2, <2>3, <2>4
<1>8. CASE loadLogs \/ submitLogSettings \/ purgeNow
  <2>1. PICK op \in {"get", "patch", "purge"}, data \in FormType :
           /\ logCalls' = logCalls \union {Call(op, data)} /\ settings # NoRow
           /\ UNCHANGED <<settings, apiLogs, writes, skipped, form, dirty, stale>>
      BY <1>0, <1>8, LogCallShapes DEF loadLogs, submitLogSettings, purgeNow
  <2>. DEFINE c == Call(op, data)
  <2>2. DOMAIN c = LogCallFields /\ c.op = op /\ c.at = "sent" /\ c.data = data
      BY LogCallShapes
  <2>. HIDE DEF c
  <2>3. logCalls' = logCalls \cup {c}
      BY <2>1 DEF c
  <2>. QED
      BY <1>0, <1>1, <1>f, <2>1, <2>2, <2>3
<1>9. CASE markLogSettingsDirty
    BY <1>0, <1>1, <1>9, <1>f, <1>y, LogBounds DEF markLogSettingsDirty
<1>10. ASSUME NEW c \in logCalls, serveGet(c) PROVE LogIInv'
  <2>. DEFINE d == [c EXCEPT !.at = "ok", !.data = settings]
  <2>1. DOMAIN d = LogCallFields /\ d.op = "get" /\ d.at = "ok" /\ d.data = settings
      BY <1>0, <1>10, LogCallShapes DEF serveGet
  <2>2. logCalls' = (logCalls \ {c}) \cup {d} /\ UNCHANGED <<settings, apiLogs, writes, skipped, form, dirty, stale>>
      BY <1>10 DEF serveGet, Answered
  <2>. HIDE DEF d
  <2>3. Reloads(d) /\ settings # NoRow
      BY <1>y, <2>1 DEF Reloads
  <2>. QED
      BY <1>0, <1>1, <1>f, <2>1, <2>2, <2>3
<1>11. ASSUME NEW c \in logCalls, servePatch(c) PROVE LogIInv'
  <2>0. settings # NoRow /\ c.op = "patch" /\ c.at = "sent"
      BY <1>11, <1>y DEF servePatch
  <2>1. CASE ValidBody(c.data) /\ settings' = update(c.data)
    <3>. DEFINE d == [c EXCEPT !.at = "ok"]
    <3>1. /\ logCalls' = OldAnswers(logCalls \ {c}) \cup {d} /\ apiLogs' = Outdated(apiLogs)
          /\ writes' = Outdated(writes) \cup intercept(TRUE) /\ UNCHANGED <<skipped, form, dirty, stale>>
        BY <1>11, <2>1, <1>0 DEF servePatch
    <3>2. DOMAIN d = LogCallFields /\ d.op = "patch" /\ d.at = "ok" /\ d.data = c.data
        BY <1>0, <2>0, LogCallShapes
    <3>. HIDE DEF d
    <3>3. settings' \in Settings /\ settings' # NoRow
        BY <1>0, <2>1, Resolved DEF update
    <3>4. \A x \in OldAnswers(logCalls \ {c}) : DOMAIN x = LogCallFields /\ x.data \in FormType /\ x.at # "ok"
      <4>. SUFFICES ASSUME NEW e \in logCalls, NEW x, x = IF e.at = "ok" THEN [e EXCEPT !.at = "old"] ELSE e
                    PROVE  DOMAIN x = LogCallFields /\ x.data \in FormType /\ x.at # "ok"
          BY DEF OldAnswers
      <4>. QED
          BY <1>0, LogCallShapes
    <3>5. Reloads(d)
        BY <3>2 DEF Reloads
    <3>6. \A r \in apiLogs' : r \in LogRow /\ r.age + r.left <= HardLimit(r) /\ ~r.current
        BY <1>0, <1>d, <3>1, StillFits
    <3>7. ~skipped' => \A r \in apiLogs' : r.left >= 0
        BY <1>0, <1>d, <3>1, StillFits
    <3>8. \A w \in writes' : /\ w \in LogWrite /\ w.days <= HardLimit(w)
                             /\ (w.current => w.days = retentionDaysFor(settings', w.level, w.pii))
      <4>1. ASSUME NEW w \in Outdated(writes) PROVE w \in LogWrite /\ w.days <= HardLimit(w) /\ ~w.current
        <5>1. PICK v \in writes : w.days = v.days /\ HardLimit(w) = HardLimit(v) /\ w.current = FALSE
            BY <1>0, StillFits
        <5>2. w \in LogWrite
            BY <1>0, StillFits
        <5>. QED
            BY <1>d, <5>1, <5>2
      <4>2. \A w \in intercept(TRUE) : w \in LogWrite /\ w.days <= HardLimit(w)
                                        /\ w.days = retentionDaysFor(settings', w.level, w.pii)
          BY <3>3, Intercepted
      <4>. QED
          BY <3>1, <4>1, <4>2
    <3>9. skipped' \in BOOLEAN
        BY <1>0, <3>1
    <3>. QED
        BY <1>0, <1>2, <2>0, <3>1, <3>2, <3>3, <3>4, <3>5, <3>6, <3>7, <3>8, <3>9
  <2>2. CASE ~ValidBody(c.data)
    <3>. DEFINE d == [c EXCEPT !.at = "error", !.data = c.data]
    <3>1. /\ logCalls' = (logCalls \ {c}) \cup {d} /\ writes' = writes \cup intercept(FALSE)
          /\ UNCHANGED <<settings, apiLogs, skipped, form, dirty, stale>>
        BY <1>11, <2>2 DEF servePatch, Answered
    <3>2. DOMAIN d = LogCallFields /\ d.op = "patch" /\ d.at = "error" /\ d.data = c.data
        BY <1>0, <2>0, LogCallShapes
    <3>. HIDE DEF d
    <3>3. ~Reloads(c)
        BY <2>0 DEF Reloads
    <3>4. \A w \in intercept(FALSE) : w \in LogWrite /\ w.days <= HardLimit(w)
                                      /\ w.days = retentionDaysFor(settings, w.level, w.pii)
      <4>1. settings' \in Settings /\ settings' = settings
          BY <1>0, <3>1
      <4>. QED
          BY <4>1, Intercepted
    <3>5. ~dirty /\ ~stale /\ form # NoRow /\ form # settings => \E e \in logCalls' : Reloads(e)
        BY <1>f, <3>1, <3>3
    <3>. QED
        BY <1>0, <1>2, <1>d, <1>f, <2>0, <3>1, <3>2, <3>4, <3>5
  <2>. QED
      BY <1>11, <2>1, <2>2 DEF servePatch
<1>12. ASSUME NEW c \in logCalls, servePurge(c) PROVE LogIInv'
  <2>0. settings # NoRow /\ c.op = "purge"
      BY <1>12, <1>y DEF servePurge
  <2>. DEFINE d == [c EXCEPT !.at = "ok", !.data = c.data]
  <2>1. /\ logCalls' = (logCalls \ {c}) \cup {d} /\ apiLogs' \subseteq apiLogs /\ settings' = settings
        /\ writes' = writes \cup intercept(TRUE) /\ UNCHANGED <<skipped, form, dirty, stale>>
      BY <1>12 DEF servePurge, Answered, purgeExpired
  <2>2. DOMAIN d = LogCallFields /\ d.op = "purge" /\ d.at = "ok" /\ d.data = c.data
      BY <1>0, <2>0, LogCallShapes
  <2>. HIDE DEF d
  <2>3. ~Reloads(c)
      BY <2>0 DEF Reloads
  <2>4. \A w \in intercept(TRUE) : w \in LogWrite /\ w.days <= HardLimit(w)
                                   /\ w.days = retentionDaysFor(settings, w.level, w.pii)
    <3>1. settings' \in Settings /\ settings' = settings
        BY <1>0, <2>1
    <3>. QED
        BY <3>1, Intercepted
  <2>5. ~dirty /\ ~stale /\ form # NoRow /\ form # settings => \E e \in logCalls' : Reloads(e)
      BY <1>f, <2>1, <2>3
  <2>. QED
      BY <1>0, <1>2, <1>d, <1>f, <2>0, <2>1, <2>2, <2>4, <2>5
<1>13. ASSUME NEW c \in logCalls, loadLogSettings(c) PROVE LogIInv'
  <2>1. /\ form' = c.data /\ dirty' = FALSE /\ stale' = (c.at = "old") /\ logCalls' = logCalls \ {c}
        /\ c.op = "get" /\ c.at \in {"ok", "old"} /\ UNCHANGED <<settings, apiLogs, writes, skipped>>
      BY <1>13 DEF loadLogSettings
  <2>. QED
      BY <1>0, <1>1, <1>f, <1>y, <2>1
<1>14. ASSUME NEW c \in logCalls, saved(c) \/ settled(c) PROVE LogIInv'
  <2>0. settings # NoRow
      BY <1>y
  <2>. DEFINE d == Follow(c)
  <2>1. DOMAIN d = LogCallFields /\ d.op = "get" /\ d.at = "sent" /\ d.data \in FormType
      BY LogCallShapes
  <2>. HIDE DEF d
  <2>2. Reloads(d)
      BY <2>1 DEF Reloads
  <2>3. CASE logCalls' = (logCalls \ {c}) \cup {d} /\ dirty' \in BOOLEAN
             /\ UNCHANGED <<settings, apiLogs, writes, skipped, form, stale>>
      BY <1>0, <1>1, <1>f, <2>0, <2>1, <2>2, <2>3
  <2>4. CASE logCalls' = logCalls \ {c} /\ c.op = "patch" /\ c.at = "error"
             /\ UNCHANGED <<settings, apiLogs, writes, skipped, form, dirty, stale>>
    <3>1. ~Reloads(c)
        BY <2>4 DEF Reloads
    <3>. QED
        BY <1>0, <1>1, <1>f, <2>0, <2>4, <3>1
  <2>. QED
      BY <1>0, <1>14, <2>3, <2>4 DEF saved, settled, d
<1>. QED
    BY <1>3, <1>4, <1>5, <1>6, <1>7, <1>8, <1>9, <1>10, <1>11, <1>12, <1>13, <1>14 DEF LogNext

LEMMA LogGives == LogIInv => RetentionInv
<1>. SUFFICES ASSUME LogIInv PROVE RetentionInv
    OBVIOUS
<1>1. KeptWithinLimit
  <2>. SUFFICES ASSUME ~skipped, NEW r \in apiLogs PROVE r.age <= HardLimit(r)
      BY DEF KeptWithinLimit
  <2>1. r.age \in Nat /\ r.left \in Int /\ HardLimit(r) \in Nat
      BY DEF LogIInv, LogTypes, LogRow, HardLimit
  <2>2. r.left >= 0 /\ r.age + r.left <= HardLimit(r)
      BY DEF LogIInv, DaysFit, GivenDays
  <2>. QED
      BY <2>1, <2>2
<1>2. RuleExplainsExpiry
  <2>. DEFINE s == getResolved(settings)
              daysOf == [debug |-> s.debug, pii |-> s.pii, operational |-> s.oper]
  <2>. SUFFICES ASSUME s.debugOn, s.piiOn, s.operOn, NEW r \in apiLogs, r.current
                PROVE  r.age + r.left = daysOf[retentionRuleFor(s, r.level, r.pii)]
      BY DEF RuleExplainsExpiry
  <2>1. r.age + r.left = retentionDaysFor(settings, r.level, r.pii)
      BY DEF LogIInv, DaysFit, GivenDays
  <2>2. retentionDaysFor(settings, r.level, r.pii)
            = IF r.level = "DEBUG" THEN s.debug ELSE IF r.pii THEN s.pii ELSE s.oper
      BY DEF retentionDaysFor
  <2>. HIDE DEF s
  <2>3. retentionRuleFor(s, r.level, r.pii)
            = IF r.level = "DEBUG" THEN "debug" ELSE IF r.pii THEN "pii" ELSE "operational"
      BY DEF retentionRuleFor
  <2>. QED
      BY <2>1, <2>2, <2>3
<1>3. CleanFormIsStored
    BY DEF LogIInv, FormFollows, CleanFormIsStored
<1>. QED
    BY <1>1, <1>2, <1>3 DEF RetentionInv

\* For any environment, edits, rows and stretches of time: no row outlives the
\* limit of its class where the purge runs, the rule the console names is the
\* one the expiry came from, and a clean form shows what is stored
\* (log-settings.service.ts, audit-log.service.ts, app.js).
THEOREM RetentionTheorem == LogSpec => []RetentionInv
<1>. QED
    BY LogStart, LogStep, LogGives, PTL DEF LogSpec

----------------------------------------------------------------------------
(* The promise of the next cleanup.  Day d of Berlin has its 03:00 at the   *)
(* instant Purge(d); the computation of the code hits the next of them at   *)
(* every hour, and the scheduler fires at each of them and at no other.     *)

\* The day of the changeover: the offset changes at hour 1 of it.
ChangeDay == Change \div 24

DayOffset(d) == IF summer = (d >= ChangeDay) THEN 2 ELSE 1

Purge(d) == 24 * d + 3 - DayOffset(d)

LEMMA DayHour ==
  ASSUME NEW x \in Int, NEW d \in Int, NEW h \in 0..23, x = 24 * d + h
  PROVE  x \div 24 = d /\ x % 24 = h
OBVIOUS

LEMMA HasDay ==
  ASSUME NEW x \in Int
  PROVE  \E d \in Int, h \in 0..23 : x = 24 * d + h /\ x \div 24 = d /\ x % 24 = h
<1>1. x \div 24 \in Int /\ x % 24 \in 0..23 /\ x = 24 * (x \div 24) + (x % 24)
  OBVIOUS
<1> QED
  BY <1>1

LEMMA ChangeHour == ChangeDay \in Nat /\ Change = 24 * ChangeDay + 1
BY ClockAssumption DEF ChangeDay

LEMMA Offsets ==
  ASSUME NEW t \in Int
  PROVE  Offset(t) \in Int /\ Offset(t) \in 1..2 /\ Local(t) \in Int /\ Local(t) = t + Offset(t)
BY DEF Offset, Local

LEMMA Purges ==
  ASSUME NEW d \in Int
  PROVE  /\ DayOffset(d) \in Int /\ Purge(d) \in Int /\ Purge(d) = 24 * d + 3 - DayOffset(d)
         /\ 24 * d + 1 <= Purge(d) /\ Purge(d) <= 24 * d + 2
BY DEF DayOffset, Purge

\* Around 03:00 of day d the offset is the one of that day.
LEMMA OffsetOfDay ==
  ASSUME summer \in BOOLEAN, NEW d \in Int, NEW t \in Int, 24 * d + 1 <= t, t <= 24 * d + 23
  PROVE  Offset(t) = DayOffset(d)
<1>1. t >= Change <=> d >= ChangeDay
  BY ChangeHour
<1> QED
  BY <1>1 DEF Offset, DayOffset

\* Three corrections arrive.
LEMMA ThreeCorrections ==
  ASSUME summer \in BOOLEAN, NEW d \in Int
  PROVE  berlinLocalToIso(24 * d + 3) = Purge(d)
<1> DEFINE target == 24 * d + 3
<1>1. \A t \in Int : Correct(t, target) = target - Offset(t)
  BY Offsets DEF Correct
<1>2. Offset(target) = DayOffset(d) /\ target \in Int
  BY OffsetOfDay
<1>3. Purge(d) \in Int /\ Purge(d) = target - DayOffset(d) /\ Offset(Purge(d)) = DayOffset(d)
  BY Purges, OffsetOfDay
<1> HIDE DEF target
<1>4. Correct(target, target) = Purge(d)
  BY <1>1, <1>2, <1>3
<1>5. Correct(Purge(d), target) = Purge(d)
  BY <1>1, <1>3
<1> QED
  BY <1>4, <1>5 DEF berlinLocalToIso, target

\* The wall clock shows 03:00 or more from Purge(d) on, and 03:00 only then.
LEMMA From3 ==
  ASSUME summer \in BOOLEAN, NEW t \in Int, NEW d \in Int, NEW h \in 0..23,
         Local(t) = 24 * d + h
  PROVE  /\ h >= 3 <=> Purge(d) <= t
         /\ h = 3 => Purge(d) = t
         /\ 24 * d - 2 <= t /\ t <= 24 * d + 22
<1>1. Offset(t) \in Int /\ Offset(t) \in 1..2 /\ t + Offset(t) = 24 * d + h
  BY Offsets
<1>2. h \in Int /\ 0 <= h /\ h <= 23
  OBVIOUS
<1>3. /\ DayOffset(d) \in Int /\ Purge(d) \in Int /\ Purge(d) = 24 * d + 3 - DayOffset(d)
  BY Purges
<1>4. 24 * d - 2 <= t /\ t <= 24 * d + 22
  BY <1>1, <1>2
<1>5. CASE h >= 3
  <2>1. Offset(t) = DayOffset(d)
    BY <1>1, <1>2, <1>5, OffsetOfDay
  <2>2. t = Purge(d) + (h - 3)
    BY <1>1, <1>2, <1>3, <2>1
  <2> QED
    BY <1>2, <1>3, <1>4, <1>5, <2>2
<1>6. CASE h < 3
  <2>1. t < Purge(d)
    BY <1>1, <1>2, <1>6, ChangeHour DEF Offset, Purge, DayOffset
  <2> QED
    BY <1>2, <1>3, <1>4, <1>6, <2>1
<1> QED
  BY <1>2, <1>5, <1>6

\* No other 03:00 lies between two that follow each other.
LEMMA PurgeOrder ==
  ASSUME NEW d \in Int, NEW e \in Int
  PROVE  d < e => Purge(d) < Purge(e)
BY Purges

\* The computation finds the first 03:00 after now.
LEMMA NextIsNext ==
  ASSUME summer \in BOOLEAN, NEW t \in Int
  PROVE  \E d \in Int : /\ nextPurgeAt(t) = Purge(d) /\ t < Purge(d)
                        /\ \A e \in Int : t < Purge(e) => d <= e
<1>1. PICK d \in Int, h \in 0..23 :
        Local(t) = 24 * d + h /\ Local(t) \div 24 = d /\ Local(t) % 24 = h
  BY HasDay, Offsets
<1>2. /\ h >= 3 <=> Purge(d) <= t
      /\ h = 3 => Purge(d) = t
      /\ 24 * d - 2 <= t /\ t <= 24 * d + 22
  <2>1. Local(t) = 24 * d + h
    BY <1>1
  <2> QED
    BY <2>1, From3, Zenon
<1>3. CASE h >= 3
  <2>1. nextPurgeAt(t) = Purge(d + 1)
    <3>1. nextPurgeAt(t) = berlinLocalToIso(24 * (d + 1) + 3)
      BY <1>1, <1>3 DEF nextPurgeAt
    <3> QED
      BY <3>1, ThreeCorrections
  <2>2. d + 1 \in Int /\ t < Purge(d + 1)
    <3>1. 24 * (d + 1) + 1 <= Purge(d + 1) /\ Purge(d + 1) \in Int
      BY Purges
    <3> QED
      BY <1>2, <3>1
  <2>3. ASSUME NEW e \in Int, t < Purge(e) PROVE d + 1 <= e
    <3>1. Purge(d) < Purge(e) /\ Purge(d) \in Int /\ Purge(e) \in Int
      BY <1>2, <1>3, <2>3, Purges
    <3>2. ~(e < d) /\ e # d
      BY <3>1, PurgeOrder
    <3> QED
      BY <3>2
  <2> QED
    BY <2>1, <2>2, <2>3
<1>4. CASE ~(h >= 3)
  <2>1. nextPurgeAt(t) = Purge(d)
    <3>1. nextPurgeAt(t) = berlinLocalToIso(24 * d + 3)
      BY <1>1, <1>4 DEF nextPurgeAt
    <3> QED
      BY <3>1, ThreeCorrections
  <2>2. t < Purge(d)
    BY <1>2, <1>4, Purges
  <2>3. ASSUME NEW e \in Int, t < Purge(e) PROVE d <= e
    <3>1. Purge(e) <= 24 * e + 2 /\ Purge(e) \in Int
      BY Purges
    <3> QED
      BY <1>2, <2>3, <3>1
  <2> QED
    BY <2>1, <2>2, <2>3
<1> QED
  BY <1>3, <1>4

\* The scheduler fires at 03:00 of each day, and once.
LEMMA FiresAt3 ==
  ASSUME summer \in BOOLEAN, NEW t \in Int
  PROVE  Fires(t) <=> \E d \in Int : t = Purge(d)
<1>1. ASSUME Fires(t) PROVE \E d \in Int : t = Purge(d)
  <2>1. PICK d \in Int, h \in 0..23 : Local(t) = 24 * d + h /\ Local(t) % 24 = h
    BY HasDay, Offsets
  <2>2. h = 3
    BY <1>1, <2>1 DEF Fires
  <2>3. Local(t) = 24 * d + h
    BY <2>1
  <2>4. /\ h >= 3 <=> Purge(d) <= t
        /\ h = 3 => Purge(d) = t
        /\ 24 * d - 2 <= t /\ t <= 24 * d + 22
    BY <2>3, From3, Zenon
  <2> QED
    BY <2>2, <2>4
<1>2. ASSUME NEW d \in Int, t = Purge(d) PROVE Fires(t)
  <2>1. 24 * d + 1 <= t /\ t <= 24 * d + 2 /\ t = 24 * d + 3 - DayOffset(d) /\ DayOffset(d) \in Int
    BY <1>2, Purges
  <2>2. Offset(t) = DayOffset(d)
    BY <2>1, OffsetOfDay
  <2>3. Local(t) = 24 * d + 3
    BY <2>1, <2>2, Offsets
  <2>4. Local(t) % 24 = 3
    BY <2>3, DayHour
  <2>5. Local(t - 1) = 24 * d + 1 \/ Local(t - 1) = 24 * d + 2
    <3>1. t - 1 \in Int /\ (t = 24 * d + 1 \/ t = 24 * d + 2)
      BY <2>1
    <3>2. /\ Offset(t - 1) = 1 \/ Offset(t - 1) = 2
          /\ Local(t - 1) = t - 1 + Offset(t - 1)
      BY <3>1, Offsets
    <3>3. CASE t = 24 * d + 1
      BY <3>2, <3>3
    <3>4. CASE t = 24 * d + 2
      <4>1. 24 * d + 1 <= t - 1 /\ t - 1 <= 24 * d + 23
        BY <3>4
      <4>2. Offset(t - 1) = DayOffset(d)
        BY <3>1, <4>1, OffsetOfDay
      <4>3. DayOffset(d) = 1
        BY <2>1, <3>4
      <4> QED
        BY <3>2, <3>4, <4>2, <4>3
    <3> QED
      BY <3>1, <3>3, <3>4
  <2>6. Local(t - 1) % 24 # 3
    BY <2>5, DayHour
  <2> QED
    BY <2>4, <2>6 DEF Fires
<1> QED
  BY <1>1, <1>2

\* From one hour to the next: the promise comes true or stands.
LEMMA PromiseStands ==
  ASSUME summer \in BOOLEAN, NEW t \in Int
  PROVE  IF Fires(t + 1)
         THEN nextPurgeAt(t) = t + 1
         ELSE nextPurgeAt(t) = nextPurgeAt(t + 1) /\ nextPurgeAt(t) > t + 1
<1>1. PICK d \in Int : /\ nextPurgeAt(t) = Purge(d) /\ t < Purge(d)
                       /\ \A e \in Int : t < Purge(e) => d <= e
  BY NextIsNext
<1>2. PICK e \in Int : /\ nextPurgeAt(t + 1) = Purge(e) /\ t + 1 < Purge(e)
                       /\ \A f \in Int : t + 1 < Purge(f) => e <= f
  BY NextIsNext
<1>3. Purge(d) \in Int /\ Purge(e) \in Int
  BY Purges
<1>4. CASE Fires(t + 1)
  <2>1. PICK f \in Int : t + 1 = Purge(f)
    BY <1>4, FiresAt3
  <2>2. d <= f
    BY <1>1, <2>1
  <2>3. d < f => Purge(d) < Purge(f)
    BY PurgeOrder
  <2>4. ~(d < f)
    BY <1>1, <1>3, <2>1, <2>3
  <2> QED
    BY <1>1, <1>4, <2>1, <2>2, <2>4
<1>5. CASE ~Fires(t + 1)
  <2>1. t + 1 # Purge(d)
    BY <1>5, FiresAt3
  <2>2. t + 1 < Purge(d)
    BY <1>1, <1>3, <2>1
  <2>3. e <= d /\ d <= e
    BY <1>1, <1>2, <1>3, <2>2
  <2>4. e = d
    BY <2>3
  <2> QED
    BY <1>1, <1>2, <1>5, <2>2, <2>4
<1> QED
  BY <1>4, <1>5

\* The same computation with the change it goes by as an argument: what the
\* next hour computes differs only in what it is given.
OffsetIn(s, t) == IF s = (t >= Change) THEN 2 ELSE 1

CorrectIn(s, t, target) == t + target - (t + OffsetIn(s, t))

NextIn(s, now) ==
  LET today == (now + OffsetIn(s, now)) \div 24
      hour == (now + OffsetIn(s, now)) % 24
      target == 24 * (IF hour >= 3 THEN today + 1 ELSE today) + 3
  IN CorrectIn(s, CorrectIn(s, CorrectIn(s, target, target), target), target)

LEMMA NextNow ==
  ASSUME NEW t
  PROVE  nextPurgeAt(t) = NextIn(summer, t)
BY Zenon DEF nextPurgeAt, berlinLocalToIso, Correct, Local, Offset, NextIn, CorrectIn, OffsetIn

LEMMA NextThen == nextPurgeAt(utc)' = NextIn(summer', utc')
BY Zenon DEF nextPurgeAt, berlinLocalToIso, Correct, Local, Offset, NextIn, CorrectIn, OffsetIn

ClockInv ==
    /\ summer \in BOOLEAN /\ utc \in Nat
    /\ IF ran THEN promise = {utc} ELSE \A p \in promise : p = nextPurgeAt(utc) /\ p > utc

\* The job runs at an hour exactly when everyone who looked since its last run
\* was promised that hour, whichever way the clock changes, on whatever day and
\* however long one watches.
THEOREM PromiseTheorem == ClockSpec => []PromiseKept
<1>1. ClockInit => ClockInv
  BY DEF ClockInit, ClockInv
<1>2. ClockInv /\ [ClockNext]_clockVars => ClockInv'
  <2> SUFFICES ASSUME ClockInv, [ClockNext]_clockVars PROVE ClockInv'
    OBVIOUS
  <2>1. CASE UNCHANGED clockVars
    <3>1. summer' = summer /\ utc' = utc /\ promise' = promise /\ ran' = ran
      BY <2>1 DEF clockVars
    <3>2. nextPurgeAt(utc)' = nextPurgeAt(utc)
      BY <3>1, NextNow, NextThen
    <3> QED
      BY <3>1, <3>2 DEF ClockInv
  <2>2. CASE Tick
    <3>1. /\ summer \in BOOLEAN /\ summer' = summer /\ utc \in Nat /\ utc' = utc + 1
          /\ ran' = Fires(utc + 1)
          /\ promise' = (IF ran THEN {} ELSE promise) \union {nextPurgeAt(utc)}
      BY <2>2 DEF Tick, ClockInv, computeNextBerlinPurgeIso
    <3>2. nextPurgeAt(utc)' = nextPurgeAt(utc + 1)
      <4>1. summer' = summer /\ utc' = utc + 1
        BY <3>1
      <4> QED
        BY <4>1, NextNow, NextThen
    <3>3. promise' = {nextPurgeAt(utc)}
      BY <3>1 DEF ClockInv
    <3>4. utc \in Int
      BY <3>1
    <3>5. CASE Fires(utc + 1)
      <4>1. nextPurgeAt(utc) = utc + 1
        BY <3>1, <3>4, <3>5, PromiseStands
      <4> QED
        BY <3>1, <3>3, <3>5, <4>1 DEF ClockInv
    <3>6. CASE ~Fires(utc + 1)
      <4>1. nextPurgeAt(utc) = nextPurgeAt(utc + 1) /\ nextPurgeAt(utc) > utc + 1
        BY <3>1, <3>4, <3>6, PromiseStands
      <4>2. ran' = FALSE
        BY <3>1, <3>6
      <4> QED
        BY <3>1, <3>2, <3>3, <4>1, <4>2 DEF ClockInv
    <3> QED
      BY <3>5, <3>6
  <2> QED
    BY <2>1, <2>2 DEF ClockNext
<1>3. ClockInv => PromiseKept
  BY DEF ClockInv, PromiseKept
<1> QED
  BY <1>1, <1>2, <1>3, PTL DEF ClockSpec

----------------------------------------------------------------------------
(* The CHECK24 desk.  What is on screen agrees with what is known, or a     *)
(* call that will put it right is under way, or its loss is remembered.     *)

DeskOps == {"load", "poll", "sync", "patch", "alerts"}

DeskFields == {"op", "set", "health", "at", "old", "polls", "got", "slot"}

DeskCallTypes(c) ==
    /\ DOMAIN c = DeskFields /\ c.op \in DeskOps /\ c.got \in Portals
    /\ c.at \in {"sent", "done", "refused"} /\ c.set.on \in BOOLEAN
    /\ c.set.content \in BOOLEAN

DeskTypes ==
    /\ portal \in Portals /\ seen \in Portals /\ drawn \in [Flats -> FlatKinds]
    /\ switches \in [master : BOOLEAN, enabled : BOOLEAN, health : BOOLEAN, content : BOOLEAN]
    /\ \A c \in deskCalls : DeskCallTypes(c)

LoadPending == \E c \in deskCalls : c.op = "load"

\* A save of the health card under way, or a save that is done, ends in a load
\* or in a failure that is remembered.
SavePending == \E c \in deskCalls : c.op = "patch" /\ (c.health \/ c.at = "done")

\* An answer that no write has outdated holds the settings in force.
AnswersInForce ==
    \A c \in deskCalls : c.op = "load" /\ c.at = "done" /\ ~c.old =>
        c.got.on = portal.on /\ c.got.content = portal.content

HeaderSettles == unsure \/ LoadPending \/ (header = "syncing") = (syncing \/ Running(seen.job))

SwitchesSettle ==
    edited \/ unsure \/ LoadPending \/ SavePending \/ switches = SwitchesOf(portal)

DeskIInv == DeskTypes /\ AnswersInForce /\ HeaderSettles /\ SwitchesSettle

LEMMA PortalTypes ==
    ASSUME NEW p \in Portals
    PROVE  /\ p.on \in BOOLEAN /\ p.content \in BOOLEAN /\ p.mappings \in [Flats -> FlatKinds]
           /\ SwitchesOf(p) \in [master : BOOLEAN, enabled : BOOLEAN, health : BOOLEAN,
                                 content : BOOLEAN]
BY DEF Portals, SwitchesOf

LEMMA DeskStart == DeskInit => DeskIInv
<1> SUFFICES ASSUME DeskInit PROVE DeskIInv
    OBVIOUS
<1>1. portal \in Portals /\ seen = portal /\ drawn = portal.mappings
    BY DeskBounds DEF DeskInit
<1>2. switches = SwitchesOf(portal) /\ deskCalls = {} /\ syncing = FALSE
    BY DEF DeskInit
<1>3. (header = "syncing") = Running(portal.job)
    BY DEF DeskInit, Running
<1>4. DeskTypes
    BY <1>1, <1>2, PortalTypes DEF DeskTypes
<1> QED
    BY <1>1, <1>2, <1>3, <1>4 DEF DeskIInv, AnswersInForce, HeaderSettles, SwitchesSettle

\* A call that is sent has the fields of one, whatever is under way.
LEMMA SentCall ==
    ASSUME DeskTypes, NEW op \in DeskOps, NEW set, NEW health, NEW S,
           set.on \in BOOLEAN, set.content \in BOOLEAN
    PROVE  LET c == CallFor(op, set, health, S)
           IN DeskCallTypes(c) /\ c.op = op /\ c.health = health /\ c.at = "sent"
BY DEF DeskTypes, CallFor, DeskCallTypes, DeskFields

\* Giving a call another slot, age or count of polls leaves the rest.
LEMMA Relabelled ==
    ASSUME NEW c, DeskCallTypes(c), NEW x
    PROVE  /\ LET d == [c EXCEPT !.slot = x]
              IN DeskCallTypes(d) /\ d.op = c.op /\ d.health = c.health /\ d.at = c.at
                 /\ d.got = c.got /\ d.old = c.old
           /\ LET d == [c EXCEPT !.polls = x]
              IN DeskCallTypes(d) /\ d.op = c.op /\ d.health = c.health /\ d.at = c.at
                 /\ d.got = c.got /\ d.old = c.old
           /\ LET d == [c EXCEPT !.old = TRUE]
              IN DeskCallTypes(d) /\ d.op = c.op /\ d.health = c.health /\ d.at = c.at
                 /\ d.got = c.got /\ d.old
BY DEF DeskCallTypes, DeskFields

\* What a change of the calls under way does not disturb: every call but the
\* one that is over goes on, and no answer becomes newer.
GoOn(S, T, over) ==
    /\ \A d \in T : DeskCallTypes(d)
    /\ \A d \in S \ over : \E e \in T : e.op = d.op /\ e.health = d.health /\ e.at = d.at
    /\ \A e \in T : e.at = "done" /\ ~e.old =>
         \E d \in S : d.op = e.op /\ d.at = "done" /\ ~d.old /\ d.got = e.got

LEMMA OrphanedGoOn ==
    ASSUME NEW S, \A d \in S : DeskCallTypes(d)
    PROVE  GoOn(S, Orphaned(S), {})
<1> DEFINE new(d) == IF d.op = "poll" /\ d.polls = 0 THEN [d EXCEPT !.polls = timer.polls] ELSE d
<1>1. ASSUME NEW d \in S
      PROVE  DeskCallTypes(new(d)) /\ new(d).op = d.op /\ new(d).health = d.health
             /\ new(d).at = d.at /\ new(d).got = d.got /\ new(d).old = d.old
    BY Relabelled
<1>2. Orphaned(S) = {new(d) : d \in S}
    BY DEF Orphaned
<1> HIDE DEF new
<1> QED
    BY <1>1, <1>2 DEF GoOn

LEMMA StartGoOn ==
    ASSUME DeskTypes, NEW op \in DeskOps, NEW set, NEW health, NEW S, NEW T, NEW over,
           set.on \in BOOLEAN, set.content \in BOOLEAN, GoOn(S, T, over)
    PROVE  GoOn(S, T \union {CallFor(op, set, health, S)}, over)
BY SentCall DEF GoOn

LEMMA OverGoesOn ==
    ASSUME DeskTypes, NEW c \in deskCalls, NEW next \in SUBSET DeskOps, NEW health, NEW gone,
           CallOver(c, next, health, gone)
    PROVE  /\ GoOn(deskCalls, deskCalls', {c})
           /\ "load" \in next => LoadPending'
<1> DEFINE rest == {IF d.op = "load" /\ c.op = "load" THEN [d EXCEPT !.old = TRUE] ELSE d :
                      d \in deskCalls \ {c}}
           kept == IF gone THEN Orphaned(rest) ELSE rest
           sent == {[CallFor(op, c.set, health, rest) EXCEPT !.slot = c.slot] : op \in next}
<1>1. deskCalls' = kept \union sent
    BY DEF CallOver
<1>2. GoOn(deskCalls, rest, {c})
    <2> DEFINE new(d) == IF d.op = "load" /\ c.op = "load" THEN [d EXCEPT !.old = TRUE] ELSE d
    <2>1. ASSUME NEW d \in deskCalls
          PROVE  DeskCallTypes(new(d)) /\ new(d).op = d.op /\ new(d).health = d.health
                 /\ new(d).at = d.at /\ new(d).got = d.got /\ (new(d).old \/ new(d).old = d.old)
        BY Relabelled DEF DeskTypes
    <2>2. rest = {new(d) : d \in deskCalls \ {c}}
        OBVIOUS
    <2> HIDE DEF new, rest
    <2> QED
        BY <2>1, <2>2 DEF GoOn
<1>3. GoOn(rest, Orphaned(rest), {})
    BY <1>2, OrphanedGoOn DEF GoOn
<1>4. ASSUME NEW op \in next, NEW e,
             e = [CallFor(op, c.set, health, rest) EXCEPT !.slot = c.slot]
      PROVE  DeskCallTypes(e) /\ e.at = "sent"
    <2>1. c.set.on \in BOOLEAN /\ c.set.content \in BOOLEAN /\ op \in DeskOps
        BY DEF DeskTypes, DeskCallTypes
    <2> HIDE DEF rest
    <2>2. PICK d : d = CallFor(op, c.set, health, rest)
        OBVIOUS
    <2>3. DeskCallTypes(d) /\ d.op = op /\ d.at = "sent"
        BY <2>1, <2>2, SentCall
    <2> QED
        BY <1>4, <2>2, <2>3, Relabelled
<1>5. "load" \in next => \E e \in sent : e.op = "load"
    <2> SUFFICES ASSUME "load" \in next PROVE \E e \in sent : e.op = "load"
        OBVIOUS
    <2> HIDE DEF rest
    <2>1. PICK d : d = CallFor("load", c.set, health, rest)
        OBVIOUS
    <2>2. DeskCallTypes(d) /\ d.op = "load"
        BY <2>1, SentCall DEF DeskTypes, DeskCallTypes, DeskOps
    <2>3. [d EXCEPT !.slot = c.slot].op = "load"
        BY <2>2, Relabelled
    <2>4. [d EXCEPT !.slot = c.slot] \in sent
        BY <2>1
    <2> HIDE DEF sent
    <2> QED
        BY <2>3, <2>4
<1>7. \A e \in sent : DeskCallTypes(e) /\ e.at = "sent"
    BY <1>4
<1> HIDE DEF rest, sent
<1>6. GoOn(deskCalls, kept, {c})
    <2>1. CASE gone
        BY <1>2, <1>3, <2>1 DEF GoOn
    <2> QED
        BY <1>2, <2>1
<1> HIDE DEF kept
<1> QED
    BY <1>1, <1>5, <1>6, <1>7 DEF GoOn, LoadPending

LEMMA GoOnGives ==
    ASSUME DeskIInv, NEW over, GoOn(deskCalls, deskCalls', over),
           portal'.on = portal.on, portal'.content = portal.content
    PROVE  /\ \A d \in deskCalls' : DeskCallTypes(d)
           /\ AnswersInForce'
           /\ (\E d \in deskCalls \ over : d.op = "load") => LoadPending'
           /\ (\E d \in deskCalls \ over : d.op = "patch" /\ (d.health \/ d.at = "done"))
                 => SavePending'
BY DEF GoOn, DeskIInv, AnswersInForce, LoadPending, SavePending

LEMMA CallIsOpen ==
    ASSUME DeskIInv, NEW op \in DeskOps, NEW set, NEW health, Start(op, set, health),
           set.on \in BOOLEAN, set.content \in BOOLEAN
    PROVE  GoOn(deskCalls, deskCalls', {})
<1>1. GoOn(deskCalls, deskCalls, {})
    BY DEF GoOn, DeskIInv, DeskTypes
<1>2. DeskTypes /\ deskCalls' = deskCalls \union {CallFor(op, set, health, deskCalls)}
    BY DEF DeskIInv, Start
<1> QED
    BY <1>1, <1>2, StartGoOn

\* Nothing but the calls changes, and all go on.
LEMMA OnlyCalls ==
    ASSUME DeskIInv, GoOn(deskCalls, deskCalls', {}),
           UNCHANGED <<portal, seen, syncing, header, drawn, switches, edited, unsure>>
    PROVE  DeskIInv'
<1>1. /\ \A d \in deskCalls' : DeskCallTypes(d)
      /\ AnswersInForce' /\ (LoadPending => LoadPending') /\ (SavePending => SavePending')
    BY GoOnGives DEF LoadPending, SavePending
<1>2. DeskTypes'
    BY <1>1 DEF DeskIInv, DeskTypes
<1>3. HeaderSettles'
    BY <1>1 DEF DeskIInv, HeaderSettles, Running
<1>4. SwitchesSettle'
    BY <1>1 DEF DeskIInv, SwitchesSettle, SwitchesOf
<1> QED
    BY <1>1, <1>2, <1>3, <1>4 DEF DeskIInv

LEMMA ClicksThatCall ==
    ASSUME DeskIInv, refresh \/ pollTick \/ lateTick \/ submitSettings \/ toggleAlerts
    PROVE  DeskIInv'
<1>1. NoSet.on \in BOOLEAN /\ NoSet.content \in BOOLEAN
    BY DEF NoSet
<1>2. GoOn(deskCalls, deskCalls', {})
    <2>1. CASE refresh
        <3>1. Start("load", NoSet, FALSE) /\ "load" \in DeskOps
            BY <2>1 DEF refresh, DeskOps
        <3> QED
            BY <1>1, <3>1, CallIsOpen
    <2>2. CASE pollTick \/ lateTick
        <3>1. Start("poll", NoSet, FALSE) /\ "poll" \in DeskOps
            BY <2>2 DEF pollTick, lateTick, DeskOps
        <3> QED
            BY <1>1, <3>1, CallIsOpen
    <2>3. CASE submitSettings
        <3>1. PICK s : s = [on |-> switches.master \/ switches.enabled, content |-> switches.content]
            OBVIOUS
        <3>2. s.on \in BOOLEAN /\ s.content \in BOOLEAN
            BY <3>1 DEF DeskIInv, DeskTypes
        <3>3. Start("patch", s, FALSE)
            BY <2>3, <3>1 DEF submitSettings
        <3> QED
            BY <3>2, <3>3, CallIsOpen DEF DeskOps
    <2>4. CASE toggleAlerts
        <3>1. PICK s : s = [NoSet EXCEPT !.on = ~seen.alerts]
            OBVIOUS
        <3>2. s.on \in BOOLEAN /\ s.content \in BOOLEAN
            BY <3>1 DEF NoSet
        <3>3. Start("alerts", s, FALSE)
            BY <2>4, <3>1 DEF toggleAlerts
        <3> QED
            BY <3>2, <3>3, CallIsOpen DEF DeskOps
    <2> QED
        BY <2>1, <2>2, <2>3, <2>4
<1>3. UNCHANGED <<portal, seen, syncing, header, drawn, switches, edited, unsure>>
    BY DEF refresh, pollTick, lateTick, submitSettings, toggleAlerts
<1> QED
    BY <1>2, <1>3, OnlyCalls

LEMMA HealthClick ==
    ASSUME DeskIInv, toggleHealth
    PROVE  DeskIInv'
<1>1. PICK s : s = [on |-> ~switches.health, content |-> switches.content]
    OBVIOUS
<1>2. s.on \in BOOLEAN /\ s.content \in BOOLEAN
    BY <1>1 DEF DeskIInv, DeskTypes
<1>3. Start("patch", s, TRUE)
    BY <1>1 DEF toggleHealth
<1>4. GoOn(deskCalls, deskCalls', {}) /\ \E d \in deskCalls' : d.op = "patch" /\ d.health = TRUE
    <2>1. PICK op, health : op = "patch" /\ health = TRUE /\ op \in DeskOps
        BY DEF DeskOps
    <2>2. Start(op, s, health)
        BY <1>3, <2>1
    <2>3. GoOn(deskCalls, deskCalls', {})
        BY <1>2, <2>1, <2>2, CallIsOpen
    <2>4. PICK d : d = CallFor("patch", s, TRUE, deskCalls)
        OBVIOUS
    <2>5. d.op = "patch" /\ d.health = TRUE
        BY <2>4 DEF CallFor
    <2>6. d \in deskCalls'
        BY <1>3, <2>4 DEF Start
    <2> QED
        BY <2>3, <2>5, <2>6
<1>5. UNCHANGED <<portal, seen, syncing, header, drawn, edited, unsure>>
    BY DEF toggleHealth
<1>6. SavePending'
    BY <1>4 DEF SavePending
<1>7. /\ \A d \in deskCalls' : DeskCallTypes(d)
      /\ AnswersInForce' /\ (LoadPending => LoadPending')
    BY <1>4, <1>5, GoOnGives DEF LoadPending
<1>8. switches' \in [master : BOOLEAN, enabled : BOOLEAN, health : BOOLEAN, content : BOOLEAN]
    BY DEF toggleHealth, DeskIInv, DeskTypes
<1>9. DeskTypes' /\ HeaderSettles' /\ SwitchesSettle'
    BY <1>5, <1>6, <1>7, <1>8 DEF DeskIInv, DeskTypes, HeaderSettles, Running, SwitchesSettle
<1> QED
    BY <1>7, <1>9 DEF DeskIInv

LEMMA SendNow ==
    ASSUME DeskIInv, syncNow
    PROVE  DeskIInv'
<1>1. UNCHANGED <<portal, seen, drawn, switches, edited, unsure>> /\ syncing' = TRUE
      /\ header' = "syncing"
    BY DEF syncNow, RenderHeader
<1>2. PICK d : d = CallFor("sync", NoSet, FALSE, deskCalls)
    OBVIOUS
<1>3. DeskTypes /\ DeskCallTypes(d) /\ d.at = "sent"
    <2>1. NoSet.on \in BOOLEAN /\ NoSet.content \in BOOLEAN /\ "sync" \in DeskOps
        BY DEF NoSet, DeskOps
    <2>2. DeskTypes
        BY DEF DeskIInv
    <2>3. PICK op, set, health : op = "sync" /\ set = NoSet /\ health = FALSE
        OBVIOUS
    <2>4. d = CallFor(op, set, health, deskCalls)
        BY <1>2, <2>3
    <2>5. op \in DeskOps /\ set.on \in BOOLEAN /\ set.content \in BOOLEAN
        BY <2>1, <2>3
    <2>6. DeskCallTypes(d) /\ d.at = "sent"
        BY <2>2, <2>4, <2>5, SentCall
    <2> QED
        BY <2>2, <2>6
<1>4. deskCalls' = Orphaned(deskCalls) \union {d}
    BY <1>2 DEF syncNow
<1>5. GoOn(deskCalls, Orphaned(deskCalls), {})
    BY <1>3, OrphanedGoOn DEF DeskTypes
<1>6. GoOn(deskCalls, deskCalls', {})
    BY <1>3, <1>4, <1>5 DEF GoOn
<1>7. /\ \A e \in deskCalls' : DeskCallTypes(e)
      /\ AnswersInForce' /\ (LoadPending => LoadPending') /\ (SavePending => SavePending')
    BY <1>1, <1>6, GoOnGives DEF LoadPending, SavePending
<1>8. DeskTypes' /\ HeaderSettles'
    BY <1>1, <1>7 DEF DeskIInv, DeskTypes, HeaderSettles, Running
<1>9. SwitchesSettle'
    BY <1>1, <1>7 DEF DeskIInv, SwitchesSettle, SwitchesOf
<1> QED
    BY <1>7, <1>8, <1>9 DEF DeskIInv

LEMMA MovedSwitches ==
    ASSUME DeskIInv, (\E on \in BOOLEAN : syncAutoUi(on)) \/ tickContent
    PROVE  DeskIInv'
<1>1. UNCHANGED <<portal, seen, syncing, header, drawn, deskCalls, unsure>> /\ edited' = TRUE
    BY DEF syncAutoUi, tickContent
<1>2. switches' \in [master : BOOLEAN, enabled : BOOLEAN, health : BOOLEAN, content : BOOLEAN]
    BY DEF syncAutoUi, tickContent, DeskIInv, DeskTypes
<1> QED
    BY <1>1, <1>2 DEF DeskIInv, DeskTypes, AnswersInForce, HeaderSettles, LoadPending, SavePending,
       SwitchesSettle, Running

LEMMA JobStep ==
    ASSUME DeskIInv, jobMoves
    PROVE  DeskIInv'
<1>1. UNCHANGED <<seen, syncing, header, drawn, switches, edited, deskCalls, unsure>>
    BY DEF jobMoves
<1>2. portal' \in Portals /\ portal'.on = portal.on /\ portal'.content = portal.content
    <2>1. portal \in Portals
        BY DEF DeskIInv, DeskTypes
    <2>2. CASE portal' = [portal EXCEPT !.job = "running"]
        BY <2>1, <2>2 DEF Portals
    <2>3. CASE \E job \in {"completed", "failed"}, f \in Flats, kind \in FlatKinds :
                 portal' = [portal EXCEPT !.job = job, !.mappings[f] = kind]
        <3>1. PICK job \in {"completed", "failed"}, f \in Flats, kind \in FlatKinds :
                portal' = [portal EXCEPT !.job = job, !.mappings[f] = kind]
            BY <2>3
        <3>2. PICK m : m = [portal.mappings EXCEPT ![f] = kind]
            OBVIOUS
        <3>3. m \in [Flats -> FlatKinds]
            BY <2>1, <3>2 DEF Portals
        <3>4. portal' = [portal EXCEPT !.job = job, !.mappings = m]
            BY <2>1, <3>1, <3>2 DEF Portals
        <3> QED
            BY <2>1, <3>3, <3>4 DEF Portals
    <2> QED
        BY <2>2, <2>3 DEF jobMoves
<1>3. SwitchesOf(portal)' = SwitchesOf(portal)
    BY <1>2 DEF SwitchesOf
<1>4. DeskTypes' /\ AnswersInForce' /\ HeaderSettles'
    BY <1>1, <1>2 DEF DeskIInv, DeskTypes, AnswersInForce, HeaderSettles, LoadPending, Running
<1>5. SwitchesSettle'
    BY <1>1, <1>3 DEF DeskIInv, SwitchesSettle, LoadPending, SavePending
<1> QED
    BY <1>4, <1>5 DEF DeskIInv

\* The server answers.
LEMMA LoadAnswer ==
    ASSUME DeskIInv, NEW c \in deskCalls, answerLoad(c)
    PROVE  DeskIInv'
<1>1. PICK e : e = [c EXCEPT !.at = "done", !.got = portal]
    OBVIOUS
<1>2. DeskCallTypes(c) /\ portal \in Portals
    BY DEF DeskIInv, DeskTypes
<1>3. DeskCallTypes(e) /\ e.op = c.op /\ e.health = c.health /\ e.at = "done" /\ e.got = portal
    BY <1>1, <1>2 DEF DeskCallTypes, DeskFields
<1>4. deskCalls' = (deskCalls \ {c}) \union {e} /\ c.op \in {"load", "poll"}
      /\ UNCHANGED <<portal, seen, syncing, header, drawn, switches, edited, unsure>>
    BY <1>1 DEF answerLoad
<1>5. DeskTypes'
    BY <1>3, <1>4 DEF DeskIInv, DeskTypes
<1>6. AnswersInForce'
    BY <1>3, <1>4 DEF DeskIInv, AnswersInForce
<1>7. (LoadPending => LoadPending') /\ (SavePending => SavePending')
    BY <1>3, <1>4 DEF LoadPending, SavePending
<1> QED
    BY <1>4, <1>5, <1>6, <1>7 DEF DeskIInv, HeaderSettles, SwitchesSettle, Running, SwitchesOf

LEMMA SyncAnswer ==
    ASSUME DeskIInv, NEW c \in deskCalls, answerSync(c)
    PROVE  DeskIInv'
<1>1. PICK e : e = [c EXCEPT !.at = IF Running(portal.job) THEN "refused" ELSE "done"]
    OBVIOUS
<1>2. DeskCallTypes(c) /\ portal \in Portals
    BY DEF DeskIInv, DeskTypes
<1>3. DeskCallTypes(e) /\ e.op = c.op /\ c.op = "sync"
    BY <1>1, <1>2 DEF DeskCallTypes, DeskFields, answerSync
<1>4. deskCalls' = (deskCalls \ {c}) \union {e} /\ portal' = [portal EXCEPT !.job = "running"]
      /\ UNCHANGED <<seen, syncing, header, drawn, switches, edited, unsure>>
    BY <1>1 DEF answerSync
<1>5. portal' \in Portals /\ portal'.on = portal.on /\ portal'.content = portal.content
    BY <1>2, <1>4 DEF Portals
<1>6. DeskTypes'
    BY <1>3, <1>4, <1>5 DEF DeskIInv, DeskTypes
<1>7. AnswersInForce'
    BY <1>3, <1>4, <1>5 DEF DeskIInv, AnswersInForce
<1>8. (LoadPending => LoadPending') /\ (SavePending => SavePending')
    BY <1>3, <1>4 DEF LoadPending, SavePending
<1>9. SwitchesOf(portal)' = SwitchesOf(portal)
    BY <1>5 DEF SwitchesOf
<1> QED
    BY <1>4, <1>6, <1>7, <1>8, <1>9 DEF DeskIInv, HeaderSettles, SwitchesSettle, Running

LEMMA WriteAnswer ==
    ASSUME DeskIInv, NEW c \in deskCalls, answerWrite(c)
    PROVE  DeskIInv'
<1>1. PICK e : e = [c EXCEPT !.at = "done"]
    OBVIOUS
<1>2. DeskCallTypes(c) /\ portal \in Portals /\ \A d \in deskCalls : DeskCallTypes(d)
    BY DEF DeskIInv, DeskTypes
<1>3. DeskCallTypes(e) /\ e.op = c.op /\ c.op \in {"patch", "alerts"} /\ e.at = "done"
    BY <1>1, <1>2 DEF DeskCallTypes, DeskFields, answerWrite
<1> DEFINE aged(d) == IF d.at = "done" /\ d.op \in {"load", "poll"} THEN [d EXCEPT !.old = TRUE]
                     ELSE d
<1>4. ASSUME NEW d \in deskCalls
      PROVE  /\ DeskCallTypes(aged(d)) /\ aged(d).op = d.op /\ aged(d).health = d.health
             /\ aged(d).at = d.at
             /\ d.at = "done" /\ d.op = "load" => aged(d).old
    BY <1>2, Relabelled
<1>5. deskCalls' = {aged(d) : d \in deskCalls \ {c}} \union {e}
    BY <1>1 DEF answerWrite, Aged24
<1>6. UNCHANGED <<seen, syncing, header, drawn, switches, edited, unsure>>
    BY DEF answerWrite
<1> HIDE DEF aged
<1>7. portal' \in Portals
    <2>1. c.set.on \in BOOLEAN /\ c.set.content \in BOOLEAN
        BY <1>2 DEF DeskCallTypes
    <2>2. portal' = [portal EXCEPT !.alerts = c.set.on]
          \/ portal' = [portal EXCEPT !.on = c.set.on, !.content = c.set.content]
        BY DEF answerWrite
    <2> QED
        BY <1>2, <2>1, <2>2 DEF Portals
<1>8. DeskTypes'
    BY <1>3, <1>4, <1>5, <1>6, <1>7 DEF DeskIInv, DeskTypes
<1>9. AnswersInForce'
    BY <1>3, <1>4, <1>5 DEF AnswersInForce
<1>10. LoadPending => LoadPending'
    BY <1>3, <1>4, <1>5 DEF LoadPending
<1>11. HeaderSettles'
    BY <1>6, <1>10 DEF DeskIInv, HeaderSettles, Running
<1>12. SwitchesSettle'
    <2>1. CASE c.op = "patch"
        BY <1>3, <1>5, <2>1 DEF SwitchesSettle, SavePending
    <2>2. CASE c.op = "alerts"
        <3>1. portal'.on = portal.on /\ portal'.content = portal.content
            BY <1>2, <2>2 DEF answerWrite, Portals
        <3>2. SwitchesOf(portal)' = SwitchesOf(portal)
            BY <3>1 DEF SwitchesOf
        <3>3. SavePending => SavePending'
            BY <1>4, <1>5, <2>2 DEF SavePending
        <3> QED
            BY <1>6, <1>10, <3>2, <3>3 DEF DeskIInv, SwitchesSettle
    <2> QED
        BY <1>3, <2>1, <2>2
<1> QED
    BY <1>8, <1>9, <1>11, <1>12 DEF DeskIInv

\* The page takes an answer: what is drawn, or a load that will draw it.
LEMMA PollTaken ==
    ASSUME DeskIInv, NEW c \in deskCalls, pollAnswered(c)
    PROVE  DeskIInv'
<1> DEFINE still == syncing /\ ~SyncEnds(c.got)
           over == ~still \/ GivesUp(c)
<1>1. /\ c.op = "poll" /\ seen' = c.got /\ syncing' = (still /\ ~over)
      /\ RenderHeader(c.got.job, still)
      /\ CallOver(c, IF over THEN {"load"} ELSE {}, FALSE, over)
      /\ UNCHANGED <<portal, drawn, switches, edited, unsure>>
    BY DEF pollAnswered
<1>2. DeskTypes /\ c.got \in Portals
    BY DEF DeskIInv, DeskTypes, DeskCallTypes
<1> HIDE DEF still, over
<1>3. PICK next, gone, health : next = (IF over THEN {"load"} ELSE {}) /\ gone = over /\ health = FALSE
    OBVIOUS
<1>4. next \in SUBSET DeskOps /\ CallOver(c, next, health, gone)
    BY <1>1, <1>3 DEF DeskOps
<1>5. GoOn(deskCalls, deskCalls', {c}) /\ ("load" \in next => LoadPending')
    BY <1>2, <1>4, OverGoesOn
<1>6. /\ \A d \in deskCalls' : DeskCallTypes(d)
      /\ AnswersInForce' /\ (LoadPending => LoadPending') /\ (SavePending => SavePending')
    BY <1>1, <1>5, GoOnGives DEF LoadPending, SavePending
<1>7. DeskTypes'
    BY <1>1, <1>2, <1>6 DEF DeskTypes
<1>8. HeaderSettles'
    <2>1. CASE over
        BY <1>3, <1>5, <2>1 DEF HeaderSettles
    <2>2. CASE ~over
        <3>1. header' = IF still \/ Running(c.got.job) THEN "syncing" ELSE "idle"
            BY <1>1 DEF RenderHeader
        <3> QED
            BY <1>1, <2>2, <3>1 DEF HeaderSettles, Running
    <2> QED
        BY <2>1, <2>2
<1>9. SwitchesSettle'
    BY <1>1, <1>6 DEF DeskIInv, SwitchesSettle, SwitchesOf
<1> QED
    BY <1>6, <1>7, <1>8, <1>9 DEF DeskIInv

LEMMA LoadTaken ==
    ASSUME DeskIInv, NEW c \in deskCalls, loadCheck24(c)
    PROVE  DeskIInv'
<1> DEFINE ends == SyncEnds(c.got)
<1>1. /\ c.op = "load" /\ c.at = "done" /\ seen' = c.got /\ drawn' = c.got.mappings
      /\ RenderHeader(c.got.job, syncing') /\ unsure' = c.old
      /\ switches' = SwitchesOf(c.got) /\ portal' = portal
      /\ CallOver(c, {}, FALSE, ends)
    BY DEF loadCheck24
<1>2. DeskTypes /\ c.got \in Portals
    BY DEF DeskIInv, DeskTypes, DeskCallTypes
<1> HIDE DEF ends
<1>3. PICK next, gone, health : next = {} /\ gone = ends /\ health = FALSE
    OBVIOUS
<1>4. next \in SUBSET DeskOps /\ CallOver(c, next, health, gone)
    BY <1>1, <1>3
<1>5. GoOn(deskCalls, deskCalls', {c})
    BY <1>2, <1>4, OverGoesOn
<1>6. (\A d \in deskCalls' : DeskCallTypes(d)) /\ AnswersInForce'
    BY <1>1, <1>5, GoOnGives
<1>7. DeskTypes'
    BY <1>1, <1>2, <1>6, PortalTypes DEF DeskTypes
<1>8. HeaderSettles'
    BY <1>1 DEF HeaderSettles, RenderHeader, Running
<1>9. SwitchesSettle'
    <2>1. CASE c.old
        BY <1>1, <2>1 DEF SwitchesSettle
    <2>2. CASE ~c.old
        <3>1. c.got.on = portal.on /\ c.got.content = portal.content
            BY <1>1, <2>2 DEF DeskIInv, AnswersInForce
        <3>2. switches' = SwitchesOf(portal)'
            BY <1>1, <3>1 DEF SwitchesOf
        <3> QED
            BY <3>2 DEF SwitchesSettle
    <2> QED
        BY <2>1, <2>2
<1> QED
    BY <1>6, <1>7, <1>8, <1>9 DEF DeskIInv

LEMMA SyncTaken ==
    ASSUME DeskIInv, NEW c \in deskCalls, syncAnswered(c)
    PROVE  DeskIInv'
<1>1. c.op = "sync" /\ UNCHANGED <<portal, seen, drawn, switches, edited, unsure>>
    BY DEF syncAnswered
<1>2. \/ stopSyncing /\ CallOver(c, {"load"}, FALSE, TRUE)
      \/ UNCHANGED <<syncing, header>> /\ CallOver(c, {}, FALSE, FALSE)
    BY DEF syncAnswered
<1>3. DeskTypes
    BY DEF DeskIInv
<1>4. GoOn(deskCalls, deskCalls', {c})
    <2>1. PICK next, health, gone : next \in SUBSET DeskOps /\ CallOver(c, next, health, gone)
        BY <1>2 DEF DeskOps
    <2> QED
        BY <1>3, <2>1, OverGoesOn
<1>5. /\ \A d \in deskCalls' : DeskCallTypes(d)
      /\ AnswersInForce' /\ (LoadPending => LoadPending') /\ (SavePending => SavePending')
    BY <1>1, <1>4, GoOnGives DEF LoadPending, SavePending
<1>6. DeskTypes'
    BY <1>1, <1>3, <1>5 DEF DeskTypes
<1>7. HeaderSettles'
    <2>1. CASE stopSyncing
        BY <1>1, <2>1 DEF stopSyncing, HeaderSettles, RenderHeader, Running
    <2>2. CASE UNCHANGED <<syncing, header>>
        BY <1>1, <1>5, <2>2 DEF DeskIInv, HeaderSettles, Running
    <2> QED
        BY <1>2, <2>1, <2>2
<1>8. SwitchesSettle'
    BY <1>1, <1>5 DEF DeskIInv, SwitchesSettle, SwitchesOf
<1> QED
    BY <1>5, <1>6, <1>7, <1>8 DEF DeskIInv

LEMMA SaveTaken ==
    ASSUME DeskIInv, NEW c \in deskCalls, settingsSaved(c)
    PROVE  DeskIInv'
<1>1. UNCHANGED <<portal, syncing, header, drawn, edited, unsure>>
      /\ CallOver(c, {"load"}, c.health, FALSE)
    BY DEF settingsSaved
<1>2. DeskTypes /\ DeskCallTypes(c)
    BY DEF DeskIInv, DeskTypes
<1>3. PICK next, gone : next = {"load"} /\ gone = FALSE
    OBVIOUS
<1>4. next \in SUBSET DeskOps /\ CallOver(c, next, c.health, gone)
    BY <1>1, <1>3 DEF DeskOps
<1>5. GoOn(deskCalls, deskCalls', {c}) /\ LoadPending'
    BY <1>2, <1>3, <1>4, OverGoesOn
<1>6. (\A d \in deskCalls' : DeskCallTypes(d)) /\ AnswersInForce'
    BY <1>1, <1>5, GoOnGives
<1>7. seen' \in Portals
    BY <1>2 DEF settingsSaved, DeskTypes, DeskCallTypes, Portals
<1>8. switches' \in [master : BOOLEAN, enabled : BOOLEAN, health : BOOLEAN, content : BOOLEAN]
    BY <1>2 DEF settingsSaved, DeskTypes, DeskCallTypes
<1>9. DeskTypes'
    BY <1>1, <1>2, <1>6, <1>7, <1>8 DEF DeskTypes
<1> QED
    BY <1>5, <1>6, <1>9 DEF DeskIInv, HeaderSettles, SwitchesSettle

\* A failure is remembered where something on screen rests on it.
LEMMA CallLost ==
    ASSUME DeskIInv, NEW c \in deskCalls, deskCallFails(c)
    PROVE  DeskIInv'
<1>1. /\ c.at = "sent" /\ UNCHANGED <<portal, seen, drawn, edited>>
      /\ unsure' = (unsure \/ c.op = "load" \/ c.health)
      /\ switches' = IF c.health THEN [switches EXCEPT !.health = ~c.set.on] ELSE switches
      /\ CallOver(c, {}, FALSE, c.op = "sync")
      /\ stopSyncing \/ UNCHANGED <<syncing, header>>
    BY DEF deskCallFails
<1>2. DeskTypes /\ DeskCallTypes(c)
    BY DEF DeskIInv, DeskTypes
<1>3. PICK next, health, gone : next = {} /\ health = FALSE /\ gone = (c.op = "sync")
    OBVIOUS
<1>4. next \in SUBSET DeskOps /\ CallOver(c, next, health, gone)
    BY <1>1, <1>3
<1>5. GoOn(deskCalls, deskCalls', {c})
    BY <1>2, <1>4, OverGoesOn
<1>6. /\ \A d \in deskCalls' : DeskCallTypes(d)
      /\ AnswersInForce'
      /\ LoadPending => c.op = "load" \/ LoadPending'
      /\ SavePending => c.health \/ SavePending'
    BY <1>1, <1>5, GoOnGives DEF LoadPending, SavePending
<1>7. switches' \in [master : BOOLEAN, enabled : BOOLEAN, health : BOOLEAN, content : BOOLEAN]
    BY <1>1, <1>2 DEF DeskTypes, DeskCallTypes
<1>8. DeskTypes'
    BY <1>1, <1>2, <1>6, <1>7 DEF DeskTypes
<1>9. HeaderSettles'
    <2>1. CASE stopSyncing
        BY <1>1, <2>1 DEF stopSyncing, HeaderSettles, RenderHeader, Running
    <2>2. CASE UNCHANGED <<syncing, header>>
        BY <1>1, <1>6, <2>2 DEF DeskIInv, HeaderSettles, Running
    <2> QED
        BY <1>1, <2>1, <2>2
<1>10. SwitchesSettle'
    <2>1. CASE c.health
        BY <1>1, <2>1 DEF SwitchesSettle
    <2>2. CASE ~c.health
        BY <1>1, <1>6, <2>2 DEF DeskIInv, SwitchesSettle, SwitchesOf
    <2> QED
        BY <2>1, <2>2
<1> QED
    BY <1>6, <1>8, <1>9, <1>10 DEF DeskIInv

LEMMA DeskStep == DeskIInv /\ [DeskNext]_deskVars => DeskIInv'
<1> SUFFICES ASSUME DeskIInv, [DeskNext]_deskVars PROVE DeskIInv'
    OBVIOUS
<1>1. CASE UNCHANGED deskVars
    BY <1>1 DEF deskVars, DeskIInv, DeskTypes, AnswersInForce, HeaderSettles, SwitchesSettle,
       LoadPending, SavePending, Running, SwitchesOf
<1>2. CASE refresh \/ pollTick \/ lateTick \/ submitSettings \/ toggleAlerts
    BY <1>2, ClicksThatCall
<1>3. CASE toggleHealth \/ syncNow \/ jobMoves
    BY <1>3, HealthClick, SendNow, JobStep
<1>4. CASE (\E on \in BOOLEAN : syncAutoUi(on)) \/ tickContent
    BY <1>4, MovedSwitches
<1>5. ASSUME NEW c \in deskCalls, answerLoad(c) \/ answerSync(c) \/ answerWrite(c)
      PROVE  DeskIInv'
    BY <1>5, LoadAnswer, SyncAnswer, WriteAnswer
<1>6. ASSUME NEW c \in deskCalls,
             pollAnswered(c) \/ loadCheck24(c) \/ syncAnswered(c) \/ settingsSaved(c)
             \/ deskCallFails(c)
      PROVE  DeskIInv'
    BY <1>6, PollTaken, LoadTaken, SyncTaken, SaveTaken, CallLost
<1> QED
    BY <1>1, <1>2, <1>3, <1>4, <1>5, <1>6 DEF DeskNext

\* Each apartment has one state, and its badge and its reason go with it.
LEMMA StateOfMapping ==
    ASSUME NEW m \in Kinds
    PROVE  /\ check24MappingState(m) \in {"archived", "ready", "error", "partial"}
           /\ check24MappingState(m) \notin {"ready", "archived"} =>
                /\ renderCheck24ApartmentCards(m) = "attention"
                /\ check24AttentionReason(m) \in {"error", "missing"}
<1>1. /\ m.offline \in BOOLEAN /\ m.data \in BOOLEAN /\ m.availability \in BOOLEAN
      /\ m.prices \in BOOLEAN /\ m.lastError \in BOOLEAN
    BY DEF Kinds
<1>2. CASE m.offline
    <2>1. check24MappingState(m) = "archived"
        BY <1>1, <1>2 DEF check24MappingState
    <2> QED
        BY <2>1
<1>3. CASE ~m.offline /\ m.data /\ m.availability /\ m.prices
    <2>1. check24MappingState(m) = "ready"
        BY <1>1, <1>3 DEF check24MappingState
    <2> QED
        BY <2>1
<1>4. CASE ~m.offline /\ ~(m.data /\ m.availability /\ m.prices)
    <2>1. check24MappingState(m) = IF m.lastError THEN "error" ELSE "partial"
        BY <1>1, <1>4 DEF check24MappingState
    <2>2. check24MappingState(m) \in {"error", "partial"}
        BY <2>1
    <2>3. renderCheck24ApartmentCards(m) = "attention"
        BY <2>2 DEF renderCheck24ApartmentCards
    <2>4. check24AttentionReason(m) \in {"error", "missing"}
        <3>1. CASE m.lastError
            BY <1>1, <1>4, <3>1 DEF check24AttentionReason
        <3>2. CASE ~m.lastError
            BY <1>1, <1>4, <3>2 DEF check24AttentionReason
        <3> QED
            BY <3>1, <3>2
    <2> QED
        BY <2>2, <2>3, <2>4
<1> QED
    BY <1>2, <1>3, <1>4

LEMMA PartCount ==
    ASSUME NEW S, IsFiniteSet(S), NEW T \in SUBSET S
    PROVE  /\ IsFiniteSet(S \ T) /\ IsFiniteSet(T)
           /\ Cardinality(S) \in Nat /\ Cardinality(T) \in Nat /\ Cardinality(S \ T) \in Nat
           /\ Cardinality(S \ T) = Cardinality(S) - Cardinality(T)
<1>1. S \cap T = T
    OBVIOUS
<1>2. IsFiniteSet(T) /\ IsFiniteSet(S \ T)
    BY FS_Subset
<1>3. Cardinality(S \ T) = Cardinality(S) - Cardinality(S \cap T)
    BY FS_Difference
<1> QED
    BY <1>1, <1>2, <1>3, FS_CardinalityType

LEMMA Counts == drawn \in [Flats -> FlatKinds] => CountsAgree
<1> SUFFICES ASSUME drawn \in [Flats -> FlatKinds] PROVE CountsAgree
    OBVIOUS
<1> DEFINE state(f) == check24MappingState(drawn[f])
           A == {f \in Flats : state(f) = "archived"}
           R == {f \in Flats : state(f) = "ready"}
           live == Flats \ A
<1>1. IsFiniteSet(Flats) /\ \A f \in Flats : drawn[f] \in Kinds
    BY DeskBounds
<1>2. A \in SUBSET Flats /\ R \in SUBSET live
    OBVIOUS
<1>3. In(drawn, {"archived"}) = A /\ In(drawn, {"ready"}) = R
    BY DEF In
<1>4. {f \in Flats : state(f) # "archived"} = live
    OBVIOUS
<1>5. {f \in live : state(f) = "ready"} = R
    OBVIOUS
<1>6. {f \in Flats : state(f) \notin {"ready", "archived"}} = live \ R
    OBVIOUS
<1>7. /\ IsFiniteSet(live) /\ Cardinality(Flats) \in Nat /\ Cardinality(A) \in Nat
      /\ Cardinality(live) = Cardinality(Flats) - Cardinality(A)
    BY <1>1, <1>2, PartCount
<1>8. /\ Cardinality(live) \in Nat /\ Cardinality(R) \in Nat
      /\ Cardinality(live \ R) = Cardinality(live) - Cardinality(R)
    BY <1>2, <1>7, PartCount
<1>9. /\ filterCheck24Apartments(drawn, "ready") = R
      /\ filterCheck24Apartments(drawn, "archived") = A
      /\ filterCheck24Apartments(drawn, "outdated") = live \ R
    BY <1>3, <1>6 DEF filterCheck24Apartments
<1>10. renderCheck24Kpis(drawn) = [total |-> Cardinality(live), ready |-> Cardinality(R),
                                   attention |-> Cardinality(live \ R)]
    BY <1>4, <1>5 DEF renderCheck24Kpis
<1>11. renderCheck24ApartmentsSummary(drawn) =
         [total |-> Cardinality(Flats) - Cardinality(A), ready |-> Cardinality(R),
          attention |-> (Cardinality(Flats) - Cardinality(A)) - Cardinality(R)]
    BY <1>3 DEF renderCheck24ApartmentsSummary
<1>12. \A f \in live \ R : /\ renderCheck24ApartmentCards(drawn[f]) = "attention"
                            /\ check24AttentionReason(drawn[f]) \in {"error", "missing"}
    BY <1>1, StateOfMapping
<1> HIDE DEF A, R, live, state
<1>13. PICK n : n = renderCheck24Kpis(drawn)
    OBVIOUS
<1>14. /\ n.total = Cardinality(live) /\ n.ready = Cardinality(R)
       /\ n.attention = Cardinality(live \ R)
    BY <1>10, <1>13
<1>15. n = renderCheck24ApartmentsSummary(drawn)
    BY <1>7, <1>8, <1>10, <1>11, <1>13
<1>16. n.total + Cardinality(A) = Cardinality(Flats)
    BY <1>7, <1>14
<1> QED
    BY <1>9, <1>12, <1>13, <1>14, <1>15, <1>16 DEF CountsAgree

\* For any apartments, portals, clicks and failures: between calls the header
\* tells whether a push runs, counts and lists agree on every apartment, and
\* switches that nobody moved show what is stored (renderCheck24Header,
\* renderCheck24Kpis, loadCheck24 in app.js).
THEOREM DeskTheorem == DeskSpec => []DeskInv
<1>1. DeskIInv => DeskInv
    <2> SUFFICES ASSUME DeskIInv PROVE DeskInv
        OBVIOUS
    <2>1. CountsAgree
        BY Counts DEF DeskIInv, DeskTypes
    <2>2. HeaderTellsJob
        BY DEF DeskIInv, HeaderSettles, LoadPending, HeaderTellsJob
    <2>3. SwitchesTellSettings
        BY DEF DeskIInv, SwitchesSettle, LoadPending, SavePending, SwitchesTellSettings
    <2> QED
        BY <2>1, <2>2, <2>3 DEF DeskInv
<1>. QED
    BY <1>1, DeskStart, DeskStep, PTL DEF DeskSpec

----------------------------------------------------------------------------
(* The lists: sequences and selections.                                    *)

LEMMA LeastNumber ==
    ASSUME NEW S \in SUBSET Nat, S # {}
    PROVE  \E x \in S : \A y \in S : x <= y
<1>1. IsWellFoundedOn(OpToRel(<, Nat), Nat)
    BY NatLessThanWellFounded
<1>2. PICK x \in S : \A y \in S : ~ (<<y, x>> \in OpToRel(<, Nat))
    BY <1>1, WFMin
<1>3. \A y \in S : ~(y < x)
    BY <1>2 DEF OpToRel
<1> QED
    BY <1>3

\* A sequence, of whatever.
IsList(s) == s \in Seq(Elements(s))

LEMMA ListOf ==
    ASSUME NEW X, NEW s \in Seq(X)
    PROVE  IsList(s) /\ Elements(s) \subseteq X /\ Len(s) \in Nat /\ DOMAIN s = 1..Len(s)
<1>1. Len(s) \in Nat /\ DOMAIN s = 1..Len(s) /\ \A i \in 1..Len(s) : s[i] \in X
    OBVIOUS
<1>2. \A i \in 1..Len(s) : s[i] \in Elements(s)
    BY <1>1 DEF Elements
<1>3. s \in Seq(Elements(s))
    BY <1>1, <1>2
<1> QED
    BY <1>1, <1>3 DEF Elements, IsList

LEMMA AppendElements ==
    ASSUME NEW X, NEW s \in Seq(X), NEW x
    PROVE  Elements(Append(s, x)) = Elements(s) \cup {x}
<1>1. /\ Append(s, x) \in Seq(X \cup {x}) /\ Len(Append(s, x)) = Len(s) + 1
      /\ \A i \in 1..Len(s) : Append(s, x)[i] = s[i]
      /\ Append(s, x)[Len(s) + 1] = x
    OBVIOUS
<1>2. DOMAIN Append(s, x) = 1..(Len(s) + 1) /\ DOMAIN s = 1..Len(s) /\ Len(s) \in Nat
    BY <1>1
<1>3. \A i \in 1..(Len(s) + 1) : i \in 1..Len(s) \/ i = Len(s) + 1
    BY <1>2
<1> QED
    BY <1>1, <1>2, <1>3 DEF Elements

\* g collects what the first n rows of s have in S.
Keeps(g, s, S, n) ==
    /\ DOMAIN g = 0..n /\ g = [i \in 0..n |-> g[i]]
    /\ g[0] = <<>>
    /\ \A k \in 1..n : g[k] = IF s[k] \in S THEN Append(g[k - 1], s[k]) ELSE g[k - 1]
    /\ \A k \in 0..n : /\ g[k] \in Seq(Elements(s))
                       /\ Elements(g[k]) = {s[j] : j \in {i \in 1..k : s[i] \in S}}

LEMMA KeepsExists ==
    ASSUME NEW s, IsList(s), NEW S
    PROVE  \E g : Keeps(g, s, S, Len(s))
<1> DEFINE n == Len(s)
           Bad == {m \in 0..n : ~\E g : Keeps(g, s, S, m)}
<1>0. n \in Nat /\ s \in Seq(Elements(s))
    BY DEF IsList
<1>1. SUFFICES ASSUME Bad # {}
               PROVE  FALSE
  <2>1. n \in 0..n
      BY <1>0
  <2> QED
      BY <2>1
<1>2. PICK m \in Bad : \A k \in Bad : m <= k
  <2>1. Bad \in SUBSET Nat
      BY <1>0
  <2> HIDE DEF Bad
  <2> QED
      BY <1>1, <2>1, LeastNumber
<1>3. m # 0
  <2> SUFFICES ASSUME m = 0
               PROVE  FALSE
      OBVIOUS
  <2> DEFINE g == [k \in 0..0 |-> <<>>]
  <2>1. /\ DOMAIN g = 0..0 /\ g = [i \in 0..0 |-> g[i]] /\ g[0] = <<>>
        /\ \A k \in 0..0 : g[k] = <<>>
      OBVIOUS
  <2>2. <<>> \in Seq(Elements(s)) /\ Elements(<<>>) = {}
      BY DEF Elements
  <2>3. \A k \in 0..0 : {s[j] : j \in {i \in 1..k : s[i] \in S}} = {}
      OBVIOUS
  <2> HIDE DEF g
  <2>4. \A k \in 1..0 : FALSE
      OBVIOUS
  <2>5. \A k \in 0..0 : /\ g[k] \in Seq(Elements(s))
                        /\ Elements(g[k]) = {s[j] : j \in {i \in 1..k : s[i] \in S}}
    <3>1. ASSUME NEW k \in 0..0
          PROVE  /\ g[k] \in Seq(Elements(s))
                 /\ Elements(g[k]) = {s[j] : j \in {i \in 1..k : s[i] \in S}}
      <4>1. g[k] = <<>> /\ {s[j] : j \in {i \in 1..k : s[i] \in S}} = {}
          BY <2>1, <2>3
      <4> QED
          BY <2>2, <4>1
    <3> QED
        BY <3>1
  <2>6. Keeps(g, s, S, 0)
      BY <2>1, <2>4, <2>5 DEF Keeps
  <2> QED
      BY <1>2, <2>6
<1>4. m - 1 \in 0..n /\ m - 1 \notin Bad /\ m \in 1..n
    BY <1>0, <1>2, <1>3
<1>5. PICK g : Keeps(g, s, S, m - 1)
    BY <1>4
<1> DEFINE last == IF s[m] \in S THEN Append(g[m - 1], s[m]) ELSE g[m - 1]
           t == [k \in 0..m |-> IF k = m THEN last ELSE g[k]]
<1>6. Keeps(t, s, S, m)
  <2>1. m - 1 \in 0..(m - 1) /\ m \in Nat /\ s[m] \in Elements(s)
      BY <1>0, <1>4 DEF Elements
  <2>2. /\ g[m - 1] \in Seq(Elements(s))
        /\ Elements(g[m - 1]) = {s[j] : j \in {i \in 1..(m - 1) : s[i] \in S}}
      BY <1>5, <2>1 DEF Keeps
  <2>3. last \in Seq(Elements(s))
      BY <2>1, <2>2
  <2>4. Elements(last) = {s[j] : j \in {i \in 1..m : s[i] \in S}}
    <3>1. \A i \in 1..m : i \in 1..(m - 1) \/ i = m
        BY <2>1
    <3>2. CASE s[m] \in S
      <4>1. Elements(last) = Elements(g[m - 1]) \cup {s[m]}
          BY <2>2, <3>2, AppendElements
      <4> HIDE DEF last
      <4> QED
          BY <2>1, <2>2, <3>1, <3>2, <4>1
    <3>3. CASE s[m] \notin S
        BY <2>1, <2>2, <3>1, <3>3
    <3> QED
        BY <3>2, <3>3
  <2>5. DOMAIN t = 0..m /\ t = [k \in 0..m |-> t[k]] /\ t[m] = last
        /\ \A k \in 0..(m - 1) : t[k] = g[k]
      BY <2>1
  <2> HIDE DEF t
  <2>6. t[0] = <<>>
    <3>1. 0 \in 0..(m - 1) /\ g[0] = <<>>
        BY <1>5, <2>1 DEF Keeps
    <3> QED
        BY <2>5, <3>1
  <2>7. ASSUME NEW k \in 1..m
        PROVE  t[k] = IF s[k] \in S THEN Append(t[k - 1], s[k]) ELSE t[k - 1]
    <3>1. k - 1 \in 0..(m - 1) /\ (k = m \/ k \in 1..(m - 1))
        BY <2>1
    <3>2. CASE k = m
      <4>1. t[m] = last /\ t[m - 1] = g[m - 1]
          BY <2>1, <2>5
      <4> QED
          BY <3>2, <4>1
    <3>3. CASE k \in 1..(m - 1)
      <4>1. g[k] = IF s[k] \in S THEN Append(g[k - 1], s[k]) ELSE g[k - 1]
        BY <1>5, <3>3 DEF Keeps
      <4>2. t[k] = g[k] /\ t[k - 1] = g[k - 1]
        <5>1. k \in 0..(m - 1) /\ k - 1 \in 0..(m - 1)
            BY <2>1, <3>1, <3>3
        <5>2. \A i \in 0..(m - 1) : t[i] = g[i]
            BY <2>5
        <5> QED
            BY <5>1, <5>2
      <4> QED
        BY <4>1, <4>2
    <3> QED
        BY <3>1, <3>2, <3>3
  <2>8. ASSUME NEW k \in 0..m
        PROVE  /\ t[k] \in Seq(Elements(s))
               /\ Elements(t[k]) = {s[j] : j \in {i \in 1..k : s[i] \in S}}
    <3>1. CASE k = m
        BY <2>3, <2>4, <2>5, <3>1
    <3>2. CASE k \in 0..(m - 1)
        BY <1>5, <2>5, <3>2 DEF Keeps
    <3> QED
        BY <2>1, <3>1, <3>2
  <2> QED
      BY <2>5, <2>6, <2>7, <2>8 DEF Keeps
<1> QED
    BY <1>2, <1>6

\* Select returns the rows of s that are in S, all of them and no other.
LEMMA SelectFacts ==
    ASSUME NEW s, IsList(s), NEW S
    PROVE  /\ IsList(Select(s, S))
           /\ Elements(Select(s, S)) = {r \in Elements(s) : r \in S}
<1> DEFINE n == Len(s)
           Step1(g) == [i \in 0..n |->
                         IF i = 0 THEN <<>>
                         ELSE IF s[i] \in S THEN Append(g[i - 1], s[i]) ELSE g[i - 1]]
           k == CHOOSE g : g = Step1(g)
<1>0. n \in Nat /\ s \in Seq(Elements(s)) /\ DOMAIN s = 1..n
    BY DEF IsList
<1>1. PICK t : Keeps(t, s, S, n)
    BY KeepsExists
<1>2. t = Step1(t)
  <2>1. t = [i \in 0..n |-> t[i]]
      BY <1>1 DEF Keeps
  <2>2. \A i \in 0..n : t[i] = IF i = 0 THEN <<>>
                               ELSE IF s[i] \in S THEN Append(t[i - 1], s[i]) ELSE t[i - 1]
    <3>1. /\ t[0] = <<>>
          /\ \A i \in 1..n : t[i] = IF s[i] \in S THEN Append(t[i - 1], s[i]) ELSE t[i - 1]
        BY <1>1 DEF Keeps
    <3>2. \A i \in 0..n : i = 0 \/ i \in 1..n
        BY <1>0
    <3> QED
        BY <3>1, <3>2
  <2> QED
      BY <2>1, <2>2
<1>3. k = Step1(k)
  <2> HIDE DEF Step1
  <2> QED
      BY <1>2
<1>4. Select(s, S) = k[n]
    BY DEF Select
<1>5. \A i \in 0..n : k[i] = IF i = 0 THEN <<>>
                             ELSE IF s[i] \in S THEN Append(k[i - 1], s[i]) ELSE k[i - 1]
  <2> HIDE DEF k
  <2> QED
      BY <1>3
<1> HIDE DEF k, Step1
<1> DEFINE Off == {i \in 0..n : k[i] # t[i]}
<1>6. Off = {}
  <2> SUFFICES ASSUME Off # {}
               PROVE  FALSE
      OBVIOUS
  <2>1. PICK m \in Off : \A i \in Off : m <= i
    <3>1. Off \in SUBSET Nat
        OBVIOUS
    <3> HIDE DEF Off
    <3> QED
        BY <3>1, LeastNumber
  <2>2. m # 0
      BY <1>0, <1>1, <1>5, <2>1 DEF Keeps
  <2>3. m \in 1..n /\ m - 1 \in 0..n /\ m - 1 \notin Off
      BY <1>0, <2>1, <2>2
  <2> QED
      BY <1>1, <1>5, <2>1, <2>2, <2>3 DEF Keeps
<1>7. k[n] = t[n] /\ n \in 0..n
    BY <1>0, <1>6
<1>8. /\ t[n] \in Seq(Elements(s))
      /\ Elements(t[n]) = {s[j] : j \in {i \in 1..n : s[i] \in S}}
    BY <1>1, <1>7 DEF Keeps
<1>9. IsList(t[n])
    BY <1>8, ListOf
<1> HIDE DEF n
<1> QED
    BY <1>0, <1>4, <1>7, <1>8, <1>9 DEF Elements

\* Every page up to the last has rows.
LEMMA PagesFacts ==
    ASSUME NEW total \in Nat
    PROVE  /\ PagesFor(total) \in Nat \ {0}
           /\ \A p \in Nat \ {0} : total > 0 /\ p <= PagesFor(total)
                                      => (p - 1) * PageSize + 1 <= total
<1>1. PageSize \in Nat /\ PageSize >= 1
    BY ListBounds
<1> DEFINE a == total + PageSize - 1
           q == a \div PageSize
<1>2. a \in Nat /\ q \in Int /\ q * PageSize <= a /\ a < q * PageSize + PageSize
    BY <1>1
<1> HIDE DEF q
<1>3. q \in Nat /\ (total > 0 => q > 0)
  <2>1. CASE q < 0
    <3>1. q * PageSize <= 0 - PageSize
        BY <1>1, <1>2, <2>1
    <3> QED
        BY <1>1, <1>2, <3>1
  <2>2. CASE q = 0
      BY <1>1, <1>2, <2>2
  <2> QED
      BY <1>2, <2>1, <2>2
<1>4. ASSUME NEW p \in Nat \ {0}, total > 0, p <= q
      PROVE  (p - 1) * PageSize + 1 <= total
  <2>1. p * PageSize <= q * PageSize
      BY <1>1, <1>3, <1>4
  <2>2. (p - 1) * PageSize = p * PageSize - PageSize
      BY <1>1
  <2>3. p * PageSize \in Int /\ q * PageSize \in Int
      BY <1>1, <1>3
  <2> QED
      BY <1>1, <1>2, <2>1, <2>2, <2>3
<1> QED
    BY <1>3, <1>4 DEF PagesFor, q

\* What a page shows of a list.
LEMMA PageRowsFacts ==
    ASSUME NEW rows, IsList(rows), NEW p \in Nat \ {0}
    PROVE  /\ IsList(PageRows(rows, p)) /\ Elements(PageRows(rows, p)) \subseteq Elements(rows)
           /\ Len(rows) > 0 /\ p <= PagesFor(Len(rows)) => PageRows(rows, p) # <<>>
<1> DEFINE from == (p - 1) * PageSize + 1
           to == SafeEnd(rows, p * PageSize)
<1>1. PageSize \in Nat /\ PageSize >= 1 /\ Len(rows) \in Nat /\ rows \in Seq(Elements(rows))
    BY ListBounds DEF IsList
<1>2. /\ (p - 1) * PageSize \in Nat /\ p * PageSize \in Nat
      /\ p * PageSize = (p - 1) * PageSize + PageSize
    BY <1>1
<1>3. from \in Nat /\ from >= 1 /\ to \in Nat /\ to <= Len(rows) /\ (from <= Len(rows) => from <= to)
    BY <1>1, <1>2 DEF SafeEnd
<1>4. Len(rows) > 0 /\ p <= PagesFor(Len(rows)) => from <= to
    BY <1>1, <1>3, PagesFacts
<1>5. PageRows(rows, p) = SubSeq(rows, from, to)
    BY DEF PageRows
<1> HIDE DEF from, to
<1>6. SubSeq(rows, from, to) \in Seq(Elements(rows))
    BY <1>1, <1>3
<1>7. from <= to => Len(SubSeq(rows, from, to)) > 0
    BY <1>1, <1>3
<1>8. from <= to => SubSeq(rows, from, to) # <<>>
  <2>1. Len(<<>>) = 0
      OBVIOUS
  <2>2. SUFFICES ASSUME from <= to, SubSeq(rows, from, to) = <<>>
                 PROVE  FALSE
      OBVIOUS
  <2>3. Len(SubSeq(rows, from, to)) = 0
      BY <2>1, <2>2 
  <2> QED
      BY <1>7, <2>2, <2>3
<1> QED
    BY <1>4, <1>5, <1>6, <1>8, ListOf

\* Rows, a total and a page.
IsAnswer(a) == IsList(a.rows) /\ a.total \in Nat /\ a.page \in Nat \ {0}

\* A page that is moved back to the last one is never empty while rows exist.
LEMMA PageFacts ==
    ASSUME NEW rows, IsList(rows), NEW p \in Nat \ {0}
    PROVE  /\ IsAnswer(Page(rows, p)) /\ IsAnswer(Page(rows, SafePage(p, Len(rows))))
           /\ Elements(Page(rows, p).rows) \subseteq Elements(rows)
           /\ Elements(Page(rows, SafePage(p, Len(rows))).rows) \subseteq Elements(rows)
           /\ Page(rows, SafePage(p, Len(rows))).total > 0
                => Page(rows, SafePage(p, Len(rows))).rows # <<>>
<1>1. Len(rows) \in Nat
    BY DEF IsList
<1>2. PagesFor(Len(rows)) \in Nat \ {0}
    BY <1>1, PagesFacts
<1> DEFINE q == SafePage(p, Len(rows))
<1>3. q \in Nat \ {0} /\ q <= PagesFor(Len(rows))
    BY <1>2 DEF SafePage
<1> HIDE DEF q
<1>4. IsAnswer(Page(rows, p)) /\ Elements(Page(rows, p).rows) \subseteq Elements(rows)
    BY <1>1, PageRowsFacts DEF Page, IsAnswer
<1>5. /\ IsAnswer(Page(rows, q)) /\ Elements(Page(rows, q).rows) \subseteq Elements(rows)
      /\ Page(rows, q).total > 0 => Page(rows, q).rows # <<>>
    BY <1>1, <1>3, PageRowsFacts DEF Page, IsAnswer
<1> QED
    BY <1>4, <1>5 DEF q
----------------------------------------------------------------------------
(* The lists: the inductive invariant.                                     *)

FilterType == [tab : TabsOf[board] \cup {"all"}, sub : SubsOf[board] \cup {"all"}]

\* A call in flight, d being the rows stored.
IsCall(c, d) ==
    /\ c = [op |-> c.op, at |-> c.at, filter |-> c.filter, page |-> c.page, id |-> c.id,
            old |-> c.old, answer |-> c.answer]
    /\ c.op \in {"list", "detail", "retry"} /\ c.old \in BOOLEAN
    /\ c.filter \in FilterType /\ c.page \in Nat \ {0} /\ IsAnswer(c.answer)
    /\ c.op = "detail" => board = "reservations" /\ c.id \in IdsOf(d)
    /\ c.op = "retry" => board = "requests"

\* What an answer brings: rows the server found by the filter of the call, no
\* empty page of log entries, and the reservation that was asked for.
AnswerFits(c, d) ==
    c.at = "done" =>
        /\ c.op = "list" =>
              /\ \A r \in Elements(c.answer.rows) : ServerFilter(c.filter, r)
              /\ board = "logs" => (c.answer.total > 0 => c.answer.rows # <<>>)
              /\ board = "reservations" => IdsOf(c.answer.rows) \subseteq IdsOf(d)
        /\ c.op = "detail" => c.answer.rows # <<>> /\ c.answer.rows[1].id = c.id

ListTypes ==
    /\ board \in Boards /\ IsList(db) /\ IsList(cache) /\ IsAnswer(table)
    /\ filter \in FilterType /\ control \in FilterType /\ page \in Nat \ {0}
    /\ drawer = [id |-> drawer.id, row |-> drawer.row]

\* The table shows rows of the cache that the browser's filter admits.
TableOfCache ==
    /\ \A r \in Elements(table.rows) : r \in Elements(cache) /\ ClientFilter(filter, r)
    /\ NoEmptyPage
    /\ board = "reservations" => IdsOf(table.rows) \subseteq IdsOf(db)

\* In the calls q: no newer call of the kind is under way.
Newest(q, i, op) ==
    /\ i \in DOMAIN q /\ q[i].op = op
    /\ \A j \in DOMAIN q : j > i => q[j].op # op

\* A call that was not overtaken is under way.
Coming(q, op) == \E i \in DOMAIN q : q[i].op = op /\ ~q[i].old

\* Who is overtaken by a call is overtaken by the ones before it.
OldInOrder(q) ==
    \A i, j \in DOMAIN q : i < j /\ q[i].op = q[j].op /\ q[j].old => q[i].old

\* The server is asked the same for this filter as for f.
SameQuery(f, g) == board = "requests" \/ (board = "fonio" /\ f.tab = g.tab) \/ f = g

\* The newest question is the one on the screen, unless it is still to be put.
NewestAsks(q, f) ==
    \A i \in DOMAIN q :
        Newest(q, i, "list") /\ ~q[i].old =>
            q[i].at = "preparing" \/ SameQuery(q[i].filter, f)

\* Unless a newer answer is coming or was lost, the cache is what the server
\* found by the filter.
CacheFits(q, f, c, l) ==
    "list" \in l \/ Coming(q, "list") \/ \A r \in Elements(c) : ServerFilter(f, r)

\* The same of the reservation in the drawer.
NewestFetches(q, d) ==
    \A i \in DOMAIN q :
        Newest(q, i, "detail") /\ ~q[i].old => d = Closed \/ d.id = q[i].id

DrawerFits(q, d, l) ==
    board = "reservations" =>
        \/ "detail" \in l \/ Coming(q, "detail")
        \/ d = Closed \/ d.row = Nobody \/ d.row.id = d.id

\* A drawer of requests or activity shows the row of the cache.
DrawerOfCache ==
    drawer # Closed =>
        /\ board \in {"requests", "fonio"} /\ drawer.id \in IdsOf(cache) =>
              drawer.row = RowOf(cache, drawer.id)
        /\ board = "fonio" => drawer.id \in IdsOf(cache)

Screen == ListTypes /\ TableOfCache /\ WidgetsTellFilter /\ DrawerOfCache

Calls(q, d) ==
    /\ IsList(q) /\ OldInOrder(q)
    /\ \A i \in DOMAIN q : IsCall(q[i], d) /\ AnswerFits(q[i], d)

Questions(q, f, c, l, d) ==
    /\ NewestAsks(q, f) /\ CacheFits(q, f, c, l)
    /\ NewestFetches(q, d) /\ DrawerFits(q, d, l)

ListIInv ==
    /\ Screen
    /\ Calls(inFlight, db)
    /\ Questions(inFlight, filter, cache, late, drawer)

----------------------------------------------------------------------------
(* The lists: calls are made and answered.                                 *)

\* Board and flags never change, so filters mean what they meant.
LEMMA Fixed ==
    ASSUME UNCHANGED <<board, flags>>
    PROVE  /\ \A f, r : ServerFilter(f, r)' <=> ServerFilter(f, r)
           /\ \A f, r : ClientFilter(f, r)' <=> ClientFilter(f, r)
           /\ \A c, d : IsCall(c, d)' <=> IsCall(c, d)
           /\ \A c, d : AnswerFits(c, d)' <=> AnswerFits(c, d)
           /\ \A f, g : SameQuery(f, g)' <=> SameQuery(f, g)
           /\ \A q, f : NewestAsks(q, f)' <=> NewestAsks(q, f)
           /\ \A q, f, c, l : CacheFits(q, f, c, l)' <=> CacheFits(q, f, c, l)
           /\ \A q, d, l : DrawerFits(q, d, l)' <=> DrawerFits(q, d, l)
           /\ \A q, d : Calls(q, d)' <=> Calls(q, d)
           /\ \A q, f, c, l, d : Questions(q, f, c, l, d)' <=> Questions(q, f, c, l, d)
           /\ FilterType' = FilterType
<1>1. \A f, r : ServerFilter(f, r)' <=> ServerFilter(f, r)
    BY DEF ServerFilter, LogWhere, ruleOf
<1>2. \A f, r : ClientFilter(f, r)' <=> ClientFilter(f, r)
    BY DEF ClientFilter
<1>3. FilterType' = FilterType
    BY DEF FilterType
<1>4. \A c, d : IsCall(c, d)' <=> IsCall(c, d)
    BY <1>3 DEF IsCall
<1>5. \A c, d : AnswerFits(c, d)' <=> AnswerFits(c, d)
    BY <1>1 DEF AnswerFits
<1>6. \A f, g : SameQuery(f, g)' <=> SameQuery(f, g)
    BY DEF SameQuery
<1>7. \A q, f : NewestAsks(q, f)' <=> NewestAsks(q, f)
    BY <1>6 DEF NewestAsks
<1>8. \A q, f, c, l : CacheFits(q, f, c, l)' <=> CacheFits(q, f, c, l)
    BY <1>1 DEF CacheFits
<1>9. \A q, d, l : DrawerFits(q, d, l)' <=> DrawerFits(q, d, l)
    BY DEF DrawerFits
<1>10. \A q, d : Calls(q, d)' <=> Calls(q, d)
    BY <1>4, <1>5 DEF Calls
<1>11. \A q, f, c, l, d : Questions(q, f, c, l, d)' <=> Questions(q, f, c, l, d)
    BY <1>7, <1>8, <1>9 DEF Questions
<1> QED
    BY <1>1, <1>2, <1>3, <1>4, <1>5, <1>6, <1>7, <1>8, <1>9, <1>10, <1>11

LEMMA AppendCalls ==
    ASSUME NEW q, IsList(q), NEW c
    PROVE  /\ Len(q) \in Nat /\ DOMAIN q = 1..Len(q)
           /\ IsList(Append(q, c)) /\ DOMAIN Append(q, c) = 1..(Len(q) + 1)
           /\ \A i \in DOMAIN q : Append(q, c)[i] = q[i]
           /\ Append(q, c)[Len(q) + 1] = c
           /\ \A i \in DOMAIN Append(q, c) : i \in DOMAIN q \/ i = Len(q) + 1
<1>1. q \in Seq(Elements(q)) /\ Len(q) \in Nat /\ DOMAIN q = 1..Len(q)
    BY DEF IsList
<1>2. /\ Append(q, c) \in Seq(Elements(q) \cup {c}) /\ Len(Append(q, c)) = Len(q) + 1
      /\ \A i \in 1..Len(q) : Append(q, c)[i] = q[i]
      /\ Append(q, c)[Len(q) + 1] = c
    BY <1>1
<1>3. DOMAIN Append(q, c) = 1..(Len(q) + 1)
    BY <1>2
<1>4. IsList(Append(q, c))
    BY <1>2, ListOf
<1> QED
    BY <1>1, <1>2, <1>3, <1>4

\* A new call is the newest of its kind and overtakes nobody yet.
LEMMA Asked ==
    ASSUME NEW q, IsList(q), OldInOrder(q), NEW c, ~c.old
    PROVE  /\ OldInOrder(Append(q, c)) /\ Coming(Append(q, c), c.op)
           /\ \A i : Newest(Append(q, c), i, c.op) => Append(q, c)[i] = c
           /\ \A op : op # c.op =>
                 /\ Coming(q, op) <=> Coming(Append(q, c), op)
                 /\ \A i : Newest(Append(q, c), i, op)
                              => Newest(q, i, op) /\ Append(q, c)[i] = q[i]
<1> DEFINE a == Append(q, c)
           n == Len(q)
<1>1. /\ n \in Nat /\ DOMAIN q = 1..n /\ DOMAIN a = 1..(n + 1)
      /\ \A i \in DOMAIN q : a[i] = q[i]
      /\ a[n + 1] = c
      /\ \A i \in DOMAIN a : i \in DOMAIN q \/ i = n + 1
    BY AppendCalls
<1> HIDE DEF a, n
<1>2. OldInOrder(a)
    BY <1>1 DEF OldInOrder
<1>3. Coming(a, c.op)
    BY <1>1 DEF Coming
<1>4. ASSUME NEW i, Newest(a, i, c.op)
      PROVE  a[i] = c
    BY <1>1, <1>4 DEF Newest
<1>5. ASSUME NEW op, op # c.op
      PROVE  /\ Coming(q, op) <=> Coming(a, op)
             /\ \A i : Newest(a, i, op) => Newest(q, i, op) /\ a[i] = q[i]
  <2>1. Coming(q, op) <=> Coming(a, op)
      BY <1>1, <1>5 DEF Coming
  <2>2. ASSUME NEW i, Newest(a, i, op)
        PROVE  Newest(q, i, op) /\ a[i] = q[i]
      BY <1>1, <1>5, <2>2 DEF Newest
  <2> QED
      BY <2>1, <2>2
<1> QED
    BY <1>2, <1>3, <1>4, <1>5 DEF a

\* Where the calls are that remain when call i has left.
Place(i, j) == IF j < i THEN j ELSE j + 1

LEMMA WithoutFacts ==
    ASSUME IsList(inFlight), NEW i \in DOMAIN inFlight
    PROVE  /\ IsList(Without(i)) /\ DOMAIN Without(i) = 1..(Len(inFlight) - 1)
           /\ Len(inFlight) \in Nat /\ DOMAIN inFlight = 1..Len(inFlight)
           /\ \A j \in DOMAIN Without(i) :
                 /\ Place(i, j) \in DOMAIN inFlight /\ Place(i, j) # i
                 /\ Without(i)[j] =
                      IF Place(i, j) < i /\ inFlight[Place(i, j)].op = inFlight[i].op
                      THEN [inFlight[Place(i, j)] EXCEPT !.old = TRUE]
                      ELSE inFlight[Place(i, j)]
           /\ \A k \in DOMAIN inFlight : k # i => \E j \in DOMAIN Without(i) : Place(i, j) = k
<1> DEFINE n == Len(inFlight)
           w == Without(i)
<1>1. n \in Nat /\ DOMAIN inFlight = 1..n /\ i \in 1..n
    BY DEF IsList
<1>2. w = [j \in 1..(n - 1) |->
             IF Place(i, j) < i /\ inFlight[Place(i, j)].op = inFlight[i].op
             THEN [inFlight[Place(i, j)] EXCEPT !.old = TRUE] ELSE inFlight[Place(i, j)]]
    BY DEF Without, Place
<1>3. DOMAIN w = 1..(n - 1) /\ n - 1 \in Nat
    BY <1>1, <1>2
<1>4. IsList(w)
  <2>1. \A j \in 1..(n - 1) : w[j] \in Elements(w)
      BY <1>3 DEF Elements
  <2>2. w = [j \in 1..(n - 1) |-> w[j]]
      BY <1>2
  <2> HIDE DEF w
  <2>3. w \in Seq(Elements(w))
      BY <1>3, <2>1, <2>2
  <2> QED
      BY <2>3 DEF IsList
<1>5. \A j \in DOMAIN w :
        /\ Place(i, j) \in DOMAIN inFlight /\ Place(i, j) # i
        /\ w[j] = IF Place(i, j) < i /\ inFlight[Place(i, j)].op = inFlight[i].op
                  THEN [inFlight[Place(i, j)] EXCEPT !.old = TRUE] ELSE inFlight[Place(i, j)]
    BY <1>1, <1>2, <1>3 DEF Place
<1>6. ASSUME NEW k \in DOMAIN inFlight, k # i
      PROVE  \E j \in DOMAIN w : Place(i, j) = k
  <2>1. CASE k < i
      BY <1>1, <1>3, <2>1 DEF Place
  <2>2. CASE k > i
    <3>1. k - 1 \in DOMAIN w /\ Place(i, k - 1) = k
        BY <1>1, <1>3, <2>2 DEF Place
    <3> QED
        BY <3>1
  <2> QED
      BY <1>1, <1>6, <2>1, <2>2
<1> QED
    BY <1>1, <1>3, <1>4, <1>5, <1>6

\* A call leaves: the older ones of its kind are overtaken.
LEMMA Left ==
    ASSUME IsList(inFlight), OldInOrder(inFlight), NEW i \in DOMAIN inFlight,
           \A k \in DOMAIN inFlight : IsCall(inFlight[k], db)
    PROVE  /\ OldInOrder(Without(i))
           /\ \A j \in DOMAIN Without(i) : \E k \in DOMAIN inFlight :
                 /\ Without(i)[j].at = inFlight[k].at
                 /\ IsCall(Without(i)[j], db)
                 /\ AnswerFits(inFlight[k], db) => AnswerFits(Without(i)[j], db)
           /\ \A op : \A j \in DOMAIN Without(i) :
                 Newest(Without(i), j, op) /\ ~Without(i)[j].old =>
                    \E k \in DOMAIN inFlight :
                       Newest(inFlight, k, op) /\ Without(i)[j] = inFlight[k]
           /\ \A op : op # inFlight[i].op /\ Coming(inFlight, op) => Coming(Without(i), op)
           /\ ~inFlight[i].old => \/ Coming(Without(i), inFlight[i].op)
                                  \/ Newest(inFlight, i, inFlight[i].op)
<1> DEFINE w == Without(i)
           Passed(k) == k < i /\ inFlight[k].op = inFlight[i].op
           n == Len(inFlight)
<1>1. /\ DOMAIN w = 1..(n - 1) /\ n \in Nat /\ DOMAIN inFlight = 1..n
      /\ \A j \in DOMAIN w :
            /\ Place(i, j) \in DOMAIN inFlight /\ Place(i, j) # i
            /\ w[j] = IF Passed(Place(i, j)) THEN [inFlight[Place(i, j)] EXCEPT !.old = TRUE]
                      ELSE inFlight[Place(i, j)]
      /\ \A k \in DOMAIN inFlight : k # i => \E j \in DOMAIN w : Place(i, j) = k
    BY WithoutFacts
<1>2. \A j, m \in DOMAIN w : j < m => Place(i, j) < Place(i, m)
    BY <1>1 DEF Place
<1> HIDE DEF w, n
<1>3. ASSUME NEW j \in DOMAIN w, NEW c, c = inFlight[Place(i, j)]
      PROVE  /\ w[j].op = c.op /\ w[j].at = c.at /\ w[j].filter = c.filter /\ w[j].id = c.id
             /\ w[j].answer = c.answer /\ w[j].page = c.page
             /\ w[j].old <=> (c.old \/ Passed(Place(i, j)))
             /\ IsCall(w[j], db)
  <2>1. IsCall(c, db)
      BY <1>1, <1>3
  <2>2. CASE w[j] = c /\ ~Passed(Place(i, j))
      BY <2>1, <2>2 DEF IsCall
  <2>3. CASE w[j] = [c EXCEPT !.old = TRUE] /\ Passed(Place(i, j))
    <3>1. w[j] = [op |-> c.op, at |-> c.at, filter |-> c.filter, page |-> c.page, id |-> c.id,
                  old |-> TRUE, answer |-> c.answer]
        BY <2>1, <2>3 DEF IsCall
    <3> QED
        BY <2>1, <2>3, <3>1 DEF IsCall
  <2> HIDE DEF Passed
  <2> QED
      BY <1>1, <1>3, <2>2, <2>3
<1>4. OldInOrder(w)
  <2> SUFFICES ASSUME NEW j \in DOMAIN w, NEW m \in DOMAIN w, j < m, w[j].op = w[m].op, w[m].old
               PROVE  w[j].old
      BY DEF OldInOrder
  <2> DEFINE a == Place(i, j)
             b == Place(i, m)
  <2>1. a \in 1..n /\ b \in 1..n /\ a < b /\ a # i /\ b # i /\ i \in 1..n
      BY <1>1, <1>2
  <2>2. inFlight[a].op = inFlight[b].op /\ (inFlight[b].old \/ Passed(b))
      BY <1>3
  <2> HIDE DEF a, b
  <2>3. inFlight[a].old \/ Passed(a)
      BY <1>1, <2>1, <2>2 DEF OldInOrder
  <2> QED
      BY <1>3, <2>3 DEF a
<1>5. ASSUME NEW j \in DOMAIN w
      PROVE  \E k \in DOMAIN inFlight :
                /\ w[j].at = inFlight[k].at
                /\ IsCall(w[j], db)
                /\ AnswerFits(inFlight[k], db) => AnswerFits(w[j], db)
  <2> DEFINE c == inFlight[Place(i, j)]
  <2>1. /\ w[j].op = c.op /\ w[j].at = c.at /\ w[j].filter = c.filter /\ w[j].id = c.id
        /\ w[j].answer = c.answer /\ IsCall(w[j], db)
      BY <1>3
  <2>2. Place(i, j) \in DOMAIN inFlight
      BY <1>1
  <2>3. AnswerFits(c, db) => AnswerFits(w[j], db)
      BY <2>1 DEF AnswerFits
  <2> QED
      BY <2>1, <2>2, <2>3
<1>6. ASSUME NEW op, NEW j \in DOMAIN w, Newest(w, j, op), ~w[j].old
      PROVE  \E k \in DOMAIN inFlight : Newest(inFlight, k, op) /\ w[j] = inFlight[k]
  <2> DEFINE k == Place(i, j)
  <2>1. k \in 1..n /\ k # i /\ i \in 1..n /\ ~Passed(k) /\ w[j] = inFlight[k]
      BY <1>1, <1>3, <1>6
  <2>2. inFlight[k].op = op
      BY <1>6, <2>1 DEF Newest
  <2>3. ASSUME NEW m \in DOMAIN inFlight, m > k, inFlight[m].op = op
        PROVE  FALSE
    <3>1. m # i
        BY <1>1, <2>1, <2>2, <2>3
    <3>2. PICK x \in DOMAIN w : Place(i, x) = m
        BY <1>1, <3>1
    <3>3. x > j
        BY <1>1, <1>2, <2>1, <2>3, <3>2 DEF Place
    <3>4. w[x].op = op
        BY <1>3, <2>3, <3>2
    <3> QED
        BY <1>6, <3>3, <3>4 DEF Newest
  <2> HIDE DEF k
  <2>4. Newest(inFlight, k, op)
      BY <1>1, <2>1, <2>2, <2>3 DEF Newest
  <2> QED
      BY <1>1, <2>1, <2>4
<1>7. ASSUME NEW op, op # inFlight[i].op, Coming(inFlight, op)
      PROVE  Coming(w, op)
  <2>1. PICK k \in DOMAIN inFlight : inFlight[k].op = op /\ ~inFlight[k].old
      BY <1>7 DEF Coming
  <2>2. PICK j \in DOMAIN w : Place(i, j) = k
      BY <1>1, <1>7, <2>1
  <2> QED
      BY <1>3, <1>7, <2>1, <2>2 DEF Coming
<1>8. ASSUME ~inFlight[i].old, ~Newest(inFlight, i, inFlight[i].op)
      PROVE  Coming(w, inFlight[i].op)
  <2>1. PICK k \in DOMAIN inFlight : k > i /\ inFlight[k].op = inFlight[i].op
      BY <1>8 DEF Newest
  <2>2. ~inFlight[k].old
      BY <1>8, <2>1 DEF OldInOrder
  <2>3. PICK j \in DOMAIN w : Place(i, j) = k
      BY <1>1, <2>1
  <2>4. ~Passed(k)
      BY <1>1, <2>1
  <2> QED
      BY <1>3, <2>1, <2>2, <2>3, <2>4 DEF Coming
<1> QED
    BY <1>4, <1>5, <1>6, <1>7, <1>8 DEF w

\* A new call; only a list call may come with a new filter, only a fetch with
\* a new drawer.
LEMMA AskKeeps ==
    ASSUME NEW q, NEW d, Calls(q, d), NEW f, NEW c, NEW l, NEW e, Questions(q, f, c, l, e),
           NEW x, IsCall(x, d), x.at # "done", ~x.old,
           NEW g, NEW h, x.op # "list" => g = f, x.op # "detail" => h = e,
           x.op = "list" => x.at = "preparing" \/ SameQuery(x.filter, g),
           x.op = "detail" => h.id = x.id
    PROVE  Calls(Append(q, x), d) /\ Questions(Append(q, x), g, c, l, h)
<1> DEFINE a == Append(q, x)
<1>1. IsList(q) /\ OldInOrder(q) /\ \A i \in DOMAIN q : IsCall(q[i], d) /\ AnswerFits(q[i], d)
    BY DEF Calls
<1>2. /\ IsList(a) /\ \A i \in DOMAIN q : a[i] = q[i]
      /\ \A i \in DOMAIN a : i \in DOMAIN q \/ a[i] = x
    BY <1>1, AppendCalls
<1>3. /\ OldInOrder(a) /\ Coming(a, x.op)
      /\ \A i : Newest(a, i, x.op) => a[i] = x
      /\ \A op : op # x.op =>
            /\ Coming(q, op) <=> Coming(a, op)
            /\ \A i : Newest(a, i, op) => Newest(q, i, op) /\ a[i] = q[i]
    BY <1>1, Asked
<1> HIDE DEF a
<1>4. Calls(a, d)
  <2>1. AnswerFits(x, d)
      BY DEF AnswerFits
  <2> QED
      BY <1>1, <1>2, <1>3, <2>1 DEF Calls
<1>5. \A i : \A op : Newest(q, i, op) => i \in DOMAIN q
    BY DEF Newest
<1>6. NewestAsks(a, g)
  <2>1. CASE x.op = "list"
      BY <1>3, <2>1 DEF NewestAsks
  <2>2. CASE x.op # "list"
      BY <1>3, <1>5, <2>2 DEF NewestAsks, Questions
  <2> QED
      BY <2>1, <2>2
<1>7. CacheFits(a, g, c, l)
    BY <1>3 DEF CacheFits, Questions
<1>8. NewestFetches(a, h)
  <2>1. CASE x.op = "detail"
      BY <1>3, <2>1 DEF NewestFetches
  <2>2. CASE x.op # "detail"
      BY <1>3, <1>5, <2>2 DEF NewestFetches, Questions
  <2> QED
      BY <2>1, <2>2
<1>9. DrawerFits(a, h, l)
    BY <1>3 DEF DrawerFits, Questions
<1> QED
    BY <1>4, <1>6, <1>7, <1>8, <1>9 DEF a, Questions

\* A call is put, or answered; d becomes n, which makes no difference to the
\* others.
LEMMA ChangeKeeps ==
    ASSUME NEW q, NEW d, Calls(q, d), NEW f, NEW c, NEW l, NEW e, Questions(q, f, c, l, e),
           NEW i \in DOMAIN q, NEW x, NEW n, n = d \/ board = "requests",
           IsCall(x, n), AnswerFits(x, n),
           x.op = q[i].op, x.old = q[i].old, x.id = q[i].id,
           (q[i].at # "preparing" /\ x.filter = q[i].filter) \/ x.filter = f
    PROVE  Calls([q EXCEPT ![i] = x], n) /\ Questions([q EXCEPT ![i] = x], f, c, l, e)
<1> DEFINE a == [q EXCEPT ![i] = x]
<1>1. /\ IsList(q) /\ OldInOrder(q) /\ \A j \in DOMAIN q : IsCall(q[j], d) /\ AnswerFits(q[j], d)
      /\ q \in Seq(Elements(q))
    BY DEF Calls, IsList
<1>2. /\ DOMAIN a = DOMAIN q /\ a[i] = x /\ \A j \in DOMAIN q : j # i => a[j] = q[j]
      /\ IsList(a)
  <2>1. DOMAIN a = DOMAIN q /\ a[i] = x /\ \A j \in DOMAIN q : j # i => a[j] = q[j]
      OBVIOUS
  <2>2. q \in Seq(Elements(q) \cup {x})
      BY <1>1
  <2>3. a \in Seq(Elements(q) \cup {x})
      BY <2>2
  <2> QED
      BY <2>1, <2>3, ListOf
<1> HIDE DEF a
<1>3. \A j \in DOMAIN a : a[j].op = q[j].op /\ a[j].old = q[j].old /\ a[j].id = q[j].id
    BY <1>2
<1>4. OldInOrder(a)
    BY <1>1, <1>2, <1>3 DEF OldInOrder
<1>5. \A j \in DOMAIN q : IsCall(q[j], n) /\ AnswerFits(q[j], n)
    BY <1>1 DEF IsCall, AnswerFits
<1>6. Calls(a, n)
    BY <1>2, <1>4, <1>5 DEF Calls
<1>7. \A j, op : Newest(a, j, op) <=> Newest(q, j, op)
    BY <1>2, <1>3 DEF Newest
<1>8. \A op : Coming(a, op) <=> Coming(q, op)
    BY <1>2, <1>3 DEF Coming
<1>9. NewestAsks(a, f)
  <2> SUFFICES ASSUME NEW j \in DOMAIN a, Newest(a, j, "list"), ~a[j].old
               PROVE  a[j].at = "preparing" \/ SameQuery(a[j].filter, f)
      BY DEF NewestAsks
  <2>1. q[j].at = "preparing" \/ SameQuery(q[j].filter, f)
      BY <1>2, <1>3, <1>7 DEF NewestAsks, Questions
  <2>2. SameQuery(f, f)
      BY DEF SameQuery
  <2> QED
      BY <1>2, <2>1, <2>2
<1>10. NewestFetches(a, e)
    BY <1>2, <1>3, <1>7 DEF NewestFetches, Questions
<1>11. CacheFits(a, f, c, l) /\ DrawerFits(a, e, l)
    BY <1>8 DEF CacheFits, DrawerFits, Questions
<1> QED
    BY <1>6, <1>9, <1>10, <1>11 DEF a, Questions

\* A call leaves; what it brings is up to the step.
LEMMA LeaveKeeps ==
    ASSUME Calls(inFlight, db), NEW f, NEW c, NEW l, NEW e, Questions(inFlight, f, c, l, e),
           NEW i \in DOMAIN inFlight
    PROVE  /\ Calls(Without(i), db)
           /\ NewestAsks(Without(i), f) /\ NewestFetches(Without(i), e)
           /\ inFlight[i].op # "list" => CacheFits(Without(i), f, c, l)
           /\ inFlight[i].op # "detail" => DrawerFits(Without(i), e, l)
           /\ inFlight[i].old
              \/ Coming(Without(i), inFlight[i].op) \/ Newest(inFlight, i, inFlight[i].op)
<1> DEFINE w == Without(i)
<1>1. /\ IsList(inFlight) /\ OldInOrder(inFlight)
      /\ \A k \in DOMAIN inFlight : IsCall(inFlight[k], db) /\ AnswerFits(inFlight[k], db)
    BY DEF Calls
<1>2. /\ OldInOrder(w)
      /\ \A j \in DOMAIN w : \E k \in DOMAIN inFlight :
            /\ w[j].at = inFlight[k].at
            /\ IsCall(w[j], db)
            /\ AnswerFits(inFlight[k], db) => AnswerFits(w[j], db)
      /\ \A op : \A j \in DOMAIN w :
            Newest(w, j, op) /\ ~w[j].old =>
               \E k \in DOMAIN inFlight : Newest(inFlight, k, op) /\ w[j] = inFlight[k]
      /\ \A op : op # inFlight[i].op /\ Coming(inFlight, op) => Coming(w, op)
      /\ ~inFlight[i].old => \/ Coming(w, inFlight[i].op)
                             \/ Newest(inFlight, i, inFlight[i].op)
    BY <1>1, Left
<1>3. IsList(w)
    BY <1>1, WithoutFacts
<1> HIDE DEF w
<1>4. Calls(w, db)
    BY <1>1, <1>2, <1>3 DEF Calls
<1>5. NewestAsks(w, f)
    BY <1>2 DEF NewestAsks, Questions
<1>6. NewestFetches(w, e)
    BY <1>2 DEF NewestFetches, Questions
<1>7. /\ inFlight[i].op # "list" => CacheFits(w, f, c, l)
      /\ inFlight[i].op # "detail" => DrawerFits(w, e, l)
    BY <1>2 DEF CacheFits, DrawerFits, Questions
<1> QED
    BY <1>2, <1>4, <1>5, <1>6, <1>7 DEF w

\* The server answers with rows it found, and moves a page of log entries back
\* to the last one.
LEMMA AnswerFacts ==
    ASSUME IsList(db), board \in Boards, NEW f, NEW p \in Nat \ {0}
    PROVE  /\ IsAnswer(Answer(f, p))
           /\ \A r \in Elements(Answer(f, p).rows) : r \in Elements(db) /\ ServerFilter(f, r)
           /\ board = "logs" => (Answer(f, p).total > 0 => Answer(f, p).rows # <<>>)
<1> DEFINE rows == Select(db, {r \in Elements(db) : ServerFilter(f, r)})
           first == SubSeq(rows, 1, SafeEnd(rows, ServerTake))
<1>1. IsList(rows) /\ \A r \in Elements(rows) : r \in Elements(db) /\ ServerFilter(f, r)
  <2>1. /\ IsList(rows)
        /\ Elements(rows) = {r \in Elements(db) : r \in {x \in Elements(db) : ServerFilter(f, x)}}
      BY SelectFacts
  <2> HIDE DEF rows
  <2> QED
      BY <2>1
<1>2. Answer(f, p) = IF ClientPaged THEN Whole(first) ELSE ServerPage(rows, p)
    BY DEF Answer
<1> HIDE DEF rows
<1>3. rows \in Seq(Elements(rows)) /\ Len(rows) \in Nat
    BY <1>1 DEF IsList
<1>4. SafeEnd(rows, ServerTake) \in Nat /\ SafeEnd(rows, ServerTake) <= Len(rows)
    BY <1>3, ListBounds DEF SafeEnd
<1>5. first \in Seq(Elements(rows))
    BY <1>3, <1>4
<1> HIDE DEF first
<1>6. IsList(first) /\ Elements(first) \subseteq Elements(rows) /\ Len(first) \in Nat
    BY <1>5, ListOf
<1>7. CASE ClientPaged
  <2>1. Answer(f, p) = [rows |-> first, total |-> Len(first), page |-> 1]
      BY <1>2, <1>7 DEF Whole
  <2>2. board # "logs"
      BY <1>7 DEF ClientPaged
  <2> QED
      BY <1>1, <1>6, <2>1, <2>2 DEF IsAnswer
<1>8. CASE ~ClientPaged
  <2>1. Answer(f, p) = ServerPage(rows, p)
      BY <1>2, <1>8
  <2> QED
      BY <1>1, <2>1, PageFacts DEF ServerPage
<1> QED
    BY <1>7, <1>8

LEMMA WholeFacts ==
    ASSUME NEW rows, IsList(rows)
    PROVE  IsAnswer(Whole(rows)) /\ Whole(rows).rows = rows
<1>1. Len(rows) \in Nat
    BY DEF IsList
<1>2. /\ Whole(rows).rows = rows /\ Whole(rows).total = Len(rows)
      /\ Whole(rows).page = 1
    BY DEF Whole
<1> QED
    BY <1>1, <1>2 DEF IsAnswer

\* The reservation that was asked for is found.
LEMMA DetailFacts ==
    ASSUME IsList(db), NEW id \in IdsOf(db),
           NEW rows, rows = Select(db, {r \in Elements(db) : r.id = id})
    PROVE  IsAnswer(Whole(rows)) /\ rows # <<>> /\ rows[1].id = id
<1>1. /\ IsList(rows)
      /\ Elements(rows) = {r \in Elements(db) : r \in {x \in Elements(db) : x.id = id}}
    BY SelectFacts
<1>2. rows \in Seq(Elements(rows)) /\ Len(rows) \in Nat /\ DOMAIN rows = 1..Len(rows)
    BY <1>1 DEF IsList
<1>3. PICK r \in Elements(rows) : TRUE
    BY <1>1 DEF IdsOf
<1>4. PICK i \in 1..Len(rows) : r = rows[i]
    BY <1>2, <1>3 DEF Elements
<1>5. 1 \in DOMAIN rows
    BY <1>2, <1>4
<1>6. rows[1] \in Elements(rows)
    BY <1>5 DEF Elements
<1>7. rows # <<>>
  <2>1. DOMAIN <<>> = {}
      OBVIOUS
  <2> QED
      BY <1>5, <2>1
<1> QED
  <2>1. rows[1].id = id
      BY <1>1, <1>6
  <2>2. IsAnswer(Whole(rows))
      BY <1>1, WholeFacts
  <2> QED
      BY <1>7, <2>1, <2>2

\* What drawing a list shows of its rows.
LEMMA RenderFacts ==
    ASSUME NEW rows, IsList(rows), NEW f, NEW p \in Nat \ {0}, Render(rows, f, p)
    PROVE  /\ IsAnswer(table') /\ page' \in Nat \ {0}
           /\ \A r \in Elements(table'.rows) : r \in Elements(rows) /\ ClientFilter(f, r)
           /\ table'.total > 0 => table'.rows # <<>>
<1> DEFINE kept == Select(rows, {r \in Elements(rows) : ClientFilter(f, r)})
<1>1. IsList(kept) /\ \A r \in Elements(kept) : r \in Elements(rows) /\ ClientFilter(f, r)
  <2>1. /\ IsList(kept)
        /\ Elements(kept) = {r \in Elements(rows) : r \in {x \in Elements(rows) : ClientFilter(f, x)}}
      BY SelectFacts
  <2> HIDE DEF kept
  <2> QED
      BY <2>1
<1>2. table' = Page(kept, SafePage(p, Len(kept))) /\ page' = table'.page
    BY DEF Render, paginateClient
<1> HIDE DEF kept
<1>3. /\ IsAnswer(table') /\ Elements(table'.rows) \subseteq Elements(kept)
      /\ table'.total > 0 => table'.rows # <<>>
    BY <1>1, <1>2, PageFacts
<1> QED
    BY <1>1, <1>2, <1>3 DEF IsAnswer

----------------------------------------------------------------------------
(* The lists: every action keeps the invariant.                            *)

\* A new table.
LEMMA TableKept ==
    ASSUME UNCHANGED <<board, flags>>,
           \A r \in Elements(table'.rows) : r \in Elements(cache') /\ ClientFilter(filter', r),
           board # "reservations" => (table'.total > 0 => table'.rows # <<>>),
           board = "reservations" => IdsOf(table'.rows) \subseteq IdsOf(db')
    PROVE  TableOfCache'
<1>1. \A f, r : ClientFilter(f, r)' <=> ClientFilter(f, r)
    BY Fixed
<1>2. (\A r \in Elements(table.rows) : r \in Elements(cache) /\ ClientFilter(filter, r))'
    BY <1>1 DEF Elements
<1>3. NoEmptyPage'
    BY DEF NoEmptyPage
<1>4. (board = "reservations" => IdsOf(table.rows) \subseteq IdsOf(db))'
    BY DEF IdsOf, Elements
<1> QED
    BY <1>2, <1>3, <1>4 DEF TableOfCache

\* The invariant after the step, in terms of the filters' meaning before it.
Kept ==
    /\ Screen'
    /\ Calls(inFlight', db')
    /\ Questions(inFlight', filter', cache', late', drawer')

LEMMA KeptInv ==
    ASSUME UNCHANGED <<board, flags>>, Kept
    PROVE  ListIInv'
<1>1. /\ \A q, d : Calls(q, d)' <=> Calls(q, d)
      /\ \A q, f, c, l, d : Questions(q, f, c, l, d)' <=> Questions(q, f, c, l, d)
    BY Fixed
<1>2. Calls(inFlight, db)'
    BY <1>1 DEF Kept
<1>3. Questions(inFlight, filter, cache, late, drawer)'
    BY <1>1 DEF Kept
<1> QED
    BY <1>2, <1>3 DEF Kept, ListIInv

LEMMA ScreenSame ==
    ASSUME Screen, UNCHANGED <<board, flags, db, filter, control, page, cache, table, drawer>>
    PROVE  Screen'
<1>1. ListTypes'
    BY DEF Screen, ListTypes, FilterType, IsList, IsAnswer, Elements
<1>2. TableOfCache'
  <2>1. /\ \A r \in Elements(table'.rows) : r \in Elements(cache') /\ ClientFilter(filter', r)
        /\ board # "reservations" => (table'.total > 0 => table'.rows # <<>>)
        /\ board = "reservations" => IdsOf(table'.rows) \subseteq IdsOf(db')
      BY DEF Screen, TableOfCache, NoEmptyPage
  <2> QED
      BY <2>1, TableKept
<1>3. WidgetsTellFilter'
    BY DEF Screen, WidgetsTellFilter
<1>4. DrawerOfCache'
    BY DEF Screen, DrawerOfCache, IdsOf, RowOf, Elements, Closed, Nobody
<1> QED
    BY <1>1, <1>2, <1>3, <1>4 DEF Screen

\* What is put in flight.
NewCall(op, at, f, p, id) ==
    [op |-> op, at |-> at, filter |-> f, page |-> p, id |-> id, old |-> FALSE,
     answer |-> Whole(<<>>)]

LEMMA AskCall ==
    ASSUME NEW op \in {"list", "detail", "retry"}, NEW at, NEW f \in FilterType,
           NEW p \in Nat \ {0}, NEW id,
           op = "detail" => board = "reservations" /\ id \in IdsOf(db),
           op = "retry" => board = "requests",
           NEW x, x = NewCall(op, at, f, p, id)
    PROVE  /\ IsCall(x, db) /\ ~x.old
           /\ x.op = op /\ x.at = at /\ x.filter = f /\ x.id = id
<1>1. IsAnswer(Whole(<<>>))
  <2>1. IsList(<<>>)
      BY DEF IsList
  <2> QED
      BY <2>1, WholeFacts
<1>2. /\ x = [op |-> x.op, at |-> x.at, filter |-> x.filter, page |-> x.page, id |-> x.id,
              old |-> x.old, answer |-> x.answer]
      /\ x.op = op /\ x.at = at /\ x.filter = f /\ x.id = id /\ x.page = p /\ x.old = FALSE
      /\ x.answer = Whole(<<>>)
    BY DEF NewCall
<1>3. IsCall(x, db)
    BY <1>1, <1>2 DEF IsCall
<1> QED
    BY <1>2, <1>3

\* A list is asked for with the filter that is on the screen from now on.
LEMMA LoadKeeps ==
    ASSUME ListIInv, NEW f \in FilterType, NEW p \in Nat \ {0}, Load(f, p)
    PROVE  Calls(inFlight', db) /\ Questions(inFlight', f, cache, late, drawer)
<1> DEFINE at == IF board = "reservations" THEN "preparing" ELSE "sent"
           x == NewCall("list", at, f, p, 0)
<1>1. at # "done" /\ inFlight' = Append(inFlight, x)
    BY DEF Load, Ask, NewCall
<1> HIDE DEF at
<1>2. IsCall(x, db) /\ ~x.old /\ x.op = "list" /\ x.at = at /\ x.filter = f
  <2>1. ASSUME NEW op, op = "list"
        PROVE  IsCall(NewCall(op, at, f, p, 0), db) /\ ~x.old /\ x.op = "list" /\ x.at = at /\ x.filter = f
    <3>1. op \in {"list", "detail", "retry"} /\ op # "detail" /\ op # "retry"
          /\ x = NewCall(op, at, f, p, 0)
        BY <2>1
    <3> HIDE DEF x
    <3> QED
        BY <2>1, <3>1, AskCall
  <2> QED
      BY <2>1
<1> HIDE DEF x
<1>3. SameQuery(x.filter, f) /\ x.at # "done"
    BY <1>1, <1>2 DEF SameQuery
<1>4. Calls(inFlight, db) /\ Questions(inFlight, filter, cache, late, drawer)
    BY DEF ListIInv
<1>5. Calls(Append(inFlight, x), db) /\ Questions(Append(inFlight, x), f, cache, late, drawer)
  <2>1. /\ x.op # "list" => f = filter
        /\ x.op = "list" => x.at = "preparing" \/ SameQuery(x.filter, f)
        /\ x.op # "detail" /\ x.at # "done" /\ ~x.old
      BY <1>2, <1>3
  <2> QED
      BY <1>2, <1>4, <2>1, AskKeeps
<1> QED
    BY <1>1, <1>5

\* A call is put, or answered.
FieldsOfCall == {"op", "at", "filter", "page", "id", "old", "answer"}

LEMMA PutCall ==
    ASSUME NEW c, NEW d, IsCall(c, d), NEW a, NEW f, NEW p,
           NEW x, x = [c EXCEPT !.at = a, !.filter = f, !.page = p]
    PROVE  x = [op |-> c.op, at |-> a, filter |-> f, page |-> p, id |-> c.id,
                old |-> c.old, answer |-> c.answer]
<1>1. DOMAIN c = FieldsOfCall
    BY DEF IsCall, FieldsOfCall
<1>2. /\ x.op = c.op /\ x.at = a /\ x.filter = f /\ x.page = p /\ x.id = c.id
      /\ x.old = c.old /\ x.answer = c.answer
      /\ DOMAIN x = FieldsOfCall /\ x = [k \in FieldsOfCall |-> x[k]]
    BY <1>1 DEF FieldsOfCall
<1> QED
    BY <1>2 DEF FieldsOfCall

LEMMA AnsweredCall ==
    ASSUME NEW c, NEW d, IsCall(c, d), NEW a, NEW w,
           NEW x, x = [c EXCEPT !.at = a, !.answer = w]
    PROVE  x = [op |-> c.op, at |-> a, filter |-> c.filter, page |-> c.page, id |-> c.id,
                old |-> c.old, answer |-> w]
<1>1. DOMAIN c = FieldsOfCall
    BY DEF IsCall, FieldsOfCall
<1>2. /\ x.op = c.op /\ x.at = a /\ x.filter = c.filter /\ x.page = c.page /\ x.id = c.id
      /\ x.old = c.old /\ x.answer = w
      /\ DOMAIN x = FieldsOfCall /\ x = [k \in FieldsOfCall |-> x[k]]
    BY <1>1 DEF FieldsOfCall
<1> QED
    BY <1>2 DEF FieldsOfCall

LEMMA query_Keeps ==
    ASSUME ListIInv, NEW i, query(i)
    PROVE  Kept
<1> DEFINE c == inFlight[i]
           x == [c EXCEPT !.at = "sent", !.filter = filter, !.page = page]
<1>1. i \in DOMAIN inFlight /\ IsCall(c, db) /\ filter \in FilterType /\ page \in Nat \ {0}
    BY DEF query, ListIInv, Calls, Screen, ListTypes
<1>2. inFlight' = [inFlight EXCEPT ![i] = x]
    BY DEF query
<1>3. x = [op |-> c.op, at |-> "sent", filter |-> filter, page |-> page, id |-> c.id,
           old |-> c.old, answer |-> c.answer]
  <2>2. ASSUME NEW a, a = "sent"
        PROVE  x = [op |-> c.op, at |-> a, filter |-> filter, page |-> page, id |-> c.id,
                    old |-> c.old, answer |-> c.answer]
    <3>1. x = [c EXCEPT !.at = a, !.filter = filter, !.page = page]
        BY <2>2
    <3> HIDE DEF x, c
    <3> QED
        BY <1>1, <3>1, PutCall
  <2> QED
      BY <2>2
<1>4. /\ x.op = c.op /\ x.old = c.old /\ x.id = c.id /\ x.filter = filter /\ x.at = "sent"
      /\ x.page = page /\ x.answer = c.answer
    BY <1>3
<1> HIDE DEF x
<1>5. IsCall(x, db) /\ AnswerFits(x, db)
    BY <1>1, <1>3, <1>4 DEF IsCall, AnswerFits
<1>6. Calls(inFlight, db) /\ Questions(inFlight, filter, cache, late, drawer) /\ Screen
    BY DEF ListIInv
<1>7. Calls(inFlight', db) /\ Questions(inFlight', filter, cache, late, drawer)
    BY <1>1, <1>2, <1>4, <1>5, <1>6, ChangeKeeps
<1>8. Screen'
    BY <1>6, ScreenSame DEF query
<1> QED
    BY <1>7, <1>8 DEF Kept, query

LEMMA serve_Keeps ==
    ASSUME ListIInv, NEW i, serve(i)
    PROVE  Kept
<1> DEFINE c == inFlight[i]
           got == CASE c.op = "list" -> Answer(c.filter, c.page)
                    [] c.op = "detail" -> Whole(Select(db, {r \in Elements(db) : r.id = c.id}))
                    [] OTHER -> c.answer
           x == [c EXCEPT !.at = "done", !.answer = got]
<1>1. i \in DOMAIN inFlight /\ IsCall(c, db) /\ IsList(db) /\ board \in Boards /\ c.at = "sent"
    BY DEF serve, ListIInv, Calls, Screen, ListTypes
<1>2. inFlight' = [inFlight EXCEPT ![i] = x]
    BY DEF serve
<1>3. x = [op |-> c.op, at |-> "done", filter |-> c.filter, page |-> c.page, id |-> c.id,
           old |-> c.old, answer |-> got]
  <2> HIDE DEF got
  <2>1. ASSUME NEW a, a = "done"
        PROVE  x = [op |-> c.op, at |-> a, filter |-> c.filter, page |-> c.page, id |-> c.id,
                    old |-> c.old, answer |-> got]
    <3>1. x = [c EXCEPT !.at = a, !.answer = got]
        BY <2>1
    <3> HIDE DEF x, c
    <3> QED
        BY <1>1, <3>1, AnsweredCall
  <2> QED
      BY <2>1
<1>4. /\ x.op = c.op /\ x.old = c.old /\ x.id = c.id /\ x.filter = c.filter /\ x.at = "done"
      /\ x.page = c.page /\ x.answer = got
  <2> HIDE DEF got
  <2> QED
      BY <1>3
<1>5. \/ db' = db
      \/ c.op = "retry" /\ board = "requests" /\ db' = Sent(c.id)
    BY <1>1 DEF serve, IsCall
<1>6. IsAnswer(got)
  <2>1. CASE c.op = "list"
      BY <1>1, <2>1, AnswerFacts DEF IsCall
  <2>2. CASE c.op = "detail"
      BY <1>1, <2>2, DetailFacts DEF IsCall
  <2>3. CASE c.op = "retry"
      BY <1>1, <2>3 DEF IsCall
  <2> QED
      BY <1>1, <2>1, <2>2, <2>3 DEF IsCall
<1>7. AnswerFits(x, db')
  <2>1. CASE c.op = "list"
    <3>1. /\ got = Answer(c.filter, c.page) /\ db' = db
          /\ c.page \in Nat \ {0}
        BY <1>1, <1>5, <2>1 DEF IsCall
    <3>2. /\ \A r \in Elements(got.rows) : r \in Elements(db) /\ ServerFilter(c.filter, r)
          /\ board = "logs" => (got.total > 0 => got.rows # <<>>)
        BY <1>1, <3>1, AnswerFacts
    <3> HIDE DEF got, x
    <3>3. IdsOf(got.rows) \subseteq IdsOf(db)
        BY <3>2 DEF IdsOf
    <3> QED
        BY <1>4, <2>1, <3>1, <3>2, <3>3 DEF AnswerFits
  <2>2. CASE c.op = "detail"
    <3> DEFINE rows == Select(db, {r \in Elements(db) : r.id = c.id})
    <3>1. c.id \in IdsOf(db) /\ got = Whole(rows)
        BY <1>1, <2>2 DEF IsCall
    <3>2. IsAnswer(Whole(rows)) /\ rows # <<>> /\ rows[1].id = c.id
        BY <1>1, <3>1, DetailFacts
    <3> HIDE DEF got, x, rows
    <3>3. got.rows = rows
        BY <3>1 DEF Whole
    <3> QED
        BY <1>4, <2>2, <3>2, <3>3 DEF AnswerFits
  <2>3. CASE c.op = "retry"
    <3> HIDE DEF got, x
    <3> QED
        BY <1>4, <2>3 DEF AnswerFits
  <2> QED
      BY <1>1, <2>1, <2>2, <2>3 DEF IsCall
<1>8. IsCall(x, db')
  <2> HIDE DEF got, x
  <2> QED
      BY <1>1, <1>3, <1>4, <1>5, <1>6 DEF IsCall
<1>9. Calls(inFlight, db) /\ Questions(inFlight, filter, cache, late, drawer) /\ Screen
    BY DEF ListIInv
<1> HIDE DEF got, x
<1>10. Calls(inFlight', db') /\ Questions(inFlight', filter, cache, late, drawer)
  <2>1. db' = db \/ board = "requests"
      BY <1>5
  <2>2. c.at # "preparing" /\ x.filter = c.filter
      BY <1>1, <1>4
  <2> QED
      BY <1>1, <1>2, <1>4, <1>7, <1>8, <1>9, <2>1, <2>2, ChangeKeeps
<1>11. Screen'
  <2>1. CASE db' = db
      BY <1>9, <2>1, ScreenSame DEF serve
  <2>2. CASE board = "requests" /\ db' = Sent(c.id)
    <3>1. IsList(db')
      <4>1. db \in Seq(Elements(db)) /\ Len(db) \in Nat /\ DOMAIN db = 1..Len(db)
          BY <1>1 DEF IsList
      <4> DEFINE t == Sent(c.id)
      <4>2. t = [j \in 1..Len(db) |-> t[j]] /\ DOMAIN t = 1..Len(db)
          BY <4>1 DEF Sent
      <4> HIDE DEF t
      <4>3. \A j \in 1..Len(db) : t[j] \in Elements(t)
          BY <4>2 DEF Elements
      <4>4. t \in Seq(Elements(t))
          BY <4>1, <4>2, <4>3
      <4> QED
          BY <2>2, <4>4 DEF IsList, t
    <3>2. ListTypes'
      <4>1. /\ board' \in Boards /\ IsList(cache') /\ IsAnswer(table')
            /\ filter' \in FilterType /\ control' \in FilterType /\ page' \in Nat \ {0}
            /\ drawer' = [id |-> drawer'.id, row |-> drawer'.row]
          BY <1>9 DEF Screen, ListTypes, serve
      <4>2. FilterType' = FilterType /\ IsList(db)' /\ IsList(cache)' /\ IsAnswer(table)'
          BY <3>1, <4>1 DEF FilterType, serve, IsList, IsAnswer, Elements
      <4> QED
          BY <4>1, <4>2 DEF ListTypes
    <3>3. TableOfCache'
      <4>1. /\ \A r \in Elements(table'.rows) : r \in Elements(cache') /\ ClientFilter(filter', r)
            /\ board # "reservations" => (table'.total > 0 => table'.rows # <<>>)
          BY <1>9 DEF Screen, TableOfCache, NoEmptyPage, serve
      <4>2. UNCHANGED <<board, flags>> /\ board # "reservations"
          BY <2>2 DEF serve
      <4> QED
          BY <4>1, <4>2, TableKept
    <3>4. WidgetsTellFilter' /\ DrawerOfCache'
        BY <1>9 DEF Screen, WidgetsTellFilter, DrawerOfCache, IdsOf, RowOf, Elements, Closed, Nobody, serve
    <3> QED
        BY <3>2, <3>3, <3>4 DEF Screen
  <2> QED
      BY <1>5, <2>1, <2>2
<1> QED
    BY <1>10, <1>11 DEF Kept, serve

\* A new filter; only one of the two widgets of the activity changes, unless
\* both are reset.
LEMMA RefilterKeeps ==
    ASSUME ListIInv, NEW g \in FilterType, Refilter(g), control' \in FilterType,
           control'.sub = g.sub, control'.tab \in {g.tab, "all"},
           board = "fonio" /\ g.tab # filter.tab => g.sub \in {filter.sub, "all"}
    PROVE  Kept
<1>1. Screen /\ Calls(inFlight, db) /\ Questions(inFlight, filter, cache, late, drawer)
    BY DEF ListIInv
<1>2. /\ filter' = g /\ UNCHANGED <<board, flags, db, cache, drawer, late>>
      /\ IF NeedsServer(g) THEN page' = 1 /\ Load(g, 1) /\ UNCHANGED table
         ELSE Render(cache, g, 1) /\ UNCHANGED inFlight
    BY DEF Refilter
<1>3. /\ board \in Boards /\ IsList(db) /\ IsList(cache) /\ IsAnswer(table)
      /\ drawer = [id |-> drawer.id, row |-> drawer.row]
      /\ \A r \in Elements(table.rows) : r \in Elements(cache) /\ ClientFilter(filter, r)
      /\ NoEmptyPage /\ (board = "reservations" => IdsOf(table.rows) \subseteq IdsOf(db))
      /\ DrawerOfCache
    BY <1>1 DEF Screen, ListTypes, TableOfCache
<1>4. /\ Calls(inFlight', db) /\ Questions(inFlight', g, cache, late, drawer)
      /\ page' \in Nat \ {0} /\ IsAnswer(table')
      /\ \A r \in Elements(table'.rows) : r \in Elements(cache) /\ ClientFilter(g, r)
      /\ board # "reservations" => (table'.total > 0 => table'.rows # <<>>)
      /\ board = "reservations" => IdsOf(table'.rows) \subseteq IdsOf(db)
  <2>1. CASE NeedsServer(g)
    <3>1. page' = 1 /\ Load(g, 1) /\ table' = table
        BY <1>2, <2>1
    <3>2. Calls(inFlight', db) /\ Questions(inFlight', g, cache, late, drawer)
      <4>1. 1 \in Nat \ {0}
          OBVIOUS
      <4> QED
          BY <3>1, <4>1, LoadKeeps
    <3>3. \A r : ClientFilter(filter, r) => ClientFilter(g, r)
      <4>1. CASE ~ClientPaged
          BY <4>1 DEF ClientFilter, ClientPaged
      <4>2. CASE board = "fonio" /\ g.tab # filter.tab
          BY <4>2 DEF ClientFilter, filterFonioActivityList
      <4> QED
          BY <2>1, <4>1, <4>2 DEF NeedsServer
    <3> QED
        BY <1>3, <3>1, <3>2, <3>3 DEF NoEmptyPage
  <2>2. CASE ~NeedsServer(g)
    <3>1. Render(cache, g, 1) /\ inFlight' = inFlight
        BY <1>2, <2>2
    <3>2. /\ IsAnswer(table') /\ page' \in Nat \ {0}
          /\ \A r \in Elements(table'.rows) : r \in Elements(cache) /\ ClientFilter(g, r)
          /\ table'.total > 0 => table'.rows # <<>>
      <4>1. 1 \in Nat \ {0}
          OBVIOUS
      <4> QED
          BY <1>3, <3>1, <4>1, RenderFacts
    <3>3. board = "requests" \/ (board = "fonio" /\ g.tab = filter.tab)
        BY <2>2 DEF NeedsServer, ClientPaged
    <3>4. \A f : SameQuery(f, filter) => SameQuery(f, g)
        BY <3>3 DEF SameQuery
    <3>5. \A r : ServerFilter(filter, r) => ServerFilter(g, r)
        BY <3>3 DEF ServerFilter
    <3>6. Questions(inFlight, g, cache, late, drawer)
        BY <1>1, <3>4, <3>5 DEF Questions, NewestAsks, CacheFits
    <3> QED
        BY <1>1, <3>1, <3>2, <3>3, <3>6
  <2> QED
      BY <2>1, <2>2
<1>5. ListTypes'
    BY <1>2, <1>3, <1>4 DEF ListTypes, FilterType, IsList, IsAnswer, Elements
<1>6. TableOfCache'
    BY <1>2, <1>4, TableKept
<1>7. WidgetsTellFilter'
    BY <1>2 DEF WidgetsTellFilter
<1>8. DrawerOfCache'
    BY <1>2, <1>3 DEF DrawerOfCache, IdsOf, RowOf, Elements, Closed, Nobody
<1> QED
    BY <1>2, <1>4, <1>5, <1>6, <1>7, <1>8 DEF Kept, Screen

LEMMA setFilter_Keeps ==
    ASSUME ListIInv, NEW f \in Filters, setFilter(f)
    PROVE  Kept
<1> DEFINE g == IF board = "logs" THEN f
                ELSE [tab |-> IF f.tab # control.tab THEN f.tab ELSE filter.tab,
                      sub |-> IF f.sub # control.sub THEN f.sub ELSE filter.sub]
<1>1. /\ Refilter(g) /\ control' = f
      /\ (f.tab = control.tab) # (f.sub = control.sub)
    BY DEF setFilter, openLogsFilterSheet
<1>2. filter \in FilterType /\ WidgetsTellFilter
    BY DEF ListIInv, Screen, ListTypes
<1>3. f \in FilterType /\ g \in FilterType
    BY <1>2 DEF Filters, FilterType
<1>4. g.tab = (IF board = "logs" \/ f.tab # control.tab THEN f.tab ELSE filter.tab)
      /\ g.sub = (IF board = "logs" \/ f.sub # control.sub THEN f.sub ELSE filter.sub)
    BY <1>3 DEF FilterType
<1> HIDE DEF g
<1>5. f.sub = g.sub /\ f.tab \in {g.tab, "all"}
      /\ (board = "fonio" /\ g.tab # filter.tab => g.sub \in {filter.sub, "all"})
    BY <1>1, <1>2, <1>4 DEF WidgetsTellFilter
<1> QED
    BY <1>1, <1>3, <1>5, RefilterKeeps

LEMMA clearFilters_Keeps ==
    ASSUME ListIInv, clearFilters
    PROVE  Kept
<1>1. All \in FilterType /\ All.sub = "all" /\ All.tab = "all"
    BY DEF All, FilterType
<1>2. Refilter(All) /\ control' = All
    BY DEF clearFilters
<1> QED
    BY <1>1, <1>2, RefilterKeeps

\* A click on the pager.
LEMMA goTo_Keeps ==
    ASSUME ListIInv, NEW p, goTo(p)
    PROVE  Kept
<1>1. Screen /\ Calls(inFlight, db) /\ Questions(inFlight, filter, cache, late, drawer)
    BY DEF ListIInv
<1>2. /\ UNCHANGED <<board, flags, db, filter, control, cache, drawer, late>>
      /\ p \in 1..PagesFor(table.total)
      /\ IF ClientPaged THEN Render(cache, filter, p) /\ UNCHANGED inFlight
         ELSE page' = p /\ Load(filter, p) /\ UNCHANGED table
    BY DEF goTo
<1>3. /\ board \in Boards /\ IsList(db) /\ IsList(cache) /\ IsAnswer(table)
      /\ drawer = [id |-> drawer.id, row |-> drawer.row]
      /\ filter \in FilterType /\ control \in FilterType
      /\ \A r \in Elements(table.rows) : r \in Elements(cache) /\ ClientFilter(filter, r)
      /\ NoEmptyPage /\ (board = "reservations" => IdsOf(table.rows) \subseteq IdsOf(db))
      /\ DrawerOfCache /\ WidgetsTellFilter
    BY <1>1 DEF Screen, ListTypes, TableOfCache
<1>4. p \in Nat \ {0}
  <2>1. table.total \in Nat
      BY <1>3 DEF IsAnswer
  <2>2. PagesFor(table.total) \in Nat
      BY <2>1, PagesFacts
  <2> QED
      BY <1>2, <2>2
<1>5. /\ Calls(inFlight', db) /\ Questions(inFlight', filter, cache, late, drawer)
      /\ page' \in Nat \ {0} /\ IsAnswer(table')
      /\ \A r \in Elements(table'.rows) : r \in Elements(cache) /\ ClientFilter(filter, r)
      /\ board # "reservations" => (table'.total > 0 => table'.rows # <<>>)
      /\ board = "reservations" => IdsOf(table'.rows) \subseteq IdsOf(db)
  <2>1. CASE ClientPaged
    <3>1. Render(cache, filter, p) /\ inFlight' = inFlight /\ board # "reservations"
        BY <1>2, <2>1 DEF ClientPaged
    <3>2. /\ IsAnswer(table') /\ page' \in Nat \ {0}
          /\ \A r \in Elements(table'.rows) : r \in Elements(cache) /\ ClientFilter(filter, r)
          /\ table'.total > 0 => table'.rows # <<>>
        BY <1>3, <1>4, <3>1, RenderFacts
    <3> QED
        BY <1>1, <3>1, <3>2
  <2>2. CASE ~ClientPaged
    <3>1. page' = p /\ Load(filter, p) /\ table' = table
        BY <1>2, <2>2
    <3>2. Calls(inFlight', db) /\ Questions(inFlight', filter, cache, late, drawer)
        BY <1>3, <1>4, <3>1, LoadKeeps
    <3> QED
        BY <1>3, <1>4, <3>1, <3>2 DEF NoEmptyPage
  <2> QED
      BY <2>1, <2>2
<1>6. ListTypes'
    BY <1>2, <1>3, <1>5 DEF ListTypes, FilterType, IsList, IsAnswer, Elements
<1>7. TableOfCache'
    BY <1>2, <1>5, TableKept
<1>8. WidgetsTellFilter'
    BY <1>2, <1>3 DEF WidgetsTellFilter
<1>9. DrawerOfCache'
    BY <1>2, <1>3 DEF DrawerOfCache, IdsOf, RowOf, Elements, Closed, Nobody
<1> QED
    BY <1>2, <1>5, <1>6, <1>7, <1>8, <1>9 DEF Kept, Screen

\* The list is opened again, or polled.
LEMMA reload_Keeps ==
    ASSUME ListIInv, Load(filter, page),
           UNCHANGED <<board, flags, db, filter, control, page, cache, table, drawer, late>>
    PROVE  Kept
<1>1. Screen /\ filter \in FilterType /\ page \in Nat \ {0}
    BY DEF ListIInv, Screen, ListTypes
<1>2. Screen'
    BY <1>1, ScreenSame
<1>3. Calls(inFlight', db) /\ Questions(inFlight', filter, cache, late, drawer)
    BY <1>1, LoadKeeps
<1> QED
    BY <1>2, <1>3 DEF Kept

LEMMA toggleAutoRefresh_Keeps ==
    ASSUME ListIInv, toggleAutoRefresh
    PROVE  Kept
<1>1. Screen /\ Calls(inFlight, db) /\ Questions(inFlight, filter, cache, late, drawer)
    BY DEF ListIInv
<1>2. Screen'
    BY <1>1, ScreenSame DEF toggleAutoRefresh
<1> QED
    BY <1>1, <1>2 DEF Kept, toggleAutoRefresh

\* Another drawer, of the same rows.
LEMMA DrawerKept ==
    ASSUME Screen, UNCHANGED <<board, flags, db, filter, control, page, cache, table>>,
           drawer' = [id |-> drawer'.id, row |-> drawer'.row],
           drawer' # Closed =>
              /\ board \in {"requests", "fonio"} /\ drawer'.id \in IdsOf(cache) =>
                    drawer'.row = RowOf(cache, drawer'.id)
              /\ board = "fonio" => drawer'.id \in IdsOf(cache)
    PROVE  Screen'
<1>1. ListTypes'
    BY DEF Screen, ListTypes, FilterType, IsList, IsAnswer, Elements
<1>2. TableOfCache'
  <2>1. /\ \A r \in Elements(table'.rows) : r \in Elements(cache') /\ ClientFilter(filter', r)
        /\ board # "reservations" => (table'.total > 0 => table'.rows # <<>>)
        /\ board = "reservations" => IdsOf(table'.rows) \subseteq IdsOf(db')
      BY DEF Screen, TableOfCache, NoEmptyPage
  <2> QED
      BY <2>1, TableKept
<1>3. WidgetsTellFilter'
    BY DEF Screen, WidgetsTellFilter
<1>4. DrawerOfCache'
    BY DEF DrawerOfCache, IdsOf, RowOf, Elements, Closed, Nobody
<1> QED
    BY <1>1, <1>2, <1>3, <1>4 DEF Screen

\* Only reservations are fetched.
LEMMA NoFetches ==
    ASSUME NEW q, NEW d, Calls(q, d), board # "reservations", NEW e, NEW l
    PROVE  NewestFetches(q, e) /\ DrawerFits(q, e, l)
BY DEF Calls, IsCall, NewestFetches, Newest, DrawerFits

LEMMA openDrawer_Keeps ==
    ASSUME ListIInv, NEW id, openDrawer(id)
    PROVE  Kept
<1>1. Screen /\ Calls(inFlight, db) /\ Questions(inFlight, filter, cache, late, drawer)
    BY DEF ListIInv
<1>2. /\ id \in IdsOf(table.rows)
      /\ UNCHANGED <<board, flags, db, filter, control, page, cache, table, late>>
      /\ IF board = "reservations"
         THEN drawer' = [id |-> id, row |-> Nobody] /\ Ask("detail", "sent", All, 1, id)
         ELSE openFonioActivityDrawer(id) /\ UNCHANGED inFlight
    BY DEF openDrawer
<1>3. CASE board = "reservations"
  <2> DEFINE x == NewCall("detail", "sent", All, 1, id)
             e == [id |-> id, row |-> Nobody]
  <2>1. inFlight' = Append(inFlight, x) /\ drawer' = e
      BY <1>2, <1>3 DEF Ask, NewCall
  <2>2. id \in IdsOf(db) /\ All \in FilterType /\ 1 \in Nat \ {0}
      BY <1>1, <1>2, <1>3 DEF Screen, TableOfCache, FilterType, All
  <2>3. IsCall(x, db) /\ ~x.old /\ x.op = "detail" /\ x.at = "sent" /\ x.id = id
    <3>1. ASSUME NEW op, op = "detail", NEW at, at = "sent", NEW p, p = 1, NEW f, f = All,
                 NEW y, y = NewCall(op, at, f, p, id)
          PROVE  IsCall(y, db) /\ ~y.old /\ y.op = op /\ y.at = at /\ y.id = id
      <4>1. op \in {"list", "detail", "retry"} /\ op # "retry" /\ p \in Nat \ {0}
            /\ f \in FilterType
          BY <2>2, <3>1
      <4> QED
          BY <1>3, <2>2, <3>1, <4>1, AskCall
    <3> QED
        BY <3>1
  <2> HIDE DEF x, e
  <2>4. /\ x.op # "list" /\ x.at # "done" /\ x.op # "retry" /\ e.id = x.id
        /\ filter = filter
      BY <2>3 DEF e
  <2>5. Calls(Append(inFlight, x), db) /\ Questions(Append(inFlight, x), filter, cache, late, e)
      BY <1>1, <2>3, <2>4, AskKeeps
  <2>6. Screen'
    <3>1. drawer' = [id |-> drawer'.id, row |-> drawer'.row]
        BY <2>1 DEF e
    <3>2. board \notin {"requests", "fonio"}
        BY <1>3
    <3> QED
        BY <1>1, <1>2, <3>1, <3>2, DrawerKept
  <2> QED
      BY <1>2, <2>1, <2>5, <2>6 DEF Kept
<1>4. CASE board # "reservations"
  <2>1. drawer' = [id |-> id, row |-> RowOf(cache, id)] /\ inFlight' = inFlight
      BY <1>2, <1>4 DEF openFonioActivityDrawer
  <2>2. id \in IdsOf(cache)
      BY <1>1, <1>2 DEF Screen, TableOfCache, IdsOf
  <2>3. drawer' = [id |-> drawer'.id, row |-> drawer'.row]
        /\ drawer'.id = id /\ drawer'.row = RowOf(cache, id)
      BY <2>1
  <2>4. Screen'
      BY <1>1, <1>2, <2>2, <2>3, DrawerKept
  <2>5. Questions(inFlight, filter, cache, late, drawer')
      BY <1>1, <1>4, NoFetches DEF Questions
  <2> QED
      BY <1>1, <1>2, <2>1, <2>4, <2>5 DEF Kept
<1> QED
    BY <1>3, <1>4

LEMMA closeDrawer_Keeps ==
    ASSUME ListIInv, closeDrawer
    PROVE  Kept
<1>1. Screen /\ Calls(inFlight, db) /\ Questions(inFlight, filter, cache, late, drawer)
    BY DEF ListIInv
<1>2. /\ drawer' = Closed
      /\ UNCHANGED <<board, flags, db, filter, control, page, cache, table, inFlight, late>>
    BY DEF closeDrawer
<1>3. drawer' = [id |-> drawer'.id, row |-> drawer'.row]
    BY <1>2 DEF Closed
<1>4. Screen'
    BY <1>1, <1>2, <1>3, DrawerKept
<1>5. Questions(inFlight, filter, cache, late, Closed)
    BY <1>1 DEF Questions, NewestFetches, DrawerFits
<1> QED
    BY <1>1, <1>2, <1>4, <1>5 DEF Kept

LEMMA retryForward_Keeps ==
    ASSUME ListIInv, NEW id, retryForward(id)
    PROVE  Kept
<1>1. Screen /\ Calls(inFlight, db) /\ Questions(inFlight, filter, cache, late, drawer)
    BY DEF ListIInv
<1> DEFINE x == NewCall("retry", "sent", All, 1, id)
<1>2. inFlight' = Append(inFlight, x) /\ board = "requests"
      /\ UNCHANGED <<board, flags, db, filter, control, page, cache, table, drawer, late>>
    BY DEF retryForward, Ask, NewCall
<1>3. All \in FilterType
    BY DEF FilterType, All
<1>4. IsCall(x, db) /\ ~x.old /\ x.op = "retry" /\ x.at = "sent"
  <2>1. ASSUME NEW op, op = "retry", NEW at, at = "sent", NEW p, p = 1, NEW f, f = All,
               NEW y, y = NewCall(op, at, f, p, id)
        PROVE  IsCall(y, db) /\ ~y.old /\ y.op = op /\ y.at = at
    <3>1. op \in {"list", "detail", "retry"} /\ op # "detail" /\ p \in Nat \ {0}
          /\ f \in FilterType
        BY <1>3, <2>1
    <3> QED
        BY <1>2, <2>1, <3>1, AskCall
  <2> QED
      BY <2>1
<1> HIDE DEF x
<1>5. x.op # "list" /\ x.op # "detail" /\ x.at # "done"
    BY <1>4
<1>6. Calls(Append(inFlight, x), db) /\ Questions(Append(inFlight, x), filter, cache, late, drawer)
    BY <1>1, <1>4, <1>5, AskKeeps
<1>7. Screen'
    BY <1>1, <1>2, ScreenSame
<1> QED
    BY <1>2, <1>6, <1>7 DEF Kept

\* A list is shown: it is the newest, or one that is newer is still to come or
\* was lost.
LEMMA showList_Keeps ==
    ASSUME ListIInv, NEW i, showList(i)
    PROVE  Kept
<1> DEFINE c == inFlight[i]
           got == c.answer
<1>1. Screen /\ Calls(inFlight, db) /\ Questions(inFlight, filter, cache, late, drawer)
    BY DEF ListIInv
<1>2. /\ i \in DOMAIN inFlight /\ c.op = "list" /\ c.at = "done"
      /\ cache' = got.rows /\ drawer' = AfterLoad(got.rows)
      /\ IF ClientPaged THEN Render(got.rows, filter, page)
         ELSE table' = got /\ page' = got.page
      /\ control' = IF board = "logs" /\ control.tab \notin Facets
                    THEN [control EXCEPT !.tab = "all"] ELSE control
      /\ late' = Heard(i) /\ inFlight' = Without(i)
      /\ UNCHANGED <<board, flags, db, filter>>
    BY DEF showList, populateLogsFilterOptions, renderLogsTable
<1>3. IsCall(c, db) /\ AnswerFits(c, db)
    BY <1>1, <1>2 DEF Calls
<1>4. /\ IsAnswer(got) /\ IsList(got.rows)
      /\ \A r \in Elements(got.rows) : ServerFilter(c.filter, r)
      /\ board = "logs" => (got.total > 0 => got.rows # <<>>)
      /\ board = "reservations" => IdsOf(got.rows) \subseteq IdsOf(db)
    BY <1>2, <1>3 DEF IsCall, AnswerFits, IsAnswer
<1>5. /\ board \in Boards /\ IsList(db) /\ page \in Nat \ {0}
      /\ filter \in FilterType /\ control \in FilterType
      /\ drawer = [id |-> drawer.id, row |-> drawer.row]
      /\ WidgetsTellFilter /\ DrawerOfCache
    BY <1>1 DEF Screen, ListTypes
<1>6. late' = IF c.old THEN late \union {"list"} ELSE late \ {"list"}
    BY <1>2 DEF Heard
<1> HIDE DEF got, c
<1>7. /\ page' \in Nat \ {0} /\ IsAnswer(table')
      /\ \A r \in Elements(table'.rows) : r \in Elements(cache') /\ ClientFilter(filter, r)
      /\ board # "reservations" => (table'.total > 0 => table'.rows # <<>>)
      /\ board = "reservations" => IdsOf(table'.rows) \subseteq IdsOf(db)
  <2>1. CASE ClientPaged
    <3>1. Render(got.rows, filter, page) /\ board # "reservations"
        BY <1>2, <2>1 DEF ClientPaged
    <3>2. /\ IsAnswer(table') /\ page' \in Nat \ {0}
          /\ \A r \in Elements(table'.rows) : r \in Elements(got.rows) /\ ClientFilter(filter, r)
          /\ table'.total > 0 => table'.rows # <<>>
        BY <1>4, <1>5, <3>1, RenderFacts
    <3> QED
        BY <1>2, <3>1, <3>2
  <2>2. CASE ~ClientPaged
    <3>1. table' = got /\ page' = got.page
        BY <1>2, <2>2
    <3>2. \A r : ClientFilter(filter, r)
        BY <2>2 DEF ClientFilter, ClientPaged
    <3>3. board \in {"logs", "reservations"}
        BY <1>5, <2>2, ListBounds DEF ClientPaged
    <3> QED
        BY <1>2, <1>4, <3>1, <3>2, <3>3 DEF IsAnswer
  <2> QED
      BY <2>1, <2>2
<1>8. /\ drawer' = [id |-> drawer'.id, row |-> drawer'.row]
      /\ board \notin {"requests", "fonio"} => drawer' = drawer
      /\ drawer' # Closed =>
            /\ board \in {"requests", "fonio"} /\ drawer'.id \in IdsOf(cache') =>
                  drawer'.row = RowOf(cache', drawer'.id)
            /\ board = "fonio" => drawer'.id \in IdsOf(cache')
  <2> DEFINE there == drawer.id \in IdsOf(got.rows)
             e == [drawer EXCEPT !.row = RowOf(got.rows, drawer.id)]
  <2>1. e = [id |-> drawer.id, row |-> RowOf(got.rows, drawer.id)]
      BY <1>5
  <2>2. e.id = drawer.id /\ e.row = RowOf(got.rows, drawer.id)
      BY <2>1
  <2>3. Closed = [id |-> Closed.id, row |-> Closed.row]
      BY DEF Closed
  <2>4. drawer' = IF board \in {"requests", "fonio"} /\ drawer # Closed
                  THEN IF there THEN e ELSE IF board = "fonio" THEN Closed ELSE drawer
                  ELSE drawer
      BY <1>2 DEF AfterLoad
  <2>5. e = [id |-> e.id, row |-> e.row]
      BY <2>1
  <2> HIDE DEF e
  <2>6. cache' = got.rows
      BY <1>2
  <2>7. CASE board \notin {"requests", "fonio"}
      BY <1>5, <2>4, <2>7
  <2>8. CASE board \in {"requests", "fonio"} /\ drawer = Closed
      BY <1>5, <2>4, <2>8
  <2>9. CASE board \in {"requests", "fonio"} /\ drawer # Closed /\ there
      BY <2>2, <2>4, <2>5, <2>6, <2>9
  <2>10. CASE board \in {"requests", "fonio"} /\ drawer # Closed /\ ~there
      BY <1>5, <2>3, <2>4, <2>6, <2>10
  <2> QED
      BY <2>7, <2>8, <2>9, <2>10
<1>9. /\ control' \in FilterType
      /\ control'.sub = filter.sub /\ control'.tab \in {filter.tab, "all"}
    BY <1>2, <1>5 DEF FilterType, WidgetsTellFilter
<1>10. Screen'
  <2>1. ListTypes'
      BY <1>2, <1>4, <1>5, <1>7, <1>8, <1>9 DEF ListTypes, FilterType, IsList, IsAnswer, Elements
  <2>2. TableOfCache'
      BY <1>2, <1>7, TableKept
  <2>3. WidgetsTellFilter'
      BY <1>2, <1>9 DEF WidgetsTellFilter
  <2>4. DrawerOfCache'
      BY <1>2, <1>8 DEF DrawerOfCache, IdsOf, RowOf, Elements, Closed, Nobody
  <2> QED
      BY <2>1, <2>2, <2>3, <2>4 DEF Screen
<1> DEFINE w == Without(i)
<1>11. /\ Calls(w, db) /\ NewestAsks(w, filter) /\ NewestFetches(w, drawer)
       /\ DrawerFits(w, drawer, late)
       /\ c.old \/ Coming(w, "list") \/ Newest(inFlight, i, "list")
    BY <1>1, <1>2, LeaveKeeps DEF c
<1> HIDE DEF w
<1>12. CacheFits(w, filter, cache', late')
  <2>1. CASE c.old
      BY <1>6, <2>1 DEF CacheFits
  <2>2. CASE Coming(w, "list")
      BY <2>2 DEF CacheFits
  <2>3. CASE Newest(inFlight, i, "list") /\ ~c.old
    <3>1. SameQuery(c.filter, filter)
        BY <1>1, <1>2, <2>3 DEF Questions, NewestAsks, c
    <3>2. \A r : ServerFilter(c.filter, r) => ServerFilter(filter, r)
        BY <3>1 DEF SameQuery, ServerFilter
    <3> QED
        BY <1>2, <1>4, <3>2 DEF CacheFits
  <2> QED
      BY <1>11, <2>1, <2>2, <2>3
<1>13. NewestFetches(w, drawer') /\ DrawerFits(w, drawer', late')
  <2>1. CASE board = "reservations"
    <3>1. drawer' = drawer /\ ("detail" \in late' <=> "detail" \in late)
        BY <1>6, <1>8, <2>1
    <3> QED
        BY <1>11, <3>1 DEF DrawerFits
  <2>2. CASE board # "reservations"
      BY <1>11, <2>2, NoFetches
  <2> QED
      BY <2>1, <2>2
<1> QED
    BY <1>2, <1>10, <1>11, <1>12, <1>13 DEF Kept, Questions, w

\* A reservation is shown: it is the one of the drawer, or a newer one is still
\* to come or was lost.
LEMMA showReservation_Keeps ==
    ASSUME ListIInv, NEW i, showReservation(i)
    PROVE  Kept
<1> DEFINE c == inFlight[i]
           rows == c.answer.rows
           w == Without(i)
<1>1. Screen /\ Calls(inFlight, db) /\ Questions(inFlight, filter, cache, late, drawer)
    BY DEF ListIInv
<1>2. /\ i \in DOMAIN inFlight /\ c.op = "detail" /\ c.at = "done"
      /\ drawer' = IF drawer = Closed \/ rows = <<>> THEN drawer
                   ELSE [drawer EXCEPT !.row = rows[1]]
      /\ late' = Heard(i) /\ inFlight' = w
      /\ UNCHANGED <<board, flags, db, filter, control, page, cache, table>>
    BY DEF showReservation, renderReservationDrawer
<1>3. board = "reservations" /\ rows # <<>> /\ rows[1].id = c.id
    BY <1>1, <1>2 DEF Calls, IsCall, AnswerFits
<1>4. late' = IF c.old THEN late \union {"detail"} ELSE late \ {"detail"}
    BY <1>2 DEF Heard
<1>5. /\ Calls(w, db) /\ NewestAsks(w, filter) /\ NewestFetches(w, drawer)
      /\ CacheFits(w, filter, cache, late)
      /\ c.old \/ Coming(w, "detail") \/ Newest(inFlight, i, "detail")
    BY <1>1, <1>2, LeaveKeeps DEF c
<1>6. drawer = [id |-> drawer.id, row |-> drawer.row]
    BY <1>1 DEF Screen, ListTypes
<1> HIDE DEF w, rows, c
<1>7. /\ drawer' = [id |-> drawer'.id, row |-> drawer'.row]
      /\ drawer = Closed => drawer' = Closed
      /\ drawer # Closed => drawer'.id = drawer.id /\ drawer'.row = rows[1]
  <2>1. CASE drawer = Closed
      BY <1>2, <1>6, <2>1
  <2>2. CASE drawer # Closed
    <3>1. drawer' = [drawer EXCEPT !.row = rows[1]]
        BY <1>2, <1>3, <2>2
    <3>2. drawer' = [id |-> drawer.id, row |-> rows[1]]
        BY <1>6, <3>1
    <3> QED
        BY <2>2, <3>2
  <2> QED
      BY <2>1, <2>2
<1>8. Screen'
  <2>1. board \notin {"requests", "fonio"} /\ board # "fonio"
      BY <1>3
  <2> QED
      BY <1>1, <1>2, <1>7, <2>1, DrawerKept
<1>9. CacheFits(w, filter, cache, late')
    BY <1>4, <1>5 DEF CacheFits
<1>10. NewestFetches(w, drawer')
    BY <1>5, <1>7 DEF NewestFetches
<1>11. DrawerFits(w, drawer', late')
  <2>1. CASE c.old
      BY <1>4, <2>1 DEF DrawerFits
  <2>2. CASE Coming(w, "detail")
      BY <2>2 DEF DrawerFits
  <2>3. CASE Newest(inFlight, i, "detail") /\ ~c.old
    <3>1. drawer = Closed \/ drawer.id = c.id
        BY <1>1, <1>2, <2>3 DEF Questions, NewestFetches, c
    <3> QED
        BY <1>3, <1>7, <3>1 DEF DrawerFits
  <2> QED
      BY <1>5, <2>1, <2>2, <2>3
<1> QED
    BY <1>2, <1>5, <1>8, <1>9, <1>10, <1>11 DEF Kept, Questions

LEMMA retried_Keeps ==
    ASSUME ListIInv, NEW i, retried(i)
    PROVE  Kept
<1> DEFINE c == inFlight[i]
           w == Without(i)
           x == [c EXCEPT !.op = "list", !.at = "sent", !.filter = filter, !.old = FALSE]
<1>1. Screen /\ Calls(inFlight, db) /\ Questions(inFlight, filter, cache, late, drawer)
    BY DEF ListIInv
<1>2. /\ i \in DOMAIN inFlight /\ c.op = "retry"
      /\ inFlight' = Append(w, x)
      /\ UNCHANGED <<board, flags, db, filter, control, page, cache, table, drawer, late>>
    BY DEF retried
<1>3. IsCall(c, db) /\ filter \in FilterType
    BY <1>1, <1>2 DEF Calls, Screen, ListTypes
<1>4. x = [op |-> "list", at |-> "sent", filter |-> filter, page |-> c.page, id |-> c.id,
           old |-> FALSE, answer |-> c.answer]
  <2>1. DOMAIN c = FieldsOfCall
      BY <1>3 DEF IsCall, FieldsOfCall
  <2> HIDE DEF c
  <2>2. /\ x.op = "list" /\ x.at = "sent" /\ x.filter = filter /\ x.page = c.page
        /\ x.id = c.id /\ x.old = FALSE /\ x.answer = c.answer
        /\ DOMAIN x = FieldsOfCall /\ x = [k \in FieldsOfCall |-> x[k]]
      BY <2>1 DEF FieldsOfCall
  <2> HIDE DEF x
  <2> QED
      BY <2>2 DEF FieldsOfCall
<1>5. Calls(w, db) /\ Questions(w, filter, cache, late, drawer)
    BY <1>1, <1>2, LeaveKeeps DEF Questions
<1> HIDE DEF w, x
<1>6. /\ x.op = "list" /\ x.at = "sent" /\ x.filter = filter /\ x.page = c.page
      /\ x.id = c.id /\ x.old = FALSE /\ x.answer = c.answer
    BY <1>4
<1>7. IsCall(x, db)
    BY <1>3, <1>4, <1>6 DEF IsCall
<1>8. /\ SameQuery(x.filter, filter) /\ x.op # "detail" /\ x.at # "done" /\ ~x.old
    BY <1>6 DEF SameQuery
<1>9. Calls(Append(w, x), db) /\ Questions(Append(w, x), filter, cache, late, drawer)
    BY <1>5, <1>7, <1>8, AskKeeps
<1>10. Screen'
    BY <1>1, <1>2, ScreenSame
<1> QED
    BY <1>2, <1>9, <1>10 DEF Kept

LEMMA fail_Keeps ==
    ASSUME ListIInv, NEW i, fail(i)
    PROVE  Kept
<1> DEFINE w == Without(i)
           op == inFlight[i].op
<1>1. Screen /\ Calls(inFlight, db) /\ Questions(inFlight, filter, cache, late, drawer)
    BY DEF ListIInv
<1>2. /\ i \in DOMAIN inFlight /\ late' = late \union ({op} \ {"retry"}) /\ inFlight' = w
      /\ UNCHANGED <<board, flags, db, filter, control, page, cache, table, drawer>>
    BY DEF fail
<1>3. /\ Calls(w, db) /\ NewestAsks(w, filter) /\ NewestFetches(w, drawer)
      /\ op # "list" => CacheFits(w, filter, cache, late)
      /\ op # "detail" => DrawerFits(w, drawer, late)
    BY <1>1, <1>2, LeaveKeeps
<1> HIDE DEF w, op
<1>4. CacheFits(w, filter, cache, late')
  <2>1. CASE op = "list"
      BY <1>2, <2>1 DEF CacheFits
  <2>2. CASE op # "list"
      BY <1>2, <1>3, <2>2 DEF CacheFits
  <2> QED
      BY <2>1, <2>2
<1>5. DrawerFits(w, drawer, late')
  <2>1. CASE op = "detail"
      BY <1>2, <2>1 DEF DrawerFits
  <2>2. CASE op # "detail"
      BY <1>2, <1>3, <2>2 DEF DrawerFits
  <2> QED
      BY <2>1, <2>2
<1>6. Screen'
    BY <1>1, <1>2, ScreenSame
<1> QED
    BY <1>2, <1>3, <1>4, <1>5, <1>6 DEF Kept, Questions

\* Rows come, change and go; no reservation is forgotten.
LEMMA dataChanges_Keeps ==
    ASSUME ListIInv, dataChanges
    PROVE  Kept
<1>1. Screen /\ Calls(inFlight, db) /\ Questions(inFlight, filter, cache, late, drawer)
    BY DEF ListIInv
<1>2. UNCHANGED <<board, flags, filter, control, page, cache, table, drawer, inFlight, late>>
    BY DEF dataChanges
<1>3. IsList(db) /\ db \in Seq(Elements(db)) /\ Len(db) \in Nat /\ DOMAIN db = 1..Len(db)
    BY <1>1 DEF Screen, ListTypes, IsList
<1>4. \A id, kind : Row(id, kind).id = id
    BY DEF Row
<1>5. /\ IsList(db')
      /\ board = "reservations" => IdsOf(db) \subseteq IdsOf(db')
  <2>1. ASSUME NEW kind, arrive(kind)
        PROVE  IsList(db') /\ IdsOf(db) \subseteq IdsOf(db')
    <3>1. PICK r : db' = <<r>> \o db
        BY <2>1 DEF arrive
    <3>2. db' \in Seq(Elements(db) \cup {r}) /\ Len(db') = Len(db) + 1
          /\ \A j \in 1..Len(db) : db'[j + 1] = db[j]
      <4>1. <<r>> \in Seq(Elements(db) \cup {r}) /\ db \in Seq(Elements(db) \cup {r})
          BY <1>3
      <4> QED
          BY <1>3, <3>1, <4>1
    <3>3. IsList(db') /\ DOMAIN db' = 1..(Len(db) + 1)
        BY <1>3, <3>2, ListOf
    <3>4. \A j \in 1..Len(db) : j + 1 \in DOMAIN db'
        BY <1>3, <3>3
    <3>5. Elements(db) \subseteq Elements(db')
      <4> SUFFICES ASSUME NEW y \in Elements(db)
                   PROVE  y \in Elements(db')
          OBVIOUS
      <4>1. PICK j \in 1..Len(db) : y = db[j]
          BY <1>3 DEF Elements
      <4> QED
          BY <3>2, <3>4, <4>1 DEF Elements
    <3> QED
        BY <3>3, <3>5 DEF IdsOf
  <2>2. ASSUME NEW kind, NEW i, change(i, kind)
        PROVE  IsList(db') /\ IdsOf(db) \subseteq IdsOf(db')
    <3> DEFINE x == Row(db[i].id, kind)
    <3>1. i \in DOMAIN db /\ db' = [db EXCEPT ![i] = x] /\ x.id = db[i].id
        BY <1>4, <2>2 DEF change
    <3> HIDE DEF x
    <3>2. db' \in Seq(Elements(db) \cup {x})
      <4>1. db \in Seq(Elements(db) \cup {x})
          BY <1>3
      <4> QED
          BY <3>1, <4>1
    <3>3. IsList(db')
        BY <3>2, ListOf
    <3>4. DOMAIN db' = DOMAIN db /\ \A j \in DOMAIN db : db'[j].id = db[j].id
        BY <3>1
    <3> QED
        BY <3>3, <3>4 DEF IdsOf, Elements
  <2>3. ASSUME purge
        PROVE  IsList(db') /\ board # "reservations"
    <3>1. db # <<>> /\ db' = SubSeq(db, 1, Len(db) - 1) /\ board # "reservations"
        BY <2>3 DEF purge
    <3>2. Len(db) > 0
        BY <1>3, <3>1
    <3>3. db' \in Seq(Elements(db))
        BY <1>3, <3>1, <3>2
    <3> QED
        BY <3>1, <3>3, ListOf
  <2> QED
      BY <2>1, <2>2, <2>3 DEF dataChanges
<1>6. Calls(inFlight, db')
  <2>1. ASSUME NEW k \in DOMAIN inFlight
        PROVE  IsCall(inFlight[k], db') /\ AnswerFits(inFlight[k], db')
    <3>1. IsCall(inFlight[k], db) /\ AnswerFits(inFlight[k], db)
        BY <1>1 DEF Calls
    <3>2. IsCall(inFlight[k], db')
        BY <1>5, <3>1 DEF IsCall
    <3>3. AnswerFits(inFlight[k], db')
        BY <1>5, <3>1 DEF AnswerFits
    <3> QED
        BY <3>2, <3>3
  <2> QED
      BY <1>1, <2>1 DEF Calls
<1>7. Screen'
  <2>1. ListTypes'
    <3>1. IsList(db)' /\ FilterType' = FilterType
        BY <1>2, <1>5 DEF FilterType, IsList, Elements
    <3> QED
        BY <1>1, <1>2, <3>1 DEF Screen, ListTypes, IsList, IsAnswer, Elements
  <2>2. TableOfCache'
    <3>1. /\ \A r \in Elements(table'.rows) : r \in Elements(cache') /\ ClientFilter(filter', r)
          /\ board # "reservations" => (table'.total > 0 => table'.rows # <<>>)
          /\ board = "reservations" => IdsOf(table'.rows) \subseteq IdsOf(db')
        BY <1>1, <1>2, <1>5 DEF Screen, TableOfCache, NoEmptyPage
    <3> QED
        BY <1>2, <3>1, TableKept
  <2>3. WidgetsTellFilter' /\ DrawerOfCache'
      BY <1>1, <1>2 DEF Screen, WidgetsTellFilter, DrawerOfCache, IdsOf, RowOf, Elements,
                        Closed, Nobody
  <2> QED
      BY <2>1, <2>2, <2>3 DEF Screen
<1> QED
    BY <1>1, <1>2, <1>6, <1>7 DEF Kept

----------------------------------------------------------------------------
(* The lists: the theorem.                                                 *)

LEMMA ListNextKeeps ==
    ASSUME ListIInv, [ListNext]_listVars
    PROVE  ListIInv'
<1>1. CASE UNCHANGED listVars
  <2>1. Screen /\ Calls(inFlight, db) /\ Questions(inFlight, filter, cache, late, drawer)
      BY DEF ListIInv
  <2>2. Screen'
      BY <1>1, <2>1, ScreenSame DEF listVars
  <2>3. Kept /\ UNCHANGED <<board, flags>>
      BY <1>1, <2>1, <2>2 DEF Kept, listVars
  <2> QED
      BY <2>3, KeptInv
<1>2. ASSUME NEW f \in Filters, setFilter(f) PROVE ListIInv'
  <2>1. Kept /\ UNCHANGED <<board, flags>>
      BY <1>2, setFilter_Keeps DEF setFilter, Refilter
  <2> QED
      BY <2>1, KeptInv
<1>3. CASE clearFilters
  <2>1. Kept /\ UNCHANGED <<board, flags>>
      BY <1>3, clearFilters_Keeps DEF clearFilters, Refilter
  <2> QED
      BY <2>1, KeptInv
<1>4. ASSUME NEW p, goTo(p) PROVE ListIInv'
  <2>1. Kept /\ UNCHANGED <<board, flags>>
      BY <1>4, goTo_Keeps DEF goTo
  <2> QED
      BY <2>1, KeptInv
<1>5. CASE reload \/ manageFonioActivityPoll
  <2>1. Kept /\ UNCHANGED <<board, flags>>
      BY <1>5, reload_Keeps DEF reload, manageFonioActivityPoll
  <2> QED
      BY <2>1, KeptInv
<1>6. CASE toggleAutoRefresh
  <2>1. Kept /\ UNCHANGED <<board, flags>>
      BY <1>6, toggleAutoRefresh_Keeps DEF toggleAutoRefresh
  <2> QED
      BY <2>1, KeptInv
<1>7. ASSUME NEW id, openDrawer(id) PROVE ListIInv'
  <2>1. Kept /\ UNCHANGED <<board, flags>>
      BY <1>7, openDrawer_Keeps DEF openDrawer
  <2> QED
      BY <2>1, KeptInv
<1>8. CASE closeDrawer
  <2>1. Kept /\ UNCHANGED <<board, flags>>
      BY <1>8, closeDrawer_Keeps DEF closeDrawer
  <2> QED
      BY <2>1, KeptInv
<1>9. ASSUME NEW id, retryForward(id) PROVE ListIInv'
  <2>1. Kept /\ UNCHANGED <<board, flags>>
      BY <1>9, retryForward_Keeps DEF retryForward
  <2> QED
      BY <2>1, KeptInv
<1>10. ASSUME NEW i, query(i) \/ serve(i) PROVE ListIInv'
  <2>1. Kept /\ UNCHANGED <<board, flags>>
      BY <1>10, query_Keeps, serve_Keeps DEF query, serve
  <2> QED
      BY <2>1, KeptInv
<1>11. ASSUME NEW i, showList(i) \/ showReservation(i) PROVE ListIInv'
  <2>1. Kept /\ UNCHANGED <<board, flags>>
      BY <1>11, showList_Keeps, showReservation_Keeps DEF showList, showReservation
  <2> QED
      BY <2>1, KeptInv
<1>12. ASSUME NEW i, retried(i) \/ fail(i) PROVE ListIInv'
  <2>1. Kept /\ UNCHANGED <<board, flags>>
      BY <1>12, retried_Keeps, fail_Keeps DEF retried, fail
  <2> QED
      BY <2>1, KeptInv
<1>13. CASE dataChanges
  <2>1. Kept /\ UNCHANGED <<board, flags>>
      BY <1>13, dataChanges_Keeps DEF dataChanges
  <2> QED
      BY <2>1, KeptInv
<1> QED
    BY <1>1, <1>2, <1>3, <1>4, <1>5, <1>6, <1>7, <1>8, <1>9, <1>10, <1>11, <1>12, <1>13
    DEF ListNext

LEMMA ListInitHolds ==
    ASSUME ListInit
    PROVE  ListIInv
<1>1. /\ board \in Boards /\ filter = All /\ control = All /\ page = 1
      /\ cache = Answer(All, 1).rows
      /\ table = IF ClientPaged THEN paginateClient(cache, 1) ELSE Answer(All, 1)
      /\ drawer = Closed /\ inFlight = <<>> /\ late = {}
    BY DEF ListInit
<1>2. IsList(db)
  <2>1. PICK kinds : db = [i \in 1..(MaxRows - 1) |-> Row(i, kinds[i])]
      BY DEF ListInit
  <2>2. \A i \in 1..(MaxRows - 1) : db[i] \in Elements(db)
      BY <2>1 DEF Elements
  <2>3. DOMAIN db = 1..(MaxRows - 1) /\ db = [i \in 1..(MaxRows - 1) |-> db[i]]
      BY <2>1
  <2>4. PICK n \in Nat : 1..n = 1..(MaxRows - 1)
    <3>1. MaxRows \in Nat
        BY ListBounds
    <3>2. CASE MaxRows = 0
      <4>1. 1..0 = 1..(MaxRows - 1)
          BY <3>2
      <4> QED
          BY <4>1
    <3>3. CASE MaxRows # 0
        BY <3>1, <3>3
    <3> QED
        BY <3>2, <3>3
  <2>5. db \in Seq(Elements(db))
    <3>1. db = [i \in 1..n |-> db[i]] /\ \A i \in 1..n : db[i] \in Elements(db)
        BY <2>2, <2>3, <2>4
    <3>2. db \in [1..n -> Elements(db)]
        BY <3>1
    <3> QED
        BY <3>2
  <2> QED
      BY <2>5 DEF IsList
<1> DEFINE a == Answer(All, 1)
<1>3. /\ IsAnswer(a) /\ IsList(a.rows)
      /\ \A r \in Elements(a.rows) : r \in Elements(db) /\ ServerFilter(All, r)
      /\ board = "logs" => (a.total > 0 => a.rows # <<>>)
  <2>1. 1 \in Nat \ {0}
      OBVIOUS
  <2>2. /\ IsAnswer(a)
        /\ \A r \in Elements(a.rows) : r \in Elements(db) /\ ServerFilter(All, r)
        /\ board = "logs" => (a.total > 0 => a.rows # <<>>)
      BY <1>1, <1>2, <2>1, AnswerFacts
  <2> QED
      BY <2>2 DEF IsAnswer
<1> HIDE DEF a
<1>4. cache = a.rows
    BY <1>1 DEF a
<1>5. \A r : ClientFilter(All, r)
    BY DEF ClientFilter, filterRequestsList, filterFonioActivityList, All
<1>6. /\ IsAnswer(table) /\ Elements(table.rows) \subseteq Elements(cache)
      /\ board # "reservations" => (table.total > 0 => table.rows # <<>>)
  <2>1. CASE ClientPaged
    <3>1. table = Page(cache, SafePage(1, Len(cache)))
        BY <1>1, <2>1 DEF paginateClient
    <3>2. 1 \in Nat \ {0}
        OBVIOUS
    <3>3. IsList(cache)
        BY <1>3, <1>4
    <3> QED
        BY <3>1, <3>2, <3>3, PageFacts
  <2>2. CASE ~ClientPaged
    <3>1. board \in {"logs", "reservations"} /\ table = a
        BY <1>1, <2>2, ListBounds DEF ClientPaged, a
    <3> QED
        BY <1>3, <1>4, <3>1
  <2> QED
      BY <2>1, <2>2
<1>7. All \in FilterType /\ All.tab = "all" /\ All.sub = "all"
    BY DEF All, FilterType
<1>8. ListTypes
    BY <1>1, <1>2, <1>3, <1>4, <1>6, <1>7 DEF ListTypes, Closed
<1>9. TableOfCache
    BY <1>1, <1>3, <1>4, <1>5, <1>6 DEF TableOfCache, NoEmptyPage, IdsOf
<1>10. WidgetsTellFilter /\ DrawerOfCache
    BY <1>1 DEF WidgetsTellFilter, DrawerOfCache
<1>11. Calls(inFlight, db)
  <2>1. DOMAIN inFlight = {} /\ IsList(inFlight)
      BY <1>1 DEF IsList
  <2> QED
      BY <2>1 DEF Calls, OldInOrder
<1>12. Questions(inFlight, filter, cache, late, drawer)
  <2>1. DOMAIN inFlight = {}
      BY <1>1
  <2>2. \A r \in Elements(cache) : ServerFilter(filter, r)
      BY <1>1, <1>3, <1>4
  <2> QED
      BY <1>1, <2>1, <2>2 DEF Questions, NewestAsks, CacheFits, NewestFetches, DrawerFits, Newest
<1> QED
    BY <1>8, <1>9, <1>10, <1>11, <1>12 DEF ListIInv, Screen

\* The badges count what the tabs list.
LEMMA BadgesCount ==
    ASSUME IsList(cache)
    PROVE  BadgesCountTabs
<1> DEFINE rows == Elements(cache)
           n == renderRequestsStats(rows)
           listed(t) == {r \in rows : filterRequestsList([tab |-> t, sub |-> "all"], r)}
           pending == {r \in rows : r.status = "PENDING"}
           failed == {r \in rows : requestNeedsDelivery(r)}
           attention == {r \in rows : requestNeedsDelivery(r) \/ r.status = "PENDING"}
<1>1. /\ n.all = Cardinality(rows) /\ n.pending = Cardinality(pending)
      /\ n.forwarded = Cardinality({r \in rows : r.status = "FORWARDED"})
      /\ n.auto = Cardinality({r \in rows : r.status = "AUTO_APPROVED"})
      /\ n.failed = Cardinality(failed) /\ n.attention = Cardinality(attention)
    BY DEF renderRequestsStats
<1>2. /\ listed("all") = rows /\ listed("pending") = pending
      /\ listed("forwarded") = {r \in rows : r.status = "FORWARDED"}
      /\ listed("auto") = {r \in rows : r.status = "AUTO_APPROVED"}
      /\ listed("failed") = failed
    BY DEF filterRequestsList
<1>3. IsFiniteSet(rows)
  <2>1. cache \in Seq(rows) /\ Len(cache) \in Nat /\ DOMAIN cache = 1..Len(cache)
      BY DEF IsList
  <2>2. IsFiniteSet(1..Len(cache))
      BY <2>1, FS_Interval
  <2>3. cache \in Surjection(1..Len(cache), rows)
      BY <2>1 DEF Elements, Surjection
  <2> HIDE DEF rows
  <2> QED
      BY <2>2, <2>3, FS_Surjection
<1>4. n.attention = n.pending + n.failed
  <2>1. IsFiniteSet(pending) /\ IsFiniteSet(failed)
      BY <1>3, FS_Subset
  <2>2. attention = pending \cup failed /\ pending \cap failed = {}
      BY DEF requestNeedsDelivery
  <2> HIDE DEF pending, failed, attention
  <2>3. Cardinality(pending \cup failed) = Cardinality(pending) + Cardinality(failed)
    <3>1. Cardinality(pending \cup failed)
            = Cardinality(pending) + Cardinality(failed) - Cardinality(pending \cap failed)
        BY <2>1, FS_Union
    <3>2. Cardinality(pending \cap failed) = 0
        BY <2>2, FS_EmptySet
    <3>3. Cardinality(pending) \in Nat /\ Cardinality(failed) \in Nat
        BY <2>1, FS_CardinalityType
    <3> QED
        BY <3>1, <3>2, <3>3
  <2> QED
      BY <1>1, <2>2, <2>3
<1>5. \A t \in {"all", "pending", "forwarded", "auto", "failed"} :
         n[t] = Cardinality(listed(t))
    BY <1>1, <1>2
<1> QED
    BY <1>4, <1>5 DEF BadgesCountTabs

LEMMA ListsTell ==
    ASSUME ListIInv
    PROVE  ListsTellTruth
<1>1. Screen /\ Calls(inFlight, db) /\ Questions(inFlight, filter, cache, late, drawer)
    BY DEF ListIInv
<1>2. \A op : Settled(op) => op \notin late /\ ~Coming(inFlight, op)
    BY DEF Settled, Coming
<1>3. TableMatchesFilter
  <2>1. Settled("list") => \A r \in Elements(cache) : ServerFilter(filter, r)
      BY <1>1, <1>2 DEF Questions, CacheFits
  <2> QED
      BY <1>1, <2>1 DEF TableMatchesFilter, Screen, TableOfCache, Matches
<1>4. DrawerIsCurrent
  <2>1. board = "reservations" /\ Settled("detail") /\ drawer # Closed /\ drawer.row # Nobody
          => drawer.row.id = drawer.id
      BY <1>1, <1>2 DEF Questions, DrawerFits
  <2> QED
      BY <1>1, <2>1 DEF DrawerIsCurrent, Screen, DrawerOfCache
<1>5. NoEmptyPage /\ WidgetsTellFilter /\ BadgesCountTabs
    BY <1>1, BadgesCount DEF Screen, ListTypes, TableOfCache
<1> QED
    BY <1>3, <1>4, <1>5 DEF ListsTellTruth

\* Whatever is clicked, changed, overtaken or lost, and in whatever order the
\* answers arrive, table, pager, drawer, badges and widgets of every list tell
\* one story (the lists of app.js).
THEOREM ListsTheorem == ListSpec => []ListsTellTruth
<1>1. ListInit => ListIInv
    BY ListInitHolds
<1>2. ListIInv /\ [ListNext]_listVars => ListIInv'
    BY ListNextKeeps
<1>3. ListIInv => ListsTellTruth
    BY ListsTell
<1> QED
    BY <1>1, <1>2, <1>3, PTL DEF ListSpec
=============================================================================
