---------------------------- MODULE AdminAccess ----------------------------
(***************************************************************************)
(* Who may work with the console: the accounts and their management, the   *)
(* guards every call passes, logging in, and the session a browser keeps.  *)
(* A token lives on after its user was changed, several requests are under *)
(* way at once, and the timers of a page outlive its session.              *)
(***************************************************************************)
EXTENDS Integers, FiniteSets

CONSTANTS Users,        \* accounts, by e-mail address
          Boss,         \* the account of ADMIN_EMAIL
          StartUsers,   \* the accounts an installation may start with
          NavOf,        \* NavOf[role]: the tabs its permissions open
          Limit,        \* failed logins until an address is refused (10)
          MaxRequests,  \* bound on requests about accounts under way
          MaxLogins,    \* bound on logins under way
          MaxFetches,   \* bound on calls of the browser under way
          Budgets       \* bounds on saved forms (saves) and on clicks, logins
                        \* and restarts (clicks), as pairs

Tabs == {"dashboard", "payments", "users"}   \* of the menu, in its order

Roles == DOMAIN NavOf

Accounts == [role : Roles, active : BOOLEAN]

IsSuper(a) == a.active /\ a.role = "SUPER_ADMIN"

ASSUME AccessBounds ==
  /\ IsFiniteSet(Users) /\ Boss \in Users /\ Limit \in Nat \ {0}
  /\ MaxRequests \in Nat /\ MaxLogins \in Nat /\ MaxFetches \in Nat \ {0}
  /\ Budgets \subseteq [saves : Nat, clicks : Nat]

\* An installation has an active super admin (seedAdmin makes one).
ASSUME AccessStart ==
  /\ {"NONE", "BACK_OFFICE", "ADMIN", "SUPER_ADMIN"} \subseteq Roles
  /\ "KEEP" \notin Roles /\ \A role \in Roles : NavOf[role] \subseteq Tabs
  /\ \A f \in StartUsers : f \in [Users -> Accounts] /\ \E u \in Users : IsSuper(f[u])

VARIABLES users,     \* the stored accounts
          attempts,  \* loginAttempts: failed logins of the running window
          logins,    \* logins under way
          requests,  \* requests about accounts under way
          raced,     \* super admins became fewer behind a request's back
          browser,   \* the session and page of one browser
          fetches,   \* its calls under way
          acts       \* what is left of the budget

accessVars == <<users, attempts, logins, requests, raced, browser, fetches, acts>>

Absent == [role |-> "NONE", active |-> FALSE]

countActiveSuperAdmins(accounts) == Cardinality({u \in Users : IsSuper(accounts[u])})

Save == acts.saves > 0 /\ acts' = [acts EXCEPT !.saves = @ - 1]

Act == acts.clicks > 0 /\ acts' = [acts EXCEPT !.clicks = @ - 1]

-----------------------------------------------------------------------------
(* AdminUsersService behind its guards *)

\* The form of an account: both fields are sent on every save. A legacy role
\* is not on offer, so the form has BACK_OFFICE in its place.
loadUserIntoForm(a) ==
  IF a.role \in {"BACK_OFFICE", "ADMIN", "SUPER_ADMIN"} THEN a.role
  ELSE "BACK_OFFICE"

Slot(S, n) == CHOOSE i \in 1..n : \A x \in S : x.slot # i

\* A request leaves a console; `role` and `active` may be left out ("KEEP").
Request(slot, actor, op, target, role, active) ==
  [actor |-> actor, op |-> op, target |-> target, role |-> role,
   active |-> active, at |-> "sent", saw |-> Absent, then |-> "KEEP",
   slot |-> slot, legit |-> IsSuper(users[actor])]

NewSlot == Slot(requests, MaxRequests)

\* Saving an account that exists: its role or its state, one changed.
saveUser(actor, target) ==
  \E role \in {loadUserIntoForm(users[target]), "BACK_OFFICE", "SUPER_ADMIN"},
     active \in {"yes", "no"} :
    requests' = requests \union
      {Request(NewSlot, actor, "update", target, role, active)}

deactivateUser(actor, target) ==
  /\ users[target].active
  /\ requests' = requests \union
       {Request(NewSlot, actor, "remove", target, "KEEP", "no")}

\* A new account that is not to be active is created, then changed.
addUser(actor, target) ==
  \E then \in {"KEEP", "no"} :
    requests' = requests \union
      {[Request(NewSlot, actor, "create", target, "SUPER_ADMIN", "yes")
          EXCEPT !.then = then]}

submitUserForm ==
  /\ Save /\ Cardinality(requests) < MaxRequests
  /\ \E actor, target \in Users :
       /\ users[actor] # Absent
       /\ IF users[target] = Absent THEN addUser(actor, target)
          ELSE saveUser(actor, target) \/ deactivateUser(actor, target)
  /\ UNCHANGED <<users, attempts, logins, raced, browser, fetches>>

Replace(r, new) == (requests \ {r}) \union {new}

Refused(r) == requests' = requests \ {r} /\ UNCHANGED <<users, raced>>

\* JwtStrategy.validate reads the account behind the token; the role that
\* counts is the stored one.
validate(r) == IsSuper(users[r.actor])

guard(r) ==
  /\ r \in requests /\ r.at = "sent"
  /\ IF validate(r) THEN requests' = Replace(r, [r EXCEPT !.at = "admitted"])
     ELSE requests' = requests \ {r}
  /\ UNCHANGED <<users, attempts, logins, raced, browser, fetches, acts>>

\* The account is read; a new address must be free, another one must exist.
findUnique(r) ==
  /\ r \in requests /\ r.at = "admitted"
  /\ IF (users[r.target] = Absent) = (r.op = "create")
     THEN /\ requests' = Replace(r, [r EXCEPT !.at = "read", !.saw = users[r.target]])
          /\ UNCHANGED <<users, raced>>
     ELSE Refused(r)
  /\ UNCHANGED <<attempts, logins, browser, fetches, acts>>

\* Demoting a super admin needs a second active one.
assertCanChangeSuperAdminRole(r) ==
  r.role \notin {"KEEP", "SUPER_ADMIN"} /\ r.saw.role = "SUPER_ADMIN"
    => countActiveSuperAdmins(users) > 1

NotOneself(r) == r.active = "no" => r.target # r.actor

\* So does taking one out of service; nobody does that to oneself.
assertCanDeactivate(r) ==
  r.active = "no" => /\ r.target # r.actor
                     /\ r.saw.role = "SUPER_ADMIN" => countActiveSuperAdmins(users) > 1

check(r) ==
  /\ r \in requests /\ r.at = "read"
  /\ IF r.op = "create" \/ (assertCanChangeSuperAdminRole(r) /\ assertCanDeactivate(r))
     THEN /\ requests' = Replace(r, [r EXCEPT !.at = "checked"])
          /\ UNCHANGED <<users, raced>>
     ELSE Refused(r)
  /\ UNCHANGED <<attempts, logins, browser, fetches, acts>>

AccountAfter(r) ==
  [role |-> IF r.role = "KEEP" THEN users[r.target].role ELSE r.role,
   active |-> IF r.active = "KEEP" THEN users[r.target].active ELSE r.active = "yes"]

\* The accounts change: requests on their way see it, and one that has read
\* the old accounts is overtaken if there are fewer super admins now.
AccountsBecome(new, rest) ==
  /\ users' = new
  /\ raced' = (raced \/ ( /\ countActiveSuperAdmins(new) < countActiveSuperAdmins(users)
                          /\ \E q \in rest : q.at \in {"read", "checked"}))
  /\ requests' = {IF q.at = "sent" THEN [q EXCEPT !.legit = @ \/ IsSuper(new[q.actor])]
                  ELSE q : q \in rest}

\* The write. A second insert of an address is refused by the database. What
\* follows a new account is sent when the answer is there, unless the page is
\* gone by then.
write(r) ==
  /\ r \in requests /\ r.at = "checked"
  /\ IF r.op = "create" /\ users[r.target] # Absent THEN Refused(r)
     ELSE \E lost \in {r.then = "KEEP", TRUE} :
            AccountsBecome([users EXCEPT ![r.target] = AccountAfter(r)],
              IF lost THEN requests \ {r}
              ELSE Replace(r, Request(r.slot, r.actor, "update", r.target,
                                      "KEEP", "no")))
  /\ UNCHANGED <<attempts, logins, browser, fetches, acts>>

\* A restart: requests and counters are gone, and the account of ADMIN_EMAIL
\* is made, or made a super admin again; it is not made active again.
seedAdmin ==
  /\ Act
  /\ users' = [users EXCEPT ![Boss] =
                 [role |-> "SUPER_ADMIN", active |-> @ = Absent \/ @.active]]
  /\ requests' = {} /\ logins' = {} /\ raced' = raced
  /\ attempts' = [u \in Users |-> 0]
  /\ UNCHANGED <<browser, fetches>>

-----------------------------------------------------------------------------
(* AdminAuthService.login *)

assertLoginRateLimit(u) == attempts[u] < Limit

\* The form is sent; the limit is looked at before anything is awaited.
submitLogin(u, right) ==
  /\ Act /\ browser.at = "login" /\ Cardinality(logins) < MaxLogins
  /\ assertLoginRateLimit(u)
  /\ logins' = logins \union {[who |-> u, right |-> right, role |-> "NONE",
                               slot |-> Slot(logins, MaxLogins)]}
  /\ UNCHANGED <<users, attempts, requests, raced, browser, fetches>>

recordFailedLogin(u) == attempts' = [attempts EXCEPT ![u] = @ + 1]

\* The account is read and the password compared: a failure is counted, a
\* success clears the count and signs a token.
login(l) ==
  /\ l \in logins /\ l.role = "NONE"
  /\ IF users[l.who].active /\ l.right
     THEN /\ attempts' = [attempts EXCEPT ![l.who] = 0]
          /\ logins' = (logins \ {l}) \union {[l EXCEPT !.role = users[l.who].role]}
     ELSE recordFailedLogin(l.who) /\ logins' = logins \ {l}
  /\ UNCHANGED <<users, requests, raced, browser, fetches, acts>>

\* Fifteen minutes after the first failure the count starts anew.
windowEnds(u) ==
  /\ Act /\ attempts[u] >= Limit
  /\ attempts' = [attempts EXCEPT ![u] = 0]
  /\ UNCHANGED <<users, logins, requests, raced, browser, fetches>>

-----------------------------------------------------------------------------
(* The page *)

Anonymous == "anonymous"

LoggedOut(b) == [b EXCEPT !.who = Anonymous, !.role = "NONE", !.at = "login"]

Polled == {"dashboard", "payments"}   \* tabs with a timer of their own

\* The rights of a role decide which entries of the menu are there.
hasPermission(role, tab) == tab \in NavOf[role]

FirstTab(role) ==
  CASE hasPermission(role, "dashboard") -> "dashboard"
    [] ~hasPermission(role, "dashboard") /\ hasPermission(role, "payments") -> "payments"
    [] NavOf[role] = {"users"} -> "users"
    [] OTHER -> "dashboard"

\* A tab the role may not see is left for the first it may.
applyRoleUi(role, tab) == IF hasPermission(role, tab) THEN tab ELSE FirstTab(role)

\* The address of the page may name a tab; a hidden one is not opened.
applyTabFromUrl(role, tab, url) == IF hasPermission(role, url) THEN url ELSE tab

\* A timer for a polled tab, none for the others.
manageDashboardPoll(b) == [b EXCEPT !.poll = b.tab \in Polled]

showApp(who, role) ==
  LET tab == applyTabFromUrl(role, applyRoleUi(role, browser.tab), browser.url)
  IN manageDashboardPoll([who |-> who, role |-> role, at |-> "app", tab |-> tab,
                          url |-> browser.url, poll |-> FALSE])

FetchRoom == Cardinality(fetches) < MaxFetches

\* A call of the page, with the token it has at this moment.
api(b, others) ==
  fetches' = others \union {[who |-> b.who, tab |-> b.tab, own |-> b.at = "app",
                             verdict |-> "none", slot |-> Slot(others, MaxFetches)]}

\* The token arrives; calls made before belong to another session.
loggedIn(l) ==
  /\ l \in logins /\ l.role # "NONE" /\ FetchRoom
  /\ logins' = logins \ {l}
  /\ browser' = showApp(l.who, l.role)
  /\ api(browser', {[f EXCEPT !.own = FALSE] : f \in fetches})
  /\ UNCHANGED <<users, attempts, requests, raced, acts>>

\* The timer is left running.
logout ==
  /\ Act /\ browser.at = "app" /\ browser' = LoggedOut(browser)
  /\ UNCHANGED <<users, attempts, logins, requests, raced, fetches>>

activateTab(tab) ==
  /\ Act /\ browser.at = "app" /\ FetchRoom
  /\ hasPermission(browser.role, tab) /\ tab # browser.tab
  /\ browser' = manageDashboardPoll([browser EXCEPT !.tab = tab, !.url = tab])
  /\ api(browser', fetches)
  /\ UNCHANGED <<users, attempts, logins, requests, raced>>

\* The timer fires, logged in or not.
tick ==
  /\ browser.poll /\ browser.tab \in Polled /\ FetchRoom
  /\ api(browser, fetches)
  /\ UNCHANGED <<users, attempts, logins, requests, raced, browser, acts>>

\* Reloading the page stops its calls and timers; the token stays.
reloadPage ==
  /\ Act /\ browser.at = "app" /\ fetches' = {}
  /\ browser' = [browser EXCEPT !.at = "restoring", !.tab = "dashboard",
                                !.poll = FALSE]
  /\ UNCHANGED <<users, attempts, logins, requests, raced>>

\* /auth/me gives the role of now; any failure ends the session.
restoreSession(reached) ==
  /\ browser.at = "restoring"
  /\ browser' = IF reached /\ users[browser.who].active
                THEN showApp(browser.who, users[browser.who].role)
                ELSE LoggedOut(browser)
  /\ IF browser'.at = "app" THEN api(browser', {}) ELSE UNCHANGED fetches
  /\ UNCHANGED <<users, attempts, logins, requests, raced, acts>>

\* JwtAuthGuard, RolesGuard and PermissionsGuard, with the account of now.
Verdict(f) ==
  IF f.who = Anonymous THEN "401"
  ELSE IF ~users[f.who].active THEN "401"
  ELSE IF ~hasPermission(users[f.who].role, f.tab)
          \/ (f.tab = "users" /\ users[f.who].role # "SUPER_ADMIN") THEN "403"
  ELSE "200"

serveFetch(f) ==
  /\ f \in fetches /\ f.verdict = "none"
  /\ fetches' = (fetches \ {f}) \union {[f EXCEPT !.verdict = Verdict(f)]}
  /\ UNCHANGED <<users, attempts, logins, requests, raced, browser, acts>>

EndsSessionOnAnyRefusal(f) == f.verdict \in {"401", "403"}

\* A 401 ends the session, whichever session asked; other errors are shown.
EndsSession(f) == f.verdict = "401"

answered(f) ==
  /\ f \in fetches /\ f.verdict # "none"
  /\ fetches' = fetches \ {f}
  /\ browser' = IF EndsSession(f) THEN LoggedOut(browser) ELSE browser
  /\ UNCHANGED <<users, attempts, logins, requests, raced, acts>>

-----------------------------------------------------------------------------
AccessInit ==
  /\ users \in StartUsers
  /\ attempts = [u \in Users |-> 0] /\ logins = {} /\ requests = {}
  /\ raced = FALSE /\ fetches = {} /\ acts \in Budgets
  /\ browser = [who |-> Anonymous, role |-> "NONE", at |-> "login",
                tab |-> "dashboard", url |-> "dashboard", poll |-> FALSE]

AccessNext ==
  \/ submitUserForm \/ seedAdmin
  \/ \E r \in requests : guard(r) \/ findUnique(r) \/ check(r) \/ write(r)
  \/ \E u \in Users, right \in BOOLEAN : submitLogin(u, right)
  \/ \E l \in logins : login(l) \/ loggedIn(l)
  \/ \E u \in Users : windowEnds(u)
  \/ logout \/ reloadPage \/ tick
  \/ \E tab \in {"dashboard", "payments", "users"} : activateTab(tab)
  \/ \E reached \in BOOLEAN : restoreSession(reached)
  \/ \E f \in fetches : serveFetch(f) \/ answered(f)

AccessSpec == AccessInit /\ [][AccessNext]_accessVars

-----------------------------------------------------------------------------
\* However accounts are changed, demoted and deactivated, and across restarts,
\* an active super admin remains, unless a request was overtaken between its
\* count and its write (the count and the update are separate statements).
SuperAdminRemains == ~raced => countActiveSuperAdmins(users) > 0

\* Accounts change only at the hands of someone who was an active super admin
\* at some time since sending the request, whatever the token says; a
\* restart, which changes the account of ADMIN_EMAIL, apart.
ChangesByAdmins ==
  [][\A u \in Users : users'[u] # users[u] =>
       \/ u = Boss /\ requests' = {}
       \/ \E r \in requests : r.at = "checked" /\ r.target = u /\ r.legit]_accessVars

\* Wrong passwords are tried at most Limit times in a window, plus the logins
\* that were already past the check when the limit was reached.
AttemptsBounded == \A u \in Users : attempts[u] < Limit + MaxLogins

\* A page never stands on a tab its role may not see, also when the previous
\* user of the browser left another tab and another address behind.
TabAllowed ==
  browser.at = "app" /\ NavOf[browser.role] # {}
    => hasPermission(browser.role, browser.tab)

\* A session ends by itself only by a 401: because its user was refused, or
\* because of a call that was made before it began.
SessionEndsForCause ==
  [][browser.at = "app" /\ browser'.at = "login" /\ fetches' # fetches =>
       \E f \in fetches \ fetches' :
         f.own => f.who = browser.who /\ f.verdict = "401"]_accessVars

\* Nobody is locked out and nobody sees more than the role allows.
AccessInv == SuperAdminRemains /\ AttemptsBounded /\ TabAllowed

\* Accounts change, and sessions end, only for a reason.
AccessSteps == ChangesByAdmins /\ SessionEndsForCause
=============================================================================
