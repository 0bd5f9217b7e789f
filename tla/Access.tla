------------------------------- MODULE Access --------------------------------
(***************************************************************************)
(* Who may use which role of which AWS account, what hangs on the account  *)
(* (nickname, favorites, role configs, team accounts, alerts, costs and    *)
(* resources), and the removal of what no grant holds any longer.          *)
(*                                                                         *)
(* Every SQL statement is one step; requests interleave between them.  A   *)
(* user is known by the anchor address of the account.  A row is keyed by  *)
(* the account's id when its writer found one, else by the address alone.  *)
(***************************************************************************)
EXTENDS Integers, FiniteSets

CONSTANTS
  User, Role,
  Account,     \* account ids: integers, whose order is the order of the list
  Principal,   \* principals that credentials and collections are kept for
  ForeignKeys, \* whether the database enforces the foreign keys of aws_accounts and user_metadata
  Loose,       \* tables written for an account whether there is one: spend_alerts and its like
  Request,     \* requests under way at once
  MaxRequests, \* bound on the operations begun
  MaxFailures  \* bound on the statements of a clean-up that fail of themselves

ASSUME AccessAssumption ==
  /\ ForeignKeys \in BOOLEAN /\ Account \subseteq Nat /\ IsFiniteSet(Account) /\ Account \cap Principal = {}
  /\ MaxRequests \in Nat /\ MaxFailures \in Nat
  /\ Loose \subseteq {"spend_alerts", "cost_data", "resource_inventory"}

VARIABLES
  known,      \* users with a row in user_metadata
  accounts,   \* rows of aws_accounts
  named,      \* those of them with a nickname
  grants,     \* grants[<<u, a, r>>]: the row of assumable_roles
  favorites,  \* favorites[<<u, a>>]: what the row of user_favorite_accounts is keyed by
  rows,       \* rows[t]: the accounts that table t has rows for
  credentials, collected,  \* principals in credentials, in data_collection_config
  req,        \* req[q]: the request
  cleanup,    \* the clean-up of orphans under way
  begun,      \* operations begun
  settled     \* ghost: what was answered last of a grant that no request is about

dbVars == <<known, accounts, named, grants, favorites, rows, credentials, collected>>
vars == <<dbVars, req, cleanup, begun, settled>>

Grant == User \X Account \X Role
Satellite == {"role_configs", "team_accounts"} \cup Loose
Table == Satellite \cup {"data_collection_config", "aws_accounts"}
NoGrant == [by |-> "none", hidden |-> FALSE]
Idle == [op |-> "idle", pc |-> "idle", on |-> <<>>, owner |-> "none", alone |-> TRUE]
NoCleanup == [running |-> FALSE, pending |-> {}, failed |-> {}, orphans |-> {}, quiet |-> {}]

Granted == {a \in Account : \E u \in User, r \in Role : grants[<<u, a, r>>].by # "none"}

\* What a deployment may have come to.
Init ==
  /\ known \in SUBSET User /\ accounts \in SUBSET Account /\ named \in SUBSET accounts
  /\ grants \in [Grant -> {NoGrant} \cup [by : {"address", "id"}, hidden : BOOLEAN]]
  /\ \A g \in Grant : grants[g].by # "none" => g[1] \in known /\ g[2] \in accounts
  /\ favorites \in [User \X Account -> {"none", "id"}]
  /\ \A f \in User \X Account : favorites[f] # "none" => f[1] \in known /\ f[2] \in accounts
  /\ rows \in {[t \in Satellite |-> {}], [t \in Satellite |-> accounts]}
  /\ credentials = {} /\ collected = {}
  /\ req = [q \in Request |-> Idle]
  /\ cleanup = NoCleanup
  /\ begun = 0
  /\ settled = [g \in Grant |-> "no"]

-----------------------------------------------------------------------------
(* Owners *)

\* resolveOwner: the id of an account there is, else no id.
Owner(u) == IF u \in known THEN "id" ELSE "address"

\* Slip: an owner with an id does not find the rows keyed by the address.
OwnsById(owner, by) == by = owner

\* ownerClause: the id, or the address of a row without id.
Owns(owner, by) == by = "address" \/ (by = "id" /\ owner = "id")

\* The roles of u in a that the owner finds.
RolesOf(owner, u, a) == {r \in Role : Owns(owner, grants[<<u, a, r>>].by)}

-----------------------------------------------------------------------------
(* Requests *)

Steps == [grant |-> "provision", revoke |-> "delete", hide |-> "verify", unhide |-> "verify",
          favorite |-> "account", unfavorite |-> "delete", roleConfig |-> "account",
          nickname |-> "account", teamAccount |-> "exists"]

\* The grant that a request of u about a and r grants or revokes.
About(q) == IF req[q].op \in {"grant", "revoke"} THEN {req[q].on} ELSE {}

Counts == begun < MaxRequests /\ begun' = begun + 1

\* The owner is resolved before anything is written.
Arrive(q, op, u, a, r) ==
  LET rivals == {p \in Request \ {q} : op \in {"grant", "revoke"} /\ <<u, a, r>> \in About(p)} IN
  /\ req[q] = Idle /\ Counts
  /\ req' = [p \in Request |->
       IF p = q THEN [op |-> op, pc |-> Steps[op], on |-> <<u, a, r>>, owner |-> Owner(u), alone |-> rivals = {}]
       ELSE [req[p] EXCEPT !.alone = @ /\ p \notin rivals]]
  /\ settled' = IF op \in {"grant", "revoke"} THEN [settled EXCEPT ![<<u, a, r>>] = "no"] ELSE settled
  /\ UNCHANGED <<dbVars, cleanup>>

\* Writing for an account or a principal takes it out of those the clean-up had to itself.
Touch(as) == cleanup' = [cleanup EXCEPT !.quiet = @ \ as]

Goes(q, pc) == req' = [req EXCEPT ![q].pc = pc] /\ UNCHANGED settled

\* A refusal or an error ends the request without a promise.
Refuse(q) == req' = [req EXCEPT ![q] = Idle] /\ UNCHANGED settled

\* An answer is a promise unless a request about the same grant was under way with it.
Answer(q, promise) ==
  /\ req' = [req EXCEPT ![q] = Idle]
  /\ settled' = [g \in Grant |-> IF g \in About(q) /\ req[q].alone THEN promise ELSE settled[g]]

ProvisionGrantee(q) ==
  /\ req[q].pc = "provision"
  /\ known' = known \cup {req[q].on[1]}
  /\ Goes(q, "account")
  /\ UNCHANGED <<accounts, named, grants, favorites, rows, credentials, collected, cleanup, begun>>

EnsureAccountExists(q) ==
  LET a == req[q].on[2] IN
  /\ req[q].pc = "account"
  /\ accounts' = accounts \cup {a}
  /\ Goes(q, IF req[q].op = "favorite" THEN "roles" ELSE "write")
  /\ Touch({a})
  /\ UNCHANGED <<known, named, grants, favorites, rows, credentials, collected, begun>>

\* INSERT OR IGNORE: a row there is stays as it is; the foreign keys are not ignored.
GrantAccess(q) ==
  LET g == req[q].on IN
  /\ req[q].pc = "write" /\ req[q].op = "grant"
  /\ IF ForeignKeys => g[1] \in known /\ g[2] \in accounts
       THEN /\ grants' = IF grants[g].by = "none"
                           THEN [grants EXCEPT ![g] = [by |-> req[q].owner, hidden |-> FALSE]] ELSE grants
            /\ Answer(q, "granted")
       ELSE UNCHANGED grants /\ Refuse(q)
  /\ Touch({g[2]})
  /\ UNCHANGED <<known, accounts, named, favorites, rows, credentials, collected, begun>>

RevokeAccess(q) ==
  LET g == req[q].on IN
  /\ req[q].pc = "delete" /\ req[q].op = "revoke"
  /\ grants' = IF Owns(req[q].owner, grants[g].by) THEN [grants EXCEPT ![g] = NoGrant] ELSE grants
  /\ Answer(q, "revoked")
  /\ UNCHANGED <<known, accounts, named, favorites, rows, credentials, collected, cleanup, begun>>

VerifyUserHasAccessToRole(q) ==
  /\ req[q].pc = "verify"
  /\ IF Owns(req[q].owner, grants[req[q].on].by) THEN Goes(q, "write") ELSE Refuse(q)
  /\ UNCHANGED <<dbVars, cleanup, begun>>

HideRole(q) ==
  LET g == req[q].on IN
  /\ req[q].pc = "write" /\ req[q].op \in {"hide", "unhide"}
  /\ grants' = IF Owns(req[q].owner, grants[g].by)
                 THEN [grants EXCEPT ![g].hidden = req[q].op = "hide"] ELSE grants
  /\ Answer(q, "no")
  /\ UNCHANGED <<known, accounts, named, favorites, rows, credentials, collected, cleanup, begun>>

GetRolesByUserAndAccount(q) ==
  /\ req[q].pc = "roles"
  /\ IF RolesOf(req[q].owner, req[q].on[1], req[q].on[2]) # {} THEN Goes(q, "write") ELSE Refuse(q)
  /\ UNCHANGED <<dbVars, cleanup, begun>>

FavoriteAccount(q) ==
  LET f == <<req[q].on[1], req[q].on[2]>> IN
  /\ req[q].pc = "write" /\ req[q].op = "favorite"
  /\ IF ForeignKeys => f[1] \in known /\ f[2] \in accounts
       THEN /\ favorites' = IF favorites[f] = "none" THEN [favorites EXCEPT ![f] = req[q].owner] ELSE favorites
            /\ Answer(q, "no")
       ELSE UNCHANGED favorites /\ Refuse(q)
  /\ Touch({f[2]})
  /\ UNCHANGED <<known, accounts, named, grants, rows, credentials, collected, begun>>

UnfavoriteAccount(q) ==
  LET f == <<req[q].on[1], req[q].on[2]>> IN
  /\ req[q].pc = "delete" /\ req[q].op = "unfavorite"
  /\ favorites' = IF Owns(req[q].owner, favorites[f]) THEN [favorites EXCEPT ![f] = "none"] ELSE favorites
  /\ Answer(q, "no")
  /\ UNCHANGED <<known, accounts, named, grants, rows, credentials, collected, cleanup, begun>>

SetRoleConfig(q) ==
  LET a == req[q].on[2] IN
  /\ req[q].pc = "write" /\ req[q].op = "roleConfig"
  /\ IF ForeignKeys => a \in accounts
       THEN rows' = [rows EXCEPT !["role_configs"] = @ \cup {a}] /\ Answer(q, "no")
       ELSE UNCHANGED rows /\ Refuse(q)
  /\ Touch({a})
  /\ UNCHANGED <<known, accounts, named, grants, favorites, credentials, collected, begun>>

\* An UPDATE that finds no row is a success as well.
SetAccountNickname(q) ==
  LET a == req[q].on[2] IN
  /\ req[q].pc = "write" /\ req[q].op = "nickname"
  /\ named' = named \cup ({a} \cap accounts)
  /\ Answer(q, "no")
  /\ UNCHANGED <<known, accounts, grants, favorites, rows, credentials, collected, cleanup, begun>>

AccountExists(q) ==
  /\ req[q].pc = "exists"
  /\ IF req[q].on[2] \in accounts THEN Goes(q, "write") ELSE Refuse(q)
  /\ UNCHANGED <<dbVars, cleanup, begun>>

\* The table has no foreign key: the row is written whether the account is still there.
AddAccountToTeam(q) ==
  LET a == req[q].on[2] IN
  /\ req[q].pc = "write" /\ req[q].op = "teamAccount"
  /\ rows' = [rows EXCEPT !["team_accounts"] = @ \cup {a}]
  /\ Answer(q, "no")
  /\ Touch({a})
  /\ UNCHANGED <<known, accounts, named, grants, favorites, credentials, collected, begun>>

-----------------------------------------------------------------------------
(* Operations of one statement *)

\* A first sign-in provisions the user.
SignIn(u) ==
  /\ Counts /\ u \notin known
  /\ known' = known \cup {u}
  /\ UNCHANGED <<accounts, named, grants, favorites, rows, credentials, collected, req, cleanup, settled>>

RemoveAccountNickname(a) ==
  /\ Counts /\ a \in named
  /\ named' = named \ {a}
  /\ UNCHANGED <<known, accounts, grants, favorites, rows, credentials, collected, req, cleanup, settled>>

\* deleteRoleConfig, removeAccountFromTeam, deleteAlert
DeleteRow(t, a) ==
  /\ Counts /\ a \in rows[t] /\ t \notin {"cost_data", "resource_inventory"}
  /\ rows' = [rows EXCEPT ![t] = @ \ {a}]
  /\ UNCHANGED <<known, accounts, named, grants, favorites, credentials, collected, req, cleanup, settled>>

\* createAlert, and the collections: nothing is asked of the account.
WriteRow(t, a) ==
  /\ Counts /\ t \in Loose
  /\ rows' = [rows EXCEPT ![t] = @ \cup {a}]
  /\ Touch({a})
  /\ UNCHANGED <<known, accounts, named, grants, favorites, credentials, collected, req, settled>>

EnableCollection(p) ==
  /\ Counts
  /\ collected' = collected \cup {p}
  /\ Touch({p})
  /\ UNCHANGED <<known, accounts, named, grants, favorites, rows, credentials, req, settled>>

DisableCollection(p) ==
  /\ Counts /\ p \in collected
  /\ collected' = collected \ {p}
  /\ UNCHANGED <<known, accounts, named, grants, favorites, rows, credentials, req, cleanup, settled>>

StoreOrRemoveCredential(p) ==
  /\ Counts
  /\ credentials' \in {credentials \cup {p}, credentials \ {p}}
  /\ Touch({p})
  /\ UNCHANGED <<known, accounts, named, grants, favorites, rows, collected, req, settled>>

-----------------------------------------------------------------------------
(* Clean-up of orphans *)

\* All seven deletes are started together and settle in any order.
CleanupOrphanedData ==
  /\ Counts /\ ~cleanup.running
  /\ cleanup' = [running |-> TRUE, pending |-> Table, failed |-> {},
                 orphans |-> Account \ Granted, quiet |-> (Account \ Granted) \cup (Principal \ credentials)]
  /\ UNCHANGED <<dbVars, req, settled>>

\* Slip: what is an orphan is read once, when the clean-up begins.
OrphansAtStart(now) == cleanup.orphans

\* ORPHANED_BY_ASSUMABLE_ROLES: the statement itself reads the grants.
Orphaned(now) == now

\* Slip: a favorite does not hold its account.
ReferencedByRoles == Granted \cup rows["role_configs"]

\* The rows that foreign keys refer from: favorites are not among what is cleaned.
Referenced ==
  Granted \cup rows["role_configs"] \cup {a \in Account : \E u \in User : favorites[<<u, a>>] # "none"}

\* Slip: a table that could not be cleaned counts as one that had no orphans.
SettledCounted(t, ok) == [cleanup EXCEPT !.pending = @ \ {t}]

\* A failed statement is reported, and stops no other.
Settled(t, ok) ==
  [cleanup EXCEPT !.pending = @ \ {t}, !.failed = IF ok THEN @ ELSE @ \cup {t}]

DeleteOrphaned(t) ==
  LET orphans == Orphaned(Account \ Granted)
      blocked == ForeignKeys /\ t = "aws_accounts" /\ orphans \cap accounts \cap Referenced # {} IN
  /\ t \in cleanup.pending
  /\ \E ok \in IF Cardinality(cleanup.failed) < MaxFailures THEN {~blocked, FALSE} ELSE {~blocked} :
       /\ cleanup' = Settled(t, ok)
       /\ rows' = IF ok /\ t \in Satellite THEN [rows EXCEPT ![t] = @ \ orphans] ELSE rows
       /\ accounts' = IF ok /\ t = "aws_accounts" THEN accounts \ orphans ELSE accounts
       /\ named' = named \cap accounts'
       /\ collected' = IF ok /\ t = "data_collection_config" THEN collected \cap credentials ELSE collected
  /\ UNCHANGED <<known, grants, favorites, credentials, req, begun, settled>>

ReportCleanup ==
  /\ cleanup.running /\ cleanup.pending = {}
  /\ cleanup' = NoCleanup
  /\ UNCHANGED <<dbVars, req, begun, settled>>

-----------------------------------------------------------------------------

RequestStep(q) ==
  \/ \E op \in DOMAIN Steps, u \in User, a \in Account, r \in Role : Arrive(q, op, u, a, r)
  \/ ProvisionGrantee(q) \/ EnsureAccountExists(q) \/ GrantAccess(q) \/ RevokeAccess(q)
  \/ VerifyUserHasAccessToRole(q) \/ HideRole(q)
  \/ GetRolesByUserAndAccount(q) \/ FavoriteAccount(q) \/ UnfavoriteAccount(q)
  \/ SetRoleConfig(q) \/ SetAccountNickname(q) \/ AccountExists(q) \/ AddAccountToTeam(q)

Next ==
  \/ \E q \in Request : RequestStep(q)
  \/ \E u \in User : SignIn(u)
  \/ \E a \in Account : RemoveAccountNickname(a) \/ \E t \in Satellite : DeleteRow(t, a) \/ WriteRow(t, a)
  \/ \E p \in Principal : EnableCollection(p) \/ DisableCollection(p) \/ StoreOrRemoveCredential(p)
  \/ CleanupOrphanedData \/ (\E t \in Table : DeleteOrphaned(t)) \/ ReportCleanup

Spec == Init /\ [][Next]_vars

-----------------------------------------------------------------------------
(* The list of assumable roles *)

\* Slip: the page is cut from all accounts of the owner, hidden ones included.
PagedWhateverHidden(u, showHidden) ==
  {a \in Account : \E r \in Role : Owns(Owner(u), grants[<<u, a, r>>].by)}

Shown(u, a, r, showHidden) ==
  Owns(Owner(u), grants[<<u, a, r>>].by) /\ (showHidden \/ ~grants[<<u, a, r>>].hidden)

\* The accounts that pages are cut from: the subquery of buildListRolesQuery.
Paged(u, showHidden) == {a \in Account : \E r \in Role : Shown(u, a, r, showHidden)}

\* Favorites first, then those with a nickname, then by id.
Before(u, a, b) ==
  LET rank(c) == (IF Owns(Owner(u), favorites[<<u, c>>]) THEN 0 ELSE 2) + (IF c \in named THEN 0 ELSE 1) IN
  rank(a) < rank(b) \/ (rank(a) = rank(b) /\ a < b)

\* How many accounts of a list of u come before a.
Place(u, list, a) == Cardinality({b \in list : Before(u, b, a)})

\* The accounts in the page of so many entries at an offset.
Page(u, showHidden, offset, limit) ==
  LET list == Paged(u, showHidden) IN
  {a \in list : /\ Place(u, list, a) \in offset..(offset + limit - 1)
                /\ \E r \in Role : Shown(u, a, r, showHidden)}

TotalAccounts(u, showHidden) == Cardinality({a \in Account : \E r \in Role : Shown(u, a, r, showHidden)})

-----------------------------------------------------------------------------
(* Properties *)

TypeOK ==
  /\ known \subseteq User /\ accounts \subseteq Account /\ named \subseteq accounts
  /\ grants \in [Grant -> [by : {"none", "address", "id"}, hidden : BOOLEAN]]
  /\ favorites \in [User \X Account -> {"none", "address", "id"}]
  /\ rows \in [Satellite -> SUBSET Account]
  /\ ForeignKeys =>
       /\ \A g \in Grant : grants[g].by # "none" => g[1] \in known /\ g[2] \in accounts
       /\ \A f \in User \X Account : favorites[f] # "none" => f[1] \in known /\ f[2] \in accounts
       /\ rows["role_configs"] \subseteq accounts
  /\ credentials \subseteq Principal /\ collected \subseteq Principal
  /\ cleanup.pending \subseteq Table /\ cleanup.failed \subseteq Table
  /\ begun \in 0..MaxRequests
  /\ settled \in [Grant -> {"no", "granted", "revoked"}]

\* What was answered holds: a request that comes later finds a role that was granted,
\* and does not find one that was revoked, although the rows of a user may have been
\* written before and after the user had an id (resolveOwner, ownerClause).
AnswersHold ==
  \A g \in Grant : settled[g] # "no" => (settled[g] = "granted" <=> Owns(Owner(g[1]), grants[g].by))

\* A report of a clean-up is true: a table it does not list as failed has no row of an
\* account that was without grants, or of a principal that was without credential, and was
\* not written for, all the while.
CleanReportIsTrue ==
  cleanup.running /\ cleanup.pending = {} =>
    /\ \A t \in Satellite \ cleanup.failed : rows[t] \cap cleanup.quiet = {}
    /\ "aws_accounts" \notin cleanup.failed => accounts \cap cleanup.quiet = {}
    /\ "data_collection_config" \notin cleanup.failed => (collected \ credentials) \cap cleanup.quiet = {}

\* The clean-up takes nothing from an account that has a grant, were it granted after
\* the clean-up began.
GrantedIsSpared ==
  [][\A t \in Table : t \in cleanup.pending \ cleanup'.pending =>
       \A a \in Granted : /\ a \in accounts <=> a \in accounts'
                          /\ a \in named <=> a \in named'
                          /\ \A s \in Satellite : a \in rows[s] <=> a \in rows[s]']_vars

\* As many pages as the total asks for show each account of the list, and none of them is
\* empty, whether hidden roles are asked for or not.  The pages are of one entry.
PagesMakeTheList ==
  \A u \in User, showHidden \in BOOLEAN :
    LET total == TotalAccounts(u, showHidden)
        pages == {Page(u, showHidden, k, 1) : k \in 0..total - 1} IN
    Cardinality(UNION pages) = total /\ \A page \in pages : Cardinality(page) = 1
=============================================================================
