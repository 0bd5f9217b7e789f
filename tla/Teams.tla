-------------------------------- MODULE Teams --------------------------------
(***************************************************************************)
(* Teams and their members, and the federation name of a user: requests    *)
(* that read, decide and then write, each SQL statement a step.            *)
(* A row is keyed by the account's id when its writer found one, else by   *)
(* the anchor address alone (as in Access).                                *)
(***************************************************************************)
EXTENDS Integers, FiniteSets

CONSTANTS
  User, Team, Name,
  DefaultTeam,  \* the team that the migration creates
  Request,      \* requests under way at once
  MaxRequests   \* bound on the operations begun

ASSUME TeamsAssumption == DefaultTeam \in Team /\ IsFiniteSet(User) /\ MaxRequests \in Nat

VARIABLES
  known,     \* users with a row in user_metadata
  names,     \* names[u]: the federation_username, 0 for none
  teams,     \* teams[t]: its name, "none" for no row
  members,   \* members[<<t, u>>]: the row of team_members
  req,       \* req[q]: the request
  begun,     \* operations begun; the number of a request is the name it would give
  told,      \* ghost: told[u]: the federation names that were answered
  settled,   \* ghost: what was answered last of a member that no other request is about
  contended  \* ghost: teams that two requests have been about at once

db == <<known, names, teams, members>>
ghosts == <<told, settled, contended>>
vars == <<db, req, begun, ghosts>>

Member == Team \X User
Role == {"member", "admin"}
NoMember == [by |-> "none", role |-> "none"]
Idle == [op |-> "idle", pc |-> "idle", on |-> <<>>, role |-> "none", owner |-> "none", n |-> 0, alone |-> TRUE]

\* Users that were there before the identities keep rows without an id, in the default team.
Init ==
  /\ known \in SUBSET User /\ names = [u \in User |-> 0]
  /\ teams = [t \in Team |-> IF t = DefaultTeam THEN "default" ELSE "none"]
  /\ members \in [Member -> {NoMember} \cup [by : {"address", "id"}, role : Role]]
  /\ \A m \in Member : members[m] # NoMember => m[1] = DefaultTeam /\ m[2] \in known
  /\ req = [q \in Request |-> Idle]
  /\ begun = 0
  /\ told = [u \in User |-> {}]
  /\ settled = [m \in Member |-> "no"]
  /\ contended = {}

-----------------------------------------------------------------------------

\* resolveOwner
Owner(u) == IF u \in known THEN "id" ELSE "address"

\* Slip: an owner with an id does not find the rows keyed by the address.
OwnsById(owner, by) == by = owner

\* ownerClause
Owns(owner, by) == by = "address" \/ (by = "id" /\ owner = "id")

\* getMemberRole
RoleOf(owner, m) == IF Owns(owner, members[m].by) THEN members[m].role ELSE "none"

\* countAdmins
CountAdmins(t) == Cardinality({u \in User : members[<<t, u>>].role = "admin"})

\* Slip: one administrator too few is enough.
NoAdminLeft(t) == CountAdmins(t) < 1

\* assertNotTheLastAdmin
IsLastAdmin(t) == CountAdmins(t) <= 1

Steps == [addMember |-> "provision", removeMember |-> "role", updateRole |-> "role", federate |-> "name"]
Writes(q) == req[q].op \in {"addMember", "removeMember", "updateRole"}

Counts == begun < MaxRequests /\ begun' = begun + 1

\* The owner is resolved before anything else is read.
Arrive(q, op, t, u, role) ==
  LET rivals == {p \in Request \ {q} : Writes(p) /\ req[p].on[1] = t}
      new == [op |-> op, pc |-> Steps[op], on |-> <<t, u>>, role |-> role, owner |-> Owner(u),
              n |-> begun + 1, alone |-> rivals = {}] IN
  /\ req[q] = Idle /\ Counts
  /\ op \in {"removeMember", "federate"} => role = "member"
  /\ op = "federate" => t = DefaultTeam
  /\ IF op = "federate" THEN req' = [req EXCEPT ![q] = new] /\ UNCHANGED <<settled, contended>>
     ELSE /\ req' = [p \in Request |-> IF p = q THEN new ELSE [req[p] EXCEPT !.alone = @ /\ p \notin rivals]]
          /\ settled' = [settled EXCEPT ![<<t, u>>] = "no"]
          /\ contended' = IF rivals = {} THEN contended ELSE contended \cup {t}
  /\ UNCHANGED <<db, told>>

Goes(q, pc) == req' = [req EXCEPT ![q].pc = pc] /\ UNCHANGED <<begun, ghosts>>
Refuse(q) == req' = [req EXCEPT ![q] = Idle] /\ UNCHANGED <<begun, ghosts>>

Answer(q, role) ==
  /\ req' = [req EXCEPT ![q] = Idle]
  /\ settled' = IF req[q].alone THEN [settled EXCEPT ![req[q].on] = role] ELSE settled
  /\ UNCHANGED <<begun, told, contended>>

\* Slip: a member is written before there is such a user.
ProvisionLater(q) == req[q].pc = "provision" /\ Goes(q, "write") /\ UNCHANGED db

\* ensureUserEmailExists
Provision(q) ==
  /\ req[q].pc = "provision"
  /\ known' = known \cup {req[q].on[2]}
  /\ Goes(q, "write")
  /\ UNCHANGED <<names, teams, members>>

\* Slip: a member who is there already is given the role that is asked for.
InsertOrReplace(row, new) == new

\* INSERT OR IGNORE
Inserted(row, new) == IF row = NoMember THEN new ELSE row

\* A team of that id need not be there.
AddMember(q) ==
  LET m == req[q].on IN
  /\ req[q].pc = "write" /\ req[q].op = "addMember"
  /\ members' = [members EXCEPT ![m] = Inserted(@, [by |-> req[q].owner, role |-> req[q].role])]
  /\ IF members[m] = NoMember THEN Answer(q, req[q].role) ELSE Refuse(q)
  /\ UNCHANGED <<known, names, teams>>

\* getMemberRole: no member is refused, and only an administrator is looked after.
ReadRole(q) ==
  LET role == RoleOf(req[q].owner, req[q].on)
      keeps == req[q].op = "updateRole" /\ (role # "admin" \/ req[q].role = "admin") IN
  /\ req[q].pc = "role"
  /\ IF role = "none" THEN Refuse(q) ELSE Goes(q, IF keeps THEN "write" ELSE "isAdmin")
  /\ UNCHANGED db

AssertReadsRole(q) ==
  /\ req[q].pc = "isAdmin"
  /\ Goes(q, IF RoleOf(req[q].owner, req[q].on) = "admin" THEN "count" ELSE "write")
  /\ UNCHANGED db

AssertCounts(q) ==
  /\ req[q].pc = "count"
  /\ IF IsLastAdmin(req[q].on[1]) THEN Refuse(q) ELSE Goes(q, "write")
  /\ UNCHANGED db

\* No row changed is an error.
RemoveMember(q) ==
  LET m == req[q].on IN
  /\ req[q].pc = "write" /\ req[q].op = "removeMember"
  /\ IF Owns(req[q].owner, members[m].by) THEN members' = [members EXCEPT ![m] = NoMember] /\ Answer(q, "none")
                                          ELSE UNCHANGED members /\ Refuse(q)
  /\ UNCHANGED <<known, names, teams>>

UpdateMemberRole(q) ==
  LET m == req[q].on IN
  /\ req[q].pc = "write" /\ req[q].op = "updateRole"
  /\ IF Owns(req[q].owner, members[m].by)
       THEN members' = [members EXCEPT ![m].role = req[q].role] /\ Answer(q, req[q].role)
       ELSE UNCHANGED members /\ Refuse(q)
  /\ UNCHANGED <<known, names, teams>>

-----------------------------------------------------------------------------
(* Teams themselves: one statement, or one batch *)

\* A name that is taken is refused by the index.
CreateTeam(t, name) ==
  /\ Counts /\ t # DefaultTeam /\ teams[t] = "none" /\ \A s \in Team : teams[s] # name
  /\ teams' = [teams EXCEPT ![t] = name]
  /\ UNCHANGED <<known, names, members, req, ghosts>>

UpdateTeamName(t, name) ==
  /\ Counts /\ teams[t] # "none" /\ \A s \in Team \ {t} : teams[s] # name
  /\ teams' = [teams EXCEPT ![t] = name]
  /\ UNCHANGED <<known, names, members, req, ghosts>>

\* The members go with the team; what is answered of them is no longer promised.
DeleteTeam(t) ==
  /\ Counts /\ t # DefaultTeam
  /\ teams' = [teams EXCEPT ![t] = "none"]
  /\ members' = [m \in Member |-> IF m[1] = t THEN NoMember ELSE members[m]]
  /\ settled' = [m \in Member |-> IF m[1] = t THEN "no" ELSE settled[m]]
  /\ req' = [q \in Request |-> [req[q] EXCEPT !.alone = @ /\ ~(Writes(q) /\ req[q].on[1] = t)]]
  /\ UNCHANGED <<known, names, told, contended>>

SignIn(u) ==
  /\ Counts /\ u \notin known
  /\ known' = known \cup {u}
  /\ UNCHANGED <<names, teams, members, req, ghosts>>

-----------------------------------------------------------------------------
(* getOrCreateFederationUsername *)

Tell(q, name) ==
  /\ req' = [req EXCEPT ![q] = Idle]
  /\ told' = [told EXCEPT ![req[q].on[2]] = @ \cup {name}]
  /\ UNCHANGED <<begun, settled, contended>>

ReadName(q) ==
  LET name == names[req[q].on[2]] IN
  /\ req[q].pc = "name"
  /\ IF name # 0 THEN Tell(q, name) ELSE Goes(q, "ensure")
  /\ UNCHANGED db

EnsureNamed(q) ==
  /\ req[q].pc = "ensure"
  /\ known' = known \cup {req[q].on[2]}
  /\ Goes(q, "store")
  /\ UNCHANGED <<names, teams, members>>

\* Slip: the name is set, whether there is one by now.
Overwritten(stored, candidate) == candidate

\* COALESCE: the name that is there stays.
Coalesced(stored, candidate) == IF stored # 0 THEN stored ELSE candidate

StoreName(q) ==
  /\ req[q].pc = "store"
  /\ names' = [names EXCEPT ![req[q].on[2]] = Coalesced(@, req[q].n)]
  /\ Goes(q, "reread")
  /\ UNCHANGED <<known, teams, members>>

RereadName(q) == req[q].pc = "reread" /\ Tell(q, names[req[q].on[2]]) /\ UNCHANGED db

-----------------------------------------------------------------------------

Step(q) ==
  \/ \E op \in DOMAIN Steps, t \in Team, u \in User, role \in Role : Arrive(q, op, t, u, role)
  \/ Provision(q) \/ AddMember(q)
  \/ ReadRole(q) \/ AssertReadsRole(q) \/ AssertCounts(q) \/ RemoveMember(q) \/ UpdateMemberRole(q)
  \/ ReadName(q) \/ EnsureNamed(q) \/ StoreName(q) \/ RereadName(q)

Next ==
  \/ \E q \in Request : Step(q)
  \/ \E t \in Team : DeleteTeam(t) \/ \E name \in Name : CreateTeam(t, name) \/ UpdateTeamName(t, name)
  \/ \E u \in User : SignIn(u)

Spec == Init /\ [][Next]_vars

-----------------------------------------------------------------------------
(* Properties *)

\* Among the rest: a member is a user there is, and two teams have two names.
TypeOK ==
  /\ known \subseteq User /\ names \in [User -> 0..MaxRequests]
  /\ teams \in [Team -> Name \cup {"none", "default"}]
  /\ members \in [Member -> {NoMember} \cup [by : {"address", "id"}, role : Role]]
  /\ \A m \in Member : members[m] # NoMember => m[2] \in known
  /\ \A t, s \in Team : teams[t] = teams[s] /\ teams[t] # "none" => t = s
  /\ begun \in 0..MaxRequests

\* A team that was never the subject of two requests at once keeps an administrator, once
\* it has one, while it is not deleted (assertNotTheLastAdmin).
KeepsAnAdmin ==
  [][\A t \in Team \ contended' :
       CountAdmins(t) > 0 /\ CountAdmins(t)' = 0 => teams'[t] = "none" /\ \A u \in User : members'[<<t, u>>] = NoMember]_vars

\* What is said of it (TeamService.ts:125): the last administrator cannot be demoted or
\* removed, whoever else is at it.
LastAdminStays ==
  [][\A t \in Team : CountAdmins(t) > 0 /\ CountAdmins(t)' = 0 => \A u \in User : members'[<<t, u>>] = NoMember]_vars

\* What was answered of a member holds: who comes later finds the role that was given, or
\* none, although rows were written before and after the user had an id.
MembershipHolds ==
  \A m \in Member : settled[m] # "no" => RoleOf(Owner(m[2]), m) = settled[m]

\* A user goes by one name in AWS: every call is answered the same, also two at once, and
\* it is the one that is stored (the RoleSessionName that CloudTrail correlates by).
OneFederationName ==
  \A u \in User : told[u] # {} => told[u] = {names[u]}
=============================================================================
