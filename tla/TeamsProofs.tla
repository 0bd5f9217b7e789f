----------------------------- MODULE TeamsProofs -----------------------------
(***************************************************************************)
(* For any number of teams, users and requests under way at once: what was *)
(* answered of a member holds, a user has one federation name, and a team  *)
(* that two requests were never about at once keeps an administrator.      *)
(***************************************************************************)
EXTENDS Teams, FiniteSetTheorems, TLAPS

Operations == {"addMember", "removeMember", "updateRole", "federate"}

\* A request under way.
Active ==
  [op    : Operations,
   pc    : {"provision", "role", "isAdmin", "count", "write", "name", "ensure", "store", "reread"},
   on    : Member,
   role  : Role,
   owner : {"id", "address"},
   n     : 1..MaxRequests,
   alone : BOOLEAN]

\* What a request has seen to before it gets where it is.
ReqInv ==
  /\ req \in [Request -> Active \cup {Idle}]
  /\ \A q \in Request :
       /\ req[q].pc = "provision" => req[q].op = "addMember"
       /\ req[q].pc \in {"role", "isAdmin", "count"} => req[q].op \in {"removeMember", "updateRole"}
       /\ req[q].pc = "write" /\ req[q].op = "addMember" => req[q].on[2] \in known
       /\ req[q].pc = "reread" => names[req[q].on[2]] # 0

\* A request that is alone has no rival, and rivals make their team a contended one.
AloneInv ==
  \A p, q \in Request :
    p # q /\ Writes(p) /\ Writes(q) /\ req[p].on[1] = req[q].on[1]
      => ~req[p].alone /\ req[p].on[1] \in contended

\* What was answered last of a member is in its row, and no request is about to change it.
SettledInv ==
  /\ settled \in [Member -> {"no", "none"} \cup Role]
  /\ \A m \in Member : settled[m] # "no" =>
       /\ members[m].role = settled[m]
       /\ \A q \in Request : Writes(q) => req[q].on # m

\* A name that was answered is stored.
NamesInv ==
  /\ told \in [User -> SUBSET (1..MaxRequests)]
  /\ \A u \in User : told[u] # {} => names[u] # 0 /\ told[u] = {names[u]}

\* A removal or a demotion that has passed its checks takes the last administrator only
\* if a rival was about the team.
AdminInv ==
  \A q \in Request :
    LET m == req[q].on IN
    req[q].pc = "write" /\ req[q].op \in {"removeMember", "updateRole"} /\ m[1] \notin contended =>
      \/ ~Owns(req[q].owner, members[m].by)
      \/ members[m].role # "admin"
      \/ CountAdmins(m[1]) > 1
      \/ req[q].op = "updateRole" /\ req[q].role = "admin"

-----------------------------------------------------------------------------
(* Rows and requests *)

MemberRow == {NoMember} \cup [by : {"address", "id"}, role : Role]

LEMMA StepsDomain == DOMAIN Steps = Operations
BY DEF Steps, Operations

LEMMA OnMember ==
  ASSUME ReqInv, NEW q \in Request, req[q].pc # "idle"
  PROVE  /\ req[q] \in Active
         /\ req[q].on \in Member /\ req[q].on[1] \in Team /\ req[q].on[2] \in User
         /\ req[q].n \in 1..MaxRequests
BY DEF ReqInv, Active, Idle, Member

LEMMA WritesAreActive ==
  ASSUME ReqInv, NEW q \in Request, Writes(q)
  PROVE  req[q].pc # "idle" /\ req[q] # Idle
BY DEF ReqInv, Active, Idle, Writes

LEMMA RowType ==
  ASSUME TypeOK, NEW m \in Member
  PROVE  members[m] \in MemberRow
BY DEF TypeOK, MemberRow

LEMMA MemberPair == ASSUME NEW t \in Team, NEW u \in User PROVE <<t, u>> \in Member
BY DEF Member

LEMMA TypeInit == Init => TypeOK
<1> SUFFICES ASSUME Init PROVE TypeOK
  OBVIOUS
<1>1. \A m \in Member : members[m] # NoMember => m[2] \in known
  BY DEF Init
<1>2. \A t, s \in Team : teams[t] = teams[s] /\ teams[t] # "none" => t = s
  BY DEF Init
<1>. QED
  BY <1>1, <1>2, TeamsAssumption DEF Init, TypeOK

LEMMA TypeNext ==
  ASSUME TypeOK, ReqInv, [Next]_vars
  PROVE  TypeOK'
<1> USE TeamsAssumption
<1>1. ASSUME NEW q \in Request, NEW op, NEW t, NEW u, NEW role, Arrive(q, op, t, u, role)
      PROVE  TypeOK'
  BY <1>1 DEF Arrive, Counts, TypeOK, db
<1>2. ASSUME UNCHANGED <<teams, members, names, begun>>, known \subseteq known', known' \subseteq User
      PROVE  TypeOK'
  BY <1>2 DEF TypeOK
<1>3. ASSUME NEW q \in Request, Provision(q) \/ EnsureNamed(q) PROVE TypeOK'
  <2>1. req[q].on[2] \in User
    BY <1>3, OnMember DEF Provision, EnsureNamed
  <2>. QED
    BY <1>2, <1>3, <2>1 DEF Provision, EnsureNamed, Goes, TypeOK
<1>4. ASSUME NEW q \in Request, NEW row \in MemberRow, UNCHANGED <<teams, known, names, begun>>,
             req[q].on \in Member, members' = [members EXCEPT ![req[q].on] = row],
             row # NoMember => req[q].on[2] \in known
      PROVE  TypeOK'
  BY <1>4 DEF TypeOK, MemberRow
<1>5. ASSUME NEW q \in Request, AddMember(q) PROVE TypeOK'
  <2>1. /\ req[q].on \in Member /\ req[q] \in Active /\ req[q].on[2] \in known
        /\ UNCHANGED <<teams, known, names, begun>>
    BY <1>5, OnMember DEF AddMember, Answer, Refuse, ReqInv
  <2>2. [by |-> req[q].owner, role |-> req[q].role] \in MemberRow
    BY <2>1 DEF Active, MemberRow
  <2>3. Inserted(members[req[q].on], [by |-> req[q].owner, role |-> req[q].role]) \in MemberRow
    BY <2>1, <2>2, RowType DEF Inserted
  <2>. QED
    BY <1>4, <1>5, <2>1, <2>3 DEF AddMember
<1>6. ASSUME NEW q \in Request, RemoveMember(q) PROVE TypeOK'
  <2>1. req[q].on \in Member /\ UNCHANGED <<teams, known, names, begun>>
    BY <1>6, OnMember DEF RemoveMember, Answer, Refuse
  <2>2. NoMember \in MemberRow
    BY DEF MemberRow
  <2>3. CASE members' = members
    BY <2>1, <2>3 DEF TypeOK
  <2>4. CASE members' = [members EXCEPT ![req[q].on] = NoMember]
    BY <1>4, <2>1, <2>2, <2>4
  <2>. QED
    BY <1>6, <2>3, <2>4 DEF RemoveMember
<1>7. ASSUME NEW q \in Request, UpdateMemberRole(q) PROVE TypeOK'
  <2>1. req[q].on \in Member /\ req[q] \in Active /\ UNCHANGED <<teams, known, names, begun>>
    BY <1>7, OnMember DEF UpdateMemberRole, Answer, Refuse
  <2>2. CASE members' = members
    BY <2>1, <2>2 DEF TypeOK
  <2>3. CASE /\ Owns(req[q].owner, members[req[q].on].by)
             /\ members' = [members EXCEPT ![req[q].on].role = req[q].role]
    <3>1. members[req[q].on] \in [by : {"address", "id"}, role : Role]
      BY <2>1, <2>3, RowType DEF MemberRow, NoMember, Owns
    <3>2. /\ members' = [members EXCEPT ![req[q].on] = [members[req[q].on] EXCEPT !.role = req[q].role]]
          /\ [members[req[q].on] EXCEPT !.role = req[q].role] \in MemberRow
      BY <2>1, <2>3, <3>1 DEF Active, MemberRow, TypeOK
    <3>3. members[req[q].on] # NoMember
      BY <3>1 DEF NoMember
    <3>. QED
      BY <1>4, <2>1, <3>2, <3>3 DEF TypeOK
  <2>. QED
    BY <1>7, <2>2, <2>3 DEF UpdateMemberRole
<1>8. ASSUME NEW q \in Request,
             ReadRole(q) \/ AssertReadsRole(q) \/ AssertCounts(q) \/ ReadName(q) \/ RereadName(q)
      PROVE  TypeOK'
  <2>1. UNCHANGED <<db, begun>>
    BY <1>8 DEF ReadRole, AssertReadsRole, AssertCounts, ReadName, RereadName, Refuse, Goes, Tell
  <2>. QED
    BY <2>1, <1>2 DEF db, TypeOK
<1>9. ASSUME NEW q \in Request, StoreName(q) PROVE TypeOK'
  <2>1. req[q].on[2] \in User /\ req[q].n \in 1..MaxRequests
    BY <1>9, OnMember DEF StoreName
  <2>2. Coalesced(names[req[q].on[2]], req[q].n) \in 0..MaxRequests
    BY <2>1 DEF Coalesced, TypeOK
  <2>3. names' \in [User -> 0..MaxRequests]
    BY <1>9, <2>1, <2>2 DEF StoreName, TypeOK
  <2>. QED
    BY <1>9, <2>3 DEF StoreName, Goes, TypeOK
<1>10. ASSUME NEW t \in Team, NEW name \in Name, CreateTeam(t, name) \/ UpdateTeamName(t, name)
       PROVE  TypeOK'
  <2>1. /\ teams' = [teams EXCEPT ![t] = name] /\ \A s \in Team \ {t} : teams[s] # name
        /\ UNCHANGED <<known, names, members>> /\ begun' = begun + 1 /\ begun < MaxRequests
    BY <1>10 DEF CreateTeam, UpdateTeamName, Counts
  <2>. QED
    BY <2>1 DEF TypeOK
<1>11. ASSUME NEW t \in Team, DeleteTeam(t) PROVE TypeOK'
  <2>1. /\ teams' = [teams EXCEPT ![t] = "none"]
        /\ UNCHANGED <<known, names>> /\ begun' = begun + 1 /\ begun < MaxRequests
    BY <1>11 DEF DeleteTeam, Counts
  <2>2. members' = [m \in Member |-> IF m[1] = t THEN NoMember ELSE members[m]]
    BY <1>11 DEF DeleteTeam
  <2>3. members' \in [Member -> MemberRow] /\ \A m \in Member : members'[m] # NoMember => m[2] \in known
    BY <2>2, RowType DEF TypeOK, MemberRow
  <2>. QED
    BY <2>1, <2>3 DEF TypeOK, MemberRow
<1>12. ASSUME NEW u \in User, SignIn(u) PROVE TypeOK'
  BY <1>12 DEF SignIn, Counts, TypeOK
<1>13. CASE UNCHANGED vars
  BY <1>2, <1>13 DEF vars, db, TypeOK
<1>. QED
  BY <1>1, <1>3, <1>5, <1>6, <1>7, <1>8, <1>9, <1>10, <1>11, <1>12, <1>13 DEF Next, Step

-----------------------------------------------------------------------------
(* How far a request is *)

LEMMA IdleRow == Idle.pc = "idle" /\ Idle.op = "idle" /\ Idle.alone = TRUE
BY DEF Idle

LEMMA ReqInit == Init => ReqInv
BY IdleRow DEF Init, ReqInv

\* A request that goes on: what is needed where it goes is seen to.
LEMMA GoesReq ==
  ASSUME ReqInv, NEW q \in Request, req[q].pc # "idle",
         NEW pc \in {"isAdmin", "count", "write", "ensure", "store", "reread"}, Goes(q, pc),
         known \subseteq known', \A u \in User : names[u] # 0 => names'[u] # 0,
         pc \in {"isAdmin", "count"} => req[q].op \in {"removeMember", "updateRole"},
         pc = "write" /\ req[q].op = "addMember" => req[q].on[2] \in known',
         pc = "reread" => names'[req[q].on[2]] # 0
  PROVE  ReqInv'
<1>1. /\ req' = [req EXCEPT ![q].pc = pc] /\ req[q] \in Active
  BY OnMember DEF Goes
<1>2. req' \in [Request -> Active \cup {Idle}]
  BY <1>1 DEF ReqInv, Active
<1>3. ASSUME NEW p \in Request, p # q
      PROVE  req'[p] = req[p] /\ (req[p].pc = "reread" => req[p].on[2] \in User)
  BY <1>1, <1>3, OnMember DEF ReqInv
<1>4. /\ req'[q].pc = pc /\ req'[q].op = req[q].op /\ req'[q].on = req[q].on
  BY <1>1 DEF ReqInv, Active
<1>. QED
  BY <1>2, <1>3, <1>4 DEF ReqInv

\* The others are as they were, or no longer alone; q is done.
LEMMA DoneReq ==
  ASSUME ReqInv, NEW q \in Request, req' = [req EXCEPT ![q] = Idle],
         known \subseteq known', \A u \in User : names[u] # 0 => names'[u] # 0
  PROVE  ReqInv'
<1>1. req' \in [Request -> Active \cup {Idle}]
  BY DEF ReqInv
<1>2. ASSUME NEW p \in Request, p # q
      PROVE  req'[p] = req[p] /\ (req[p].pc = "reread" => req[p].on[2] \in User)
  BY <1>2, OnMember DEF ReqInv
<1>3. req'[q].pc = "idle"
  BY IdleRow DEF ReqInv
<1>. QED
  BY <1>1, <1>2, <1>3 DEF ReqInv

\* Requests that are as they were, or no longer alone.
LEMMA LessAloneReq ==
  ASSUME ReqInv, req' = [p \in Request |-> [req[p] EXCEPT !.alone = req'[p].alone]],
         \A p \in Request : req'[p].alone \in BOOLEAN /\ (req[p] = Idle => req'[p].alone = TRUE),
         known \subseteq known', \A u \in User : names[u] # 0 => names'[u] # 0
  PROVE  ReqInv'
<1>1. ASSUME NEW p \in Request
      PROVE  /\ req'[p] \in Active \cup {Idle}
             /\ req'[p].pc = req[p].pc /\ req'[p].op = req[p].op /\ req'[p].on = req[p].on
  <2>1. req'[p] = [req[p] EXCEPT !.alone = req'[p].alone]
    OBVIOUS
  <2>2. CASE req[p] = Idle
    BY <2>1, <2>2 DEF Idle
  <2>3. CASE req[p] \in Active
    BY <2>1, <2>3 DEF Active
  <2>. QED
    BY <2>2, <2>3 DEF ReqInv
<1>2. req' \in [Request -> Active \cup {Idle}]
  BY <1>1
<1>3. \A p \in Request : req[p].pc = "reread" => req[p].on[2] \in User
  BY OnMember
<1>. QED
  BY <1>1, <1>2, <1>3 DEF ReqInv

LEMMA ArriveReq ==
  ASSUME TypeOK, ReqInv, NEW q \in Request, NEW op \in DOMAIN Steps, NEW t \in Team, NEW u \in User,
         NEW role \in Role, Arrive(q, op, t, u, role)
  PROVE  ReqInv'
<1>. DEFINE rivals == {p \in Request \ {q} : Writes(p) /\ req[p].on[1] = t}
            new == [op |-> op, pc |-> Steps[op], on |-> <<t, u>>, role |-> role, owner |-> Owner(u),
                    n |-> begun + 1, alone |-> rivals = {}]
<1>1. op \in Operations
  BY StepsDomain
<1>2. /\ Steps[op] \in {"provision", "role", "name"}
      /\ Steps[op] = "provision" => op = "addMember"
      /\ Steps[op] = "role" => op \in {"removeMember", "updateRole"}
  BY <1>1 DEF Steps, Operations
<1>3. new \in Active
  <2>1. begun + 1 \in 1..MaxRequests
    BY TeamsAssumption DEF Arrive, Counts, TypeOK
  <2>. QED
    BY <1>1, <1>2, <2>1, MemberPair DEF Active, Owner
<1>4. new.op = op /\ new.pc = Steps[op]
  OBVIOUS
<1>5. UNCHANGED <<known, names>>
  BY DEF Arrive, db
<1>. HIDE DEF new
<1>6. ASSUME NEW p \in Request, p # q
      PROVE  /\ req'[p] \in Active \cup {Idle}
             /\ req'[p].pc = req[p].pc /\ req'[p].op = req[p].op /\ req'[p].on = req[p].on
  <2>1. CASE req'[p] = req[p]
    BY <2>1 DEF ReqInv
  <2>2. CASE req'[p] = [req[p] EXCEPT !.alone = @ /\ p \notin rivals]
    <3>1. CASE req[p] = Idle
      <4>1. p \notin rivals
        BY <3>1, WritesAreActive
      <4>2. (req[p].alone /\ p \notin rivals) = TRUE
        BY <3>1, <4>1, IdleRow
      <4>3. req'[p] = [Idle EXCEPT !.alone = TRUE]
        BY <2>2, <3>1, <4>2
      <4>. QED
        BY <3>1, <4>3 DEF Idle
    <3>2. CASE req[p] \in Active
      BY <2>2, <3>2 DEF Active
    <3>. QED
      BY <3>1, <3>2 DEF ReqInv
  <2>. QED
    BY <1>6, <2>1, <2>2 DEF Arrive, ReqInv, new
<1>7. req'[q] = new
  BY DEF Arrive, ReqInv, new
<1>8. req' \in [Request -> Active \cup {Idle}]
  <2>1. DOMAIN req' = Request /\ req' = [p \in Request |-> req'[p]]
    BY DEF Arrive, ReqInv
  <2>. QED
    BY <1>3, <1>6, <1>7, <2>1
<1>. QED
  BY <1>2, <1>4, <1>5, <1>6, <1>7, <1>8 DEF ReqInv

LEMMA ReqNext ==
  ASSUME TypeOK, ReqInv, [Next]_vars
  PROVE  ReqInv'
<1>1. ASSUME NEW q \in Request, NEW op \in DOMAIN Steps, NEW t \in Team, NEW u \in User,
             NEW role \in Role, Arrive(q, op, t, u, role)
      PROVE  ReqInv'
  BY <1>1, ArriveReq
<1>2. ASSUME NEW q \in Request, Provision(q) PROVE ReqInv'
  <2>1. /\ req[q].pc # "idle" /\ Goes(q, "write") /\ names' = names
        /\ known \subseteq known' /\ req[q].on[2] \in known'
    BY <1>2 DEF Provision
  <2>. QED
    BY <2>1, GoesReq
<1>3. ASSUME NEW q \in Request, AddMember(q) \/ RemoveMember(q) \/ UpdateMemberRole(q) PROVE ReqInv'
  <2>1. UNCHANGED <<known, names>> /\ req' = [req EXCEPT ![q] = Idle]
    BY <1>3 DEF AddMember, RemoveMember, UpdateMemberRole, Answer, Refuse
  <2>. QED
    BY <2>1, DoneReq
<1>4. ASSUME NEW q \in Request, ReadRole(q) \/ AssertReadsRole(q) \/ AssertCounts(q) PROVE ReqInv'
  <2>1. UNCHANGED <<known, names>>
    BY <1>4 DEF ReadRole, AssertReadsRole, AssertCounts, db
  <2>2. req[q].op \in {"removeMember", "updateRole"} /\ req[q].pc # "idle"
    BY <1>4 DEF ReadRole, AssertReadsRole, AssertCounts, ReqInv
  <2>3. CASE Refuse(q)
    BY <2>1, <2>3, DoneReq DEF Refuse
  <2>4. CASE \E pc \in {"isAdmin", "count", "write"} : Goes(q, pc)
    BY <2>1, <2>2, <2>4, GoesReq
  <2>. QED
    BY <1>4, <2>3, <2>4 DEF ReadRole, AssertReadsRole, AssertCounts
<1>5. ASSUME NEW q \in Request, ReadName(q) \/ RereadName(q) PROVE ReqInv'
  <2>1. UNCHANGED <<known, names>> /\ req[q].pc # "idle"
    BY <1>5 DEF ReadName, RereadName, db
  <2>2. CASE Goes(q, "ensure")
    BY <2>1, <2>2, GoesReq
  <2>3. CASE req' = [req EXCEPT ![q] = Idle]
    BY <2>1, <2>3, DoneReq
  <2>. QED
    BY <1>5, <2>2, <2>3 DEF ReadName, RereadName, Tell
<1>6. ASSUME NEW q \in Request, EnsureNamed(q) PROVE ReqInv'
  <2>1. req[q].pc # "idle" /\ Goes(q, "store") /\ names' = names /\ known \subseteq known'
    BY <1>6 DEF EnsureNamed
  <2>. QED
    BY <2>1, GoesReq
<1>7. ASSUME NEW q \in Request, StoreName(q) PROVE ReqInv'
  <2>1. req[q].pc # "idle" /\ Goes(q, "reread") /\ known' = known
    BY <1>7 DEF StoreName
  <2>2. req[q].on[2] \in User /\ req[q].n \in 1..MaxRequests
    BY <2>1, OnMember
  <2>3. names' = [names EXCEPT ![req[q].on[2]] = IF @ # 0 THEN @ ELSE req[q].n]
    BY <1>7 DEF StoreName, Coalesced
  <2>4. names'[req[q].on[2]] # 0 /\ \A u \in User : names[u] # 0 => names'[u] # 0
    BY <2>2, <2>3 DEF TypeOK
  <2>. QED
    BY <2>1, <2>4, GoesReq
<1>8. ASSUME NEW t \in Team, DeleteTeam(t) PROVE ReqInv'
  <2>1. req' = [q \in Request |-> [req[q] EXCEPT !.alone = @ /\ ~(Writes(q) /\ req[q].on[1] = t)]]
    BY <1>8 DEF DeleteTeam
  <2>2. ASSUME NEW p \in Request
        PROVE  /\ req'[p].alone \in BOOLEAN
               /\ req'[p] = [req[p] EXCEPT !.alone = req'[p].alone]
               /\ req[p] = Idle => req'[p].alone = TRUE
    <3>1. CASE req[p] = Idle
      BY <2>1, <3>1, IdleRow, WritesAreActive DEF Idle
    <3>2. CASE req[p] \in Active
      BY <2>1, <3>2, IdleRow, WritesAreActive DEF Active
    <3>. QED
      BY <3>1, <3>2 DEF ReqInv
  <2>3. UNCHANGED <<known, names>>
    BY <1>8 DEF DeleteTeam
  <2>. QED
    BY <2>1, <2>2, <2>3, LessAloneReq
<1>9. ASSUME UNCHANGED <<req, names>>, known \subseteq known' PROVE ReqInv'
  BY <1>9 DEF ReqInv
<1>10. ASSUME NEW t \in Team, NEW name \in Name, CreateTeam(t, name) \/ UpdateTeamName(t, name)
       PROVE  ReqInv'
  BY <1>9, <1>10 DEF CreateTeam, UpdateTeamName
<1>11. ASSUME NEW u \in User, SignIn(u) PROVE ReqInv'
  BY <1>9, <1>11 DEF SignIn
<1>12. CASE UNCHANGED vars
  BY <1>9, <1>12 DEF vars, db
<1>. QED
  BY <1>1, <1>2, <1>3, <1>4, <1>5, <1>6, <1>7, <1>8, <1>10, <1>11, <1>12 DEF Next, Step

\* Users, names, teams and members stay of their types; a member is a user there is, and
\* two teams never have one name.
THEOREM TypeCorrect == Spec => []TypeOK
BY TypeInit, TypeNext, ReqInit, ReqNext, PTL DEF Spec

-----------------------------------------------------------------------------
(* Rivals, and what was answered of a member *)

\* No request begins: those that are about a team were, and none is more alone than it was.
NoneArrives ==
  /\ contended' = contended
  /\ \A p \in Request : Writes(p)' => /\ Writes(p) /\ req'[p].on = req[p].on
                                      /\ req'[p].alone => req[p].alone

LEMMA OneIsDone ==
  ASSUME ReqInv, NEW q \in Request, req' = [req EXCEPT ![q] = Idle], contended' = contended
  PROVE  NoneArrives
<1>1. \A p \in Request : req'[p] = IF p = q THEN Idle ELSE req[p]
  BY DEF ReqInv
<1>. QED
  BY <1>1, IdleRow DEF NoneArrives, Writes

LEMMA OneGoes ==
  ASSUME ReqInv, NEW q \in Request, NEW pc, Goes(q, pc)
  PROVE  NoneArrives
<1>1. ASSUME NEW p \in Request
      PROVE  req'[p].op = req[p].op /\ req'[p].on = req[p].on /\ req'[p].alone = req[p].alone
  BY DEF Goes, ReqInv, Active, Idle
<1>. QED
  BY <1>1 DEF NoneArrives, Writes, Goes, ghosts

\* Every other step than the arrival of a request.
LEMMA OthersKeep ==
  ASSUME ReqInv, [Next]_vars,
         ~ \E q \in Request, op \in DOMAIN Steps, t \in Team, u \in User, role \in Role : Arrive(q, op, t, u, role)
  PROVE  NoneArrives
<1>1. ASSUME NEW q \in Request, Step(q) PROVE NoneArrives
  <2>1. CASE \E pc : Goes(q, pc)
    BY <2>1, OneGoes
  <2>2. CASE req' = [req EXCEPT ![q] = Idle] /\ contended' = contended
    BY <2>2, OneIsDone
  <2>3. CASE Provision(q) \/ EnsureNamed(q) \/ StoreName(q)
    BY <2>1, <2>3 DEF Provision, EnsureNamed, StoreName
  <2>4. CASE AddMember(q) \/ RemoveMember(q) \/ UpdateMemberRole(q)
    BY <2>2, <2>4 DEF AddMember, RemoveMember, UpdateMemberRole, Answer, Refuse, ghosts
  <2>5. CASE ReadRole(q) \/ AssertReadsRole(q) \/ AssertCounts(q)
    BY <2>1, <2>2, <2>5 DEF ReadRole, AssertReadsRole, AssertCounts, Refuse, ghosts
  <2>6. CASE ReadName(q) \/ RereadName(q)
    BY <2>1, <2>2, <2>6 DEF ReadName, RereadName, Tell
  <2>. QED
    BY <1>1, <2>3, <2>4, <2>5, <2>6 DEF Step
<1>2. ASSUME NEW t \in Team, DeleteTeam(t) PROVE NoneArrives
  <2>1. /\ req' = [q \in Request |-> [req[q] EXCEPT !.alone = @ /\ ~(Writes(q) /\ req[q].on[1] = t)]]
        /\ contended' = contended
    BY <1>2 DEF DeleteTeam
  <2>2. ASSUME NEW p \in Request
        PROVE  req'[p].op = req[p].op /\ req'[p].on = req[p].on /\ (req'[p].alone => req[p].alone)
    BY <2>1 DEF ReqInv, Active, Idle
  <2>. QED
    BY <2>1, <2>2 DEF NoneArrives, Writes
<1>3. ASSUME UNCHANGED <<req, contended>> PROVE NoneArrives
  BY <1>3 DEF NoneArrives, Writes
<1>4. ASSUME NEW t \in Team, NEW name \in Name, CreateTeam(t, name) \/ UpdateTeamName(t, name)
      PROVE  NoneArrives
  BY <1>3, <1>4 DEF CreateTeam, UpdateTeamName, ghosts
<1>5. ASSUME NEW u \in User, SignIn(u) PROVE NoneArrives
  BY <1>3, <1>5 DEF SignIn, ghosts
<1>6. CASE UNCHANGED vars
  BY <1>3, <1>6 DEF vars, ghosts
<1>. QED
  BY <1>1, <1>2, <1>4, <1>5, <1>6 DEF Next

\* What the arrival of q leaves of the others, and of itself.
Arrived(q, op, t, u) ==
  /\ UNCHANGED <<db, told>> /\ contended \subseteq contended'
  /\ req'[q].op = op /\ req'[q].on = <<t, u>> /\ req'[q].pc = Steps[op] /\ ~Writes(q)
  /\ \A p \in Request \ {q} :
       /\ req'[p].pc = req[p].pc /\ req'[p].op = req[p].op /\ req'[p].on = req[p].on
       /\ req'[p].role = req[p].role /\ req'[p].owner = req[p].owner
       /\ req'[p].alone => req[p].alone
       /\ op # "federate" /\ Writes(p) /\ req[p].on[1] = t
            => ~req'[p].alone /\ ~req'[q].alone /\ t \in contended'
  /\ settled' = IF op = "federate" THEN settled ELSE [settled EXCEPT ![<<t, u>>] = "no"]

LEMMA ArriveEffect ==
  ASSUME ReqInv, NEW q \in Request, NEW op \in DOMAIN Steps, NEW t \in Team, NEW u \in User,
         NEW role \in Role, Arrive(q, op, t, u, role)
  PROVE  Arrived(q, op, t, u)
<1>. DEFINE rivals == {p \in Request \ {q} : Writes(p) /\ req[p].on[1] = t}
<1>1. UNCHANGED <<db, told>> /\ contended \subseteq contended' /\ ~Writes(q)
  BY IdleRow DEF Arrive, Writes
<1>2. req'[q].op = op /\ req'[q].on = <<t, u>> /\ req'[q].pc = Steps[op]
  BY DEF Arrive, ReqInv
<1>3. ASSUME NEW p \in Request \ {q}
      PROVE  /\ req'[p].pc = req[p].pc /\ req'[p].op = req[p].op /\ req'[p].on = req[p].on
             /\ req'[p].role = req[p].role /\ req'[p].owner = req[p].owner
             /\ req'[p].alone => req[p].alone
             /\ op # "federate" /\ p \in rivals => ~req'[p].alone
  <2>1. CASE op = "federate"
    BY <2>1 DEF Arrive, ReqInv
  <2>2. CASE op # "federate"
    <3>1. req'[p] = [req[p] EXCEPT !.alone = @ /\ p \notin rivals]
      BY <2>2 DEF Arrive
    <3>2. CASE req[p] = Idle
      <4>1. p \notin rivals
        BY <3>2, WritesAreActive
      <4>. QED
        BY <2>2, <3>1, <3>2, <4>1, IdleRow DEF Idle
    <3>3. CASE req[p] \in Active
      BY <2>2, <3>1, <3>3 DEF Active
    <3>. QED
      BY <3>2, <3>3 DEF ReqInv
  <2>. QED
    BY <2>1, <2>2
<1>4. ASSUME NEW p \in rivals, op # "federate" PROVE ~req'[q].alone /\ t \in contended'
  <2>1. rivals # {}
    OBVIOUS
  <2>2. req'[q].alone = (rivals = {})
    BY <1>4 DEF Arrive
  <2>3. contended' = IF rivals = {} THEN contended ELSE contended \cup {t}
    BY <1>4 DEF Arrive
  <2>. QED
    BY <2>1, <2>2, <2>3
<1>5. settled' = IF op = "federate" THEN settled ELSE [settled EXCEPT ![<<t, u>>] = "no"]
  BY DEF Arrive
<1>. QED
  BY <1>1, <1>2, <1>3, <1>4, <1>5 DEF Arrived

LEMMA AloneInit == Init => AloneInv
BY IdleRow DEF Init, AloneInv, Writes

LEMMA AloneNext ==
  ASSUME ReqInv, AloneInv, [Next]_vars
  PROVE  AloneInv'
<1>1. CASE NoneArrives
  BY <1>1 DEF NoneArrives, AloneInv
<1>2. ASSUME NEW r \in Request, NEW op \in DOMAIN Steps, NEW t \in Team, NEW u \in User,
             NEW role \in Role, Arrive(r, op, t, u, role)
      PROVE  AloneInv'
  <2> SUFFICES ASSUME NEW p \in Request, NEW q \in Request, p # q, Writes(p)', Writes(q)',
                      req'[p].on[1] = req'[q].on[1]
               PROVE  ~req'[p].alone /\ req'[p].on[1] \in contended'
    BY DEF AloneInv
  <2>0. Arrived(r, op, t, u)
    BY <1>2, ArriveEffect
  <2>1. CASE p # r /\ q # r
    BY <2>0, <2>1 DEF Arrived, AloneInv, Writes
  <2>2. CASE p = r
    BY <2>0, <2>2 DEF Arrived, Writes
  <2>3. CASE q = r
    BY <2>0, <2>3 DEF Arrived, Writes
  <2>. QED
    BY <2>1, <2>2, <2>3
<1>. QED
  BY <1>1, <1>2, OthersKeep

LEMMA SettledInit == Init => SettledInv
BY DEF Init, SettledInv, Role

\* The answer to a request that was alone is what the row says.
LEMMA AnswerSettled ==
  ASSUME ReqInv, AloneInv, SettledInv, NEW q \in Request, Writes(q), NEW role \in {"none"} \cup Role,
         Answer(q, role), members'[req[q].on].role = role,
         \A m \in Member \ {req[q].on} : members'[m] = members[m]
  PROVE  SettledInv'
<1>0. req[q].on \in Member
  BY WritesAreActive, OnMember
<1>1. settled' \in [Member -> {"no", "none"} \cup Role]
  BY <1>0 DEF Answer, SettledInv
<1>2. \A p \in Request : Writes(p)' => p # q /\ Writes(p) /\ req'[p] = req[p]
  BY IdleRow DEF Answer, Writes, ReqInv
<1>3. ASSUME NEW m \in Member, settled'[m] # "no"
      PROVE  members'[m].role = settled'[m] /\ \A p \in Request : Writes(p)' => req'[p].on # m
  <2>1. CASE m # req[q].on
    BY <1>2, <1>3, <2>1 DEF SettledInv, Answer
  <2>2. CASE m = req[q].on
    <3>1. req[q].alone /\ settled'[m] = role
      BY <1>3, <2>2 DEF SettledInv, Answer
    <3>. QED
      BY <1>2, <2>2, <3>1 DEF AloneInv
  <2>. QED
    BY <2>1, <2>2
<1>. QED
  BY <1>1, <1>3 DEF SettledInv

LEMMA KeptSettled ==
  ASSUME SettledInv, NoneArrives, UNCHANGED <<members, settled>>
  PROVE  SettledInv'
BY DEF SettledInv, NoneArrives

LEMMA SettledNext ==
  ASSUME TypeOK, ReqInv, AloneInv, SettledInv, [Next]_vars
  PROVE  SettledInv'
<1>1. ASSUME NEW r \in Request, NEW op \in DOMAIN Steps, NEW t \in Team, NEW u \in User,
             NEW role \in Role, Arrive(r, op, t, u, role)
      PROVE  SettledInv'
  <2>0. Arrived(r, op, t, u)
    BY <1>1, ArriveEffect
  <2>1. /\ \A m \in Member : settled'[m] # "no" => settled'[m] = settled[m] /\ (op # "federate" => m # <<t, u>>)
        /\ settled' \in [Member -> {"no", "none"} \cup Role] /\ members' = members
    BY <2>0 DEF Arrived, SettledInv, db
  <2>2. \A p \in Request : Writes(p)' /\ p # r => Writes(p) /\ req'[p].on = req[p].on
    BY <2>0 DEF Arrived, Writes
  <2>3. Writes(r)' => op # "federate" /\ req'[r].on = <<t, u>>
    BY <2>0 DEF Arrived, Writes
  <2>. QED
    BY <2>1, <2>2, <2>3 DEF SettledInv
<1>2. ASSUME ~ \E q \in Request, op \in DOMAIN Steps, t \in Team, u \in User, role \in Role :
               Arrive(q, op, t, u, role)
      PROVE  SettledInv'
  <2>0. NoneArrives
    BY <1>2, OthersKeep
  <2>1. CASE UNCHANGED <<members, settled>>
    BY <2>0, <2>1, KeptSettled
  <2>2. ASSUME NEW q \in Request, AddMember(q) PROVE SettledInv'
    <3>0. Writes(q) /\ req[q].on \in Member /\ req[q] \in Active
      BY <2>2, OnMember DEF AddMember, Writes
    <3>1. CASE members[req[q].on] # NoMember
      BY <2>1, <2>2, <3>0, <3>1 DEF AddMember, Inserted, Refuse, ghosts, TypeOK
    <3>2. CASE members[req[q].on] = NoMember
      <4>1. members' = [members EXCEPT ![req[q].on] = [by |-> req[q].owner, role |-> req[q].role]]
        BY <2>2, <3>2 DEF AddMember, Inserted
      <4>2. Answer(q, req[q].role) /\ req[q].role \in {"none"} \cup Role
        BY <2>2, <3>0, <3>2 DEF AddMember, Active
      <4>. QED
        BY <3>0, <4>1, <4>2, AnswerSettled DEF TypeOK
    <3>. QED
      BY <3>1, <3>2
  <2>3. ASSUME NEW q \in Request, RemoveMember(q) PROVE SettledInv'
    <3>0. Writes(q) /\ req[q].on \in Member
      BY <2>3, OnMember DEF RemoveMember, Writes
    <3>1. CASE Refuse(q) /\ UNCHANGED members
      BY <2>1, <3>1 DEF Refuse, ghosts
    <3>2. CASE members' = [members EXCEPT ![req[q].on] = NoMember] /\ Answer(q, "none")
      <4>1. NoMember.role = "none"
        BY DEF NoMember
      <4>. QED
        BY <3>0, <3>2, <4>1, AnswerSettled DEF TypeOK
    <3>. QED
      BY <2>3, <3>1, <3>2 DEF RemoveMember
  <2>4. ASSUME NEW q \in Request, UpdateMemberRole(q) PROVE SettledInv'
    <3>0. Writes(q) /\ req[q].on \in Member /\ req[q] \in Active
      BY <2>4, OnMember DEF UpdateMemberRole, Writes
    <3>1. CASE Refuse(q) /\ UNCHANGED members
      BY <2>1, <3>1 DEF Refuse, ghosts
    <3>2. CASE members' = [members EXCEPT ![req[q].on].role = req[q].role] /\ Answer(q, req[q].role)
      <4>1. req[q].role \in {"none"} \cup Role
        BY <3>0 DEF Active
      <4>2. members'[req[q].on].role = req[q].role
        BY <3>0, <3>2, RowType DEF TypeOK, MemberRow, NoMember
      <4>. QED
        BY <3>0, <3>2, <4>1, <4>2, AnswerSettled DEF TypeOK
    <3>. QED
      BY <2>4, <3>1, <3>2 DEF UpdateMemberRole
  <2>5. ASSUME NEW t \in Team, DeleteTeam(t) PROVE SettledInv'
    <3>1. /\ settled' = [m \in Member |-> IF m[1] = t THEN "no" ELSE settled[m]]
          /\ members' = [m \in Member |-> IF m[1] = t THEN NoMember ELSE members[m]]
      BY <2>5 DEF DeleteTeam
    <3>. QED
      BY <2>0, <3>1 DEF SettledInv, NoneArrives
  <2>6. ASSUME NEW q \in Request, Step(q) PROVE SettledInv'
    <3>1. CASE \/ Provision(q) \/ ReadRole(q) \/ AssertReadsRole(q) \/ AssertCounts(q)
               \/ ReadName(q) \/ EnsureNamed(q) \/ StoreName(q) \/ RereadName(q)
      <4>1. UNCHANGED <<members, settled>>
        BY <3>1 DEF Provision, ReadRole, AssertReadsRole, AssertCounts, ReadName, EnsureNamed, StoreName,
                    RereadName, Goes, Refuse, Tell, ghosts, db
      <4>. QED
        BY <2>1, <4>1
    <3>. QED
      BY <1>2, <2>2, <2>3, <2>4, <2>6, <3>1 DEF Step
  <2>7. ASSUME NEW t \in Team, NEW name \in Name, CreateTeam(t, name) \/ UpdateTeamName(t, name)
        PROVE  SettledInv'
    BY <2>1, <2>7 DEF CreateTeam, UpdateTeamName, ghosts
  <2>8. ASSUME NEW u \in User, SignIn(u) PROVE SettledInv'
    BY <2>1, <2>8 DEF SignIn, ghosts
  <2>9. CASE UNCHANGED vars
    BY <2>1, <2>9 DEF vars, db, ghosts
  <2>. QED
    BY <2>5, <2>6, <2>7, <2>8, <2>9 DEF Next
<1>. QED
  BY <1>1, <1>2

LEMMA SettledHolds ==
  ASSUME TypeOK, SettledInv
  PROVE  MembershipHolds
<1> SUFFICES ASSUME NEW m \in Member, settled[m] # "no" PROVE RoleOf(Owner(m[2]), m) = settled[m]
  BY DEF MembershipHolds
<1>1. members[m].role = settled[m] /\ members[m] \in MemberRow
  BY RowType DEF SettledInv
<1>2. CASE members[m] = NoMember
  BY <1>1, <1>2 DEF RoleOf, Owns, NoMember
<1>3. CASE members[m] # NoMember
  BY <1>1, <1>3 DEF RoleOf, Owner, Owns, MemberRow, TypeOK
<1>. QED
  BY <1>2, <1>3

\* Whatever requests are under way, and whether the user had an id when the row was written
\* or has one since: the role that was answered last of a member is the one that is found.
THEOREM AnswersOfMembersHold == Spec => []MembershipHolds
BY TypeInit, TypeNext, ReqInit, ReqNext, AloneInit, AloneNext, SettledInit, SettledNext, SettledHolds, PTL DEF Spec

-----------------------------------------------------------------------------
(* Federation names *)

LEMMA NamesInit == Init => NamesInv
BY DEF Init, NamesInv

LEMMA TellNames ==
  ASSUME TypeOK, ReqInv, NamesInv, NEW q \in Request, req[q].pc # "idle",
         names[req[q].on[2]] # 0, Tell(q, names[req[q].on[2]]), names' = names
  PROVE  NamesInv'
<1>1. req[q].on[2] \in User /\ names[req[q].on[2]] \in 1..MaxRequests
  BY OnMember DEF TypeOK
<1>. QED
  BY <1>1 DEF Tell, NamesInv

LEMMA NamesNext ==
  ASSUME TypeOK, ReqInv, NamesInv, [Next]_vars
  PROVE  NamesInv'
<1>1. CASE UNCHANGED <<names, told>>
  BY <1>1 DEF NamesInv
<1>2. ASSUME NEW q \in Request, NEW op, NEW t, NEW u, NEW role, Arrive(q, op, t, u, role)
      PROVE  NamesInv'
  BY <1>1, <1>2 DEF Arrive, db
<1>3. ASSUME NEW q \in Request, ReadName(q) PROVE NamesInv'
  BY <1>1, <1>3, TellNames DEF ReadName, Goes, ghosts, db
<1>4. ASSUME NEW q \in Request, RereadName(q) PROVE NamesInv'
  <2>1. names[req[q].on[2]] # 0 /\ names' = names /\ req[q].pc # "idle"
    BY <1>4 DEF RereadName, ReqInv, db
  <2>. QED
    BY <1>4, <2>1, TellNames DEF RereadName
<1>5. ASSUME NEW q \in Request, StoreName(q) PROVE NamesInv'
  <2>1. req[q].on[2] \in User /\ told' = told
    BY <1>5, OnMember DEF StoreName, Goes, ghosts
  <2>2. names' = [names EXCEPT ![req[q].on[2]] = IF @ # 0 THEN @ ELSE req[q].n]
    BY <1>5 DEF StoreName, Coalesced
  <2>3. \A u \in User : names[u] # 0 => names'[u] = names[u]
    BY <2>1, <2>2 DEF TypeOK
  <2>. QED
    BY <2>1, <2>3 DEF NamesInv
<1>6. ASSUME NEW q \in Request,
             \/ Provision(q) \/ AddMember(q) \/ ReadRole(q) \/ AssertReadsRole(q) \/ AssertCounts(q)
             \/ RemoveMember(q) \/ UpdateMemberRole(q) \/ EnsureNamed(q)
      PROVE  NamesInv'
  <2>1. UNCHANGED <<names, told>>
    BY <1>6 DEF Provision, AddMember, ReadRole, AssertReadsRole, AssertCounts, RemoveMember, UpdateMemberRole,
                EnsureNamed, Goes, Refuse, Answer, ghosts, db
  <2>. QED
    BY <1>1, <2>1
<1>7. ASSUME NEW t \in Team, NEW name \in Name, CreateTeam(t, name) \/ UpdateTeamName(t, name)
      PROVE  NamesInv'
  BY <1>1, <1>7 DEF CreateTeam, UpdateTeamName, ghosts
<1>8. ASSUME NEW t \in Team, DeleteTeam(t) PROVE NamesInv'
  BY <1>1, <1>8 DEF DeleteTeam
<1>9. ASSUME NEW u \in User, SignIn(u) PROVE NamesInv'
  BY <1>1, <1>9 DEF SignIn, ghosts
<1>10. CASE UNCHANGED vars
  BY <1>1, <1>10 DEF vars, db, ghosts
<1>. QED
  BY <1>2, <1>3, <1>4, <1>5, <1>6, <1>7, <1>8, <1>9, <1>10 DEF Next, Step

LEMMA NamesHold == NamesInv => OneFederationName
BY DEF NamesInv, OneFederationName

\* However many first sign-ins to AWS of one user are under way at once, each is answered
\* with the name that is stored, and every later one with the same.
THEOREM NameIsForGood == Spec => []OneFederationName
BY TypeInit, TypeNext, ReqInit, ReqNext, NamesInit, NamesNext, NamesHold, PTL DEF Spec

-----------------------------------------------------------------------------
(* Administrators *)

AdminsIn(rows, t) == {u \in User : rows[<<t, u>>].role = "admin"}

\* What counting says of any rows.
LEMMA AdminsOfRows ==
  ASSUME NEW rows, NEW t
  PROVE  /\ Cardinality(AdminsIn(rows, t)) \in Nat
         /\ Cardinality(AdminsIn(rows, t)) > 0 <=> \E u \in User : rows[<<t, u>>].role = "admin"
         /\ \A u \in User :
              Cardinality(AdminsIn(rows, t)) > 1 => \E v \in User \ {u} : rows[<<t, v>>].role = "admin"
<1>. DEFINE Admins == AdminsIn(rows, t)
<1>1. IsFiniteSet(Admins)
  BY FS_Subset, TeamsAssumption DEF AdminsIn
<1>2. Cardinality(Admins) \in Nat
  BY <1>1, FS_CardinalityType
<1>3. Cardinality(Admins) = 0 <=> Admins = {}
  BY <1>1, FS_EmptySet
<1>4. ASSUME NEW u \in User, Cardinality(Admins) > 1 PROVE Admins \ {u} # {}
  <2>1. CASE u \notin Admins
    BY <1>2, <1>3, <1>4, <2>1
  <2>2. CASE u \in Admins
    <3>1. IsFiniteSet(Admins \ {u}) /\ Cardinality(Admins \ {u}) = Cardinality(Admins) - 1
      BY <1>1, <2>2, FS_RemoveElement
    <3>2. Cardinality(Admins \ {u}) # 0
      BY <1>2, <1>4, <3>1
    <3>. QED
      BY <3>2, FS_EmptySet
  <2>. QED
    BY <2>1, <2>2
<1>5. Cardinality(Admins) > 0 <=> Admins # {}
  <2>. HIDE DEF Admins
  <2>. QED
    BY <1>2, <1>3
<1>6. Admins # {} <=> \E u \in User : rows[<<t, u>>].role = "admin"
  BY DEF AdminsIn
<1>7. \A u \in User : Admins \ {u} # {} => \E v \in User \ {u} : rows[<<t, v>>].role = "admin"
  BY DEF AdminsIn
<1>. QED
  BY <1>2, <1>4, <1>5, <1>6, <1>7

LEMMA CountIs ==
  ASSUME NEW t
  PROVE  /\ CountAdmins(t) = Cardinality(AdminsIn(members, t))
         /\ CountAdmins(t)' = Cardinality(AdminsIn(members', t))
BY DEF CountAdmins, AdminsIn

\* What a removal or a demotion has seen to, when it is about to be written.
Seen(q) ==
  LET m == req[q].on IN
  \/ ~Owns(req[q].owner, members[m].by)
  \/ members[m].role # "admin"
  \/ CountAdmins(m[1]) > 1
  \/ req[q].op = "updateRole" /\ req[q].role = "admin"

TakesAway(q) == req[q].pc = "write" /\ req[q].op \in {"removeMember", "updateRole"}

LEMMA AdminInvIs == AdminInv <=> \A q \in Request : TakesAway(q) /\ req[q].on[1] \notin contended => Seen(q)
BY DEF AdminInv, TakesAway, Seen

LEMMA SeenKept ==
  ASSUME ReqInv, NEW q \in Request, Seen(q), req[q].pc # "idle",
         req'[q].op = req[q].op, req'[q].on = req[q].on, req'[q].role = req[q].role, req'[q].owner = req[q].owner,
         \A u \in User : members'[<<req[q].on[1], u>>] = members[<<req[q].on[1], u>>]
  PROVE  Seen(q)'
<1>1. req[q].on = <<req[q].on[1], req[q].on[2]>> /\ req[q].on[2] \in User
  BY OnMember DEF Member
<1>2. members'[req[q].on] = members[req[q].on]
  BY <1>1
<1>3. CountAdmins(req[q].on[1])' = Cardinality(AdminsIn(members', req'[q].on[1]))
  BY DEF CountAdmins, AdminsIn
<1>4. AdminsIn(members', req'[q].on[1]) = AdminsIn(members, req[q].on[1])
  BY DEF AdminsIn
<1>. QED
  BY <1>2, <1>3, <1>4, CountIs DEF Seen, Owns

LEMMA AdminInit == Init => AdminInv
BY IdleRow DEF Init, AdminInv

\* A request that is done cannot have taken from another's team what it had seen, unless
\* both were about the team.
LEMMA DoneAdmin ==
  ASSUME ReqInv, AloneInv, AdminInv, NEW q \in Request, Writes(q), req' = [req EXCEPT ![q] = Idle],
         contended' = contended, \A m \in Member : m[1] # req[q].on[1] => members'[m] = members[m]
  PROVE  AdminInv'
<1>1. ASSUME NEW p \in Request, TakesAway(p)', req'[p].on[1] \notin contended'
      PROVE  Seen(p)'
  <2>1. p # q
    BY <1>1, IdleRow DEF TakesAway, ReqInv
  <2>2. req'[p] = req[p]
    BY <2>1
  <2>3. TakesAway(p) /\ Writes(p) /\ req[p].pc # "idle" /\ req[p].on[1] \notin contended
    BY <1>1, <2>2 DEF TakesAway, Writes
  <2>4. req[p].on[1] # req[q].on[1] /\ req[p].on[1] \in Team
    BY <2>1, <2>3, OnMember DEF AloneInv
  <2>5. \A u \in User : members'[<<req[p].on[1], u>>] = members[<<req[p].on[1], u>>]
    BY <2>4, MemberPair
  <2>6. Seen(p)
    BY <2>3, AdminInvIs
  <2>. QED
    BY <2>2, <2>3, <2>5, <2>6, SeenKept
<1>. QED
  BY <1>1 DEF AdminInv, TakesAway, Seen

\* A request that goes on has seen to it when it gets to write; the others have what they saw.
LEMMA GoesAdmin ==
  ASSUME ReqInv, AdminInv, NEW q \in Request, NEW pc, Goes(q, pc), members' = members,
         pc = "write" /\ req[q].op \in {"removeMember", "updateRole"} => Seen(q), req[q].pc # "idle"
  PROVE  AdminInv'
<1>1. ASSUME NEW p \in Request, TakesAway(p)', req'[p].on[1] \notin contended'
      PROVE  Seen(p)'
  <2>1. /\ req'[p].op = req[p].op /\ req'[p].on = req[p].on /\ req'[p].role = req[p].role
        /\ req'[p].owner = req[p].owner /\ contended' = contended
        /\ req'[p].pc = IF p = q THEN pc ELSE req[p].pc
    BY DEF Goes, ghosts, ReqInv, Active, Idle
  <2>2. Seen(p) /\ req[p].pc # "idle"
    <3>1. CASE p = q
      BY <1>1, <2>1, <3>1 DEF TakesAway
    <3>2. CASE p # q
      BY <1>1, <2>1, <3>2, AdminInvIs DEF TakesAway
    <3>. QED
      BY <3>1, <3>2
  <2>. QED
    BY <2>1, <2>2, SeenKept
<1>. QED
  BY <1>1 DEF AdminInv, TakesAway, Seen

LEMMA AdminNext ==
  ASSUME TypeOK, ReqInv, AloneInv, AdminInv, [Next]_vars
  PROVE  AdminInv'
<1>1. ASSUME NEW r \in Request, NEW op \in DOMAIN Steps, NEW t \in Team, NEW u \in User,
             NEW role \in Role, Arrive(r, op, t, u, role)
      PROVE  AdminInv'
  <2>0. Arrived(r, op, t, u)
    BY <1>1, ArriveEffect
  <2>1. ASSUME NEW p \in Request, TakesAway(p)', req'[p].on[1] \notin contended'
        PROVE  Seen(p)'
    <3>1. p # r
      BY <2>0, <2>1, StepsDomain DEF Arrived, TakesAway, Steps, Operations
    <3>2. /\ req'[p].pc = req[p].pc /\ req'[p].op = req[p].op /\ req'[p].on = req[p].on
          /\ req'[p].role = req[p].role /\ req'[p].owner = req[p].owner
          /\ contended \subseteq contended' /\ members' = members
      BY <2>0, <3>1 DEF Arrived, db
    <3>3. Seen(p) /\ req[p].pc # "idle"
      BY <2>1, <3>2, AdminInvIs DEF TakesAway
    <3>. QED
      BY <3>2, <3>3, SeenKept
  <2>. QED
    BY <2>1 DEF AdminInv, TakesAway, Seen
<1>2. ASSUME NEW q \in Request, Provision(q) PROVE AdminInv'
  <2>1. Goes(q, "write") /\ members' = members /\ req[q].op = "addMember" /\ req[q].pc # "idle"
    BY <1>2 DEF Provision, ReqInv
  <2>. QED
    BY <2>1, GoesAdmin
<1>3. ASSUME NEW q \in Request, AddMember(q) \/ RemoveMember(q) \/ UpdateMemberRole(q) PROVE AdminInv'
  <2>1. Writes(q) /\ req' = [req EXCEPT ![q] = Idle] /\ contended' = contended
    BY <1>3 DEF AddMember, RemoveMember, UpdateMemberRole, Answer, Refuse, Writes, ghosts
  <2>2. \A m \in Member : m[1] # req[q].on[1] => members'[m] = members[m]
    <3>1. req[q].on \in Member
      BY <2>1, WritesAreActive, OnMember
    <3>. QED
      BY <1>3, <3>1 DEF AddMember, RemoveMember, UpdateMemberRole, TypeOK
  <2>. QED
    BY <2>1, <2>2, DoneAdmin
<1>4. ASSUME NEW q \in Request, ReadRole(q) \/ AssertReadsRole(q) \/ AssertCounts(q) PROVE AdminInv'
  <2>0. req[q].pc # "idle" /\ members' = members
    BY <1>4 DEF ReadRole, AssertReadsRole, AssertCounts, db
  <2>1. CASE Refuse(q)
    <3>1. Writes(q)
      BY <1>4 DEF ReadRole, AssertReadsRole, AssertCounts, ReqInv, Writes
    <3>. QED
      BY <2>0, <2>1, <3>1, DoneAdmin DEF Refuse, ghosts
  <2>2. CASE Goes(q, "isAdmin") \/ Goes(q, "count")
    BY <2>0, <2>2, GoesAdmin
  <2>3. CASE Goes(q, "write") /\ Seen(q)
    BY <2>0, <2>3, GoesAdmin
  <2>4. ASSUME Goes(q, "write") PROVE Seen(q)
    <3>0. /\ req'[q].pc = "write" /\ req[q] \in Active
      BY <2>0, <2>4, OnMember DEF Goes, ReqInv
    <3>1. CASE ReadRole(q)
      <4>1. RoleOf(req[q].owner, req[q].on) # "none"
        BY <3>0, <3>1, IdleRow DEF ReadRole, Refuse, ReqInv
      <4>2. \/ req[q].op = "updateRole" /\ (RoleOf(req[q].owner, req[q].on) # "admin" \/ req[q].role = "admin")
            \/ Goes(q, "isAdmin")
        BY <3>1, <4>1 DEF ReadRole
      <4>3. ~Goes(q, "isAdmin")
        BY <3>0 DEF Goes, Active, ReqInv
      <4>. QED
        BY <4>1, <4>2, <4>3 DEF RoleOf, Seen
    <3>2. CASE AssertReadsRole(q)
      <4>1. RoleOf(req[q].owner, req[q].on) # "admin"
        BY <3>0, <3>2 DEF AssertReadsRole, Goes, ReqInv
      <4>. QED
        BY <4>1 DEF RoleOf, Seen
    <3>3. CASE AssertCounts(q)
      <4>1. ~IsLastAdmin(req[q].on[1])
        BY <3>0, <3>3, IdleRow DEF AssertCounts, Refuse, ReqInv
      <4>2. CountAdmins(req[q].on[1]) \in Nat
        BY AdminsOfRows, CountIs
      <4>. QED
        BY <4>1, <4>2 DEF IsLastAdmin, Seen
    <3>. QED
      BY <1>4, <3>1, <3>2, <3>3
  <2>. QED
    BY <1>4, <2>1, <2>2, <2>3, <2>4 DEF ReadRole, AssertReadsRole, AssertCounts
<1>5. ASSUME NEW q \in Request, NEW pc, Goes(q, pc), pc # "write", members' = members, req[q].pc # "idle"
      PROVE  AdminInv'
  BY <1>5, GoesAdmin
<1>6. ASSUME NEW q \in Request, EnsureNamed(q) \/ StoreName(q) PROVE AdminInv'
  BY <1>5, <1>6 DEF EnsureNamed, StoreName
<1>7. ASSUME NEW q \in Request, ReadName(q) \/ RereadName(q) PROVE AdminInv'
  <2>0. req[q].pc # "idle" /\ members' = members
    BY <1>7 DEF ReadName, RereadName, db
  <2>1. CASE Goes(q, "ensure")
    BY <1>5, <2>0, <2>1
  <2>2. CASE req' = [req EXCEPT ![q] = Idle] /\ contended' = contended
    <3>1. ASSUME NEW p \in Request, TakesAway(p)', req'[p].on[1] \notin contended'
          PROVE  Seen(p)'
      <4>1. p # q /\ req'[p] = req[p]
        BY <2>2, <3>1, IdleRow DEF TakesAway, ReqInv
      <4>2. Seen(p) /\ req[p].pc # "idle"
        BY <2>2, <3>1, <4>1, AdminInvIs DEF TakesAway
      <4>. QED
        BY <2>0, <4>1, <4>2, SeenKept
    <3>. QED
      BY <3>1 DEF AdminInv, TakesAway, Seen
  <2>. QED
    BY <1>7, <2>1, <2>2 DEF ReadName, RereadName, Tell
<1>8. ASSUME NEW t \in Team, DeleteTeam(t) PROVE AdminInv'
  <2>1. /\ req' = [q \in Request |-> [req[q] EXCEPT !.alone = @ /\ ~(Writes(q) /\ req[q].on[1] = t)]]
        /\ members' = [m \in Member |-> IF m[1] = t THEN NoMember ELSE members[m]]
        /\ contended' = contended
    BY <1>8 DEF DeleteTeam
  <2>2. ASSUME NEW p \in Request, TakesAway(p)', req'[p].on[1] \notin contended'
        PROVE  Seen(p)'
    <3>1. /\ req'[p].op = req[p].op /\ req'[p].on = req[p].on /\ req'[p].role = req[p].role
          /\ req'[p].owner = req[p].owner /\ req'[p].pc = req[p].pc
      BY <2>1 DEF ReqInv, Active, Idle
    <3>2. Seen(p) /\ req[p].pc # "idle"
      BY <2>1, <2>2, <3>1, AdminInvIs DEF TakesAway
    <3>3. req[p].on \in Member
      BY <3>2, OnMember
    <3>4. CASE req[p].on[1] = t
      <4>1. members'[req'[p].on].role = "none"
        BY <2>1, <3>1, <3>3, <3>4 DEF NoMember
      <4>. QED
        BY <4>1 DEF Seen
    <3>5. CASE req[p].on[1] # t
      <4>1. \A u \in User : members'[<<req[p].on[1], u>>] = members[<<req[p].on[1], u>>]
        BY <2>1, <3>2, <3>5, OnMember, MemberPair
      <4>. QED
        BY <3>1, <3>2, <4>1, SeenKept
    <3>. QED
      BY <3>4, <3>5
  <2>. QED
    BY <2>2 DEF AdminInv, TakesAway, Seen
<1>9. ASSUME UNCHANGED <<req, members, contended>> PROVE AdminInv'
  BY <1>9 DEF AdminInv, CountAdmins, Owns
<1>10. ASSUME NEW t \in Team, NEW name \in Name, CreateTeam(t, name) \/ UpdateTeamName(t, name)
       PROVE  AdminInv'
  BY <1>9, <1>10 DEF CreateTeam, UpdateTeamName, ghosts
<1>11. ASSUME NEW u \in User, SignIn(u) PROVE AdminInv'
  BY <1>9, <1>11 DEF SignIn, ghosts
<1>12. CASE UNCHANGED vars
  BY <1>9, <1>12 DEF vars, db, ghosts
<1>. QED
  BY <1>1, <1>2, <1>3, <1>4, <1>6, <1>7, <1>8, <1>10, <1>11, <1>12 DEF Next, Step

\* Only a removal or a demotion leaves a team with fewer administrators, or the end of the team.
LEMMA AdminsKept ==
  ASSUME TypeOK, ReqInv, AdminInv, [Next]_vars, NEW t \in Team \ contended',
         CountAdmins(t) > 0, CountAdmins(t)' = 0
  PROVE  teams'[t] = "none" /\ \A u \in User : members'[<<t, u>>] = NoMember
<1>1. PICK a \in User : members[<<t, a>>].role = "admin"
  BY AdminsOfRows, CountIs
<1>2. \A u \in User : members'[<<t, u>>].role # "admin"
  BY AdminsOfRows, CountIs
<1>3. members'[<<t, a>>] # members[<<t, a>>] /\ <<t, a>> \in Member
  BY <1>1, <1>2, MemberPair
<1>4. ASSUME NEW q \in Request, req[q].on \in Member, NEW row, members' = [members EXCEPT ![req[q].on] = row],
             Owns(req[q].owner, members[req[q].on].by), TakesAway(q), contended' = contended,
             req[q].op = "updateRole" /\ req[q].role = "admin" => row.role = "admin"
      PROVE  FALSE
  <2>1. req[q].on = <<t, a>>
    BY <1>3, <1>4
  <2>2. Seen(q)
    BY <1>4, <2>1, AdminInvIs
  <2>3. CASE CountAdmins(t) > 1
    <3>1. PICK v \in User \ {a} : members[<<t, v>>].role = "admin"
      BY <2>3, AdminsOfRows, CountIs
    <3>2. members'[<<t, v>>] = members[<<t, v>>]
      BY <1>4, <2>1, <3>1, MemberPair DEF TypeOK
    <3>. QED
      BY <1>2, <3>1, <3>2
  <2>4. CASE row.role = "admin"
    BY <1>2, <1>3, <1>4, <2>1, <2>4 DEF TypeOK
  <2>. QED
    BY <1>1, <1>4, <2>1, <2>2, <2>3, <2>4 DEF Seen
<1>5. ASSUME NEW q \in Request, AddMember(q) PROVE FALSE
  <2>1. members[<<t, a>>] # NoMember
    BY <1>1 DEF NoMember
  <2>. QED
    BY <1>3, <1>5, <2>1, MemberPair DEF AddMember, Inserted, TypeOK
<1>6. ASSUME NEW q \in Request, RemoveMember(q) PROVE FALSE
  <2>1. /\ req[q].on \in Member /\ TakesAway(q) /\ req[q].op # "updateRole"
    BY <1>6, OnMember DEF RemoveMember, TakesAway
  <2>2. /\ members' = [members EXCEPT ![req[q].on] = NoMember] /\ contended' = contended
        /\ Owns(req[q].owner, members[req[q].on].by)
    BY <1>3, <1>6 DEF RemoveMember, Answer
  <2>. QED
    BY <1>4, <2>1, <2>2
<1>7. ASSUME NEW q \in Request, UpdateMemberRole(q) PROVE FALSE
  <2>1. /\ req[q].on \in Member /\ TakesAway(q)
    BY <1>7, OnMember DEF UpdateMemberRole, TakesAway
  <2>2. /\ members' = [members EXCEPT ![req[q].on].role = req[q].role] /\ contended' = contended
        /\ Owns(req[q].owner, members[req[q].on].by)
    BY <1>3, <1>7 DEF UpdateMemberRole, Answer
  <2>3. /\ members' = [members EXCEPT ![req[q].on] = [members[req[q].on] EXCEPT !.role = req[q].role]]
        /\ [members[req[q].on] EXCEPT !.role = req[q].role].role = req[q].role
    BY <2>1, <2>2, RowType DEF MemberRow, NoMember
  <2>. QED
    BY <1>4, <2>1, <2>2, <2>3
<1>8. ASSUME NEW s \in Team, DeleteTeam(s) PROVE teams'[t] = "none" /\ \A u \in User : members'[<<t, u>>] = NoMember
  <2>1. s = t
    BY <1>3, <1>8 DEF DeleteTeam
  <2>. QED
    BY <1>8, <2>1, MemberPair DEF DeleteTeam, TypeOK
<1>9. ASSUME NEW q \in Request, Step(q) PROVE FALSE
  <2>1. CASE \/ Provision(q) \/ ReadRole(q) \/ AssertReadsRole(q) \/ AssertCounts(q)
             \/ ReadName(q) \/ EnsureNamed(q) \/ StoreName(q) \/ RereadName(q)
    BY <1>3, <2>1 DEF Provision, ReadRole, AssertReadsRole, AssertCounts, ReadName, EnsureNamed, StoreName,
                      RereadName, db
  <2>2. CASE \E op \in DOMAIN Steps, s \in Team, u \in User, role \in Role : Arrive(q, op, s, u, role)
    BY <1>3, <2>2 DEF Arrive, db
  <2>. QED
    BY <1>5, <1>6, <1>7, <1>9, <2>1, <2>2 DEF Step
<1>. QED
  BY <1>3, <1>8, <1>9 DEF Next, CreateTeam, UpdateTeamName, SignIn, vars, db

\* However requests about other teams interleave, and whatever begins and ends with one
\* about this team at a time: it keeps an administrator until it is deleted.
THEOREM AdminsRemain == Spec => KeepsAnAdmin
<1>1. TypeOK /\ ReqInv /\ AdminInv /\ [Next]_vars
        => [\A t \in Team \ contended' :
              CountAdmins(t) > 0 /\ CountAdmins(t)' = 0
                => teams'[t] = "none" /\ \A u \in User : members'[<<t, u>>] = NoMember]_vars
  BY AdminsKept
<1>. QED
  BY <1>1, TypeInit, TypeNext, ReqInit, ReqNext, AloneInit, AloneNext, AdminInit, AdminNext, PTL
  DEF Spec, KeepsAnAdmin
=============================================================================
