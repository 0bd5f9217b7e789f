----------------------------- MODULE AccessProofs -----------------------------
(***************************************************************************)
(* For any users, roles, accounts and number of requests at once, with     *)
(* foreign keys enforced or not, and with any statements of the clean-up   *)
(* failing: what was answered holds, the clean-up removes nothing that is  *)
(* granted and reports nothing as clean that is not, and the pages of the  *)
(* list of roles make up the list.                                         *)
(***************************************************************************)
EXTENDS Access, FiniteSetTheorems, TLAPS

Operation == {"grant", "revoke", "hide", "unhide", "favorite", "unfavorite", "roleConfig", "nickname", "teamAccount"}

RequestState ==
  [op    : Operation,
   pc    : {"provision", "delete", "verify", "account", "exists", "write", "roles"},
   on    : Grant,
   owner : {"id", "address"},
   alone : BOOLEAN]

IdleState == [op : {"idle"}, pc : {"idle"}, on : {<<>>}, owner : {"none"}, alone : {TRUE}]

GrantRow == [by : {"none", "address", "id"}, hidden : BOOLEAN]

CleanupState ==
  [running : BOOLEAN, pending : SUBSET Table, failed : SUBSET Table,
   orphans : SUBSET Account, quiet : SUBSET (Account \cup Principal)]

\* An owner with an id has a row; and of two requests about one grant neither is alone.
RequestsInv ==
  /\ req \in [Request -> IdleState \cup RequestState]
  /\ \A q \in Request : req[q].owner = "id" => req[q].on[1] \in known
  /\ \A p, q \in Request : p # q /\ About(p) \cap About(q) # {} => req[p].alone = FALSE /\ req[q].alone = FALSE

\* The key of a grant is the id only of a user who has one, and so its owner finds it
\* whenever it is looked for; a revocation that is alone finds it too, though its owner
\* was resolved before.
AnswersInv ==
  /\ \A g \in Grant : grants[g].by = "id" => g[1] \in known
  /\ \A q \in Request : req[q].op = "revoke" /\ req[q].alone = TRUE /\ grants[req[q].on].by = "id" => req[q].owner = "id"
  /\ \A g \in Grant : settled[g] # "no" => /\ \A q \in Request : g \notin About(q)
                                           /\ settled[g] = "granted" <=> grants[g].by # "none"

\* What the clean-up has to itself has no grant, and is gone from the tables it is done with.
CleanupInv ==
  /\ cleanup \in CleanupState
  /\ cleanup.running = FALSE => cleanup.pending = {}
  /\ cleanup.quiet \cap Granted = {}
  /\ cleanup.running = TRUE =>
       /\ \A t \in Satellite \ (cleanup.pending \cup cleanup.failed) : rows[t] \cap cleanup.quiet = {}
       /\ "aws_accounts" \notin cleanup.pending \cup cleanup.failed => accounts \cap cleanup.quiet = {}
       /\ "data_collection_config" \notin cleanup.pending \cup cleanup.failed =>
            (collected \ credentials) \cap cleanup.quiet = {}

Inv == TypeOK /\ RequestsInv /\ AnswersInv /\ CleanupInv

-----------------------------------------------------------------------------
(* Requests *)

LEMMA StepsHave ==
  /\ DOMAIN Steps = Operation
  /\ \A op \in Operation : Steps[op] \in {"provision", "delete", "verify", "account", "exists"}
BY DEF Steps, Operation

LEMMA RequestType ==
  ASSUME RequestsInv, NEW q \in Request
  PROVE  /\ req[q].on \in Grant \/ req[q] \in IdleState
         /\ req[q].pc # "idle" => req[q] \in RequestState
         /\ req[q].op # "idle" => req[q] \in RequestState
         /\ req[q].alone \in BOOLEAN
         /\ About(q) = {} \/ (About(q) = {req[q].on} /\ req[q].op \in {"grant", "revoke"})
<1>1. CASE req[q] \in IdleState
  BY <1>1 DEF IdleState, Idle, About
<1>2. CASE req[q] \in RequestState
  BY <1>2 DEF RequestState, About
<1> QED BY <1>1, <1>2 DEF RequestsInv

LEMMA ARequestGoesOn ==
  ASSUME RequestsInv, NEW q \in Request, req[q].pc # "idle", known \subseteq known',
         NEW pc \in {"account", "write", "roles"}, Goes(q, pc)
  PROVE  RequestsInv' /\ \A p \in Request : About(p)' = About(p)
<1>1. req[q] \in RequestState
  BY RequestType
<1>2. /\ req' \in [Request -> IdleState \cup RequestState]
      /\ \A p \in Request : /\ req'[p].op = req[p].op /\ req'[p].on = req[p].on
                            /\ req'[p].owner = req[p].owner /\ req'[p].alone = req[p].alone
  BY <1>1 DEF RequestsInv, Goes, RequestState
<1>3. \A p \in Request : About(p)' = About(p)
  BY <1>2 DEF About
<1> QED BY <1>2, <1>3 DEF RequestsInv

LEMMA ARequestEnds ==
  ASSUME RequestsInv, NEW q \in Request, known \subseteq known', req' = [req EXCEPT ![q] = Idle]
  PROVE  RequestsInv' /\ \A p \in Request : About(p)' = IF p = q THEN {} ELSE About(p)
<1>1. req' \in [Request -> IdleState \cup RequestState] /\ \A p \in Request : req'[p] = IF p = q THEN Idle ELSE req[p]
  BY DEF RequestsInv, Idle, IdleState
<1>2. \A p \in Request : About(p)' = IF p = q THEN {} ELSE About(p)
  BY <1>1 DEF About, Idle
<1> QED BY <1>1, <1>2 DEF RequestsInv, Idle

LEMMA ARequestStays ==
  ASSUME RequestsInv, known \subseteq known', UNCHANGED req
  PROVE  RequestsInv' /\ \A p \in Request : About(p)' = About(p)
BY DEF RequestsInv, About

\* What the request that arrives is, and what becomes of the others.
HasArrived(q, op, u, g) ==
  /\ req'[q].op = op /\ req'[q].on = g /\ req'[q].owner = Owner(u)
  /\ \A p \in Request \ {q} : /\ req'[p].op = req[p].op /\ req'[p].on = req[p].on
                              /\ req'[p].owner = req[p].owner
                              /\ req'[p].alone = TRUE => req[p].alone = TRUE
  /\ \A p \in Request \ {q} : About(p)' = About(p)
  /\ About(q)' = IF op \in {"grant", "revoke"} THEN {g} ELSE {}
  /\ settled' = IF op \in {"grant", "revoke"} THEN [settled EXCEPT ![g] = "no"] ELSE settled

LEMMA ARequestArrives ==
  ASSUME RequestsInv, NEW q \in Request, NEW op \in Operation, NEW u \in User, NEW a \in Account, NEW r \in Role,
         Arrive(q, op, u, a, r)
  PROVE  RequestsInv' /\ HasArrived(q, op, u, <<u, a, r>>)
<1> DEFINE rivals == {p \in Request \ {q} : op \in {"grant", "revoke"} /\ <<u, a, r>> \in About(p)}
           new == [op |-> op, pc |-> Steps[op], on |-> <<u, a, r>>, owner |-> Owner(u), alone |-> rivals = {}]
           old(p) == [req[p] EXCEPT !.alone = @ /\ p \notin rivals]
<1>1. req' = [p \in Request |-> IF p = q THEN new ELSE old(p)]
  BY DEF Arrive
<1>2. /\ new \in RequestState /\ new.op = op /\ new.on = <<u, a, r>> /\ new.owner = Owner(u)
      /\ new.alone = (rivals = {})
  BY StepsHave DEF RequestState, Owner, Grant
<1>3. ASSUME NEW p \in Request
      PROVE  /\ old(p) \in IdleState \cup RequestState
             /\ old(p).op = req[p].op /\ old(p).on = req[p].on /\ old(p).owner = req[p].owner
             /\ old(p).alone = (req[p].alone /\ p \notin rivals)
  <2>1. CASE req[p] \in IdleState
    <3>1. p \notin rivals
      BY <2>1 DEF About, IdleState
    <3> HIDE DEF rivals
    <3>2. req[p].alone = TRUE /\ (req[p].alone /\ p \notin rivals) = TRUE
      BY <2>1, <3>1 DEF IdleState
    <3>3. old(p) = [req[p] EXCEPT !.alone = TRUE]
      BY <3>2
    <3>4. old(p) \in IdleState /\ old(p).alone = TRUE
      BY <2>1, <3>3 DEF IdleState
    <3> QED BY <2>1, <3>2, <3>3, <3>4 DEF IdleState
  <2>2. CASE req[p] \in RequestState
    <3> HIDE DEF rivals
    <3> QED BY <2>2 DEF RequestState
  <2> QED BY <2>1, <2>2 DEF RequestsInv
<1> HIDE DEF rivals, new, old
<1>4. /\ req' \in [Request -> IdleState \cup RequestState]
      /\ req'[q] = new /\ \A p \in Request \ {q} : req'[p] = old(p)
  BY <1>1, <1>2, <1>3
<1>5. /\ \A p \in Request \ {q} : About(p)' = About(p)
      /\ About(q)' = IF op \in {"grant", "revoke"} THEN {<<u, a, r>>} ELSE {}
  BY <1>2, <1>3, <1>4 DEF About
<1>6. \A p \in Request : req'[p].alone = TRUE => req[p].alone = TRUE \/ p = q
  BY <1>3, <1>4, RequestType
<1>7. \A p \in Request : req'[p].owner = "id" => req'[p].on[1] \in known'
  BY <1>2, <1>3, <1>4 DEF RequestsInv, Owner, Arrive, dbVars
<1>8. ASSUME NEW p \in Request, NEW s \in Request, p # s, About(p)' \cap About(s)' # {}
      PROVE  req'[p].alone = FALSE /\ req'[s].alone = FALSE
  <2>1. \A x \in Request \ {q} : <<u, a, r>> \in About(x) /\ op \in {"grant", "revoke"} =>
                                   req'[x].alone = FALSE /\ req'[q].alone = FALSE
    BY <1>2, <1>3, <1>4, RequestType DEF rivals
  <2>2. CASE p # q /\ s # q
    <3>1. req[p].alone = FALSE /\ req[s].alone = FALSE
      BY <1>5, <1>8, <2>2 DEF RequestsInv
    <3>2. req'[p].alone = (req[p].alone /\ p \notin rivals) /\ req'[s].alone = (req[s].alone /\ s \notin rivals)
      BY <1>3, <1>4, <2>2
    <3> QED BY <3>1, <3>2
  <2>3. CASE p = q
    BY <1>5, <1>8, <2>1, <2>3
  <2>4. CASE s = q
    BY <1>5, <1>8, <2>1, <2>4
  <2> QED BY <2>2, <2>3, <2>4
<1>9. RequestsInv'
  BY <1>4, <1>7, <1>8 DEF RequestsInv
<1> QED BY SMTT(30), <1>2, <1>3, <1>4, <1>5, <1>6, <1>9 DEF Arrive, HasArrived

\* A step of the request q that is not its arrival: it goes on, or it ends.
LEMMA ARequestSteps ==
  ASSUME RequestsInv, NEW q \in Request, RequestStep(q),
         ~ \E op \in DOMAIN Steps, u \in User, a \in Account, r \in Role : Arrive(q, op, u, a, r)
  PROVE  /\ RequestsInv' /\ known \subseteq known'
         /\ req[q] \in RequestState
         /\ \A p \in Request : /\ About(p)' \subseteq About(p)
                               /\ p # q => req'[p] = req[p]
         /\ \/ req'[q] = Idle
            \/ /\ req'[q].op = req[q].op /\ req'[q].on = req[q].on
               /\ req'[q].owner = req[q].owner /\ req'[q].alone = req[q].alone
<1>1. /\ req[q].pc # "idle" /\ known \subseteq known'
      /\ (\E pc \in {"account", "write", "roles"} : Goes(q, pc)) \/ req' = [req EXCEPT ![q] = Idle]
  <2>1. CASE ProvisionGrantee(q) \/ EnsureAccountExists(q)
    BY <2>1 DEF ProvisionGrantee, EnsureAccountExists
  <2>2. CASE VerifyUserHasAccessToRole(q) \/ GetRolesByUserAndAccount(q) \/ AccountExists(q)
    BY <2>2 DEF VerifyUserHasAccessToRole, GetRolesByUserAndAccount, AccountExists, Refuse, dbVars
  <2>3. CASE GrantAccess(q) \/ RevokeAccess(q) \/ HideRole(q)
    BY <2>3 DEF GrantAccess, RevokeAccess, HideRole, Refuse, Answer
  <2>4. CASE FavoriteAccount(q) \/ UnfavoriteAccount(q) \/ SetRoleConfig(q) \/ SetAccountNickname(q) \/ AddAccountToTeam(q)
    BY <2>4 DEF FavoriteAccount, UnfavoriteAccount, SetRoleConfig, SetAccountNickname, AddAccountToTeam, Refuse, Answer
  <2> QED BY <2>1, <2>2, <2>3, <2>4 DEF RequestStep
<1>2. req[q] \in RequestState
  BY <1>1, RequestType
<1>3. CASE \E pc \in {"account", "write", "roles"} : Goes(q, pc)
  <2>1. PICK pc \in {"account", "write", "roles"} : Goes(q, pc)
    BY <1>3
  <2>2. RequestsInv' /\ \A p \in Request : About(p)' = About(p)
    BY <1>1, <2>1, ARequestGoesOn
  <2>3. \A p \in Request : p # q => req'[p] = req[p]
    BY <2>1 DEF Goes, RequestsInv
  <2>4. /\ req'[q].op = req[q].op /\ req'[q].on = req[q].on
        /\ req'[q].owner = req[q].owner /\ req'[q].alone = req[q].alone
    BY <1>2, <2>1 DEF Goes, RequestsInv, RequestState
  <2> QED BY <1>1, <1>2, <2>2, <2>3, <2>4
<1>4. CASE req' = [req EXCEPT ![q] = Idle]
  <2>1. RequestsInv' /\ \A p \in Request : About(p)' = IF p = q THEN {} ELSE About(p)
    BY <1>1, <1>4, ARequestEnds
  <2>2. req'[q] = Idle /\ \A p \in Request : p # q => req'[p] = req[p]
    BY <1>4 DEF RequestsInv
  <2> QED BY <1>1, <1>2, <2>1, <2>2
<1> QED BY <1>1, <1>3, <1>4

\* The steps that are not of a request leave the requests, the grants and the answers.
OtherStep ==
  \/ \E u \in User : SignIn(u)
  \/ \E a \in Account : RemoveAccountNickname(a) \/ \E t \in Satellite : DeleteRow(t, a) \/ WriteRow(t, a)
  \/ \E p \in Principal : EnableCollection(p) \/ DisableCollection(p) \/ StoreOrRemoveCredential(p)
  \/ CleanupOrphanedData \/ (\E t \in Table : DeleteOrphaned(t)) \/ ReportCleanup
  \/ UNCHANGED vars

LEMMA OtherStepsLeave ==
  ASSUME OtherStep
  PROVE  UNCHANGED <<req, grants, settled>> /\ known \subseteq known'
<1>1. CASE \E u \in User : SignIn(u)
  BY <1>1 DEF SignIn
<1>2. CASE \E a \in Account : RemoveAccountNickname(a) \/ \E t \in Satellite : DeleteRow(t, a) \/ WriteRow(t, a)
  BY <1>2 DEF RemoveAccountNickname, DeleteRow, WriteRow
<1>3. CASE \E p \in Principal : EnableCollection(p) \/ DisableCollection(p) \/ StoreOrRemoveCredential(p)
  BY <1>3 DEF EnableCollection, DisableCollection, StoreOrRemoveCredential
<1>4. CASE CleanupOrphanedData \/ ReportCleanup \/ UNCHANGED vars
  BY <1>4 DEF CleanupOrphanedData, ReportCleanup, vars, dbVars
<1>5. CASE \E t \in Table : DeleteOrphaned(t)
  BY <1>5 DEF DeleteOrphaned
<1> QED BY <1>1, <1>2, <1>3, <1>4, <1>5 DEF OtherStep

\* The kinds of step.
LEMMA StepsAre ==
  ASSUME [Next]_vars
  PROVE  \/ \E q \in Request, op \in DOMAIN Steps, u \in User, a \in Account, r \in Role : Arrive(q, op, u, a, r)
         \/ \E q \in Request :
              /\ RequestStep(q)
              /\ ~ \E op \in DOMAIN Steps, u \in User, a \in Account, r \in Role : Arrive(q, op, u, a, r)
         \/ OtherStep
BY DEF Next, RequestStep, OtherStep

LEMMA RequestsStep ==
  ASSUME RequestsInv, [Next]_vars
  PROVE  RequestsInv' /\ known \subseteq known'
<1>1. ASSUME NEW q \in Request, NEW op \in DOMAIN Steps, NEW u \in User, NEW a \in Account, NEW r \in Role,
             Arrive(q, op, u, a, r)
      PROVE  RequestsInv' /\ known \subseteq known'
  <2>1. known' = known
    BY <1>1 DEF Arrive, dbVars
  <2> QED BY <1>1, <2>1, ARequestArrives, StepsHave
<1>2. ASSUME OtherStep
      PROVE  RequestsInv' /\ known \subseteq known'
  BY <1>2, OtherStepsLeave, ARequestStays
<1> QED BY <1>1, <1>2, StepsAre, ARequestSteps

-----------------------------------------------------------------------------
(* Answers *)

Rows == [Grant -> GrantRow]

\* A promise is about the grant of the request alone.
LEMMA AnswerIs ==
  ASSUME RequestsInv, settled \in [Grant -> {"no", "granted", "revoked"}], NEW q \in Request,
         NEW promise \in {"no", "granted", "revoked"}, Answer(q, promise)
  PROVE  /\ settled' \in [Grant -> {"no", "granted", "revoked"}]
         /\ \A g \in Grant : settled'[g] = IF g \in About(q) /\ req[q].alone = TRUE THEN promise ELSE settled[g]
         /\ req[q].op \notin {"grant", "revoke"} => settled' = settled
BY RequestType DEF Answer, About

\* Where no row gets or loses its key and no answer is given, nothing changes.
LEMMA RowsKept ==
  ASSUME AnswersInv, RequestsInv, known \subseteq known', settled' = settled,
         \A g \in Grant : grants'[g].by = grants[g].by,
         \A p \in Request : About(p)' \subseteq About(p),
         \A p \in Request : \/ req'[p].op # "revoke"
                            \/ /\ req'[p].op = req[p].op /\ req'[p].on = req[p].on
                               /\ req'[p].owner = req[p].owner /\ req'[p].alone = req[p].alone
  PROVE  AnswersInv'
<1>1. \A p \in Request : req[p].op = "revoke" => req[p].on \in Grant
  BY RequestType DEF RequestState
<1> QED BY <1>1 DEF AnswersInv

\* The key changes only by the grant or the revocation that is about it.
LEMMA OneRowMoves ==
  ASSUME TypeOK, RequestsInv, AnswersInv, NEW q \in Request, req[q] \in RequestState,
         req[q].op \in {"grant", "revoke"}, req'[q] = Idle, known \subseteq known',
         \A p \in Request : /\ About(p)' \subseteq About(p)
                            /\ p # q => req'[p] = req[p],
         \A g \in Grant : g # req[q].on => grants'[g].by = grants[g].by /\ settled'[g] = settled[g],
         req[q].alone = FALSE => settled'[req[q].on] = settled[req[q].on],
         grants'[req[q].on].by = "id" => grants[req[q].on].by = "id" \/ (req[q].op = "grant" /\ req[q].owner = "id"),
         req[q].alone = TRUE /\ settled'[req[q].on] # "no" =>
           (settled'[req[q].on] = "granted" <=> grants'[req[q].on].by # "none")
  PROVE  AnswersInv'
<1> DEFINE o == req[q].on
<1>1. o \in Grant /\ About(q) = {o} /\ req[q].alone \in BOOLEAN
  BY DEF RequestState, About
<1>2. ASSUME NEW p \in Request, o \in About(p), p # q
      PROVE  req[p].alone = FALSE /\ req[q].alone = FALSE
  BY <1>1, <1>2 DEF RequestsInv
<1>3. About(q)' = {}
  BY DEF About, Idle
<1>4. \A g \in Grant : grants'[g].by = "id" => g[1] \in known'
  BY <1>1 DEF AnswersInv, RequestsInv
<1>5. ASSUME NEW p \in Request, req'[p].op = "revoke", req'[p].alone = TRUE, grants'[req'[p].on].by = "id"
      PROVE  req'[p].owner = "id"
  <2>1. p # q /\ req'[p] = req[p]
    BY <1>5 DEF Idle
  <2>2. req[p].on \in Grant /\ About(p) = {req[p].on}
    BY <1>5, <2>1, RequestType DEF RequestState, About
  <2>3. req[p].on # o
    BY <1>2, <1>5, <2>1, <2>2
  <2> QED BY <1>5, <2>1, <2>2, <2>3 DEF AnswersInv
<1>6. ASSUME NEW g \in Grant, settled'[g] # "no"
      PROVE  /\ \A p \in Request : g \notin About(p)'
             /\ settled'[g] = "granted" <=> grants'[g].by # "none"
  <2>1. CASE g # o
    BY <1>6, <2>1 DEF AnswersInv
  <2>2. CASE g = o
    <3>1. req[q].alone = TRUE
      BY <1>1, <1>6, <2>2 DEF AnswersInv
    <3>2. \A p \in Request : g \notin About(p)'
      BY <1>2, <1>3, <2>2, <3>1
    <3> QED BY <1>6, <2>2, <3>1, <3>2
  <2> QED BY <2>1, <2>2
<1> QED BY <1>4, <1>5, <1>6 DEF AnswersInv

LEMMA AnswersStep ==
  ASSUME TypeOK, RequestsInv, AnswersInv, [Next]_vars
  PROVE  AnswersInv'
<1> USE DEF Grant
<1>0. grants \in Rows /\ settled \in [Grant -> {"no", "granted", "revoked"}]
  BY DEF TypeOK, Rows, GrantRow
<1> HIDE DEF Grant
<1>1. ASSUME NEW q \in Request, NEW op \in DOMAIN Steps, NEW u \in User, NEW a \in Account, NEW r \in Role,
             Arrive(q, op, u, a, r)
      PROVE  AnswersInv'
  <2> DEFINE g == <<u, a, r>>
  <2>1. /\ op \in Operation /\ known' = known /\ grants' = grants /\ g \in Grant /\ g[1] = u
    BY <1>1, StepsHave DEF Arrive, dbVars, Grant
  <2>2. HasArrived(q, op, u, g)
    BY <1>1, <2>1, ARequestArrives
  <2> HIDE DEF g
  <2>3. \A p \in Request : req'[p].op = "revoke" /\ req'[p].alone = TRUE /\ grants'[req'[p].on].by = "id" => req'[p].owner = "id"
    BY <2>1, <2>2 DEF AnswersInv, Owner, HasArrived
  <2>4. \A h \in Grant : settled'[h] # "no" => h \notin About(q)' /\ settled'[h] = settled[h]
    BY <1>0, <2>1, <2>2 DEF HasArrived
  <2>5. \A h \in Grant : settled'[h] # "no" => /\ \A p \in Request : h \notin About(p)'
                                               /\ settled'[h] = "granted" <=> grants'[h].by # "none"
    BY <2>1, <2>2, <2>4 DEF AnswersInv, HasArrived
  <2>6. \A h \in Grant : grants'[h].by = "id" => h[1] \in known'
    BY <2>1 DEF AnswersInv
  <2> QED BY <2>3, <2>5, <2>6 DEF AnswersInv
<1>2. ASSUME NEW q \in Request, RequestStep(q),
             ~ \E op \in DOMAIN Steps, u \in User, a \in Account, r \in Role : Arrive(q, op, u, a, r)
      PROVE  AnswersInv'
  <2>1. /\ known \subseteq known' /\ req[q] \in RequestState
        /\ \A p \in Request : /\ About(p)' \subseteq About(p)
                              /\ p # q => req'[p] = req[p]
        /\ \/ req'[q] = Idle
           \/ /\ req'[q].op = req[q].op /\ req'[q].on = req[q].on
              /\ req'[q].owner = req[q].owner /\ req'[q].alone = req[q].alone
    BY <1>2, ARequestSteps
  <2>2. req[q].on \in Grant /\ req[q].owner \in {"id", "address"} /\ req[q].alone \in BOOLEAN
    BY <2>1 DEF RequestState
  <2>3. ASSUME settled' = settled, \A g \in Grant : grants'[g].by = grants[g].by
        PROVE  AnswersInv'
    <3>1. \A p \in Request : \/ req'[p].op # "revoke"
                             \/ /\ req'[p].op = req[p].op /\ req'[p].on = req[p].on
                                /\ req'[p].owner = req[p].owner /\ req'[p].alone = req[p].alone
      BY <2>1 DEF Idle
    <3> QED BY <2>1, <2>3, <3>1, RowsKept
  <2>4. CASE ProvisionGrantee(q) \/ EnsureAccountExists(q)
    BY <2>3, <2>4 DEF ProvisionGrantee, EnsureAccountExists, Goes
  <2>5. CASE VerifyUserHasAccessToRole(q) \/ GetRolesByUserAndAccount(q) \/ AccountExists(q)
    BY <2>3, <2>5 DEF VerifyUserHasAccessToRole, GetRolesByUserAndAccount, AccountExists, Refuse, Goes, dbVars
  <2>6. CASE FavoriteAccount(q) \/ UnfavoriteAccount(q) \/ SetRoleConfig(q) \/ SetAccountNickname(q) \/ AddAccountToTeam(q)
    <3>1. Answer(q, "no") \/ Refuse(q)
      BY <2>6 DEF FavoriteAccount, UnfavoriteAccount, SetRoleConfig, SetAccountNickname, AddAccountToTeam
    <3>2. grants' = grants /\ req[q].op \notin {"grant", "revoke"}
      BY <2>6 DEF FavoriteAccount, UnfavoriteAccount, SetRoleConfig, SetAccountNickname, AddAccountToTeam
    <3>3. settled' = settled
      BY <1>0, <3>1, <3>2, AnswerIs DEF Refuse
    <3> QED BY <2>3, <3>2, <3>3
  <2>7. CASE HideRole(q)
    <3>1. settled' = settled
      BY <1>0, <2>7, AnswerIs DEF HideRole
    <3>2. \A g \in Grant : grants'[g].by = grants[g].by
      BY <1>0, <2>2, <2>7 DEF HideRole, Rows, GrantRow
    <3> QED BY <2>3, <3>1, <3>2
  <2>8. CASE GrantAccess(q)
    <3> DEFINE g == req[q].on
    <3>1. req[q].op = "grant" /\ About(q) = {g}
      BY <2>8 DEF GrantAccess, About
    <3>2. CASE Refuse(q)
      <4>1. req' = [req EXCEPT ![q] = Idle] /\ settled' = settled
        BY <3>2 DEF Refuse
      <4>2. CASE grants' = grants
        BY <2>3, <4>1, <4>2
      <4>3. CASE Answer(q, "granted") /\ grants' # grants
        <5>1. CASE req[q].alone = TRUE
          <6>1. settled'[g] = "granted"
            BY <1>0, <2>2, <3>1, <4>3, <5>1, AnswerIs
          <6>2. settled[g] = "no"
            BY <2>2, <3>1 DEF AnswersInv
          <6> QED BY <4>1, <6>1, <6>2
        <5>2. CASE req[q].alone = FALSE
          <6>1. req'[q] = Idle
            BY <4>1 DEF RequestsInv
          <6>2. \A h \in Grant : h # g => grants'[h].by = grants[h].by
            BY <1>0, <2>2, <2>8 DEF GrantAccess, Rows, GrantRow
          <6>3. grants'[g].by = "id" => grants[g].by = "id" \/ req[q].owner = "id"
            BY <1>0, <2>2, <2>8 DEF GrantAccess, Rows, GrantRow
          <6> QED BY <2>1, <3>1, <4>1, <5>2, <6>1, <6>2, <6>3, OneRowMoves
        <5> QED BY <2>2, <5>1, <5>2
      <4> QED BY <2>8, <4>2, <4>3 DEF GrantAccess
    <3>3. CASE Answer(q, "granted") /\ grants' = IF grants[g].by = "none"
                           THEN [grants EXCEPT ![g] = [by |-> req[q].owner, hidden |-> FALSE]] ELSE grants
      <4>1. \A h \in Grant : settled'[h] = IF h \in About(q) /\ req[q].alone = TRUE THEN "granted" ELSE settled[h]
        BY <1>0, <3>3, AnswerIs
      <4>2. req'[q] = Idle
        BY <3>3 DEF Answer, RequestsInv
      <4>3. \A h \in Grant : h # g => grants'[h].by = grants[h].by
        BY <1>0, <2>2, <3>3 DEF Rows, GrantRow
      <4>4. /\ grants'[g].by = "id" => grants[g].by = "id" \/ req[q].owner = "id"
            /\ grants'[g].by # "none"
        BY <1>0, <2>2, <3>3 DEF Rows, GrantRow
      <4> HIDE DEF g
      <4>5. /\ \A h \in Grant : h # g => settled'[h] = settled[h]
            /\ req[q].alone = FALSE => settled'[g] = settled[g]
            /\ req[q].alone = TRUE => settled'[g] = "granted"
        BY <2>2, <3>1, <4>1 DEF g
      <4> QED BY <2>1, <3>1, <4>2, <4>3, <4>4, <4>5, OneRowMoves DEF g
    <3> QED BY <2>8, <3>2, <3>3 DEF GrantAccess
  <2>9. CASE RevokeAccess(q)
    <3> DEFINE g == req[q].on
    <3>1. req[q].op = "revoke" /\ About(q) = {g} /\ Answer(q, "revoked")
      BY <2>9 DEF RevokeAccess, About
    <3>2. \A h \in Grant : settled'[h] = IF h \in About(q) /\ req[q].alone = TRUE THEN "revoked" ELSE settled[h]
      BY <1>0, <3>1, AnswerIs
    <3>3. req'[q] = Idle
      BY <3>1 DEF Answer, RequestsInv
    <3>4. \A h \in Grant : h # g => grants'[h].by = grants[h].by
      BY <1>0, <2>2, <2>9 DEF RevokeAccess, Rows, GrantRow
    <3>5. grants'[g].by = IF Owns(req[q].owner, grants[g].by) THEN "none" ELSE grants[g].by
      BY <1>0, <2>2, <2>9 DEF RevokeAccess, Rows, GrantRow, NoGrant
    <3>6. grants[g].by \in {"none", "address", "id"}
      BY <1>0, <2>2 DEF Rows, GrantRow
    <3>7. req[q].alone = TRUE => grants'[g].by = "none"
      BY <2>2, <3>1, <3>5, <3>6 DEF Owns, AnswersInv
    <3> HIDE DEF g
    <3>8. /\ \A h \in Grant : h # g => settled'[h] = settled[h]
          /\ req[q].alone = FALSE => settled'[g] = settled[g]
          /\ req[q].alone = TRUE => settled'[g] = "revoked"
      BY <2>2, <3>1, <3>2 DEF g
    <3>9. grants'[g].by = "id" => grants[g].by = "id"
      BY <3>5
    <3> QED BY <2>1, <3>1, <3>3, <3>4, <3>7, <3>8, <3>9, OneRowMoves DEF g
  <2> QED BY <1>2, <2>4, <2>5, <2>6, <2>7, <2>8, <2>9 DEF RequestStep
<1>3. ASSUME OtherStep
      PROVE  AnswersInv'
  <2>1. UNCHANGED <<req, grants, settled>> /\ known \subseteq known'
    BY <1>3, OtherStepsLeave
  <2>2. \A p \in Request : About(p)' = About(p)
    BY <2>1 DEF About
  <2> QED BY <2>1, <2>2, RowsKept
<1> QED BY <1>1, <1>2, <1>3, StepsAre

-----------------------------------------------------------------------------
(* Clean-up *)

LEMMA TouchIs ==
  ASSUME CleanupInv, NEW as, Touch(as)
  PROVE  /\ cleanup' \in CleanupState
         /\ cleanup'.running = cleanup.running /\ cleanup'.pending = cleanup.pending
         /\ cleanup'.failed = cleanup.failed /\ cleanup'.quiet = cleanup.quiet \ as
BY DEF CleanupInv, CleanupState, Touch

\* A step that leaves no row of what the clean-up still has to itself disturbs nothing.
LEMMA QuietKept ==
  ASSUME CleanupInv,
         cleanup' \in CleanupState, cleanup'.quiet \subseteq cleanup.quiet,
         cleanup'.running = cleanup.running, cleanup'.pending = cleanup.pending, cleanup'.failed = cleanup.failed,
         Granted' \cap cleanup'.quiet \subseteq Granted,
         \A t \in Satellite : rows'[t] \cap cleanup'.quiet \subseteq rows[t],
         accounts' \cap cleanup'.quiet \subseteq accounts,
         (collected' \ credentials') \cap cleanup'.quiet \subseteq collected \ credentials
  PROVE  CleanupInv'
<1>1. cleanup'.quiet \cap Granted' = {} /\ (cleanup'.running = FALSE => cleanup'.pending = {})
  BY DEF CleanupInv
<1>2. ASSUME cleanup'.running = TRUE, NEW t \in Satellite \ (cleanup'.pending \cup cleanup'.failed)
      PROVE  rows'[t] \cap cleanup'.quiet = {}
  <2>1. rows[t] \cap cleanup.quiet = {}
    BY <1>2 DEF CleanupInv
  <2> QED BY <1>2, <2>1
<1>3. ASSUME cleanup'.running = TRUE, "aws_accounts" \notin cleanup'.pending \cup cleanup'.failed
      PROVE  accounts' \cap cleanup'.quiet = {}
  <2>1. accounts \cap cleanup.quiet = {}
    BY <1>3 DEF CleanupInv
  <2> QED BY <2>1
<1>4. ASSUME cleanup'.running = TRUE, "data_collection_config" \notin cleanup'.pending \cup cleanup'.failed
      PROVE  (collected' \ credentials') \cap cleanup'.quiet = {}
  <2>1. (collected \ credentials) \cap cleanup.quiet = {}
    BY <1>4 DEF CleanupInv
  <2> QED BY <2>1
<1> QED BY <1>1, <1>2, <1>3, <1>4 DEF CleanupInv

\* Accounts that have a grant are those of whose rows one has a key.
LEMMA GrantedBy ==
  ASSUME \A g \in Grant : grants'[g].by # "none" => grants[g].by # "none"
  PROVE  Granted' \subseteq Granted
BY DEF Granted, Grant

\* What a step of a request does to what the clean-up looks at.
LEMMA CleanupOfRequests ==
  ASSUME TypeOK, RequestsInv, CleanupInv, NEW q \in Request, req[q] \in RequestState, RequestStep(q),
         ~ \E op \in DOMAIN Steps, u \in User, a \in Account, r \in Role : Arrive(q, op, u, a, r)
  PROVE  CleanupInv'
<1>1. /\ req[q].on \in Grant /\ req[q].on[2] \in Account /\ req[q].owner \in {"id", "address"}
      /\ grants \in Rows /\ rows \in [Satellite -> SUBSET Account]
      /\ {"role_configs", "team_accounts"} \subseteq Satellite
  BY DEF RequestState, Grant, TypeOK, Rows, GrantRow, Satellite
<1>2. ASSUME UNCHANGED <<rows, credentials, collected>>, UNCHANGED accounts \/ accounts' = accounts \cup {req[q].on[2]},
             Touch({req[q].on[2]}), grants' = grants
      PROVE  CleanupInv'
  <2>1. Granted' = Granted
    BY <1>2 DEF Granted
  <2> QED BY <1>2, <2>1, TouchIs, QuietKept
<1>3. ASSUME UNCHANGED <<rows, accounts, credentials, collected, cleanup>>, Granted' \subseteq Granted
      PROVE  CleanupInv'
  BY <1>3, QuietKept DEF CleanupInv
<1>4. ASSUME UNCHANGED <<accounts, grants, credentials, collected>>, Touch({req[q].on[2]}),
             \A t \in Satellite : rows'[t] \subseteq rows[t] \cup {req[q].on[2]}
      PROVE  CleanupInv'
  <2>1. Granted' = Granted
    BY <1>4 DEF Granted
  <2> QED BY <1>4, <2>1, TouchIs, QuietKept
<1>5. CASE ProvisionGrantee(q) \/ SetAccountNickname(q) \/ UnfavoriteAccount(q)
  BY <1>3, <1>5 DEF ProvisionGrantee, SetAccountNickname, UnfavoriteAccount, Granted
<1>6. CASE VerifyUserHasAccessToRole(q) \/ GetRolesByUserAndAccount(q) \/ AccountExists(q)
  BY <1>3, <1>6 DEF VerifyUserHasAccessToRole, GetRolesByUserAndAccount, AccountExists, dbVars, Granted
<1>7. CASE EnsureAccountExists(q) \/ FavoriteAccount(q)
  BY <1>2, <1>7 DEF EnsureAccountExists, FavoriteAccount
<1>8. CASE SetRoleConfig(q) \/ AddAccountToTeam(q)
  <2>1. \A t \in Satellite : rows'[t] \subseteq rows[t] \cup {req[q].on[2]}
    BY <1>1, <1>8 DEF SetRoleConfig, AddAccountToTeam
  <2> QED BY <1>4, <1>8, <2>1 DEF SetRoleConfig, AddAccountToTeam
<1>9. CASE RevokeAccess(q) \/ HideRole(q)
  <2>1. \A g \in Grant : grants'[g].by # "none" => grants[g].by # "none"
    BY <1>1, <1>9 DEF RevokeAccess, HideRole, Rows, GrantRow, NoGrant
  <2> QED BY <1>3, <1>9, <2>1, GrantedBy DEF RevokeAccess, HideRole
<1>10. CASE GrantAccess(q)
  <2>1. \A g \in Grant : grants'[g].by # "none" => grants[g].by # "none" \/ g = req[q].on
    BY <1>1, <1>10 DEF GrantAccess, Rows, GrantRow
  <2>2. Granted' \subseteq Granted \cup {req[q].on[2]}
    <3> SUFFICES ASSUME NEW a \in Account, NEW u \in User, NEW r \in Role, grants'[<<u, a, r>>].by # "none"
                 PROVE  a \in Granted \/ a = req[q].on[2]
      BY DEF Granted
    <3>1. <<u, a, r>> \in Grant
      BY DEF Grant
    <3>2. CASE <<u, a, r>> = req[q].on
      <4>1. <<u, a, r>>[2] = req[q].on[2]
        BY <3>2
      <4> QED BY <4>1
    <3> QED BY <2>1, <3>1, <3>2 DEF Granted
  <2> QED BY <1>10, <2>2, TouchIs, QuietKept DEF GrantAccess
<1> QED BY <1>5, <1>6, <1>7, <1>8, <1>9, <1>10 DEF RequestStep

LEMMA OneTableCleaned ==
  ASSUME TypeOK, CleanupInv, NEW t \in Table, DeleteOrphaned(t)
  PROVE  CleanupInv'
<1>1. /\ t \in cleanup.pending /\ grants' = grants /\ Granted' = Granted /\ credentials' = credentials
      /\ rows \in [Satellite -> SUBSET Account] /\ accounts \subseteq Account /\ collected \subseteq Principal
      /\ "data_collection_config" \notin Satellite /\ "aws_accounts" \notin Satellite
  BY AccessAssumption DEF DeleteOrphaned, TypeOK, Granted, Satellite
<1>2. PICK ok \in BOOLEAN :
       /\ cleanup' = Settled(t, ok)
       /\ rows' = IF ok /\ t \in Satellite THEN [rows EXCEPT ![t] = @ \ (Account \ Granted)] ELSE rows
       /\ accounts' = IF ok /\ t = "aws_accounts" THEN accounts \ (Account \ Granted) ELSE accounts
       /\ collected' = IF ok /\ t = "data_collection_config" THEN collected \cap credentials ELSE collected
  <2>1. PICK ok \in {TRUE, FALSE, ~ (ForeignKeys /\ t = "aws_accounts" /\
                                    Orphaned(Account \ Granted) \cap accounts \cap Referenced # {})} :
          /\ cleanup' = Settled(t, ok)
          /\ rows' = IF ok /\ t \in Satellite THEN [rows EXCEPT ![t] = @ \ Orphaned(Account \ Granted)] ELSE rows
          /\ accounts' = IF ok /\ t = "aws_accounts" THEN accounts \ Orphaned(Account \ Granted) ELSE accounts
          /\ collected' = IF ok /\ t = "data_collection_config" THEN collected \cap credentials ELSE collected
    BY DEF DeleteOrphaned
  <2> QED BY <2>1 DEF Orphaned
<1>3. /\ cleanup' \in CleanupState /\ cleanup'.running = cleanup.running /\ cleanup'.quiet = cleanup.quiet
      /\ cleanup'.pending = cleanup.pending \ {t}
      /\ cleanup'.failed = IF ok THEN cleanup.failed ELSE cleanup.failed \cup {t}
  BY <1>2 DEF Settled, CleanupInv, CleanupState
<1>4. /\ cleanup'.quiet \cap Granted' = {} /\ cleanup'.running = TRUE
      /\ \A s \in Satellite \ (cleanup.pending \cup cleanup.failed) : rows[s] \cap cleanup.quiet = {}
      /\ "aws_accounts" \notin cleanup.pending \cup cleanup.failed => accounts \cap cleanup.quiet = {}
      /\ "data_collection_config" \notin cleanup.pending \cup cleanup.failed =>
           (collected \ credentials) \cap cleanup.quiet = {}
  <2>1. cleanup.running = TRUE
    BY <1>1 DEF CleanupInv, CleanupState
  <2> QED BY <1>1, <1>3, <2>1 DEF CleanupInv
<1>5. ASSUME NEW s \in Satellite \ (cleanup'.pending \cup cleanup'.failed)
      PROVE  rows'[s] \cap cleanup'.quiet = {}
  <2>1. CASE s = t
    <3>1. ok = TRUE
      BY <1>3, <1>5, <2>1
    <3>2. rows'[s] = rows[s] \ (Account \ Granted) /\ rows[s] \subseteq Account
      BY <1>1, <1>2, <1>5, <2>1, <3>1
    <3> QED BY <1>1, <1>3, <1>4, <3>2
  <2>2. CASE s # t
    <3>1. s \notin cleanup.pending \cup cleanup.failed /\ rows'[s] = rows[s]
      BY <1>1, <1>2, <1>3, <1>5, <2>2
    <3> QED BY <1>3, <1>4, <1>5, <3>1
  <2> QED BY <2>1, <2>2
<1>6. ASSUME "aws_accounts" \notin cleanup'.pending \cup cleanup'.failed
      PROVE  accounts' \cap cleanup'.quiet = {}
  <2>1. CASE t = "aws_accounts"
    <3>1. ok = TRUE
      BY <1>3, <1>6, <2>1
    <3>2. accounts' = accounts \ (Account \ Granted)
      BY <1>2, <2>1, <3>1
    <3> QED BY <1>1, <1>3, <1>4, <3>2
  <2>2. CASE t # "aws_accounts"
    BY <1>2, <1>3, <1>4, <1>6, <2>2
  <2> QED BY <2>1, <2>2
<1>7. ASSUME "data_collection_config" \notin cleanup'.pending \cup cleanup'.failed
      PROVE  (collected' \ credentials') \cap cleanup'.quiet = {}
  <2>1. CASE t = "data_collection_config"
    <3>1. ok = TRUE
      BY <1>3, <1>7, <2>1
    <3>2. collected' = collected \cap credentials
      BY <1>2, <2>1, <3>1
    <3> QED BY <1>1, <3>2
  <2>2. CASE t # "data_collection_config"
    BY <1>1, <1>2, <1>3, <1>4, <1>7, <2>2
  <2> QED BY <2>1, <2>2
<1> QED BY <1>3, <1>4, <1>5, <1>6, <1>7 DEF CleanupInv

LEMMA CleanupStep ==
  ASSUME TypeOK, RequestsInv, CleanupInv, [Next]_vars
  PROVE  CleanupInv'
<1>1. ASSUME UNCHANGED <<rows, accounts, grants, credentials, cleanup>>, collected' \subseteq collected
      PROVE  CleanupInv'
  <2>1. Granted' = Granted
    BY <1>1 DEF Granted
  <2> QED BY <1>1, <2>1, QuietKept DEF CleanupInv
<1>2. ASSUME NEW q \in Request, NEW op \in DOMAIN Steps, NEW u \in User, NEW a \in Account, NEW r \in Role,
             Arrive(q, op, u, a, r)
      PROVE  CleanupInv'
  BY <1>1, <1>2 DEF Arrive, dbVars
<1>3. ASSUME OtherStep
      PROVE  CleanupInv'
  <2>1. Granted' = Granted
    BY <1>3, OtherStepsLeave DEF Granted
  <2>2. CASE UNCHANGED vars \/ (\E u \in User : SignIn(u)) \/ \E a \in Account : RemoveAccountNickname(a)
    BY <1>1, <2>2 DEF SignIn, RemoveAccountNickname, vars, dbVars
  <2>3. ASSUME NEW a \in Account, NEW t \in Satellite, DeleteRow(t, a)
        PROVE  CleanupInv'
    <3>1. \A s \in Satellite : rows'[s] \subseteq rows[s]
      BY <2>3 DEF DeleteRow, TypeOK
    <3> QED BY <2>1, <2>3, <3>1, QuietKept DEF DeleteRow, CleanupInv
  <2>4. ASSUME NEW a \in Account, NEW t \in Satellite, WriteRow(t, a)
        PROVE  CleanupInv'
    <3>1. \A s \in Satellite : rows'[s] \subseteq rows[s] \cup {a}
      BY <2>4 DEF WriteRow, TypeOK
    <3> QED BY <2>1, <2>4, <3>1, TouchIs, QuietKept DEF WriteRow
  <2>5. ASSUME NEW p \in Principal, EnableCollection(p) \/ StoreOrRemoveCredential(p)
        PROVE  CleanupInv'
    <3>1. Touch({p}) /\ (collected' \ credentials') \subseteq (collected \ credentials) \cup {p}
      BY <2>5 DEF EnableCollection, StoreOrRemoveCredential
    <3> QED BY <2>1, <2>5, <3>1, TouchIs, QuietKept DEF EnableCollection, StoreOrRemoveCredential
  <2>6. ASSUME NEW p \in Principal, DisableCollection(p)
        PROVE  CleanupInv'
    BY <1>1, <2>6 DEF DisableCollection
  <2>7. CASE CleanupOrphanedData
    <3>1. /\ cleanup' \in CleanupState /\ cleanup'.running = TRUE /\ cleanup'.pending = Table
          /\ cleanup'.quiet = (Account \ Granted) \cup (Principal \ credentials)
      BY <2>7 DEF CleanupOrphanedData, CleanupState
    <3>2. Granted \subseteq Account
      BY DEF Granted
    <3>3. cleanup'.quiet \cap Granted' = {}
      BY <2>1, <3>1, <3>2, AccessAssumption
    <3>4. Satellite \subseteq Table /\ {"aws_accounts", "data_collection_config"} \subseteq Table
      BY DEF Table
    <3> QED BY <3>1, <3>3, <3>4 DEF CleanupInv
  <2>8. CASE ReportCleanup
    <3>1. /\ cleanup' \in CleanupState /\ cleanup'.running = FALSE /\ cleanup'.pending = {} /\ cleanup'.quiet = {}
      BY <2>8 DEF ReportCleanup, NoCleanup, CleanupState
    <3> QED BY <3>1 DEF CleanupInv
  <2> QED BY <1>3, <2>2, <2>3, <2>4, <2>5, <2>6, <2>7, <2>8, OneTableCleaned DEF OtherStep
<1> QED BY <1>2, <1>3, StepsAre, ARequestSteps, CleanupOfRequests

-----------------------------------------------------------------------------
(* Types *)

Database ==
  /\ known \subseteq User /\ accounts \subseteq Account /\ named \subseteq accounts
  /\ grants \in Rows
  /\ favorites \in [User \X Account -> {"none", "address", "id"}]
  /\ rows \in [Satellite -> SUBSET Account]
  /\ credentials \subseteq Principal /\ collected \subseteq Principal

\* What the foreign keys hold together.
Keys ==
  ForeignKeys =>
    /\ \A g \in Grant : grants[g].by # "none" => g[1] \in known /\ g[2] \in accounts
    /\ \A f \in User \X Account : favorites[f] # "none" => f[1] \in known /\ f[2] \in accounts
    /\ rows["role_configs"] \subseteq accounts

Promises == [Grant -> {"no", "granted", "revoked"}]

LEMMA TypeParts ==
  TypeOK <=> /\ Database /\ Keys /\ settled \in Promises /\ begun \in 0..MaxRequests
             /\ cleanup.pending \subseteq Table /\ cleanup.failed \subseteq Table
BY DEF TypeOK, Database, Keys, Promises, Rows, GrantRow

LEMMA TypePartsAfter ==
  TypeOK' <=> /\ Database' /\ Keys' /\ settled' \in Promises /\ begun' \in 0..MaxRequests
              /\ cleanup'.pending \subseteq Table /\ cleanup'.failed \subseteq Table
BY DEF TypeOK, Database, Keys, Promises, Rows, GrantRow

LEMMA RoleConfigsAreThere == "role_configs" \in Satellite /\ "role_configs" \notin Loose /\ "team_accounts" \in Satellite
BY AccessAssumption DEF Satellite

\* A step that adds users and accounts and writes no row that a key refers from.
LEMMA KeysKept ==
  ASSUME Keys, UNCHANGED <<grants, favorites>>, known \subseteq known', accounts \subseteq accounts',
         rows'["role_configs"] \subseteq rows["role_configs"]
  PROVE  Keys'
BY DEF Keys

LEMMA TypesOfRequests ==
  ASSUME TypeOK, RequestsInv, NEW q \in Request, req[q] \in RequestState, RequestStep(q),
         ~ \E op \in DOMAIN Steps, u \in User, a \in Account, r \in Role : Arrive(q, op, u, a, r)
  PROVE  Database' /\ Keys' /\ settled' \in Promises /\ begun' \in 0..MaxRequests
<1> DEFINE on == req[q].on
<1>1. /\ on \in Grant /\ on[1] \in User /\ on[2] \in Account /\ <<on[1], on[2]>> \in User \X Account
      /\ req[q].owner \in {"id", "address"}
  BY DEF RequestState, Grant
<1>2. Database /\ Keys /\ settled \in Promises /\ begun \in 0..MaxRequests
  BY TypeParts
<1>3. /\ \A promise \in {"no", "granted", "revoked"} : Answer(q, promise) => settled' \in Promises
      /\ Refuse(q) => settled' \in Promises
  BY <1>2, AnswerIs DEF Promises, Refuse
<1> HIDE DEF on
<1>4. CASE ProvisionGrantee(q)
  BY <1>1, <1>2, <1>4, KeysKept DEF ProvisionGrantee, Goes, Database, on
<1>5. CASE EnsureAccountExists(q)
  BY <1>1, <1>2, <1>5, KeysKept DEF EnsureAccountExists, Goes, Database, on
<1>6. CASE VerifyUserHasAccessToRole(q) \/ GetRolesByUserAndAccount(q) \/ AccountExists(q)
  <2>1. UNCHANGED <<dbVars, begun, settled>>
    BY <1>6 DEF VerifyUserHasAccessToRole, GetRolesByUserAndAccount, AccountExists, Refuse, Goes
  <2> QED BY <1>2, <2>1, KeysKept DEF dbVars, Database
<1>7. CASE SetAccountNickname(q)
  BY <1>2, <1>3, <1>7, KeysKept DEF SetAccountNickname, Database
<1>8. CASE AddAccountToTeam(q)
  <2>1. rows' \in [Satellite -> SUBSET Account] /\ rows'["role_configs"] = rows["role_configs"]
    BY <1>1, <1>2, <1>8, RoleConfigsAreThere DEF AddAccountToTeam, Database, on
  <2> QED BY <1>2, <1>3, <1>8, <2>1, KeysKept DEF AddAccountToTeam, Database
<1>9. CASE SetRoleConfig(q)
  <2>1. settled' \in Promises /\ begun' = begun
    BY <1>3, <1>9 DEF SetRoleConfig
  <2>2. CASE UNCHANGED rows
    BY <1>2, <1>9, <2>1, <2>2, KeysKept DEF SetRoleConfig, Database
  <2>3. CASE rows' # rows
    <3>1. /\ ForeignKeys => on[2] \in accounts
          /\ rows' = [rows EXCEPT !["role_configs"] = @ \cup {on[2]}]
      BY <1>9, <2>3 DEF SetRoleConfig, on
    <3>2. rows' \in [Satellite -> SUBSET Account] /\ rows'["role_configs"] = rows["role_configs"] \cup {on[2]}
      BY <1>1, <1>2, <3>1, RoleConfigsAreThere DEF Database
    <3>3. Keys'
      BY <1>2, <1>9, <3>1, <3>2 DEF Keys, SetRoleConfig
    <3> QED BY <1>2, <1>9, <2>1, <3>2, <3>3 DEF SetRoleConfig, Database
  <2> QED BY <2>2, <2>3
<1>10. CASE FavoriteAccount(q) \/ UnfavoriteAccount(q)
  <2>1. /\ settled' \in Promises
        /\ UNCHANGED <<known, accounts, named, grants, rows, credentials, collected, begun>>
    BY <1>3, <1>10 DEF FavoriteAccount, UnfavoriteAccount
  <2>2. /\ favorites' \in [User \X Account -> {"none", "address", "id"}]
        /\ \A f \in User \X Account : favorites'[f] # "none" =>
             favorites[f] # "none" \/ (ForeignKeys => f[1] \in known /\ f[2] \in accounts)
    BY <1>1, <1>2, <1>10 DEF FavoriteAccount, UnfavoriteAccount, Database, on
  <2>3. Keys'
    BY <1>2, <2>1, <2>2 DEF Keys
  <2> QED BY <1>2, <2>1, <2>2, <2>3 DEF Database
<1>11. CASE GrantAccess(q) \/ RevokeAccess(q) \/ HideRole(q)
  <2>1. /\ settled' \in Promises
        /\ UNCHANGED <<known, accounts, named, favorites, rows, credentials, collected, begun>>
    BY <1>3, <1>11 DEF GrantAccess, RevokeAccess, HideRole
  <2>2. grants \in Rows
    BY <1>2 DEF Database
  <2>3. /\ grants' \in Rows
        /\ \A g \in Grant : grants'[g].by # "none" =>
             grants[g].by # "none" \/ (ForeignKeys => g[1] \in known /\ g[2] \in accounts)
    <3>1. CASE GrantAccess(q)
      <4>1. CASE grants' = grants
        BY <2>2, <4>1
      <4>2. CASE grants' # grants
        <5> DEFINE row == [by |-> req[q].owner, hidden |-> FALSE]
        <5>1. (ForeignKeys => on[1] \in known /\ on[2] \in accounts) /\ grants' = [grants EXCEPT ![on] = row]
          BY <3>1, <4>2 DEF GrantAccess, on
        <5>2. row \in GrantRow
          BY <1>1 DEF GrantRow
        <5> HIDE DEF row
        <5> QED BY <1>1, <2>2, <5>1, <5>2 DEF Rows
      <4> QED BY <4>1, <4>2
    <3>2. CASE RevokeAccess(q)
      BY <1>1, <2>2, <3>2 DEF RevokeAccess, Rows, GrantRow, NoGrant, on
    <3>3. CASE HideRole(q)
      <4> DEFINE hidden == req[q].op = "hide"
      <4>1. /\ hidden \in BOOLEAN
            /\ grants' = IF Owns(req[q].owner, grants[on].by) THEN [grants EXCEPT ![on].hidden = hidden] ELSE grants
        BY <3>3 DEF HideRole, on
      <4> HIDE DEF hidden
      <4> QED BY <1>1, <2>2, <4>1 DEF Rows, GrantRow
    <3> QED BY <1>11, <3>1, <3>2, <3>3
  <2>4. Keys'
    BY <1>2, <2>1, <2>3 DEF Keys
  <2> QED BY <1>2, <2>1, <2>3, <2>4 DEF Database
<1> QED BY <1>4, <1>5, <1>6, <1>7, <1>8, <1>9, <1>10, <1>11 DEF RequestStep

LEMMA TypesOfCleanup ==
  ASSUME TypeOK, NEW t \in Table, DeleteOrphaned(t)
  PROVE  Database' /\ Keys'
<1> DEFINE orphans == Account \ Granted
<1>1. /\ Database /\ Keys /\ "role_configs" # "aws_accounts"
      /\ UNCHANGED <<known, grants, favorites, credentials>>
  BY TypeParts DEF DeleteOrphaned
<1>2. PICK ok \in BOOLEAN :
       /\ ok = TRUE => ~ (ForeignKeys /\ t = "aws_accounts" /\ orphans \cap accounts \cap Referenced # {})
       /\ rows' = IF ok /\ t \in Satellite THEN [rows EXCEPT ![t] = @ \ orphans] ELSE rows
       /\ accounts' = IF ok /\ t = "aws_accounts" THEN accounts \ orphans ELSE accounts
       /\ named' = named \cap accounts'
       /\ collected' = IF ok /\ t = "data_collection_config" THEN collected \cap credentials ELSE collected
  <2> DEFINE blocked == ForeignKeys /\ t = "aws_accounts" /\ orphans \cap accounts \cap Referenced # {}
             Deletes(ok) ==
               /\ rows' = IF ok /\ t \in Satellite THEN [rows EXCEPT ![t] = @ \ orphans] ELSE rows
               /\ accounts' = IF ok /\ t = "aws_accounts" THEN accounts \ orphans ELSE accounts
               /\ named' = named \cap accounts'
               /\ collected' = IF ok /\ t = "data_collection_config" THEN collected \cap credentials ELSE collected
  <2>1. Deletes(~blocked) \/ Deletes(FALSE)
    BY DEF DeleteOrphaned, Orphaned
  <2>2. (~blocked) \in BOOLEAN
    OBVIOUS
  <2> QED BY <2>1, <2>2
<1> HIDE DEF orphans
<1>3. /\ rows' \in [Satellite -> SUBSET Account] /\ rows'["role_configs"] \subseteq rows["role_configs"]
      /\ accounts' \subseteq accounts
  BY <1>1, <1>2, RoleConfigsAreThere DEF Database
<1>4. Database'
  BY <1>1, <1>2, <1>3 DEF Database
<1>5. ASSUME ForeignKeys, NEW a \in accounts, a \notin accounts'
      PROVE  a \notin Referenced
  BY <1>2, <1>5
<1>6. CASE ForeignKeys
  <2>1. ASSUME NEW g \in Grant, grants[g].by # "none"
        PROVE  g[2] \in accounts'
    <3>1. g[2] \in Granted /\ g[2] \in accounts
      <4>1. g = <<g[1], g[2], g[3]>> /\ g[1] \in User /\ g[2] \in Account /\ g[3] \in Role
        BY DEF Grant
      <4>2. g[2] \in Granted
        BY <2>1, <4>1 DEF Granted
      <4> QED BY <1>1, <1>6, <2>1, <4>2 DEF Keys
    <3> QED BY <1>5, <1>6, <3>1 DEF Referenced
  <2>2. ASSUME NEW f \in User \X Account, favorites[f] # "none"
        PROVE  f[2] \in accounts'
    <3>1. f = <<f[1], f[2]>> /\ f[1] \in User /\ f[2] \in Account /\ f[2] \in accounts
      BY <1>1, <1>6, <2>2 DEF Keys
    <3>2. f[2] \in Referenced
      BY <2>2, <3>1 DEF Referenced
    <3> QED BY <1>5, <1>6, <3>1, <3>2
  <2>3. rows["role_configs"] \subseteq accounts'
    BY <1>1, <1>5, <1>6 DEF Keys, Referenced
  <2> QED BY <1>1, <1>3, <1>4, <1>6, <2>1, <2>2, <2>3 DEF Keys
<1>7. CASE ~ForeignKeys
  BY <1>4, <1>7 DEF Keys
<1> QED BY <1>4, <1>6, <1>7

LEMMA TypesStep ==
  ASSUME Inv, CleanupInv', [Next]_vars
  PROVE  TypeOK'
<1>1. Database /\ Keys /\ settled \in Promises /\ begun \in 0..MaxRequests /\ MaxRequests \in Nat
  BY TypeParts, AccessAssumption DEF Inv
<1>2. cleanup'.pending \subseteq Table /\ cleanup'.failed \subseteq Table
  BY DEF CleanupInv, CleanupState
<1>3. Counts => begun' \in 0..MaxRequests
  BY <1>1 DEF Counts
<1>4. ASSUME NEW q \in Request, NEW op \in DOMAIN Steps, NEW u \in User, NEW a \in Account, NEW r \in Role,
             Arrive(q, op, u, a, r)
      PROVE  TypeOK'
  <2>1. HasArrived(q, op, u, <<u, a, r>>) /\ UNCHANGED dbVars /\ begun' \in 0..MaxRequests
    BY <1>3, <1>4, ARequestArrives, StepsHave DEF Arrive, Inv
  <2>2. settled' \in Promises
    BY <1>1, <2>1 DEF HasArrived, Promises
  <2>3. Database' /\ Keys'
    BY <1>1, <2>1, KeysKept DEF dbVars, Database
  <2> QED BY <1>2, <2>1, <2>2, <2>3, TypePartsAfter
<1>5. ASSUME NEW q \in Request, RequestStep(q),
             ~ \E op \in DOMAIN Steps, u \in User, a \in Account, r \in Role : Arrive(q, op, u, a, r)
      PROVE  TypeOK'
  BY <1>2, <1>5, ARequestSteps, TypesOfRequests, TypePartsAfter DEF Inv
<1>6. ASSUME OtherStep
      PROVE  TypeOK'
  <2>1. UNCHANGED <<req, grants, settled>> /\ known \subseteq known'
    BY <1>6, OtherStepsLeave
  <2>2. SUFFICES Database' /\ Keys' /\ begun' \in 0..MaxRequests
    BY <1>1, <1>2, <2>1, TypePartsAfter
  <2>3. CASE UNCHANGED vars \/ CleanupOrphanedData \/ ReportCleanup
    <3>1. UNCHANGED dbVars /\ begun' \in 0..MaxRequests
      BY <1>1, <1>3, <2>3 DEF vars, CleanupOrphanedData, ReportCleanup
    <3> QED BY <1>1, <3>1, KeysKept DEF dbVars, Database
  <2>4. CASE \E u \in User : SignIn(u)
    BY <1>1, <1>3, <2>4, KeysKept DEF SignIn, Database
  <2>5. CASE \E a \in Account : RemoveAccountNickname(a)
    BY <1>1, <1>3, <2>5, KeysKept DEF RemoveAccountNickname, Database
  <2>6. ASSUME NEW a \in Account, NEW t \in Satellite, DeleteRow(t, a) \/ WriteRow(t, a)
        PROVE  Database' /\ Keys' /\ begun' \in 0..MaxRequests
    <3>1. rows' \in [Satellite -> SUBSET Account] /\ rows'["role_configs"] \subseteq rows["role_configs"]
      BY <1>1, <2>6, RoleConfigsAreThere DEF DeleteRow, WriteRow, Database
    <3> QED BY <1>1, <1>3, <2>6, <3>1, KeysKept DEF DeleteRow, WriteRow, Database
  <2>7. CASE \E p \in Principal : EnableCollection(p) \/ DisableCollection(p) \/ StoreOrRemoveCredential(p)
    BY <1>1, <1>3, <2>7, KeysKept DEF EnableCollection, DisableCollection, StoreOrRemoveCredential, Database
  <2>8. ASSUME NEW t \in Table, DeleteOrphaned(t)
        PROVE  Database' /\ Keys' /\ begun' \in 0..MaxRequests
    BY <1>1, <2>8, TypesOfCleanup DEF DeleteOrphaned, Inv
  <2> QED BY <1>6, <2>3, <2>4, <2>5, <2>6, <2>7, <2>8 DEF OtherStep
<1> QED BY <1>4, <1>5, <1>6, StepsAre

-----------------------------------------------------------------------------
(* The invariant *)

LEMMA InitInv ==
  ASSUME Init
  PROVE  Inv
<1>1. req \in [Request -> IdleState] /\ \A q \in Request : req[q] = Idle /\ About(q) = {}
  BY DEF Init, Idle, IdleState, About
<1>2. RequestsInv
  BY <1>1 DEF RequestsInv, Idle
<1>3. \A g \in Grant : grants[g] \in GrantRow
  <2>1. NoGrant \in GrantRow /\ [by : {"address", "id"}, hidden : BOOLEAN] \subseteq GrantRow
    BY DEF GrantRow, NoGrant
  <2> QED BY <2>1 DEF Init
<1>4. grants \in Rows
  BY <1>3 DEF Init, Rows
<1>5. CleanupInv
  BY DEF Init, CleanupInv, NoCleanup, CleanupState
<1>6. AnswersInv
  BY <1>1 DEF Init, AnswersInv, Idle
<1>7. Database
  BY <1>4 DEF Init, Database
<1>8. rows["role_configs"] \subseteq accounts
  BY RoleConfigsAreThere DEF Init
<1>9. TypeOK
  <2>1. Keys
    BY <1>8 DEF Init, Keys
  <2>2. settled \in Promises /\ begun \in 0..MaxRequests
    BY AccessAssumption DEF Init, Promises
  <2> QED BY <1>5, <1>7, <2>1, <2>2, TypeParts DEF CleanupInv, CleanupState
<1> QED BY <1>2, <1>5, <1>6, <1>9 DEF Inv

LEMMA InvStep ==
  ASSUME Inv, [Next]_vars
  PROVE  Inv'
<1>1. RequestsInv' /\ AnswersInv' /\ CleanupInv'
  BY RequestsStep, AnswersStep, CleanupStep DEF Inv
<1> QED BY <1>1, TypesStep DEF Inv

LEMMA InvHolds == Spec => []Inv
<1>1. Inv /\ [Next]_vars => Inv'
  BY InvStep
<1> QED BY <1>1, InitInv, PTL DEF Spec

\* Types, and what the foreign keys of the database hold together.
THEOREM TypeCorrect == Spec => []TypeOK
<1>1. Inv => TypeOK
  BY DEF Inv
<1> QED BY <1>1, InvHolds, PTL

\* A later request finds a role that was granted and none that was revoked, whatever
\* other requests, sign-ins and clean-ups do in between, and however many there are.
THEOREM AnswersStay == Spec => []AnswersHold
<1>1. Inv => AnswersHold
  <2> SUFFICES ASSUME Inv, NEW g \in Grant, settled[g] # "no"
               PROVE  settled[g] = "granted" <=> Owns(Owner(g[1]), grants[g].by)
    BY DEF AnswersHold
  <2>1. grants[g].by \in {"none", "address", "id"}
    BY TypeParts DEF Inv, Database, Rows, GrantRow
  <2>2. grants[g].by # "none" <=> Owns(Owner(g[1]), grants[g].by)
    BY <2>1 DEF Inv, AnswersInv, Owner, Owns
  <2> QED BY <2>2 DEF Inv, AnswersInv
<1> QED BY <1>1, InvHolds, PTL

\* A clean-up says of no table that it is clean while rows are left in it that nothing
\* but the clean-up had to do with, however its statements fail and interleave.
THEOREM ReportsAreTrue == Spec => []CleanReportIsTrue
<1>1. Inv => CleanReportIsTrue
  BY DEF Inv, CleanupInv, CleanReportIsTrue, CleanupState
<1> QED BY <1>1, InvHolds, PTL

\* No statement of a clean-up takes anything from an account that has a grant by then.
THEOREM GrantsAreSpared == Spec => GrantedIsSpared
<1> DEFINE Spares(t) ==
      t \in cleanup.pending \ cleanup'.pending =>
        \A a \in Granted : /\ a \in accounts <=> a \in accounts'
                           /\ a \in named <=> a \in named'
                           /\ \A s \in Satellite : a \in rows[s] <=> a \in rows[s]'
<1>1. ASSUME Inv, [Next]_vars, NEW t \in Table
      PROVE  Spares(t)
  <2>1. CASE cleanup'.pending = cleanup.pending
    BY <2>1
  <2>2. CASE CleanupOrphanedData \/ ReportCleanup
    BY <2>2 DEF CleanupOrphanedData, ReportCleanup, Inv, CleanupInv, CleanupState
  <2>3. ASSUME NEW s \in Table, DeleteOrphaned(s)
        PROVE  Spares(t)
    <3>1. named \subseteq accounts /\ rows \in [Satellite -> SUBSET Account]
      BY <1>1, TypeParts DEF Inv, Database
    <3>2. PICK ok \in BOOLEAN :
           /\ rows' = IF ok /\ s \in Satellite THEN [rows EXCEPT ![s] = @ \ (Account \ Granted)] ELSE rows
           /\ accounts' = IF ok /\ s = "aws_accounts" THEN accounts \ (Account \ Granted) ELSE accounts
           /\ named' = named \cap accounts'
      <4> DEFINE blocked == ForeignKeys /\ s = "aws_accounts" /\ (Account \ Granted) \cap accounts \cap Referenced # {}
                 Deletes(ok) ==
                   /\ rows' = IF ok /\ s \in Satellite THEN [rows EXCEPT ![s] = @ \ (Account \ Granted)] ELSE rows
                   /\ accounts' = IF ok /\ s = "aws_accounts" THEN accounts \ (Account \ Granted) ELSE accounts
                   /\ named' = named \cap accounts'
      <4>1. Deletes(~blocked) \/ Deletes(FALSE)
        BY <2>3 DEF DeleteOrphaned, Orphaned
      <4>2. (~blocked) \in BOOLEAN
        OBVIOUS
      <4> QED BY <4>1, <4>2
    <3> QED BY <3>1, <3>2
  <2>4. \/ cleanup'.pending = cleanup.pending
        \/ CleanupOrphanedData \/ ReportCleanup \/ \E s \in Table : DeleteOrphaned(s)
    <3>1. ASSUME NEW as, Touch(as) PROVE cleanup'.pending = cleanup.pending
      BY <1>1, <3>1, TouchIs DEF Inv
    <3>2. CASE OtherStep
      BY <3>1, <3>2 DEF OtherStep, SignIn, RemoveAccountNickname, DeleteRow, WriteRow, EnableCollection,
         DisableCollection, StoreOrRemoveCredential, vars
    <3>3. CASE \E q \in Request : RequestStep(q)
      <4>1. PICK q \in Request : RequestStep(q)
        BY <3>3
      <4>2. UNCHANGED cleanup \/ \E as : Touch(as)
        BY <4>1 DEF RequestStep, Arrive, ProvisionGrantee, EnsureAccountExists, GrantAccess, RevokeAccess,
           VerifyUserHasAccessToRole, HideRole, GetRolesByUserAndAccount, FavoriteAccount, UnfavoriteAccount,
           SetRoleConfig, SetAccountNickname, AccountExists, AddAccountToTeam
      <4> QED BY <3>1, <4>2
    <3> QED BY <1>1, <3>2, <3>3, StepsAre DEF RequestStep
  <2> QED BY <2>1, <2>2, <2>3, <2>4
<1>2. Inv /\ [Next]_vars => [\A t \in Table : Spares(t)]_vars
  BY <1>1
<1> QED BY <1>2, InvHolds, PTL DEF Spec, GrantedIsSpared

-----------------------------------------------------------------------------
(* The list of assumable roles *)

\* The list of accounts is in a strict total order: accounts that are equal favorites and
\* equally named are told apart by their ids.
LEMMA ListIsOrdered ==
  ASSUME NEW u \in User
  PROVE  /\ \A a \in Account : ~Before(u, a, a)
         /\ \A a, b \in Account : a # b => Before(u, a, b) \/ Before(u, b, a)
         /\ \A a, b, c \in Account : Before(u, a, b) /\ Before(u, b, c) => Before(u, a, c)
<1> DEFINE favor(c) == IF Owns(Owner(u), favorites[<<u, c>>]) THEN 0 ELSE 2
           name(c) == IF c \in named THEN 0 ELSE 1
           rank(c) == favor(c) + name(c)
<1>1. \A c : favor(c) \in Int
  OBVIOUS
<1>2. \A c : name(c) \in Int
  OBVIOUS
<1>3. \A c : rank(c) \in Int
  <2> HIDE DEF favor, name
  <2> QED BY <1>1, <1>2
<1>4. \A a, b : Before(u, a, b) <=> rank(a) < rank(b) \/ (rank(a) = rank(b) /\ a < b)
  BY DEF Before
<1>5. Account \subseteq Int
  BY AccessAssumption
<1> HIDE DEF rank
<1> QED BY <1>3, <1>4, <1>5

\* Of a list of accounts the one that has another before it has a later place.
LEMMA PlacesGrow ==
  ASSUME NEW u \in User, NEW list \in SUBSET Account,
         NEW a \in list, NEW b \in list, Before(u, a, b)
  PROVE  Place(u, list, a) < Place(u, list, b)
<1> DEFINE before(c) == {d \in list : Before(u, d, c)}
<1>1. IsFiniteSet(before(b))
  BY AccessAssumption, FS_Subset, before(b) \in SUBSET Account
<1>2. before(a) \in SUBSET before(b)
  BY ListIsOrdered
<1>3. a \in before(b) /\ a \notin before(a)
  BY ListIsOrdered
<1>4. /\ IsFiniteSet(before(a))
      /\ Cardinality(before(a)) <= Cardinality(before(b))
      /\ Cardinality(before(a)) # Cardinality(before(b))
  <2> HIDE DEF before
  <2> QED BY <1>1, <1>2, <1>3, FS_Subset
<1>5. Cardinality(before(a)) \in Nat /\ Cardinality(before(b)) \in Nat
  BY <1>1, <1>4, FS_CardinalityType
<1>6. Place(u, list, a) = Cardinality(before(a)) /\ Place(u, list, b) = Cardinality(before(b))
  BY DEF Place
<1> HIDE DEF before
<1> QED BY <1>4, <1>5, <1>6

\* The accounts of a list have the places 0, 1, ... of it, each another.
LEMMA PlacesAreTaken ==
  ASSUME NEW u \in User, NEW list \in SUBSET Account
  PROVE  /\ IsFiniteSet(list) /\ Cardinality(list) \in Nat
         /\ [a \in list |-> Place(u, list, a)] \in Bijection(list, 0..Cardinality(list) - 1)
<1> DEFINE size == Cardinality(list)
           places == [a \in list |-> Place(u, list, a)]
<1>1. IsFiniteSet(list) /\ size \in Nat
  BY AccessAssumption, FS_Subset, FS_CardinalityType
<1>2. ASSUME NEW a \in list
      PROVE  Place(u, list, a) \in 0..size - 1
  <2> DEFINE before == {b \in list : Before(u, b, a)}
  <2>1. before \in SUBSET list /\ a \notin before
    BY ListIsOrdered
  <2>2. Cardinality(before) \in Nat /\ Cardinality(before) <= size /\ Cardinality(before) # size
    <3> HIDE DEF before
    <3> QED BY <1>1, <2>1, FS_Subset, FS_CardinalityType
  <2>3. Place(u, list, a) = Cardinality(before)
    BY DEF Place
  <2> HIDE DEF before
  <2> QED BY <1>1, <2>2, <2>3
<1>3. ASSUME NEW a \in list, NEW b \in list, Place(u, list, a) = Place(u, list, b)
      PROVE  a = b
  <2>1. SUFFICES ASSUME a # b PROVE FALSE
    OBVIOUS
  <2>2. Place(u, list, a) \in Int /\ Place(u, list, b) \in Int
    BY <1>1, <1>2
  <2>3. Before(u, a, b) \/ Before(u, b, a)
    BY <2>1, ListIsOrdered
  <2> QED BY <1>3, <2>2, <2>3, PlacesGrow
<1>4. places \in Injection(list, 0..size - 1)
  BY <1>2, <1>3 DEF Injection, IsInjective
<1>5. IsFiniteSet(0..size - 1) /\ Cardinality(0..size - 1) = size
  <2>1. size - 1 \in Int
    BY <1>1
  <2>2. IsFiniteSet(0..size - 1) /\ Cardinality(0..size - 1) = IF 0 > size - 1 THEN 0 ELSE size - 1 - 0 + 1
    <3> HIDE DEF size
    <3> QED BY <2>1, FS_Interval
  <2> HIDE DEF size
  <2> QED BY <1>1, <2>2
<1>6. places \in Surjection(list, 0..size - 1)
  <2> HIDE DEF places
  <2> QED BY <1>1, <1>4, <1>5, FS_Injection
<1> QED BY <1>1, <1>4, <1>6 DEF Bijection

\* A page of a list of the accounts has all its entries unless the list ends in it.
LEMMA PagesAreFull ==
  ASSUME NEW u \in User, NEW list \in SUBSET Account,
         NEW offset \in Nat, NEW limit \in Nat, offset < Cardinality(list)
  PROVE  Cardinality({a \in list : Place(u, list, a) \in offset..(offset + limit - 1)}) =
           IF offset + limit <= Cardinality(list) THEN limit ELSE Cardinality(list) - offset
<1> DEFINE size == Cardinality(list)
           places == [a \in list |-> Place(u, list, a)]
           cut == {a \in list : Place(u, list, a) \in offset..(offset + limit - 1)}
           last == IF offset + limit <= size THEN offset + limit - 1 ELSE size - 1
           held == [a \in cut |-> Place(u, list, a)]
<1>1. /\ IsFiniteSet(list) /\ size \in Nat
      /\ places \in Bijection(list, 0..size - 1)
  BY PlacesAreTaken
<1>2. /\ \A a \in list : Place(u, list, a) \in 0..size - 1
      /\ \A a, b \in list : Place(u, list, a) = Place(u, list, b) => a = b
      /\ \A k \in 0..size - 1 : \E a \in list : Place(u, list, a) = k
  BY <1>1 DEF Bijection, Injection, IsInjective, Surjection
<1>3. last \in Int
  <2> HIDE DEF size
  <2> QED BY <1>1
<1>4. \A k \in 0..size - 1 : k \in offset..(offset + limit - 1) <=> k \in offset..last
  <2> HIDE DEF size
  <2> QED BY <1>1
<1>5. offset..last \subseteq 0..size - 1
  <2> HIDE DEF size
  <2> QED BY <1>1
<1>6. held \in Bijection(cut, offset..last)
  <2> HIDE DEF size, last
  <2> QED BY <1>2, <1>4, <1>5 DEF Bijection, Injection, IsInjective, Surjection
<1>7. IsFiniteSet(cut)
  BY <1>1, FS_Subset, cut \in SUBSET list
<1>8. Cardinality(offset..last) = Cardinality(cut)
  <2> HIDE DEF held, cut, last
  <2> QED BY <1>6, <1>7, FS_Bijection DEF ExistsBijection
<1>9. Cardinality(offset..last) = IF offset > last THEN 0 ELSE last - offset + 1
  <2> HIDE DEF last
  <2> QED BY <1>3, FS_Interval
<1>10. Cardinality(cut) = IF offset + limit <= size THEN limit ELSE size - offset
  <2>1. offset < size
    OBVIOUS
  <2> HIDE DEF size, cut
  <2> QED BY <1>1, <1>8, <1>9, <2>1
<1> QED BY <1>10

\* The page of a list is what is cut from it: an account of the list has a role that is shown.
LEMMA PageIsCut ==
  ASSUME NEW u \in User, NEW showHidden \in BOOLEAN, NEW offset, NEW limit
  PROVE  LET list == Paged(u, showHidden) IN
         Page(u, showHidden, offset, limit) = {a \in list : Place(u, list, a) \in offset..(offset + limit - 1)}
BY DEF Page, Paged

\* A page of any size, at any offset before the end of the list, is as full as the total that
\* is answered with it says (getAllRolesByOwner and getTotalAccountsCount, whose limit and
\* offset the request gives).
THEOREM EveryPageIsFull ==
  ASSUME NEW u \in User, NEW showHidden \in BOOLEAN,
         NEW offset \in Nat, NEW limit \in Nat, offset < TotalAccounts(u, showHidden)
  PROVE  Cardinality(Page(u, showHidden, offset, limit)) =
           IF offset + limit <= TotalAccounts(u, showHidden) THEN limit
                                                             ELSE TotalAccounts(u, showHidden) - offset
<1>1. TotalAccounts(u, showHidden) = Cardinality(Paged(u, showHidden))
  BY DEF TotalAccounts, Paged
<1>2. Paged(u, showHidden) \in SUBSET Account
  BY DEF Paged
<1> QED BY <1>1, <1>2, PageIsCut, PagesAreFull

LEMMA ListIsItsPages == PagesMakeTheList
<1> SUFFICES ASSUME NEW u \in User, NEW showHidden \in BOOLEAN
             PROVE  LET total == TotalAccounts(u, showHidden)
                        pages == {Page(u, showHidden, k, 1) : k \in 0..total - 1} IN
                    Cardinality(UNION pages) = total /\ \A page \in pages : Cardinality(page) = 1
  BY DEF PagesMakeTheList
<1> DEFINE total == TotalAccounts(u, showHidden)
           list == Paged(u, showHidden)
           pages == {Page(u, showHidden, k, 1) : k \in 0..total - 1}
<1>1. total = Cardinality(list) /\ list \in SUBSET Account
  BY DEF TotalAccounts, Paged
<1>2. total \in Nat
  BY <1>1, PlacesAreTaken
<1>3. \A a \in list : Place(u, list, a) \in 0..total - 1
  <2>1. [a \in list |-> Place(u, list, a)] \in Bijection(list, 0..total - 1)
    <3> HIDE DEF list, total
    <3> QED BY <1>1, PlacesAreTaken
  <2> HIDE DEF list, total
  <2> QED BY <2>1 DEF Bijection, Injection
<1>4. \A k \in 0..total - 1 : Page(u, showHidden, k, 1) = {a \in list : Place(u, list, a) \in k..k}
  <2>1. \A k \in 0..total - 1 : k + 1 - 1 = k
    <3> HIDE DEF total
    <3> QED BY <1>2
  <2> QED BY <2>1, PageIsCut
<1>5. UNION pages = list
  <2> HIDE DEF list, total
  <2> QED BY <1>2, <1>3, <1>4
<1>6. \A k \in 0..total - 1 : Cardinality(Page(u, showHidden, k, 1)) = 1
  <2> TAKE k \in 0..total - 1
  <2>1. k \in Nat /\ k < total /\ k + 1 <= total
    <3> HIDE DEF total
    <3> QED BY <1>2
  <2> QED BY <2>1, EveryPageIsFull
<1>7. Cardinality(UNION pages) = total
  BY <1>1, <1>5
<1>8. \A page \in pages : Cardinality(page) = 1
  BY <1>6
<1> QED BY <1>7, <1>8

\* The pages of the list of assumable roles make the list, in every state.
THEOREM PagesAreTheList == Spec => []PagesMakeTheList
<1>1. PagesMakeTheList
  BY ListIsItsPages
<1> QED BY <1>1, PTL
=============================================================================
