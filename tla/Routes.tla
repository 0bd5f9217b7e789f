------------------------------- MODULE Routes -------------------------------
(***************************************************************************)
(* The contract of the endpoints: what each one documents and its handler  *)
(* reads, which schema its input is held against, under which key it is    *)
(* reached, and what the web application sends and reads of the answer.    *)
(* The four live in four files, tied by nothing but their strings.         *)
(* An input is a function from the fields that are sent to their values;   *)
(* a value is "any", unless an enumeration tells values apart.             *)
(***************************************************************************)
EXTENDS FiniteSets, Functions, TLC

-----------------------------------------------------------------------------
(* Endpoints: who may call them, the services they call, the fields they   *)
(* read always and at times, and the fields of their answer                *)

Endpoint(admin, in, calls, needs, may, gives) ==
  [admin |-> admin, in |-> in, calls |-> calls, needs |-> needs, may |-> may, gives |-> gives, offers |-> <<>>]

CallerBody(calls, needs, may, gives) == Endpoint(FALSE, "body", calls, needs, may, gives)
CallerQuery(calls, needs, may, gives) == Endpoint(FALSE, "query", calls, needs, may, gives)
AdminBody(calls, needs, may, gives) == Endpoint(TRUE, "body", calls, needs, may, gives)
AdminQuery(calls, needs, may, gives) == Endpoint(TRUE, "query", calls, needs, may, gives)

\* The values that are documented of a field.
Offering(endpoint, values) == [endpoint EXCEPT !.offers = values]

AssumeRoleRoute ==
  CallerBody({"assumeRoleForUser"}, {"principalArn"}, {}, {"accessKeyId", "secretAccessKey", "sessionToken",
      "expiration"})
GenerateConsoleUrlRoute ==
  CallerBody({"getSigninToken", "getLoginUrl"}, {"accessKeyId", "secretAccessKey"}, {"sessionToken",
      "awsAccountId", "roleName", "destinationPath", "destinationRegion"}, {"url"})
FederateRoute ==
  CallerQuery({"getRoleConfig", "generateConsoleUrlForUser"}, {"awsAccountId", "role"}, {"destinationPath",
      "destinationRegion"}, {})
RevokeAccessRoute == AdminBody({"revokeAccess"}, {"awsAccountId", "roleName"}, {"userEmail"}, {"success",
      "message"})
GrantAccessRoute == AdminBody({"grantAccess"}, {"awsAccountId", "roleName"}, {"userEmail"}, {"success",
      "message"})
RemoveAccountNicknameRoute == AdminBody({"removeNickname"}, {"awsAccountId"}, {}, {"success", "message",
      "accountId"})
SetAccountNicknameRoute ==
  AdminBody({"setNickname"}, {"awsAccountId", "nickname"}, {}, {"success", "message", "accountId", "nickname"})
ListAccountRolesRoute == AdminBody({"listAccountRoles"}, {"principalArn"}, {}, {"roles"})
ListAuditLogsRoute ==
  AdminQuery({"resolveUserId", "queryLogs"}, {}, {"userEmail", "action", "startTime", "endTime", "limit",
      "offset"}, {"logs", "total"})
DisableDataCollectionRoute ==
  Offering(AdminBody({"disableCollection"}, {"principalArn", "collectionType"}, {}, {"success", "message"}),
      "collectionType" :> {"cost", "resource"})
EnableDataCollectionRoute ==
  Offering(AdminBody({"enableCollection"}, {"principalArn", "collectionTypes"}, {}, {"success", "message"}),
      "collectionTypes" :> {"cost", "resource"})
DeleteSpendAlertRoute == AdminBody({"deleteAlert"}, {"alertId"}, {}, {"success", "message"})
CreateSpendAlertRoute ==
  Offering(AdminBody({"createAlert"}, {"awsAccountId", "thresholdAmount"}, {"periodType"}, {"success",
      "alert"}), "periodType" :> {"daily", "monthly"})
StoreCredentialRoute ==
  AdminBody({"storeCredential"}, {"principalArn", "accessKeyId", "secretAccessKey"}, {"sessionToken"},
      {"success", "message"})
RemoveCredentialRelationshipRoute == AdminBody({"removeCredential"}, {"principalArn"}, {}, {"success",
      "message"})
StoreCredentialRelationshipRoute ==
  AdminBody({"storeCredentialRelationship"}, {"principalArn", "assumedBy"}, {}, {"success", "message"})
TestCredentialChainRoute == AdminBody({"testChain"}, {"principalArn"}, {}, {"success", "chain"})
ValidateCredentialsRoute ==
  AdminBody({"validateCredentials"}, {"accessKeyId", "secretAccessKey"}, {"sessionToken"}, {"valid", "arn",
      "accountId", "userId"})
CleanupOrphanedDataRoute == AdminBody({"cleanupOrphanedData"}, {}, {}, {"deletedCounts", "totalDeleted",
      "failures"})
ListTaskRunsRoute == AdminQuery({"listTaskRuns"}, {}, {"taskType", "status", "limit"}, {"runs"})
DeleteRoleConfigRoute == AdminBody({"deleteRoleConfig"}, {"awsAccountId", "roleName"}, {}, {"success",
      "message"})
SetRoleConfigRoute ==
  AdminBody({"setRoleConfig"}, {"awsAccountId", "roleName"}, {"destinationPath", "destinationRegion",
      "roleSessionDurationSeconds"}, {"success", "message"})
DeleteTeamRoute == AdminBody({"deleteTeam"}, {"teamId"}, {}, {"success", "message"})
CreateTeamRoute == AdminBody({"createTeam"}, {"teamName"}, {}, {"success", "team"})
RemoveTeamAccountRoute == AdminBody({"removeAccount"}, {"teamId", "awsAccountId"}, {}, {"success", "message"})
AddTeamAccountRoute == AdminBody({"addAccount"}, {"teamId", "awsAccountId"}, {}, {"success", "message"})
ListTeamAccountsRoute == AdminQuery({"listAccounts"}, {"teamId"}, {}, {"accountIds"})
RemoveTeamMemberRoute == AdminBody({"removeMember"}, {"teamId", "userEmail"}, {}, {"success", "message"})
AddTeamMemberRoute ==
  Offering(AdminBody({"addMember"}, {"teamId", "userEmail"}, {"role"}, {"success", "message"}),
      "role" :> {"admin", "member"})
UpdateTeamMemberRoleRoute ==
  Offering(AdminBody({"updateMemberRole"}, {"teamId", "userEmail", "role"}, {}, {"success", "message"}),
      "role" :> {"admin", "member"})
ListTeamMembersRoute == AdminQuery({"listMembers"}, {"teamId"}, {}, {"members"})
UpdateTeamNameRoute == AdminBody({"updateTeamName"}, {"teamId", "teamName"}, {}, {"success", "message"})
ListTeamsRoute == AdminQuery({"listTeams"}, {}, {}, {"teams"})
UnhideRoleRoute == CallerBody({"unhideRole"}, {"awsAccountId", "roleName"}, {}, {"success"})
HideRoleRoute == CallerBody({"hideRole"}, {"awsAccountId", "roleName"}, {}, {"success"})
ListAssumablesRoute == CallerQuery({"listAssumables"}, {}, {"showHidden", "limit", "offset"}, {"totalAccounts"})
SearchAccountsRoute == CallerQuery({"searchAccounts"}, {"q"}, {"showHidden"}, {})
GetAccountCostRoute ==
  CallerQuery({"getAccountCost"}, {"awsAccountId"}, {"startDate", "endDate"}, {"awsAccountId", "dailyCosts",
      "serviceBreakdown", "total"})
GetCostSummaryRoute == CallerQuery({"getSummary"}, {}, {}, {"accounts", "grandTotal", "currency"})
GetCostTrendsRoute == CallerQuery({"getTrends"}, {}, {"months"}, {"months"})
UnfavoriteAccountRoute == CallerBody({"unfavoriteAccount"}, {"awsAccountId"}, {}, {"success"})
FavoriteAccountRoute == CallerBody({"favoriteAccount"}, {"awsAccountId"}, {}, {"success"})
GetCurrentUserRoute ==
  CallerQuery({"getCurrentUser"}, {}, {}, {"email", "isSuperAdmin", "demoMode", "preferredLanguage"})
UpdateCurrentUserRoute ==
  CallerBody({"updatePreferredLanguage"}, {}, {"preferredLanguage"}, {"success", "preferredLanguage"})
ListResourcesRoute ==
  Offering(CallerQuery({"searchResources"}, {}, {"type", "accountId", "search", "limit", "offset"}, {"items",
      "total", "rolesByAccount"}), "type" :> {"ec2", "s3", "lambda", "rds", "dynamodb"})
GetResourceSummaryRoute == CallerQuery({"getSummary"}, {}, {}, {"totalResources", "byType", "byAccount"})
DeleteTokenRoute == CallerBody({"deleteToken"}, {"tokenId"}, {}, {"success"})
ListTokensRoute == CallerQuery({"listTokens"}, {}, {}, {"tokens"})
CreateTokenRoute ==
  CallerBody({"createToken"}, {"name"}, {"expiresInDays"}, {"tokenId", "token", "name", "expiresAt"})

-----------------------------------------------------------------------------
(* Schemas of the input *)

Schema(needs, may) == [needs |-> needs, may |-> may, only |-> <<>>, together |-> {}]
Extend(schema, needs, may) == [schema EXCEPT !.needs = @ \cup needs, !.may = @ \cup may]
Only(schema, values) == [schema EXCEPT !.only = values]

PrincipalArnBody == Schema({"principalArn"}, {})
AccountRoleBody == Schema({"awsAccountId", "roleName"}, {})
OptionalUserAccountRoleBody == Extend(AccountRoleBody, {}, {"userEmail"})
AwsCredentialsBody == Schema({"accessKeyId", "secretAccessKey"}, {"sessionToken"})
StoreCredentialBody == Extend(AwsCredentialsBody, {"principalArn"}, {})
CredentialRelationshipBody == Schema({"principalArn", "assumedBy"}, {})
GenerateConsoleUrlBody ==
  [Extend(AwsCredentialsBody, {}, {"awsAccountId", "roleName", "destinationPath", "destinationRegion"})
     EXCEPT !.together = {{"awsAccountId", "roleName"}}]
FavoriteAccountBody == Schema({"awsAccountId"}, {})
HiddenRoleBody == AccountRoleBody
UpdateCurrentUserBody == Schema({}, {"preferredLanguage"})
CreateTokenBody == Schema({"name"}, {"expiresInDays"})
DeleteTokenBody == Schema({"tokenId"}, {})
SetAccountNicknameBody == Schema({"awsAccountId", "nickname"}, {})
RoleConfigBody == Extend(AccountRoleBody, {}, {"destinationPath", "destinationRegion",
      "roleSessionDurationSeconds"})
CreateSpendAlertBody ==
  Only(Schema({"awsAccountId", "thresholdAmount"}, {"periodType"}), "periodType" :> {"daily", "monthly"})
DeleteSpendAlertBody == Schema({"alertId"}, {})
EnableDataCollectionBody ==
  Only(Schema({"principalArn", "collectionTypes"}, {}), "collectionTypes" :> {"cost", "resource"})
DisableDataCollectionBody ==
  Only(Schema({"principalArn", "collectionType"}, {}), "collectionType" :> {"cost", "resource"})
CreateTeamBody == Schema({"teamName"}, {})
TeamIdBody == Schema({"teamId"}, {})

\* Slip: the body of its parent, without the field of its own.
UpdateTeamNameBare == TeamIdBody

UpdateTeamNameBody == Extend(TeamIdBody, {"teamName"}, {})

TeamMemberBody == Extend(TeamIdBody, {"userEmail"}, {})
AddTeamMemberBody == Only(Extend(TeamMemberBody, {}, {"role"}), "role" :> {"admin", "member"})
UpdateTeamMemberRoleBody == Only(Extend(TeamMemberBody, {"role"}, {}), "role" :> {"admin", "member"})
TeamAccountBody == Extend(TeamIdBody, {"awsAccountId"}, {})
FederateQuery == Schema({"awsAccountId", "role"}, {})
ListAssumablesQuery == Schema({}, {"showHidden", "limit", "offset"})
SearchAssumablesQuery == Schema({"q"}, {"showHidden"})
AccountCostQuery == Schema({"awsAccountId"}, {"startDate", "endDate"})
CostTrendsQuery == Schema({}, {"months"})
ListResourcesQuery ==
  Only(Schema({}, {"accountId", "type", "search", "limit", "offset"}), "type" :> {"ec2", "s3", "lambda", "rds"})
AuditLogsQuery == Schema({}, {"userEmail", "action", "startTime", "endTime", "limit", "offset"})
TeamIdQuery == Schema({"teamId"}, {})
TaskRunsQuery == Schema({}, {"taskType", "status", "limit"})

Body(schema) == [in |-> "body", schema |-> schema]
Query(schema) == [in |-> "query", schema |-> schema]

RequestInputSchemas ==
     "POST /api/aws/console" :> Body(GenerateConsoleUrlBody)
  @@ "POST /api/aws/assume-role" :> Body(PrincipalArnBody)
  @@ "GET /api/aws/federate" :> Query(FederateQuery)
  @@ "POST /user/aws/console" :> Body(GenerateConsoleUrlBody)
  @@ "POST /user/aws/assume-role" :> Body(PrincipalArnBody)
  @@ "GET /user/aws/federate" :> Query(FederateQuery)
  @@ "GET /user/assumables" :> Query(ListAssumablesQuery)
  @@ "GET /user/assumables/search" :> Query(SearchAssumablesQuery)
  @@ "POST /user/favorites" :> Body(FavoriteAccountBody)
  @@ "DELETE /user/favorites" :> Body(FavoriteAccountBody)
  @@ "PUT /user/me" :> Body(UpdateCurrentUserBody)
  @@ "POST /user/assumable/hidden" :> Body(HiddenRoleBody)
  @@ "DELETE /user/assumable/hidden" :> Body(HiddenRoleBody)
  @@ "POST /user/tokens" :> Body(CreateTokenBody)
  @@ "DELETE /user/tokens" :> Body(DeleteTokenBody)
  @@ "POST /user/admin/credentials" :> Body(StoreCredentialBody)
  @@ "POST /user/admin/credentials/relationship" :> Body(CredentialRelationshipBody)
  @@ "DELETE /user/admin/credentials/relationship" :> Body(PrincipalArnBody)
  @@ "POST /user/admin/access" :> Body(OptionalUserAccountRoleBody)
  @@ "DELETE /user/admin/access" :> Body(OptionalUserAccountRoleBody)
  @@ "PUT /user/admin/account/nickname" :> Body(SetAccountNicknameBody)
  @@ "DELETE /user/admin/account/nickname" :> Body(FavoriteAccountBody)
  @@ "PUT /user/admin/role/config" :> Body(RoleConfigBody)
  @@ "DELETE /user/admin/role/config" :> Body(AccountRoleBody)
  @@ "POST /user/admin/credentials/validate" :> Body(AwsCredentialsBody)
  @@ "POST /user/admin/credentials/test-chain" :> Body(PrincipalArnBody)
  @@ "POST /user/admin/account/roles" :> Body(PrincipalArnBody)
  @@ "GET /user/admin/audit-logs" :> Query(AuditLogsQuery)
  @@ "GET /user/admin/maintenance/task-runs" :> Query(TaskRunsQuery)
  @@ "GET /user/costs/account" :> Query(AccountCostQuery)
  @@ "GET /user/costs/trends" :> Query(CostTrendsQuery)
  @@ "POST /user/admin/costs/alerts" :> Body(CreateSpendAlertBody)
  @@ "DELETE /user/admin/costs/alerts" :> Body(DeleteSpendAlertBody)
  @@ "POST /user/admin/collection/config" :> Body(EnableDataCollectionBody)
  @@ "DELETE /user/admin/collection/config" :> Body(DisableDataCollectionBody)
  @@ "GET /user/resources" :> Query(ListResourcesQuery)
  @@ "POST /user/admin/team" :> Body(CreateTeamBody)
  @@ "DELETE /user/admin/team" :> Body(TeamIdBody)
  @@ "PUT /user/admin/team/name" :> Body(UpdateTeamNameBody)
  @@ "POST /user/admin/team/member" :> Body(AddTeamMemberBody)
  @@ "DELETE /user/admin/team/member" :> Body(TeamMemberBody)
  @@ "GET /user/admin/team/members" :> Query(TeamIdQuery)
  @@ "PUT /user/admin/team/member/role" :> Body(UpdateTeamMemberRoleBody)
  @@ "POST /user/admin/team/account" :> Body(TeamAccountBody)
  @@ "DELETE /user/admin/team/account" :> Body(TeamAccountBody)
  @@ "GET /user/admin/team/accounts" :> Query(TeamIdQuery)

-----------------------------------------------------------------------------
(* The keys under which the endpoints are registered *)

registerAwsRoutes ==
     "POST /user/aws/console" :> GenerateConsoleUrlRoute
  @@ "POST /user/aws/assume-role" :> AssumeRoleRoute
  @@ "GET /user/aws/federate" :> FederateRoute

registerUserAccountRoutes ==
     "GET /user/assumables" :> ListAssumablesRoute
  @@ "GET /user/assumables/search" :> SearchAccountsRoute
  @@ "GET /user/me" :> GetCurrentUserRoute
  @@ "PUT /user/me" :> UpdateCurrentUserRoute
  @@ "POST /user/favorites" :> FavoriteAccountRoute
  @@ "DELETE /user/favorites" :> UnfavoriteAccountRoute
  @@ "POST /user/assumable/hidden" :> HideRoleRoute
  @@ "DELETE /user/assumable/hidden" :> UnhideRoleRoute
  @@ "POST /user/tokens" :> CreateTokenRoute
  @@ "DELETE /user/tokens" :> DeleteTokenRoute
  @@ "GET /user/tokens" :> ListTokensRoute

registerAdminAccountRoutes ==
     "POST /user/admin/credentials" :> StoreCredentialRoute
  @@ "POST /user/admin/credentials/relationship" :> StoreCredentialRelationshipRoute
  @@ "DELETE /user/admin/credentials/relationship" :> RemoveCredentialRelationshipRoute
  @@ "POST /user/admin/access" :> GrantAccessRoute
  @@ "DELETE /user/admin/access" :> RevokeAccessRoute
  @@ "PUT /user/admin/account/nickname" :> SetAccountNicknameRoute
  @@ "DELETE /user/admin/account/nickname" :> RemoveAccountNicknameRoute
  @@ "PUT /user/admin/role/config" :> SetRoleConfigRoute
  @@ "DELETE /user/admin/role/config" :> DeleteRoleConfigRoute
  @@ "POST /user/admin/credentials/validate" :> ValidateCredentialsRoute
  @@ "POST /user/admin/credentials/test-chain" :> TestCredentialChainRoute
  @@ "POST /user/admin/account/roles" :> ListAccountRolesRoute
  @@ "GET /user/admin/audit-logs" :> ListAuditLogsRoute

registerCostRoutes ==
     "GET /user/costs/summary" :> GetCostSummaryRoute
  @@ "GET /user/costs/account" :> GetAccountCostRoute
  @@ "GET /user/costs/trends" :> GetCostTrendsRoute
  @@ "POST /user/admin/costs/alerts" :> CreateSpendAlertRoute
  @@ "DELETE /user/admin/costs/alerts" :> DeleteSpendAlertRoute
  @@ "POST /user/admin/collection/config" :> EnableDataCollectionRoute
  @@ "DELETE /user/admin/collection/config" :> DisableDataCollectionRoute

registerResourceRoutes ==
     "GET /user/resources" :> ListResourcesRoute
  @@ "GET /user/resources/summary" :> GetResourceSummaryRoute

registerTeamRoutes ==
     "POST /user/admin/team" :> CreateTeamRoute
  @@ "DELETE /user/admin/team" :> DeleteTeamRoute
  @@ "GET /user/admin/teams" :> ListTeamsRoute
  @@ "PUT /user/admin/team/name" :> UpdateTeamNameRoute
  @@ "POST /user/admin/team/member" :> AddTeamMemberRoute
  @@ "DELETE /user/admin/team/member" :> RemoveTeamMemberRoute
  @@ "GET /user/admin/team/members" :> ListTeamMembersRoute
  @@ "PUT /user/admin/team/member/role" :> UpdateTeamMemberRoleRoute
  @@ "POST /user/admin/team/account" :> AddTeamAccountRoute
  @@ "DELETE /user/admin/team/account" :> RemoveTeamAccountRoute
  @@ "GET /user/admin/team/accounts" :> ListTeamAccountsRoute

registerMaintenanceRoutes ==
     "POST /user/admin/maintenance/cleanup-orphaned" :> CleanupOrphanedDataRoute
  @@ "GET /user/admin/maintenance/task-runs" :> ListTaskRunsRoute

registerApiRoutes ==
     "POST /api/aws/console" :> GenerateConsoleUrlRoute
  @@ "POST /api/aws/assume-role" :> AssumeRoleRoute
  @@ "GET /api/aws/federate" :> FederateRoute

Registered ==
  registerAwsRoutes @@ registerUserAccountRoutes @@ registerAdminAccountRoutes @@ registerCostRoutes
  @@ registerResourceRoutes @@ registerTeamRoutes @@ registerMaintenanceRoutes @@ registerApiRoutes

-----------------------------------------------------------------------------
(* The calls of the web application: the key, the fields it sends always   *)
(* and at times, and the fields it reads of the answer                     *)

Call(key, needs, may, reads) == [key |-> key, needs |-> needs, may |-> may, reads |-> reads, offers |-> <<>>]

\* The values among which its pages let the user choose.
Valued(call, values) == [call EXCEPT !.offers = values]

accountService == {
  Call("GET /user/assumables/search", {"q"}, {"showHidden"}, {}),
  Call("GET /user/assumables", {"limit", "offset"}, {"showHidden"}, {"totalAccounts"}),
  Call("POST /user/favorites", {"awsAccountId"}, {}, {}),
  Call("DELETE /user/favorites", {"awsAccountId"}, {}, {}),
  Call("POST /user/assumable/hidden", {"awsAccountId", "roleName"}, {}, {}),
  Call("DELETE /user/assumable/hidden", {"awsAccountId", "roleName"}, {}, {}),
  Call("POST /user/aws/assume-role", {"principalArn"}, {}, {"accessKeyId", "secretAccessKey", "sessionToken"}),
  Call("GET /user/aws/federate", {"awsAccountId", "role"}, {"destinationPath", "destinationRegion"}, {})}

adminService == {
  Call("PUT /user/admin/account/nickname", {"awsAccountId", "nickname"}, {}, {}),
  Call("DELETE /user/admin/account/nickname", {"awsAccountId"}, {}, {}),
  Call("POST /user/admin/credentials", {"principalArn", "accessKeyId", "secretAccessKey"}, {"sessionToken"},
      {}),
  Call("POST /user/admin/credentials/relationship", {"principalArn", "assumedBy"}, {}, {}),
  Call("DELETE /user/admin/credentials/relationship", {"principalArn"}, {}, {}),
  Call("POST /user/admin/credentials/validate", {"accessKeyId", "secretAccessKey"}, {"sessionToken"}, {"arn",
      "accountId"}),
  Call("POST /user/admin/credentials/test-chain", {"principalArn"}, {}, {"success", "chain"}),
  Call("POST /user/admin/account/roles", {"principalArn"}, {}, {"roles"}),
  Call("POST /user/admin/access", {"awsAccountId", "roleName"}, {"userEmail"}, {}),
  Call("DELETE /user/admin/access", {"awsAccountId", "roleName"}, {"userEmail"}, {}),
  Call("PUT /user/admin/role/config", {"awsAccountId", "roleName"}, {"destinationPath", "destinationRegion",
      "roleSessionDurationSeconds"}, {}),
  Call("DELETE /user/admin/role/config", {"awsAccountId", "roleName"}, {}, {}),
  Valued(Call("POST /user/admin/collection/config", {"principalArn", "collectionTypes"}, {}, {}),
      "collectionTypes" :> {"cost", "resource"}),
  Valued(Call("DELETE /user/admin/collection/config", {"principalArn", "collectionType"}, {}, {}),
      "collectionType" :> {"cost", "resource"}),
  Valued(Call("POST /user/admin/costs/alerts", {"awsAccountId", "thresholdAmount"}, {"periodType"},
      {"alert"}), "periodType" :> {"daily", "monthly"}),
  Call("DELETE /user/admin/costs/alerts", {"alertId"}, {}, {}),
  Call("POST /user/admin/maintenance/cleanup-orphaned", {}, {}, {"deletedCounts", "totalDeleted", "failures"})}

auditService == {
  Call("GET /user/admin/audit-logs", {"limit", "offset"}, {"userEmail", "action"}, {"logs", "total"})}

authService == {
  Call("GET /user/me", {}, {}, {"email", "isSuperAdmin", "demoMode", "preferredLanguage"}),
  Call("PUT /user/me", {"preferredLanguage"}, {}, {})}

costService == {
  Call("GET /user/costs/summary", {}, {}, {"accounts", "grandTotal", "currency"}),
  Call("GET /user/costs/trends", {"months"}, {}, {"months"})}

resourceService == {
  Call("GET /user/resources/summary", {}, {}, {"totalResources", "byType", "byAccount"}),
  Valued(Call("GET /user/resources", {"limit", "offset"}, {"type", "search"}, {"items", "total",
      "rolesByAccount"}), "type" :> {"ec2", "s3", "lambda", "rds", "dynamodb"})}

teamsService == {
  Call("GET /user/admin/teams", {}, {}, {"teams"}),
  Call("POST /user/admin/team", {"teamName"}, {}, {"team"}),
  Call("DELETE /user/admin/team", {"teamId"}, {}, {}),
  Call("PUT /user/admin/team/name", {"teamId", "teamName"}, {}, {}),
  Call("GET /user/admin/team/members", {"teamId"}, {}, {"members"}),
  Valued(Call("POST /user/admin/team/member", {"teamId", "userEmail", "role"}, {}, {}), "role" :> {"admin",
      "member"}),
  Call("DELETE /user/admin/team/member", {"teamId", "userEmail"}, {}, {}),
  Valued(Call("PUT /user/admin/team/member/role", {"teamId", "userEmail", "role"}, {}, {}),
      "role" :> {"admin", "member"}),
  Call("GET /user/admin/team/accounts", {"teamId"}, {}, {"accountIds"}),
  Call("POST /user/admin/team/account", {"teamId", "awsAccountId"}, {}, {}),
  Call("DELETE /user/admin/team/account", {"teamId", "awsAccountId"}, {}, {})}

WebCalls == UNION {accountService, adminService, auditService, authService, costService, resourceService,
      teamsService}

-----------------------------------------------------------------------------
(* Validation *)

\* The inputs with the fields of needs, some of may, and the values that are offered.
Inputs(needs, may, offers) ==
  LET picks == {pick \in [DOMAIN offers -> UNION Range(offers)] : \A f \in DOMAIN pick : pick[f] \in offers[f]} IN
  {[f \in needs \cup extra |-> IF f \in DOMAIN pick THEN pick[f] ELSE "any"] : extra \in SUBSET may, pick \in picks}

Has(schema, input) ==
  /\ schema.needs \subseteq DOMAIN input
  /\ \A f \in DOMAIN schema.only \cap DOMAIN input : input[f] \in schema.only[f]
  /\ \A fields \in schema.together : fields \subseteq DOMAIN input \/ fields \cap DOMAIN input = {}

\* validateRequestInput holds the query or the body against the schema of the key, if there is one.
Accepts(key, endpoint, input) ==
  LET entry == RequestInputSchemas[key] IN
  key \in DOMAIN RequestInputSchemas => Has(entry.schema, IF entry.in = endpoint.in THEN input ELSE <<>>)

\* What the handler reads: of a body only the fields of its schema are left, a query it reads from the URL.
Received(key, endpoint, input) ==
  LET entry == RequestInputSchemas[key] IN
  IF key \in DOMAIN RequestInputSchemas /\ entry.in = "body" /\ endpoint.in = "body"
    THEN Restrict(input, DOMAIN input \cap (entry.schema.needs \cup entry.schema.may))
    ELSE input

-----------------------------------------------------------------------------
(* Everything that is asked, in what the request pipeline tells apart *)

Effect(endpoint) == IF endpoint.calls \subseteq {"createToken", "deleteToken"} THEN endpoint.calls ELSE {}

\* Why an input is refused: one half of an optional pair, a type of resource that is offered and not accepted,
\* or nothing that excuses it.
Refusal(endpoint, input) ==
  LET pair == {"awsAccountId", "roleName"} IN
  IF pair \subseteq endpoint.may /\ Cardinality(pair \cap DOMAIN input) = 1 THEN "half"
  ELSE IF "type" \in DOMAIN input /\ input["type"] = "dynamodb" THEN "type" ELSE "unfair"

\* An input sent rightly is documented, or one that the web application sends. It is served in full when the
\* handler has all it reads, and all that was sent, and answers what is read of it.
Ask(key, input, rightly, reads) ==
  LET known == key \in DOMAIN Registered
      endpoint == IF known THEN Registered[key] ELSE CallerBody({}, {}, {}, {})
      received == Received(key, endpoint, input)
      surface == IF key \in DOMAIN registerApiRoutes THEN "api" ELSE "user" IN
  IF Accepts(key, endpoint, input)
    THEN [surface |-> surface, refusal |-> "no", admin |-> endpoint.admin, effect |-> Effect(endpoint),
          inFull |-> known /\ endpoint.needs \subseteq DOMAIN received /\ (rightly => received = input) /\ reads \subseteq endpoint.gives]
    ELSE [surface |-> surface, refusal |-> IF rightly THEN Refusal(endpoint, input) ELSE "deserved"]

Documented ==
  LET of(key, e) == {Ask(key, input, TRUE, {}) : input \in Inputs(e.needs, e.may, e.offers)} IN
  UNION {of(key, Registered[key]) : key \in DOMAIN Registered}

Incomplete ==
  LET without(key, field) == Inputs(Registered[key].needs \ {field}, {}, <<>>)
      of(key) == UNION {{Ask(key, input, FALSE, {}) : input \in without(key,
      field)} : field \in Registered[key].needs} IN
  UNION {of(key) : key \in DOMAIN Registered}

FromTheWeb ==
  LET of(call) == {Ask(call.key, input, TRUE, call.reads) : input \in Inputs(call.needs, call.may, call.offers)} IN
  UNION {of(call) : call \in WebCalls}

Asks == Documented \cup Incomplete \cup FromTheWeb
=============================================================================
