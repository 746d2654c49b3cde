----------------------------- MODULE AuraCallsProofs -----------------------------
(***************************************************************************)
(* Theorems about AuraCalls, for all ids, base URLs, replies and changes   *)
(* of the credentials.                                                     *)
(***************************************************************************)
EXTENDS AuraCalls, TLAPS
--------------------------------------------------------------------------------

(***************************************************************************)
(* The token of the source is for the credentials it was made with, and    *)
(* while a reconcile is at work these are the ones it has read.            *)
(***************************************************************************)
TokenInv ==
    /\ source \in TokenSource
    /\ keys \in 1..MaxKeys
    /\ source.token \in {0, source.keys}
    /\ step # "idle" => source.keys = began
    /\ OwnCredentials

LEMMA TokenInvInductive ==
  ASSUME TokenInv, [Next]_vars
  PROVE  TokenInv'
<1> USE DEF TokenInv, OwnCredentials
<1>1. ASSUME Return(Failure), UNCHANGED source, step # "idle"
      PROVE  TokenInv'
  BY <1>1 DEF Return
<1>2. CASE Begin
  <2>1. source'.keys = keys /\ source'.token = 0 /\ source' \in TokenSource
    BY <1>2, CallsAssumption DEF Begin, NewTokenSource, TokenSource
  <2>2. began' = keys /\ keys' = keys /\ step' = "ready"
    BY <1>2 DEF Begin
  <2>3. QED
    BY <2>1, <2>2
<1>3. CASE Call
  <2>1. UNCHANGED <<source, keys, began>> /\ step = "ready" /\ step' \in {"built", "ready"}
    BY <1>3 DEF Call, Return
  <2>2. QED
    BY <2>1
<1>4. CASE EditorFails
  BY <1>4, <1>1 DEF EditorFails
<1>5. CASE Authorize
  <2> DEFINE token == IF source.token # 0 THEN source.token ELSE source.keys
  <2>1. token = source.keys
    BY DEF TokenSource
  <2>2. /\ source' = [source EXCEPT !.token = token]
        /\ bearer' = token
        /\ step = "built" /\ step' = "sent"
        /\ UNCHANGED <<keys, began>>
    BY <1>5 DEF Authorize
  <2>3. source' = [source EXCEPT !.token = source.keys] /\ bearer' = source.keys
    BY <2>1, <2>2
  <2>4. source' \in TokenSource /\ source'.token = source.keys /\ source'.keys = source.keys
    BY <2>3 DEF TokenSource
  <2>5. QED
    BY <2>2, <2>3, <2>4
<1>6. CASE TokenRefused
  BY <1>6, <1>1 DEF TokenRefused
<1>7. CASE RoundTrip
  <2>1. UNCHANGED <<source, keys, began>> /\ step = "sent" /\ step' \in {"replied", "ready"}
    BY <1>7 DEF RoundTrip, Return
  <2>2. QED
    BY <2>1
<1>8. CASE ReadReply
  <2>1. UNCHANGED <<source, keys, began>> /\ step = "replied" /\ step' = "ready"
    BY <1>8 DEF ReadReply, Return
  <2>2. QED
    BY <2>1
<1>9. CASE End
  BY <1>9 DEF End
<1>10. CASE TokenExpires
  <2>1. source' = [source EXCEPT !.token = 0] /\ UNCHANGED <<keys, began, step, bearer>>
    BY <1>10 DEF TokenExpires
  <2>2. source' \in TokenSource /\ source'.token = 0 /\ source'.keys = source.keys
    BY <2>1, CallsAssumption DEF TokenSource
  <2>3. QED
    BY <2>1, <2>2
<1>11. CASE RotateKeys
  BY <1>11, CallsAssumption DEF RotateKeys
<1>12. CASE UNCHANGED vars
  BY <1>12 DEF vars
<1>13. QED
  BY <1>2, <1>3, <1>4, <1>5, <1>6, <1>7, <1>8, <1>9, <1>10, <1>11, <1>12 DEF Next

(***************************************************************************)
(* A request carries a token for the credentials its reconcile has read    *)
(* (httpClient), however often the credentials change, tokens expire and   *)
(* reconciles begin.                                                       *)
(***************************************************************************)
THEOREM OwnCredentialsHolds == Spec => []OwnCredentials
<1>1. Init => TokenInv
  BY CallsAssumption DEF Init, TokenInv, OwnCredentials, TokenSource
<1>2. TokenInv /\ [Next]_vars => TokenInv'
  BY TokenInvInductive
<1>3. TokenInv => OwnCredentials
  BY DEF TokenInv
<1>4. QED
  BY <1>1, <1>2, <1>3, PTL DEF Spec

--------------------------------------------------------------------------------

\* What paths are made of: ids and the words of the templates.
Words == {"customer-managed-keys", "graph-analytics", "sessions", "sizing", "instances",
          "overwrite", "pause", "resume", "snapshots", "restore", "upgrade", "tenants",
          "metrics-integration"}

Segments == Ids \cup Words \cup STRING \cup {""}

(***************************************************************************)
(* The operation a method and a template belong to, and the ids in it: the *)
(* table a server would route requests by.                                 *)
(***************************************************************************)
RouteOfKeys(method, path) ==
    IF Len(path) = 1
    THEN IF method = "GET" THEN <<"GetCustomerManagedKeys", <<>>>>
         ELSE <<"PostCustomerManagedKeys", <<>>>>
    ELSE IF method = "GET" THEN <<"GetCustomerManagedKeyId", <<path[2]>>>>
         ELSE <<"DeleteCustomerManagedKeyId", <<path[2]>>>>

RouteOfSessions(method, path) ==
    IF Len(path) = 2
    THEN IF method = "GET" THEN <<"GetSessions", <<>>>> ELSE <<"PostSession", <<>>>>
    ELSE IF method = "POST" THEN <<"PostSessionsSizing", <<>>>>
         ELSE IF method = "GET" THEN <<"GetSession", <<path[3]>>>>
         ELSE <<"DeleteSession", <<path[3]>>>>

RouteOfInstances(method, path) ==
    IF Len(path) = 1
    THEN IF method = "GET" THEN <<"GetInstances", <<>>>> ELSE <<"PostInstances", <<>>>>
    ELSE IF method = "POST" THEN <<"PostInstancesSizing", <<>>>>
         ELSE IF method = "GET" THEN <<"GetInstanceId", <<path[2]>>>>
         ELSE IF method = "PATCH" THEN <<"PatchInstanceId", <<path[2]>>>>
         ELSE <<"DeleteInstanceId", <<path[2]>>>>

RouteOfActions(path) ==
    IF path[3] = "overwrite" THEN <<"PostOverwriteInstance", <<path[2]>>>>
    ELSE IF path[3] = "pause" THEN <<"PostPauseInstance", <<path[2]>>>>
    ELSE IF path[3] = "resume" THEN <<"PostResumeInstance", <<path[2]>>>>
    ELSE <<"PostUpgradeInstance", <<path[2]>>>>

RouteOfSnapshots(method, path) ==
    IF Len(path) = 3
    THEN IF method = "GET" THEN <<"GetSnapshots", <<path[2]>>>>
         ELSE <<"PostSnapshots", <<path[2]>>>>
    ELSE IF method = "GET" THEN <<"GetSnapshotSnapshotid", <<path[2], path[4]>>>>
         ELSE <<"PostRestoreSnapshot", <<path[2], path[4]>>>>

RouteOfProjects(path) ==
    IF Len(path) = 1 THEN <<"GetProjects", <<>>>>
    ELSE IF Len(path) = 2 THEN <<"GetProjectId", <<path[2]>>>>
    ELSE <<"GetProjectMetricsIntegrationDetails", <<path[2]>>>>

Route(method, path) ==
    IF path[1] = "customer-managed-keys" THEN RouteOfKeys(method, path)
    ELSE IF path[1] = "graph-analytics" THEN RouteOfSessions(method, path)
    ELSE IF path[1] = "tenants" THEN RouteOfProjects(path)
    ELSE IF Len(path) <= 2 THEN RouteOfInstances(method, path)
    ELSE IF path[3] = "snapshots" THEN RouteOfSnapshots(method, path)
    ELSE RouteOfActions(path)

(***************************************************************************)
(* The paths of the templates: five segments at most, words and ids, each  *)
(* id after a word.                                                        *)
(***************************************************************************)
Paths(ids) ==
    {path \in Seq(Segments) :
        /\ Len(path) \in 1..5
        /\ path[1] \in Words
        /\ \A i \in 1..Len(path) :
               path[i] \in Words \/ \E j \in 1..Len(ids) : path[i] = ids[j]
        /\ \A i \in 2..Len(path) : path[i] \in Words \/ path[i - 1] \in Words}

\* A request that some builder makes from the base URL, along its route.
Built(operation, server) ==
    \E method, query, body : \E path \in Paths(operation.ids) :
        /\ operation.request = Build(method, server, path, query, body)
        /\ Route(method, path) = <<operation.op, operation.ids>>

LEMMA BuildIsBuilt ==
  ASSUME NEW server, NEW op, NEW ids, NEW method, NEW path \in Paths(ids),
         NEW query, NEW body,
         Route(method, path) = <<op, ids>>
  PROVE  Built(Operation(op, ids, Build(method, server, path, query, body)), server)
<1> DEFINE operation == Operation(op, ids, Build(method, server, path, query, body))
<1>1. /\ operation.request = Build(method, server, path, query, body)
      /\ operation.op = op
      /\ operation.ids = ids
  BY DEF Operation
<1> HIDE DEF operation
<1>2. Built(operation, server)
  BY <1>1 DEF Built
<1>3. QED
  BY <1>2 DEF operation

LEMMA WordsAreSegments == Words \subseteq Segments /\ Ids \subseteq Segments
  BY DEF Segments

LEMMA WordPaths ==
  ASSUME NEW a \in Words, NEW b \in Words, NEW c \in Words
  PROVE  <<a>> \in Paths(<<>>) /\ <<a, b>> \in Paths(<<>>) /\ <<a, b, c>> \in Paths(<<>>)
<1>1. a \in Segments /\ b \in Segments /\ c \in Segments
  BY WordsAreSegments
<1>2. <<a>> \in Paths(<<>>)
  BY <1>1 DEF Paths
<1>3. <<a, b>> \in Paths(<<>>)
  BY <1>1 DEF Paths
<1>4. <<a, b, c>> \in Paths(<<>>)
  BY <1>1 DEF Paths
<1>5. QED
  BY <1>2, <1>3, <1>4

LEMMA IdPaths ==
  ASSUME NEW a \in Words, NEW b \in Words, NEW id \in Ids
  PROVE  /\ <<a, id>> \in Paths(<<id>>)
         /\ <<a, b, id>> \in Paths(<<id>>)
         /\ <<a, id, b>> \in Paths(<<id>>)
<1>1. a \in Segments /\ b \in Segments /\ id \in Segments
  BY WordsAreSegments
<1>2. <<a, id>> \in Paths(<<id>>)
  BY <1>1 DEF Paths
<1>3. <<a, b, id>> \in Paths(<<id>>)
  BY <1>1 DEF Paths
<1>4. <<a, id, b>> \in Paths(<<id>>)
  BY <1>1 DEF Paths
<1>5. QED
  BY <1>2, <1>3, <1>4

LEMMA TwoIdPaths ==
  ASSUME NEW a \in Words, NEW b \in Words, NEW c \in Words,
         NEW id \in Ids, NEW id2 \in Ids
  PROVE  /\ <<a, id, b, id2>> \in Paths(<<id, id2>>)
         /\ <<a, id, b, id2, c>> \in Paths(<<id, id2>>)
<1>1. /\ a \in Segments /\ b \in Segments /\ c \in Segments
      /\ id \in Segments /\ id2 \in Segments
  BY WordsAreSegments
<1>2. <<a, id, b, id2>> \in Paths(<<id, id2>>)
  BY <1>1 DEF Paths
<1>3. <<a, id, b, id2, c>> \in Paths(<<id, id2>>)
  BY <1>1 DEF Paths
<1>4. QED
  BY <1>2, <1>3

LEMMA KeysBuilt ==
  ASSUME NEW server,
         NEW operation \in GetCustomerManagedKeys(server)
             \cup PostCustomerManagedKeys(server)
             \cup DeleteCustomerManagedKeyId(server)
             \cup GetCustomerManagedKeyId(server)
  PROVE  Built(operation, server)
<1>1. CASE operation \in GetCustomerManagedKeys(server)
  <2>1. PICK params \in [{"tenantId"} -> Ids \cup {Absent}] :
           operation = Operation("GetCustomerManagedKeys", <<>>,
                                 NewGetCustomerManagedKeysRequest(server, params))
    BY <1>1 DEF GetCustomerManagedKeys
  <2>2. <<"customer-managed-keys">> \in Paths(<<>>)
    BY WordPaths DEF Words
  <2>3. Route("GET", <<"customer-managed-keys">>) = <<"GetCustomerManagedKeys", <<>>>>
    BY DEF Route, RouteOfKeys
  <2>4. QED
    BY <2>1, <2>2, <2>3, BuildIsBuilt DEF NewGetCustomerManagedKeysRequest
<1>2. CASE operation \in PostCustomerManagedKeys(server)
  <2>1. PICK contentType \in ContentTypes :
           operation = Operation("PostCustomerManagedKeys", <<>>,
                                 NewPostCustomerManagedKeysRequest(server, contentType))
    BY <1>2 DEF PostCustomerManagedKeys
  <2>2. <<"customer-managed-keys">> \in Paths(<<>>)
    BY WordPaths DEF Words
  <2>3. Route("POST", <<"customer-managed-keys">>) = <<"PostCustomerManagedKeys", <<>>>>
    BY DEF Route, RouteOfKeys
  <2>4. QED
    BY <2>1, <2>2, <2>3, BuildIsBuilt DEF NewPostCustomerManagedKeysRequest
<1>3. CASE operation \in DeleteCustomerManagedKeyId(server)
  <2>1. PICK id \in Ids :
           operation = Operation("DeleteCustomerManagedKeyId", <<id>>,
                                 NewDeleteCustomerManagedKeyIdRequest(server, id))
    BY <1>3 DEF DeleteCustomerManagedKeyId
  <2>2. <<"customer-managed-keys", id>> \in Paths(<<id>>)
    BY IdPaths DEF Words
  <2>3. Route("DELETE", <<"customer-managed-keys", id>>)
            = <<"DeleteCustomerManagedKeyId", <<id>>>>
    BY DEF Route, RouteOfKeys
  <2>4. QED
    BY <2>1, <2>2, <2>3, BuildIsBuilt DEF NewDeleteCustomerManagedKeyIdRequest
<1>4. CASE operation \in GetCustomerManagedKeyId(server)
  <2>1. PICK id \in Ids :
           operation = Operation("GetCustomerManagedKeyId", <<id>>,
                                 NewGetCustomerManagedKeyIdRequest(server, id))
    BY <1>4 DEF GetCustomerManagedKeyId
  <2>2. <<"customer-managed-keys", id>> \in Paths(<<id>>)
    BY IdPaths DEF Words
  <2>3. Route("GET", <<"customer-managed-keys", id>>) = <<"GetCustomerManagedKeyId", <<id>>>>
    BY DEF Route, RouteOfKeys
  <2>4. QED
    BY <2>1, <2>2, <2>3, BuildIsBuilt DEF NewGetCustomerManagedKeyIdRequest
<1>5. QED
  BY <1>1, <1>2, <1>3, <1>4

LEMMA SessionsBuilt ==
  ASSUME NEW server,
         NEW operation \in GetSessions(server)
             \cup PostSession(server)
             \cup PostSessionsSizing(server)
             \cup DeleteSession(server)
             \cup GetSession(server)
  PROVE  Built(operation, server)
<1>1. CASE operation \in GetSessions(server)
  <2>1. PICK params \in [{"instanceId", "tenantId", "organizationId"} -> Ids \cup {Absent}] :
           operation = Operation("GetSessions", <<>>,
                                 NewGetSessionsRequest(server, params))
    BY <1>1 DEF GetSessions
  <2>2. <<"graph-analytics", "sessions">> \in Paths(<<>>)
    BY WordPaths DEF Words
  <2>3. Route("GET", <<"graph-analytics", "sessions">>) = <<"GetSessions", <<>>>>
    BY DEF Route, RouteOfSessions
  <2>4. QED
    BY <2>1, <2>2, <2>3, BuildIsBuilt DEF NewGetSessionsRequest
<1>2. CASE operation \in PostSession(server)
  <2>1. PICK contentType \in ContentTypes :
           operation = Operation("PostSession", <<>>,
                                 NewPostSessionRequest(server, contentType))
    BY <1>2 DEF PostSession
  <2>2. <<"graph-analytics", "sessions">> \in Paths(<<>>)
    BY WordPaths DEF Words
  <2>3. Route("POST", <<"graph-analytics", "sessions">>) = <<"PostSession", <<>>>>
    BY DEF Route, RouteOfSessions
  <2>4. QED
    BY <2>1, <2>2, <2>3, BuildIsBuilt DEF NewPostSessionRequest
<1>3. CASE operation \in PostSessionsSizing(server)
  <2>1. PICK contentType \in ContentTypes :
           operation = Operation("PostSessionsSizing", <<>>,
                                 NewPostSessionsSizingRequest(server, contentType))
    BY <1>3 DEF PostSessionsSizing
  <2>2. <<"graph-analytics", "sessions", "sizing">> \in Paths(<<>>)
    BY WordPaths DEF Words
  <2>3. Route("POST", <<"graph-analytics", "sessions", "sizing">>)
            = <<"PostSessionsSizing", <<>>>>
    BY DEF Route, RouteOfSessions
  <2>4. QED
    BY <2>1, <2>2, <2>3, BuildIsBuilt DEF NewPostSessionsSizingRequest
<1>4. CASE operation \in DeleteSession(server)
  <2>1. PICK id \in Ids :
           operation = Operation("DeleteSession", <<id>>,
                                 NewDeleteSessionRequest(server, id))
    BY <1>4 DEF DeleteSession
  <2>2. <<"graph-analytics", "sessions", id>> \in Paths(<<id>>)
    BY IdPaths DEF Words
  <2>3. Route("DELETE", <<"graph-analytics", "sessions", id>>) = <<"DeleteSession", <<id>>>>
    BY DEF Route, RouteOfSessions
  <2>4. QED
    BY <2>1, <2>2, <2>3, BuildIsBuilt DEF NewDeleteSessionRequest
<1>5. CASE operation \in GetSession(server)
  <2>1. PICK id \in Ids :
           operation = Operation("GetSession", <<id>>,
                                 NewGetSessionRequest(server, id))
    BY <1>5 DEF GetSession
  <2>2. <<"graph-analytics", "sessions", id>> \in Paths(<<id>>)
    BY IdPaths DEF Words
  <2>3. Route("GET", <<"graph-analytics", "sessions", id>>) = <<"GetSession", <<id>>>>
    BY DEF Route, RouteOfSessions
  <2>4. QED
    BY <2>1, <2>2, <2>3, BuildIsBuilt DEF NewGetSessionRequest
<1>6. QED
  BY <1>1, <1>2, <1>3, <1>4, <1>5

LEMMA InstancesBuilt ==
  ASSUME NEW server,
         NEW operation \in GetInstances(server)
             \cup PostInstances(server)
             \cup PostInstancesSizing(server)
             \cup DeleteInstanceId(server)
             \cup GetInstanceId(server)
             \cup PatchInstanceId(server)
  PROVE  Built(operation, server)
<1>1. CASE operation \in GetInstances(server)
  <2>1. PICK params \in [{"tenantId"} -> Ids \cup {Absent}] :
           operation = Operation("GetInstances", <<>>,
                                 NewGetInstancesRequest(server, params))
    BY <1>1 DEF GetInstances
  <2>2. <<"instances">> \in Paths(<<>>)
    BY WordPaths DEF Words
  <2>3. Route("GET", <<"instances">>) = <<"GetInstances", <<>>>>
    BY DEF Route, RouteOfInstances
  <2>4. QED
    BY <2>1, <2>2, <2>3, BuildIsBuilt DEF NewGetInstancesRequest
<1>2. CASE operation \in PostInstances(server)
  <2>1. PICK contentType \in ContentTypes :
           operation = Operation("PostInstances", <<>>,
                                 NewPostInstancesRequest(server, contentType))
    BY <1>2 DEF PostInstances
  <2>2. <<"instances">> \in Paths(<<>>)
    BY WordPaths DEF Words
  <2>3. Route("POST", <<"instances">>) = <<"PostInstances", <<>>>>
    BY DEF Route, RouteOfInstances
  <2>4. QED
    BY <2>1, <2>2, <2>3, BuildIsBuilt DEF NewPostInstancesRequest
<1>3. CASE operation \in PostInstancesSizing(server)
  <2>1. PICK contentType \in ContentTypes :
           operation = Operation("PostInstancesSizing", <<>>,
                                 NewPostInstancesSizingRequest(server, contentType))
    BY <1>3 DEF PostInstancesSizing
  <2>2. <<"instances", "sizing">> \in Paths(<<>>)
    BY WordPaths DEF Words
  <2>3. Route("POST", <<"instances", "sizing">>) = <<"PostInstancesSizing", <<>>>>
    BY DEF Route, RouteOfInstances
  <2>4. QED
    BY <2>1, <2>2, <2>3, BuildIsBuilt DEF NewPostInstancesSizingRequest
<1>4. CASE operation \in DeleteInstanceId(server)
  <2>1. PICK id \in Ids :
           operation = Operation("DeleteInstanceId", <<id>>,
                                 NewDeleteInstanceIdRequest(server, id))
    BY <1>4 DEF DeleteInstanceId
  <2>2. <<"instances", id>> \in Paths(<<id>>)
    BY IdPaths DEF Words
  <2>3. Route("DELETE", <<"instances", id>>) = <<"DeleteInstanceId", <<id>>>>
    BY DEF Route, RouteOfInstances
  <2>4. QED
    BY <2>1, <2>2, <2>3, BuildIsBuilt DEF NewDeleteInstanceIdRequest
<1>5. CASE operation \in GetInstanceId(server)
  <2>1. PICK id \in Ids :
           operation = Operation("GetInstanceId", <<id>>,
                                 NewGetInstanceIdRequest(server, id))
    BY <1>5 DEF GetInstanceId
  <2>2. <<"instances", id>> \in Paths(<<id>>)
    BY IdPaths DEF Words
  <2>3. Route("GET", <<"instances", id>>) = <<"GetInstanceId", <<id>>>>
    BY DEF Route, RouteOfInstances
  <2>4. QED
    BY <2>1, <2>2, <2>3, BuildIsBuilt DEF NewGetInstanceIdRequest
<1>6. CASE operation \in PatchInstanceId(server)
  <2>1. PICK id \in Ids, contentType \in ContentTypes :
           operation = Operation("PatchInstanceId", <<id>>,
                                 NewPatchInstanceIdRequest(server, id, contentType))
    BY <1>6 DEF PatchInstanceId
  <2>2. <<"instances", id>> \in Paths(<<id>>)
    BY IdPaths DEF Words
  <2>3. Route("PATCH", <<"instances", id>>) = <<"PatchInstanceId", <<id>>>>
    BY DEF Route, RouteOfInstances
  <2>4. QED
    BY <2>1, <2>2, <2>3, BuildIsBuilt DEF NewPatchInstanceIdRequest
<1>7. QED
  BY <1>1, <1>2, <1>3, <1>4, <1>5, <1>6

LEMMA ActionsBuilt ==
  ASSUME NEW server,
         NEW operation \in PostOverwriteInstance(server)
             \cup PostPauseInstance(server)
             \cup PostResumeInstance(server)
             \cup PostUpgradeInstance(server)
  PROVE  Built(operation, server)
<1>1. CASE operation \in PostOverwriteInstance(server)
  <2>1. PICK id \in Ids, contentType \in ContentTypes :
           operation = Operation("PostOverwriteInstance", <<id>>,
                                 NewPostOverwriteInstanceRequest(server, id, contentType))
    BY <1>1 DEF PostOverwriteInstance
  <2>2. <<"instances", id, "overwrite">> \in Paths(<<id>>)
    BY IdPaths DEF Words
  <2>3. Route("POST", <<"instances", id, "overwrite">>) = <<"PostOverwriteInstance", <<id>>>>
    BY DEF Route, RouteOfActions
  <2>4. QED
    BY <2>1, <2>2, <2>3, BuildIsBuilt DEF NewPostOverwriteInstanceRequest
<1>2. CASE operation \in PostPauseInstance(server)
  <2>1. PICK id \in Ids, contentType \in ContentTypes :
           operation = Operation("PostPauseInstance", <<id>>,
                                 NewPostPauseInstanceRequest(server, id, contentType))
    BY <1>2 DEF PostPauseInstance
  <2>2. <<"instances", id, "pause">> \in Paths(<<id>>)
    BY IdPaths DEF Words
  <2>3. Route("POST", <<"instances", id, "pause">>) = <<"PostPauseInstance", <<id>>>>
    BY DEF Route, RouteOfActions
  <2>4. QED
    BY <2>1, <2>2, <2>3, BuildIsBuilt DEF NewPostPauseInstanceRequest
<1>3. CASE operation \in PostResumeInstance(server)
  <2>1. PICK id \in Ids, contentType \in ContentTypes :
           operation = Operation("PostResumeInstance", <<id>>,
                                 NewPostResumeInstanceRequest(server, id, contentType))
    BY <1>3 DEF PostResumeInstance
  <2>2. <<"instances", id, "resume">> \in Paths(<<id>>)
    BY IdPaths DEF Words
  <2>3. Route("POST", <<"instances", id, "resume">>) = <<"PostResumeInstance", <<id>>>>
    BY DEF Route, RouteOfActions
  <2>4. QED
    BY <2>1, <2>2, <2>3, BuildIsBuilt DEF NewPostResumeInstanceRequest
<1>4. CASE operation \in PostUpgradeInstance(server)
  <2>1. PICK id \in Ids, contentType \in ContentTypes :
           operation = Operation("PostUpgradeInstance", <<id>>,
                                 NewPostUpgradeInstanceRequest(server, id, contentType))
    BY <1>4 DEF PostUpgradeInstance
  <2>2. <<"instances", id, "upgrade">> \in Paths(<<id>>)
    BY IdPaths DEF Words
  <2>3. Route("POST", <<"instances", id, "upgrade">>) = <<"PostUpgradeInstance", <<id>>>>
    BY DEF Route, RouteOfActions
  <2>4. QED
    BY <2>1, <2>2, <2>3, BuildIsBuilt DEF NewPostUpgradeInstanceRequest
<1>5. QED
  BY <1>1, <1>2, <1>3, <1>4

LEMMA SnapshotsBuilt ==
  ASSUME NEW server,
         NEW operation \in GetSnapshots(server)
             \cup PostSnapshots(server)
             \cup GetSnapshotSnapshotid(server)
             \cup PostRestoreSnapshot(server)
  PROVE  Built(operation, server)
<1>1. CASE operation \in GetSnapshots(server)
  <2>1. PICK id \in Ids, params \in [{"date"} -> Ids \cup {Absent}] :
           operation = Operation("GetSnapshots", <<id>>,
                                 NewGetSnapshotsRequest(server, id, params))
    BY <1>1 DEF GetSnapshots
  <2>2. <<"instances", id, "snapshots">> \in Paths(<<id>>)
    BY IdPaths DEF Words
  <2>3. Route("GET", <<"instances", id, "snapshots">>) = <<"GetSnapshots", <<id>>>>
    BY DEF Route, RouteOfSnapshots
  <2>4. QED
    BY <2>1, <2>2, <2>3, BuildIsBuilt DEF NewGetSnapshotsRequest
<1>2. CASE operation \in PostSnapshots(server)
  <2>1. PICK id \in Ids, contentType \in ContentTypes :
           operation = Operation("PostSnapshots", <<id>>,
                                 NewPostSnapshotsRequest(server, id, contentType))
    BY <1>2 DEF PostSnapshots
  <2>2. <<"instances", id, "snapshots">> \in Paths(<<id>>)
    BY IdPaths DEF Words
  <2>3. Route("POST", <<"instances", id, "snapshots">>) = <<"PostSnapshots", <<id>>>>
    BY DEF Route, RouteOfSnapshots
  <2>4. QED
    BY <2>1, <2>2, <2>3, BuildIsBuilt DEF NewPostSnapshotsRequest
<1>3. CASE operation \in GetSnapshotSnapshotid(server)
  <2>1. PICK id \in Ids, snapshotId \in Ids :
           operation = Operation("GetSnapshotSnapshotid", <<id, snapshotId>>,
                                 NewGetSnapshotSnapshotidRequest(server, id, snapshotId))
    BY <1>3, Z3T(30) DEF GetSnapshotSnapshotid
  <2>2. <<"instances", id, "snapshots", snapshotId>> \in Paths(<<id, snapshotId>>)
    <3>1. {"instances", "snapshots", "restore"} \subseteq Words
      BY DEF Words
    <3>2. QED
      BY <3>1, TwoIdPaths
  <2>3. Route("GET", <<"instances", id, "snapshots", snapshotId>>)
            = <<"GetSnapshotSnapshotid", <<id, snapshotId>>>>
    BY DEF Route, RouteOfSnapshots
  <2>4. QED
    BY <2>1, <2>2, <2>3, BuildIsBuilt DEF NewGetSnapshotSnapshotidRequest
<1>4. CASE operation \in PostRestoreSnapshot(server)
  <2>1. PICK id, snapshotId \in Ids, contentType \in ContentTypes :
           operation = Operation("PostRestoreSnapshot", <<id, snapshotId>>,
                                 NewPostRestoreSnapshotRequest(server, id, snapshotId, contentType))
    BY <1>4 DEF PostRestoreSnapshot
  <2>2. <<"instances", id, "snapshots", snapshotId, "restore">> \in Paths(<<id, snapshotId>>)
    <3>1. {"instances", "snapshots", "restore"} \subseteq Words
      BY DEF Words
    <3>2. QED
      BY <3>1, TwoIdPaths
  <2>3. Route("POST", <<"instances", id, "snapshots", snapshotId, "restore">>)
            = <<"PostRestoreSnapshot", <<id, snapshotId>>>>
    BY DEF Route, RouteOfSnapshots
  <2>4. QED
    BY <2>1, <2>2, <2>3, BuildIsBuilt DEF NewPostRestoreSnapshotRequest
<1>5. QED
  BY <1>1, <1>2, <1>3, <1>4

LEMMA ProjectsBuilt ==
  ASSUME NEW server,
         NEW operation \in GetProjects(server)
             \cup GetProjectId(server)
             \cup GetProjectMetricsIntegrationDetails(server)
  PROVE  Built(operation, server)
<1>1. CASE operation \in GetProjects(server)
  <2>1. operation = Operation("GetProjects", <<>>, NewGetProjectsRequest(server))
    BY <1>1 DEF GetProjects
  <2>2. <<"tenants">> \in Paths(<<>>)
    BY WordPaths DEF Words
  <2>3. Route("GET", <<"tenants">>) = <<"GetProjects", <<>>>>
    BY DEF Route, RouteOfProjects
  <2>4. QED
    BY <2>1, <2>2, <2>3, BuildIsBuilt DEF NewGetProjectsRequest
<1>2. CASE operation \in GetProjectId(server)
  <2>1. PICK id \in Ids :
           operation = Operation("GetProjectId", <<id>>,
                                 NewGetProjectIdRequest(server, id))
    BY <1>2 DEF GetProjectId
  <2>2. <<"tenants", id>> \in Paths(<<id>>)
    BY IdPaths DEF Words
  <2>3. Route("GET", <<"tenants", id>>) = <<"GetProjectId", <<id>>>>
    BY DEF Route, RouteOfProjects
  <2>4. QED
    BY <2>1, <2>2, <2>3, BuildIsBuilt DEF NewGetProjectIdRequest
<1>3. CASE operation \in GetProjectMetricsIntegrationDetails(server)
  <2>1. PICK id \in Ids :
           operation = Operation("GetProjectMetricsIntegrationDetails", <<id>>,
                                 NewGetProjectMetricsIntegrationDetailsRequest(server, id))
    BY <1>3 DEF GetProjectMetricsIntegrationDetails
  <2>2. <<"tenants", id, "metrics-integration">> \in Paths(<<id>>)
    BY IdPaths DEF Words
  <2>3. Route("GET", <<"tenants", id, "metrics-integration">>)
            = <<"GetProjectMetricsIntegrationDetails", <<id>>>>
    BY DEF Route, RouteOfProjects
  <2>4. QED
    BY <2>1, <2>2, <2>3, BuildIsBuilt DEF NewGetProjectMetricsIntegrationDetailsRequest
<1>4. QED
  BY <1>1, <1>2, <1>3

LEMMA OperationsBuilt ==
  ASSUME NEW server, NEW operation \in Operations(server)
  PROVE  Built(operation, server)
  BY KeysBuilt, SessionsBuilt, InstancesBuilt, ActionsBuilt, SnapshotsBuilt, ProjectsBuilt
     DEF Operations

LEMMA SeqMonotonic ==
  ASSUME NEW S, NEW T, S \subseteq T, NEW s \in Seq(S)
  PROVE  s \in Seq(T)
  OBVIOUS

LEMMA WordsAreNoDots == Words \cap DotSegments = {}
  BY DEF Words, DotSegments

(***************************************************************************)
(* Resolution of a path: without dot segments it appends the path to the   *)
(* directory, and with them it never leaves the directory, since each of   *)
(* them comes after a word.                                                *)
(***************************************************************************)
Taken(path, k) == IF k <= Len(path) THEN SubSeq(path, 1, k) ELSE path

LEMMA AlongPlain ==
  ASSUME NEW d \in Seq(Segments), NEW path \in Seq(Segments), NEW k \in 1..5,
         NEW j, j = k - 1, \A i \in 1..Len(path) : path[i] \notin DotSegments
  PROVE  Along(d \o Taken(path, j), path, k) = d \o Taken(path, k)
<1>1. CASE k <= Len(path)
  <2>1. Taken(path, j) = SubSeq(path, 1, k - 1) /\ Taken(path, k) = SubSeq(path, 1, k)
    BY <1>1 DEF Taken
  <2>2. path[k] \notin DotSegments /\ path[k] \in Segments
    BY <1>1
  <2>3. Along(d \o Taken(path, j), path, k) = Append(d \o Taken(path, j), path[k])
    BY <1>1, <2>2 DEF Along, Down, DotSegments
  <2>4. SubSeq(path, 1, k) = Append(SubSeq(path, 1, k - 1), path[k])
    BY <1>1
  <2>5. SubSeq(path, 1, k - 1) \in Seq(Segments)
    BY <1>1
  <2>6. Append(d \o SubSeq(path, 1, k - 1), path[k]) = d \o Append(SubSeq(path, 1, k - 1), path[k])
    BY <2>2, <2>5
  <2>7. QED
    BY <2>1, <2>3, <2>4, <2>6
<1>2. CASE ~(k <= Len(path))
  <2>1. Taken(path, k) = path
    BY <1>2 DEF Taken
  <2>2. Taken(path, j) = path
    BY <1>2 DEF Taken
  <2>3. QED
    BY <1>2, <2>1, <2>2 DEF Along
<1>3. QED
  BY <1>1, <1>2

LEMMA PlainPaths ==
  ASSUME NEW ids, NEW path \in Paths(ids),
         \A i \in 1..Len(ids) : ids[i] \notin DotSegments
  PROVE  /\ path \in Seq(Segments)
         /\ Len(path) \in 1..5
         /\ \A i \in 1..Len(path) : path[i] \notin DotSegments
  BY WordsAreNoDots DEF Paths

LEMMA ResolvePlain ==
  ASSUME NEW server, server.path \in Seq(Segments), server.slash = TRUE,
         NEW path \in Seq(Segments), Len(path) \in 1..5,
         \A i \in 1..Len(path) : path[i] \notin DotSegments
  PROVE  Resolve(server, path) = server.path \o path
<1> DEFINE d == server.path
<1>1. /\ Along(d \o Taken(path, 0), path, 1) = d \o Taken(path, 1)
      /\ Along(d \o Taken(path, 1), path, 2) = d \o Taken(path, 2)
      /\ Along(d \o Taken(path, 2), path, 3) = d \o Taken(path, 3)
      /\ Along(d \o Taken(path, 3), path, 4) = d \o Taken(path, 4)
      /\ Along(d \o Taken(path, 4), path, 5) = d \o Taken(path, 5)
  <2> HIDE DEF d
  <2>1. d \in Seq(Segments)
    BY DEF d
  <2>2. \A k \in 1..5, j \in 0..4 :
            j = k - 1 => Along(d \o Taken(path, j), path, k) = d \o Taken(path, k)
    BY <2>1, AlongPlain
  <2> DEFINE Step(j, k) == Along(d \o Taken(path, j), path, k) = d \o Taken(path, k)
  <2>3. \A k \in 1..5, j \in 0..4 : j = k - 1 => Step(j, k)
    BY <2>2
  <2> HIDE DEF Step
  <2>4. Step(0, 1) /\ Step(1, 2) /\ Step(2, 3) /\ Step(3, 4) /\ Step(4, 5)
    BY <2>3
  <2>5. QED
    BY <2>4 DEF Step
<1>2. d \o Taken(path, 0) = d
  <2>1. Taken(path, 0) = SubSeq(path, 1, 0)
    BY DEF Taken
  <2>2. SubSeq(path, 1, 0) = <<>>
    OBVIOUS
  <2>3. QED
    BY <2>1, <2>2
<1>3. Along(d, path, 1) = d \o Taken(path, 1)
  BY <1>1, <1>2
<1>4. Taken(path, 5) = path
  <2>1. CASE Len(path) = 5
    <3>1. SubSeq(path, 1, Len(path)) = path
      OBVIOUS
    <3>2. QED
      BY <2>1, <3>1 DEF Taken
  <2>2. CASE Len(path) # 5
    <3>1. ~(5 <= Len(path))
      BY <2>2
    <3>2. QED
      BY <3>1 DEF Taken
  <2>3. QED
    BY <2>1, <2>2
<1>5. Last(path) \notin DotSegments
  <2>1. \A n \in 1..5 : n \in 1..n
    OBVIOUS
  <2>2. Len(path) \in 1..Len(path)
    BY <2>1
  <2>3. QED
    BY <2>2 DEF Last
<1>6. QED
  BY <1>1, <1>3, <1>4, <1>5 DEF Resolve

Below(d, s) ==
    /\ s \in Seq(Segments)
    /\ Len(d) <= Len(s)
    /\ \A i \in 1..Len(d) : s[i] = d[i]

LEMMA BelowIsPrefix ==
  ASSUME NEW d \in Seq(Segments), NEW s, Below(d, s)
  PROVE  IsPrefix(d, s)
<1>1. s \in Seq(Segments) /\ Len(d) <= Len(s) /\ Len(d) \in Nat /\ Len(s) \in Nat
  BY DEF Below
<1>2. SubSeq(d, 1, Len(d)) = d
  OBVIOUS
<1>3. SubSeq(s, 1, Len(d)) = d
  <2>1. /\ SubSeq(s, 1, Len(d)) \in Seq(Segments)
        /\ Len(SubSeq(s, 1, Len(d))) = Len(d)
    BY <1>1
  <2>2. \A i \in 1..Len(d) : SubSeq(s, 1, Len(d))[i] = d[i]
    BY <1>1 DEF Below
  <2>3. QED
    BY <2>1, <2>2
<1>4. QED
  BY <1>1, <1>2, <1>3 DEF IsPrefix

LEMMA AppendBelow ==
  ASSUME NEW d \in Seq(Segments), NEW s, Below(d, s), NEW segment \in Segments
  PROVE  Below(d, Append(s, segment)) /\ Len(d) < Len(Append(s, segment))
<1>1. s \in Seq(Segments) /\ Len(d) \in Nat /\ Len(s) \in Nat /\ Len(d) <= Len(s)
  BY DEF Below
<1>2. QED
  BY <1>1 DEF Below

\* One segment further stays below d, and is really further after no dot segment.
LEMMA AlongBelow ==
  ASSUME NEW d \in Seq(Segments), NEW s, Below(d, s),
         NEW path \in Seq(Segments), NEW k \in 1..5,
         k <= Len(path) /\ path[k] = ".." => Len(d) < Len(s)
  PROVE  /\ Below(d, Along(s, path, k))
         /\ k <= Len(path) /\ path[k] \notin DotSegments => Len(d) < Len(Along(s, path, k))
<1>1. s \in Seq(Segments) /\ Len(d) \in Nat /\ Len(s) \in Nat /\ Len(d) <= Len(s)
  BY DEF Below
<1>2. CASE ~(k <= Len(path))
  BY <1>2 DEF Along
<1>3. CASE k <= Len(path) /\ path[k] = "."
  BY <1>3 DEF Along, Down, DotSegments
<1>4. CASE k <= Len(path) /\ path[k] = ".."
  <2>1. Len(d) < Len(s) /\ s # <<>>
    BY <1>1, <1>4
  <2>2. Along(s, path, k) = SubSeq(s, 1, Len(s) - 1)
    BY <1>4, <2>1 DEF Along, Down, Up, Front
  <2>3. Below(d, SubSeq(s, 1, Len(s) - 1))
    BY <1>1, <2>1 DEF Below
  <2>4. QED
    BY <1>4, <2>2, <2>3 DEF DotSegments
<1>5. CASE k <= Len(path) /\ path[k] \notin DotSegments
  <2>1. Along(s, path, k) = Append(s, path[k]) /\ path[k] \in Segments
    BY <1>5 DEF Along, Down, DotSegments
  <2>2. Below(d, Append(s, path[k])) /\ Len(d) < Len(Append(s, path[k]))
    BY <2>1, AppendBelow
  <2>3. QED
    BY <2>1, <2>2
<1>6. QED
  BY <1>2, <1>3, <1>4, <1>5 DEF DotSegments

LEMMA ResolveBelow ==
  ASSUME NEW server, server.path \in Seq(Segments), server.slash = TRUE,
         NEW ids, NEW path \in Paths(ids)
  PROVE  Below(server.path, Resolve(server, path))
<1> DEFINE d      == server.path
           first  == Along(d, path, 1)
           second == Along(first, path, 2)
           third  == Along(second, path, 3)
           fourth == Along(third, path, 4)
           fifth  == Along(fourth, path, 5)
<1>1. path \in Seq(Segments) /\ Len(path) \in 1..5 /\ path[1] \in Words
  BY DEF Paths
<1>2. \A i \in 2..5 : i <= Len(path) /\ path[i] = ".." =>
          i - 1 <= Len(path) /\ path[i - 1] \notin DotSegments
  <2>1. \A i \in 2..Len(path) : path[i] \in Words \/ path[i - 1] \in Words
    BY DEF Paths
  <2>2. ".." \notin Words
    BY WordsAreNoDots DEF DotSegments
  <2>3. QED
    BY <1>1, <2>1, <2>2, WordsAreNoDots
<1>3. Below(d, d)
  BY DEF Below
<1>4. path[1] # ".."
  BY <1>1, WordsAreNoDots DEF DotSegments
<1> HIDE DEF first, second, third, fourth, fifth
<1>5. /\ Below(d, first)
      /\ 1 <= Len(path) /\ path[1] \notin DotSegments => Len(d) < Len(first)
  BY <1>1, <1>3, <1>4, AlongBelow DEF first
<1>6. /\ Below(d, second)
      /\ 2 <= Len(path) /\ path[2] \notin DotSegments => Len(d) < Len(second)
  BY <1>1, <1>2, <1>5, AlongBelow DEF second
<1>7. /\ Below(d, third)
      /\ 3 <= Len(path) /\ path[3] \notin DotSegments => Len(d) < Len(third)
  BY <1>1, <1>2, <1>6, AlongBelow DEF third
<1>8. /\ Below(d, fourth)
      /\ 4 <= Len(path) /\ path[4] \notin DotSegments => Len(d) < Len(fourth)
  BY <1>1, <1>2, <1>7, AlongBelow DEF fourth
<1>9. Below(d, fifth)
  BY <1>1, <1>2, <1>8, AlongBelow DEF fifth
<1>10. Below(d, Append(fifth, ""))
  <2>1. "" \in Segments
    BY DEF Segments
  <2>2. QED
    BY <1>9, <2>1, AppendBelow
<1>11. Resolve(server, path) = IF Last(path) \in DotSegments THEN Append(fifth, "") ELSE fifth
  BY DEF Resolve, first, second, third, fourth, fifth
<1>12. QED
  BY <1>9, <1>10, <1>11

(***************************************************************************)
(* The client of a reconcile is made from --base-url, and what is called   *)
(* is one of its operations.                                               *)
(***************************************************************************)
CallInv ==
    /\ base \in BaseURLs
    /\ step # "idle" => client = NewClient(base)
    /\ step = "built" => call \in Operations(client) /\ call.request # NoRequest

LEMMA CallInvInductive ==
  ASSUME CallInv, [Next]_vars
  PROVE  CallInv'
<1>1. CASE Begin
  <2>1. base' = base /\ step' = "ready" /\ client' = NewClient(base)
    BY <1>1 DEF Begin
  <2>2. NewClient(base)' = NewClient(base')
    BY DEF NewClient
  <2>3. QED
    BY <2>1, <2>2 DEF CallInv, NewClient
<1>2. CASE Call
  <2>1. UNCHANGED <<base, client>> /\ step = "ready"
    BY <1>2 DEF Call, Return
  <2>2. \/ step' = "built" /\ call' \in Operations(client) /\ call'.request # NoRequest
        \/ step' = "ready"
    BY <1>2 DEF Call, Return
  <2>3. client' = NewClient(base)
    BY <2>1 DEF CallInv
  <2>4. QED
    BY <2>1, <2>2, <2>3 DEF CallInv
<1>3. ASSUME UNCHANGED <<base, client>>, step # "idle", step' # "built"
      PROVE  CallInv'
  BY <1>3 DEF CallInv, NewClient
<1>4. CASE EditorFails \/ TokenRefused \/ ReadReply
  BY <1>4, <1>3 DEF EditorFails, TokenRefused, ReadReply, Return
<1>5. CASE Authorize \/ RoundTrip
  BY <1>5, <1>3 DEF Authorize, RoundTrip, Return
<1>6. CASE End
  BY <1>6 DEF End, CallInv
<1>7. ASSUME UNCHANGED <<base, client, step, call>>
      PROVE  CallInv'
  BY <1>7 DEF CallInv
<1>8. CASE TokenExpires \/ RotateKeys \/ UNCHANGED vars
  BY <1>8, <1>7 DEF TokenExpires, RotateKeys, vars
<1>9. QED
  BY <1>1, <1>2, <1>4, <1>5, <1>6, <1>8 DEF Next

LEMMA ClientOfBase ==
  ASSUME CallInv, step # "idle"
  PROVE  /\ base.path \in Seq(Segments)
         /\ client.path = base.path
         /\ client.path \in Seq(Segments)
         /\ client.slash = TRUE
<1>1. base \in [path : Seq(STRING), slash : BOOLEAN, valid : BOOLEAN]
  BY CallsAssumption DEF CallInv, Server
<1>2. client.path = base.path /\ client.slash = TRUE
  BY <1>1 DEF CallInv, NewClient
<1>3. base.path \in Seq(Segments)
  <2>1. STRING \subseteq Segments
    BY DEF Segments
  <2>2. QED
    BY <1>1, <2>1, SeqMonotonic
<1>4. QED
  BY <1>2, <1>3

LEMMA CallBelowBaseURL ==
  ASSUME CallInv, step = "built"
  PROVE  IsPrefix(base.path, call.request.path)
<1>1. call \in Operations(client) /\ call.request # NoRequest
  BY DEF CallInv
<1>2. PICK method, query, body : \E path \in Paths(call.ids) :
          call.request = Build(method, client, path, query, body)
  BY <1>1, OperationsBuilt DEF Built
<1>3. PICK path \in Paths(call.ids) :
          call.request = Build(method, client, path, query, body)
  BY <1>2
<1>4. call.request.path = Resolve(client, path)
  BY <1>1, <1>3 DEF Build
<1>5. Below(base.path, Resolve(client, path))
  BY ClientOfBase, ResolveBelow
<1>6. QED
  BY <1>4, <1>5, ClientOfBase, BelowIsPrefix

(***************************************************************************)
(* Every request goes below the configured base URL, for every operation   *)
(* of the client, all ids, dot segments too, and every base URL, whether   *)
(* or not it ends in a slash (NewClient and the request builders).         *)
(***************************************************************************)
THEOREM BelowBaseURLHolds == Spec => []BelowBaseURL
<1>1. Init => CallInv
  BY DEF Init, CallInv
<1>2. CallInv /\ [Next]_vars => CallInv'
  BY CallInvInductive
<1>3. CallInv => BelowBaseURL
  BY CallBelowBaseURL DEF BelowBaseURL
<1>4. QED
  BY <1>1, <1>2, <1>3, PTL DEF Spec

--------------------------------------------------------------------------------

LEMMA CommonPrefix ==
  ASSUME NEW S, NEW p \in Seq(S), NEW s \in Seq(S), NEW t \in Seq(S), p \o s = p \o t
  PROVE  s = t
<1>1. Len(s) = Len(t)
  <2>1. Len(p \o s) = Len(p) + Len(s) /\ Len(p \o t) = Len(p) + Len(t)
    OBVIOUS
  <2>2. Len(p) \in Nat /\ Len(s) \in Nat /\ Len(t) \in Nat
    OBVIOUS
  <2>3. QED
    BY <2>1, <2>2
<1>2. ASSUME NEW i \in 1..Len(s)
      PROVE  s[i] = t[i]
  <2>1. (p \o s)[Len(p) + i] = s[i]
    OBVIOUS
  <2>2. (p \o t)[Len(p) + i] = t[i]
    BY <1>1
  <2>3. QED
    BY <2>1, <2>2
<1>3. QED
  BY <1>1, <1>2

\* Two requests from one valid base URL that look alike took the same route.
LEMMA SameRequestSameRoute ==
  ASSUME NEW server, server.path \in Seq(Segments), server.slash = TRUE,
         NEW one, Built(one, server), one.request # NoRequest, Plain(one),
         NEW other, Built(other, server), Plain(other),
         other.request.method = one.request.method,
         other.request.path = one.request.path
  PROVE  other.op = one.op /\ other.ids = one.ids
<1>1. PICK method, query, body : \E path \in Paths(one.ids) :
          /\ one.request = Build(method, server, path, query, body)
          /\ Route(method, path) = <<one.op, one.ids>>
  BY DEF Built
<1>2. PICK path \in Paths(one.ids) :
          /\ one.request = Build(method, server, path, query, body)
          /\ Route(method, path) = <<one.op, one.ids>>
  BY <1>1
<1>3. PICK method2, query2, body2 : \E path2 \in Paths(other.ids) :
          /\ other.request = Build(method2, server, path2, query2, body2)
          /\ Route(method2, path2) = <<other.op, other.ids>>
  BY DEF Built
<1>4. PICK path2 \in Paths(other.ids) :
          /\ other.request = Build(method2, server, path2, query2, body2)
          /\ Route(method2, path2) = <<other.op, other.ids>>
  BY <1>3
<1>5. server.valid
  BY <1>2 DEF Build
<1>6. one.request.method = method /\ one.request.path = server.path \o path
  <2>1. one.request.method = method /\ one.request.path = Resolve(server, path)
    BY <1>2, <1>5 DEF Build
  <2>2. QED
    BY <2>1, PlainPaths, ResolvePlain DEF Plain
<1>7. other.request.method = method2 /\ other.request.path = server.path \o path2
  <2>1. other.request.method = method2 /\ other.request.path = Resolve(server, path2)
    BY <1>4, <1>5 DEF Build
  <2>2. QED
    BY <2>1, PlainPaths, ResolvePlain DEF Plain
<1>8. method2 = method
  BY <1>6, <1>7
<1>9. path2 = path
  <2>1. path \in Seq(Segments) /\ path2 \in Seq(Segments)
    BY DEF Paths
  <2>2. server.path \o path = server.path \o path2
    BY <1>6, <1>7
  <2>3. QED
    BY <2>1, <2>2, CommonPrefix
<1>10. <<one.op, one.ids>> = <<other.op, other.ids>>
  BY <1>2, <1>4, <1>8, <1>9
<1>11. QED
  BY <1>10

(***************************************************************************)
(* No two calls of different operations, or about different things, look   *)
(* alike to Aura, for all ids that are no dot segments: an instance called *)
(* "sizing" too (the templates of the request builders).                   *)
(***************************************************************************)
THEOREM RoutesIdentifyHolds == Spec => []RoutesIdentify
<1>1. Init => CallInv
  BY DEF Init, CallInv
<1>2. CallInv /\ [Next]_vars => CallInv'
  BY CallInvInductive
<1>3. CallInv => RoutesIdentify
  <2> SUFFICES ASSUME CallInv, step = "built", Plain(call),
                      NEW other \in Operations(client), Plain(other),
                      other.request.method = call.request.method,
                      other.request.path = call.request.path
               PROVE  other.op = call.op /\ other.ids = call.ids
    BY DEF RoutesIdentify
  <2>1. call \in Operations(client) /\ call.request # NoRequest
    BY DEF CallInv
  <2>2. client.path \in Seq(Segments) /\ client.slash = TRUE
    BY ClientOfBase
  <2>3. Built(call, client) /\ Built(other, client)
    BY <2>1, OperationsBuilt
  <2>4. QED
    BY <2>1, <2>2, <2>3, SameRequestSameRoute
<1>4. QED
  BY <1>1, <1>2, <1>3, PTL DEF Spec

--------------------------------------------------------------------------------

OperationNames ==
    {"GetCustomerManagedKeys", "PostCustomerManagedKeys",
     "DeleteCustomerManagedKeyId", "GetCustomerManagedKeyId", "GetSessions",
     "PostSession", "PostSessionsSizing", "DeleteSession", "GetSession",
     "GetInstances", "PostInstances", "PostInstancesSizing", "DeleteInstanceId",
     "GetInstanceId", "PatchInstanceId", "PostOverwriteInstance",
     "PostPauseInstance", "PostResumeInstance", "GetSnapshots", "PostSnapshots",
     "GetSnapshotSnapshotid", "PostRestoreSnapshot", "PostUpgradeInstance",
     "GetProjects", "GetProjectId", "GetProjectMetricsIntegrationDetails"}

LEMMA RoutesToOperations ==
  ASSUME NEW method, NEW path
  PROVE  Route(method, path)[1] \in OperationNames
<1>1. RouteOfKeys(method, path)[1] \in OperationNames
  BY DEF RouteOfKeys, OperationNames
<1>2. RouteOfSessions(method, path)[1] \in OperationNames
  BY DEF RouteOfSessions, OperationNames
<1>3. RouteOfInstances(method, path)[1] \in OperationNames
  BY DEF RouteOfInstances, OperationNames
<1>4. RouteOfActions(path)[1] \in OperationNames
  BY DEF RouteOfActions, OperationNames
<1>5. RouteOfSnapshots(method, path)[1] \in OperationNames
  BY DEF RouteOfSnapshots, OperationNames
<1>6. RouteOfProjects(path)[1] \in OperationNames
  BY DEF RouteOfProjects, OperationNames
<1>7. QED
  BY <1>1, <1>2, <1>3, <1>4, <1>5, <1>6 DEF Route

LEMMA OperationsAreNamed ==
  ASSUME NEW server, NEW operation \in Operations(server)
  PROVE  operation.op \in OperationNames
<1>1. PICK method, query, body : \E path \in Paths(operation.ids) :
          Route(method, path) = <<operation.op, operation.ids>>
  BY OperationsBuilt DEF Built
<1>2. PICK path : Route(method, path) = <<operation.op, operation.ids>>
  BY <1>1
<1>3. QED
  BY <1>2, RoutesToOperations

\* What a parser returns, whatever the reply, is a response.
LEMMA ParseResponds ==
  ASSUME NEW r \in Replies \cup {NoReply}, NEW documented, NEW success,
         success \subseteq documented
  PROVE  Parse(r, documented, success) \in Response
<1>1. r \in [code : Nat, json : BOOLEAN, body : {"full", "partial", "malformed"}]
  <2>1. CASE r = NoReply
    BY <2>1 DEF NoReply
  <2>2. CASE r \in Replies
    BY <2>2, CallsAssumption DEF Replies
  <2>3. QED
    BY <2>1, <2>2
<1>2. CASE r = NoReply \/ (r.json /\ r.code \in documented /\ r.body = "malformed")
  <2>1. Parse(r, documented, success) = Failure
    BY <1>2 DEF Parse
  <2>2. QED
    BY <2>1 DEF Failure, Response
<1>3. CASE ~(r = NoReply \/ (r.json /\ r.code \in documented /\ r.body = "malformed"))
  <2> DEFINE data == IF r.json /\ r.code \in success THEN r.body ELSE "nil"
  <2>1. Parse(r, documented, success) = [err |-> FALSE, code |-> r.code, data |-> data]
    BY <1>3 DEF Parse
  <2>2. data \in {"nil", "full", "partial"}
    BY <1>1, <1>3
  <2>3. QED
    BY <1>1, <2>1, <2>2 DEF Response
<1>4. QED
  BY <1>2, <1>3

LEMMA ParsedIsResponse ==
  ASSUME reply \in Replies \cup {NoReply}, call.op \in OperationNames
  PROVE  Parsed \in Response
<1>1. /\ ParseGetCustomerManagedKeysResponse(reply) \in Response
      /\ ParsePostCustomerManagedKeysResponse(reply) \in Response
      /\ ParseDeleteCustomerManagedKeyIdResponse(reply) \in Response
      /\ ParseGetCustomerManagedKeyIdResponse(reply) \in Response
      /\ ParseGetSessionsResponse(reply) \in Response
      /\ ParsePostSessionResponse(reply) \in Response
      /\ ParsePostSessionsSizingResponse(reply) \in Response
      /\ ParseDeleteSessionResponse(reply) \in Response
      /\ ParseGetSessionResponse(reply) \in Response
  BY ParseResponds DEF ParseGetCustomerManagedKeysResponse,
     ParsePostCustomerManagedKeysResponse, ParseDeleteCustomerManagedKeyIdResponse,
     ParseGetCustomerManagedKeyIdResponse, ParseGetSessionsResponse,
     ParsePostSessionResponse, ParsePostSessionsSizingResponse,
     ParseDeleteSessionResponse, ParseGetSessionResponse
<1>2. /\ ParseGetInstancesResponse(reply) \in Response
      /\ ParsePostInstancesResponse(reply) \in Response
      /\ ParsePostInstancesSizingResponse(reply) \in Response
      /\ ParseDeleteInstanceIdResponse(reply) \in Response
      /\ ParseGetInstanceIdResponse(reply) \in Response
      /\ ParsePatchInstanceIdResponse(reply) \in Response
      /\ ParsePostOverwriteInstanceResponse(reply) \in Response
      /\ ParsePostPauseInstanceResponse(reply) \in Response
      /\ ParsePostResumeInstanceResponse(reply) \in Response
  BY ParseResponds DEF ParseGetInstancesResponse, ParsePostInstancesResponse,
     ParsePostInstancesSizingResponse, ParseDeleteInstanceIdResponse,
     ParseGetInstanceIdResponse, ParsePatchInstanceIdResponse,
     ParsePostOverwriteInstanceResponse, ParsePostPauseInstanceResponse,
     ParsePostResumeInstanceResponse
<1>3. /\ ParseGetSnapshotsResponse(reply) \in Response
      /\ ParsePostSnapshotsResponse(reply) \in Response
      /\ ParseGetSnapshotSnapshotidResponse(reply) \in Response
      /\ ParsePostRestoreSnapshotResponse(reply) \in Response
      /\ ParsePostUpgradeInstanceResponse(reply) \in Response
      /\ ParseGetProjectsResponse(reply) \in Response
      /\ ParseGetProjectIdResponse(reply) \in Response
      /\ ParseGetProjectMetricsIntegrationDetailsResponse(reply) \in Response
  BY ParseResponds DEF ParseGetSnapshotsResponse, ParsePostSnapshotsResponse,
     ParseGetSnapshotSnapshotidResponse, ParsePostRestoreSnapshotResponse,
     ParsePostUpgradeInstanceResponse, ParseGetProjectsResponse,
     ParseGetProjectIdResponse, ParseGetProjectMetricsIntegrationDetailsResponse
<1>4. QED
  BY <1>1, <1>2, <1>3 DEF Parsed, OperationNames

(***************************************************************************)
(* What a type-correct state needs to lead to another one: the other       *)
(* invariants, and that a call is one the parsers know.                    *)
(***************************************************************************)
TypeInv ==
    /\ TypeOK
    /\ TokenInv
    /\ CallInv
    /\ step \in {"built", "sent", "replied"} => call.op \in OperationNames

LEMMA NamedIsCall ==
  ASSUME NEW operation, operation.op \in OperationNames
  PROVE  operation # NoCall
  BY DEF NoCall, Operation, OperationNames

LEMMA ReturnTypeOK ==
  ASSUME TypeOK, NEW result \in Response, Return(result),
         source' \in TokenSource
  PROVE  TypeOK'
<1>1. UNCHANGED <<base, keys, began, client>>
  BY DEF Return
<1>2. step' = "ready" /\ call' = NoCall /\ bearer' = 0 /\ reply' = NoReply
  BY DEF Return
<1>3. response' \in Response
  BY DEF Return
<1>4. 0 \in 0..MaxKeys
  BY CallsAssumption
<1>5. QED
  BY <1>1, <1>2, <1>3, <1>4 DEF TypeOK, Steps, NoCall, Replies, Server

LEMMA TypeOKKept ==
  ASSUME TypeInv, [Next]_vars
  PROVE  TypeOK'
<1>1. TypeOK /\ TokenInv /\ CallInv
  BY DEF TypeInv
<1>2. source' \in TokenSource /\ keys' \in 1..MaxKeys
  BY <1>1, TokenInvInductive DEF TokenInv
<1>3. Failure \in Response
  BY DEF Failure, Response
<1>4. ASSUME Return(Failure)
      PROVE  TypeOK'
  BY <1>4, <1>1, <1>2, <1>3, ReturnTypeOK
<1>5. CASE Begin
  <2>1. /\ step' = "ready" /\ began' = keys
        /\ UNCHANGED <<base, keys, call, bearer, reply, response>>
        /\ step = "idle"
    BY <1>5 DEF Begin
  <2>2. client' \in Server
    <3>1. client' = NewClient(base)
      BY <1>5 DEF Begin
    <3>2. base \in Server
      BY <1>1, CallsAssumption DEF TypeOK
    <3>3. QED
      BY <3>1, <3>2 DEF NewClient, Server
  <2>3. began' \in 0..MaxKeys
    BY <2>1, <1>1, CallsAssumption DEF TypeOK
  <2>4. QED
    BY <2>1, <2>2, <2>3, <1>1, <1>2 DEF TypeOK, Steps
<1>6. CASE Call
  <2>1. ASSUME NEW operation \in Operations(client),
               step' = "built", call' = operation,
               UNCHANGED <<base, keys, began, client, bearer, reply, response>>
        PROVE  TypeOK'
    <3>1. call' # NoCall'
      BY <2>1, OperationsAreNamed, NamedIsCall DEF NoCall
    <3>2. QED
      BY <2>1, <3>1, <1>1, <1>2 DEF TypeOK, Steps
  <2>2. QED
    BY <1>6, <1>4, <2>1 DEF Call
<1>7. CASE EditorFails \/ TokenRefused
  BY <1>7, <1>4 DEF EditorFails, TokenRefused
<1>8. CASE Authorize
  <2>1. step = "built" /\ step' = "sent" /\ UNCHANGED <<base, began, client, call, reply, response>>
    BY <1>8 DEF Authorize
  <2>2. bearer' \in 0..MaxKeys
    <3>1. bearer' = IF source.token # 0 THEN source.token ELSE source.keys
      BY <1>8 DEF Authorize
    <3>2. QED
      BY <3>1, <1>1 DEF TypeOK, TokenSource
  <2>3. QED
    BY <2>1, <2>2, <1>1, <1>2 DEF TypeOK, Steps
<1>9. CASE RoundTrip
  <2>1. ASSUME NEW r \in Replies, step' = "replied", reply' = r, step = "sent",
               UNCHANGED <<base, keys, began, client, call, bearer, response>>
        PROVE  TypeOK'
    BY <2>1, <1>1, <1>2 DEF TypeOK, Steps
  <2>2. QED
    BY <1>9, <1>4, <2>1 DEF RoundTrip
<1>10. CASE ReadReply
  <2>1. Parsed \in Response
    <3>1. call.op \in OperationNames /\ reply \in Replies \cup {NoReply}
      BY <1>10, <1>1 DEF ReadReply, TypeInv, TypeOK
    <3>2. QED
      BY <3>1, ParsedIsResponse
  <2>2. Return(Parsed) => TypeOK'
    BY <2>1, <1>1, <1>2, ReturnTypeOK
  <2>3. QED
    BY <2>2, <1>4, <1>10 DEF ReadReply
<1>11. CASE End
  <2>1. /\ step = "ready" /\ step' = "idle" /\ response' = Failure
        /\ UNCHANGED <<base, keys, began, client, call, bearer, reply>>
    BY <1>11 DEF End
  <2>2. QED
    BY <2>1, <1>1, <1>2, <1>3 DEF TypeOK, Steps
<1>12. ASSUME UNCHANGED <<base, began, client, step, call, bearer, reply, response>>
       PROVE  TypeOK'
  BY <1>12, <1>1, <1>2 DEF TypeOK
<1>13. CASE TokenExpires \/ RotateKeys \/ UNCHANGED vars
  BY <1>13, <1>12 DEF TokenExpires, RotateKeys, vars
<1>14. QED
  BY <1>5, <1>6, <1>7, <1>8, <1>9, <1>10, <1>11, <1>13 DEF Next

LEMMA CallsStayNamed ==
  ASSUME TypeInv, [Next]_vars
  PROVE  (step \in {"built", "sent", "replied"} => call.op \in OperationNames)'
<1>1. CASE Call
  <2>1. ASSUME NEW operation \in Operations(client), call' = operation
        PROVE  call'.op \in OperationNames
    BY <2>1, OperationsAreNamed
  <2>2. QED
    BY <1>1, <2>1 DEF Call, Return, OperationNames
<1>2. CASE UNCHANGED call /\ (step' \in {"built", "sent", "replied"} =>
                                  step \in {"built", "sent", "replied"})
  BY <1>2 DEF TypeInv, OperationNames
<1>3. CASE step' \notin {"built", "sent", "replied"}
  BY <1>3
<1>4. CASE Begin \/ End \/ EditorFails \/ TokenRefused \/ ReadReply
  BY <1>4, <1>3 DEF Begin, End, EditorFails, TokenRefused, ReadReply, Return
<1>5. CASE Authorize
  BY <1>5, <1>2 DEF Authorize
<1>6. CASE RoundTrip
  BY <1>6, <1>2, <1>3 DEF RoundTrip, Return
<1>7. CASE TokenExpires \/ RotateKeys \/ UNCHANGED vars
  BY <1>7, <1>2 DEF TokenExpires, RotateKeys, vars
<1>8. QED
  BY <1>1, <1>4, <1>5, <1>6, <1>7 DEF Next

(***************************************************************************)
(* The client is type-correct: a call is pending exactly between its       *)
(* request and its response, and every parser returns a response.          *)
(***************************************************************************)
THEOREM CallsTypeOK == Spec => []TypeOK
<1>1. Init => TypeInv
  <2> SUFFICES ASSUME Init
               PROVE  TypeInv
    OBVIOUS
  <2>1. TokenInv /\ CallInv
    BY CallsAssumption DEF Init, TokenInv, CallInv, OwnCredentials, TokenSource
  <2>2. base \in Server
    BY CallsAssumption DEF Init
  <2>3. Failure \in Response
    BY DEF Failure, Response
  <2>4. TypeOK
    BY <2>1, <2>2, <2>3, CallsAssumption DEF Init, TypeOK, TokenInv, Steps
  <2>5. QED
    BY <2>1, <2>4 DEF TypeInv, Init
<1>2. TypeInv /\ [Next]_vars => TypeInv'
  BY TypeOKKept, TokenInvInductive, CallInvInductive, CallsStayNamed
     DEF TypeInv
<1>3. TypeInv => TypeOK
  BY DEF TypeInv
<1>4. QED
  BY <1>1, <1>2, <1>3, PTL DEF Spec

================================================================================
