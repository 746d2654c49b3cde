------------------------------ MODULE AuraRequests ------------------------------
(***************************************************************************)
(* The other half of the generated client: from a call to a request on the *)
(* wire.  A URL is the sequence of its path's segments.  An id is one      *)
(* segment, since the builders escape the slashes in it, but the escape    *)
(* leaves dots alone and resolution gives "." and ".." their meaning.  A   *)
(* query is a set of names and values; of a body only the content type is  *)
(* kept.                                                                   *)
(***************************************************************************)
EXTENDS AuraClient, Sequences, SequencesExt

CONSTANTS
    Ids,            \* the values path and query parameters take
    Absent          \* an optional parameter left out

ContentTypes == {"application/json", "other"}

DotSegments == {".", ".."}

\* A base URL; slash says that its path ends in one, valid that it parses.
Server == [path : Seq(STRING \ DotSegments), slash : BOOLEAN, valid : BOOLEAN]

--------------------------------------------------------------------------------

\* Defect: the slash is left to whoever configures the base URL.
NewClientAsGiven(server) == server

\* NewClient ends the path of the base URL with a slash.
NewClient(server) == [server EXCEPT !.slash = TRUE]

\* Where a path leads from a directory, one segment further.
Up(at) == IF at = <<>> THEN <<>> ELSE Front(at)

Down(at, segment) ==
    CASE segment = "."  -> at
      [] segment = ".." -> Up(at)
      [] OTHER          -> Append(at, segment)

Along(at, path, k) == IF k <= Len(path) THEN Down(at, path[k]) ELSE at

(***************************************************************************)
(* serverURL.Parse: a relative path takes the place of what follows the    *)
(* base path's last slash, and its dot segments are removed; a path that   *)
(* ends in one ends in a slash.  No path has more than five segments.      *)
(***************************************************************************)
Resolve(server, path) ==
    LET directory == IF server.slash \/ server.path = <<>>
                     THEN server.path
                     ELSE Front(server.path)
        second == Along(Along(directory, path, 1), path, 2)
        fourth == Along(Along(second, path, 3), path, 4)
        fifth  == Along(fourth, path, 5) IN
    IF Last(path) \in DotSegments THEN Append(fifth, "") ELSE fifth

NoRequest == [method |-> "none", path |-> <<>>, query |-> {}, body |-> "none"]

\* What all builders do: parse the base URL, resolve the path, make the request.
Build(method, server, path, query, body) ==
    IF server.valid
    THEN [method |-> method, path |-> Resolve(server, path),
          query  |-> query,  body |-> body]
    ELSE NoRequest

Query(params) ==
    {<<name, params[name]>> : name \in {n \in DOMAIN params : params[n] # Absent}}

NewGetCustomerManagedKeysRequest(server, params) ==
    Build("GET", server, <<"customer-managed-keys">>, Query(params), "none")
NewPostCustomerManagedKeysRequest(server, contentType) ==
    Build("POST", server, <<"customer-managed-keys">>, {}, contentType)
NewDeleteCustomerManagedKeyIdRequest(server, id) ==
    Build("DELETE", server, <<"customer-managed-keys", id>>, {}, "none")
NewGetCustomerManagedKeyIdRequest(server, id) ==
    Build("GET", server, <<"customer-managed-keys", id>>, {}, "none")
NewGetSessionsRequest(server, params) ==
    Build("GET", server, <<"graph-analytics", "sessions">>, Query(params), "none")
NewPostSessionRequest(server, contentType) ==
    Build("POST", server, <<"graph-analytics", "sessions">>, {}, contentType)
NewPostSessionsSizingRequest(server, contentType) ==
    Build("POST", server, <<"graph-analytics", "sessions", "sizing">>, {}, contentType)
NewDeleteSessionRequest(server, id) ==
    Build("DELETE", server, <<"graph-analytics", "sessions", id>>, {}, "none")
NewGetSessionRequest(server, id) ==
    Build("GET", server, <<"graph-analytics", "sessions", id>>, {}, "none")
NewGetInstancesRequest(server, params) ==
    Build("GET", server, <<"instances">>, Query(params), "none")
NewPostInstancesRequest(server, contentType) ==
    Build("POST", server, <<"instances">>, {}, contentType)
NewPostInstancesSizingRequest(server, contentType) ==
    Build("POST", server, <<"instances", "sizing">>, {}, contentType)
NewDeleteInstanceIdRequest(server, id) ==
    Build("DELETE", server, <<"instances", id>>, {}, "none")
NewGetInstanceIdRequest(server, id) ==
    Build("GET", server, <<"instances", id>>, {}, "none")
NewPatchInstanceIdRequest(server, id, contentType) ==
    Build("PATCH", server, <<"instances", id>>, {}, contentType)
NewPostOverwriteInstanceRequest(server, id, contentType) ==
    Build("POST", server, <<"instances", id, "overwrite">>, {}, contentType)
NewPostPauseInstanceRequest(server, id, contentType) ==
    Build("POST", server, <<"instances", id, "pause">>, {}, contentType)
\* Defect: resuming an instance is sent where pausing one is.
NewPostResumeInstanceRequestToPause(server, id, contentType) ==
    Build("POST", server, <<"instances", id, "pause">>, {}, contentType)
NewPostResumeInstanceRequest(server, id, contentType) ==
    Build("POST", server, <<"instances", id, "resume">>, {}, contentType)
NewGetSnapshotsRequest(server, id, params) ==
    Build("GET", server, <<"instances", id, "snapshots">>, Query(params), "none")
NewPostSnapshotsRequest(server, id, contentType) ==
    Build("POST", server, <<"instances", id, "snapshots">>, {}, contentType)
NewGetSnapshotSnapshotidRequest(server, id, snapshotId) ==
    Build("GET", server, <<"instances", id, "snapshots", snapshotId>>, {}, "none")
NewPostRestoreSnapshotRequest(server, id, snapshotId, contentType) ==
    Build("POST", server, <<"instances", id, "snapshots", snapshotId, "restore">>,
          {}, contentType)
NewPostUpgradeInstanceRequest(server, id, contentType) ==
    Build("POST", server, <<"instances", id, "upgrade">>, {}, contentType)
NewGetProjectsRequest(server) ==
    Build("GET", server, <<"tenants">>, {}, "none")
NewGetProjectIdRequest(server, id) ==
    Build("GET", server, <<"tenants", id>>, {}, "none")
NewGetProjectMetricsIntegrationDetailsRequest(server, id) ==
    Build("GET", server, <<"tenants", id, "metrics-integration">>, {}, "none")

--------------------------------------------------------------------------------

(***************************************************************************)
(* The methods of Client: each builds its request and sends it.            *)
(***************************************************************************)
Operation(op, ids, request) == [op |-> op, ids |-> ids, request |-> request]

GetCustomerManagedKeys(server) ==
    {Operation("GetCustomerManagedKeys", <<>>,
               NewGetCustomerManagedKeysRequest(server, params)) :
        params \in [{"tenantId"} -> Ids \cup {Absent}]}
PostCustomerManagedKeys(server) ==
    {Operation("PostCustomerManagedKeys", <<>>,
               NewPostCustomerManagedKeysRequest(server, contentType)) :
        contentType \in ContentTypes}
DeleteCustomerManagedKeyId(server) ==
    {Operation("DeleteCustomerManagedKeyId", <<id>>,
               NewDeleteCustomerManagedKeyIdRequest(server, id)) :
        id \in Ids}
GetCustomerManagedKeyId(server) ==
    {Operation("GetCustomerManagedKeyId", <<id>>,
               NewGetCustomerManagedKeyIdRequest(server, id)) :
        id \in Ids}
GetSessions(server) ==
    {Operation("GetSessions", <<>>, NewGetSessionsRequest(server, params)) :
        params \in [{"instanceId", "tenantId", "organizationId"} -> Ids \cup {Absent}]}
PostSession(server) ==
    {Operation("PostSession", <<>>, NewPostSessionRequest(server, contentType)) :
        contentType \in ContentTypes}
PostSessionsSizing(server) ==
    {Operation("PostSessionsSizing", <<>>,
               NewPostSessionsSizingRequest(server, contentType)) :
        contentType \in ContentTypes}
DeleteSession(server) ==
    {Operation("DeleteSession", <<id>>, NewDeleteSessionRequest(server, id)) :
        id \in Ids}
GetSession(server) ==
    {Operation("GetSession", <<id>>, NewGetSessionRequest(server, id)) :
        id \in Ids}
GetInstances(server) ==
    {Operation("GetInstances", <<>>, NewGetInstancesRequest(server, params)) :
        params \in [{"tenantId"} -> Ids \cup {Absent}]}
PostInstances(server) ==
    {Operation("PostInstances", <<>>, NewPostInstancesRequest(server, contentType)) :
        contentType \in ContentTypes}
PostInstancesSizing(server) ==
    {Operation("PostInstancesSizing", <<>>,
               NewPostInstancesSizingRequest(server, contentType)) :
        contentType \in ContentTypes}
DeleteInstanceId(server) ==
    {Operation("DeleteInstanceId", <<id>>, NewDeleteInstanceIdRequest(server, id)) :
        id \in Ids}
GetInstanceId(server) ==
    {Operation("GetInstanceId", <<id>>, NewGetInstanceIdRequest(server, id)) :
        id \in Ids}
PatchInstanceId(server) ==
    {Operation("PatchInstanceId", <<id>>,
               NewPatchInstanceIdRequest(server, id, contentType)) :
        id \in Ids, contentType \in ContentTypes}
PostOverwriteInstance(server) ==
    {Operation("PostOverwriteInstance", <<id>>,
               NewPostOverwriteInstanceRequest(server, id, contentType)) :
        id \in Ids, contentType \in ContentTypes}
PostPauseInstance(server) ==
    {Operation("PostPauseInstance", <<id>>,
               NewPostPauseInstanceRequest(server, id, contentType)) :
        id \in Ids, contentType \in ContentTypes}
PostResumeInstance(server) ==
    {Operation("PostResumeInstance", <<id>>,
               NewPostResumeInstanceRequest(server, id, contentType)) :
        id \in Ids, contentType \in ContentTypes}
GetSnapshots(server) ==
    {Operation("GetSnapshots", <<id>>, NewGetSnapshotsRequest(server, id, params)) :
        id \in Ids, params \in [{"date"} -> Ids \cup {Absent}]}
PostSnapshots(server) ==
    {Operation("PostSnapshots", <<id>>,
               NewPostSnapshotsRequest(server, id, contentType)) :
        id \in Ids, contentType \in ContentTypes}
GetSnapshotSnapshotid(server) ==
    {Operation("GetSnapshotSnapshotid", <<id, snapshotId>>,
               NewGetSnapshotSnapshotidRequest(server, id, snapshotId)) :
        id \in Ids, snapshotId \in Ids}
PostRestoreSnapshot(server) ==
    {Operation("PostRestoreSnapshot", <<id, snapshotId>>,
               NewPostRestoreSnapshotRequest(server, id, snapshotId, contentType)) :
        id, snapshotId \in Ids, contentType \in ContentTypes}
PostUpgradeInstance(server) ==
    {Operation("PostUpgradeInstance", <<id>>,
               NewPostUpgradeInstanceRequest(server, id, contentType)) :
        id \in Ids, contentType \in ContentTypes}
GetProjects(server) ==
    {Operation("GetProjects", <<>>, NewGetProjectsRequest(server))}
GetProjectId(server) ==
    {Operation("GetProjectId", <<id>>, NewGetProjectIdRequest(server, id)) :
        id \in Ids}
GetProjectMetricsIntegrationDetails(server) ==
    {Operation("GetProjectMetricsIntegrationDetails", <<id>>,
               NewGetProjectMetricsIntegrationDetailsRequest(server, id)) :
        id \in Ids}

\* Every call a caller can make of the client.
Operations(server) ==
    GetCustomerManagedKeys(server) \cup PostCustomerManagedKeys(server) \cup
    DeleteCustomerManagedKeyId(server) \cup GetCustomerManagedKeyId(server) \cup
    GetSessions(server) \cup PostSession(server) \cup
    PostSessionsSizing(server) \cup DeleteSession(server) \cup
    GetSession(server) \cup GetInstances(server) \cup PostInstances(server) \cup
    PostInstancesSizing(server) \cup DeleteInstanceId(server) \cup
    GetInstanceId(server) \cup PatchInstanceId(server) \cup
    PostOverwriteInstance(server) \cup PostPauseInstance(server) \cup
    PostResumeInstance(server) \cup GetSnapshots(server) \cup
    PostSnapshots(server) \cup GetSnapshotSnapshotid(server) \cup
    PostRestoreSnapshot(server) \cup PostUpgradeInstance(server) \cup
    GetProjects(server) \cup GetProjectId(server) \cup
    GetProjectMetricsIntegrationDetails(server)

================================================================================
