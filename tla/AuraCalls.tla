-------------------------------- MODULE AuraCalls --------------------------------
(***************************************************************************)
(* How a reconcile uses the client: it reads the credentials, makes an     *)
(* HTTP client with a token source of its own, and calls operations one    *)
(* after the other.  A call builds its request, gets a token, goes over    *)
(* the wire, and has its reply read, closed and parsed.                    *)
(***************************************************************************)
EXTENDS AuraRequests

CONSTANTS
    BaseURLs,       \* what --base-url may be
    ReplyCodes,     \* the codes Aura, or a proxy before it, may answer with
    MaxKeys         \* bound on the changes of the credentials

ASSUME CallsAssumption ==
    /\ BaseURLs \subseteq Server
    /\ ReplyCodes \subseteq Nat
    /\ MaxKeys \in Nat \ {0}

VARIABLES
    base,       \* --base-url
    keys,       \* the version of the credentials in the cached secret
    began,      \* ... when the reconcile at work read it (history only)
    source,     \* the token source made last: its credentials and its token
    client,     \* Client.Server, which ends in a slash
    step,       \* where the reconcile, or the call it makes, is
    call,       \* the operation being called
    bearer,     \* the credentials behind the token the request carries
    reply,
    response    \* what the last call returned

vars == <<base, keys, began, source, client, step, call, bearer, reply, response>>

Steps == {"idle", "ready", "built", "sent", "replied"}

NoCall == Operation("none", <<>>, NoRequest)

\* token = 0: no token yet, or one that has expired.
TokenSource == [keys : 0..MaxKeys, token : 0..MaxKeys]

Replies == [code : ReplyCodes, json : BOOLEAN, body : {"full", "partial", "malformed"}]

TypeOK ==
    /\ base \in BaseURLs
    /\ keys \in 1..MaxKeys
    /\ began \in 0..MaxKeys
    /\ source \in TokenSource
    /\ client \in Server
    /\ step \in Steps
    /\ step \in {"built", "sent", "replied"} <=> call # NoCall
    /\ bearer \in 0..MaxKeys
    /\ reply \in Replies \cup {NoReply}
    /\ response \in Response

Init ==
    /\ base \in BaseURLs
    /\ keys = 1
    /\ began = 0
    /\ source = [keys |-> 0, token |-> 0]
    /\ client = base
    /\ step = "idle"
    /\ call = NoCall
    /\ bearer = 0
    /\ reply = NoReply
    /\ response = Failure

--------------------------------------------------------------------------------

\* Defect: the token source outlives the reconcile that made it.
NewTokenSourceOnce ==
    IF source.keys # 0 THEN source ELSE [keys |-> keys, token |-> 0]

NewTokenSource == [keys |-> keys, token |-> 0]

\* httpClient, and the Client reconcile makes with it.
Begin ==
    /\ step = "idle"
    /\ step' = "ready"
    /\ began' = keys
    /\ source' = NewTokenSource
    /\ client' = NewClient(base)
    /\ UNCHANGED <<base, keys, call, bearer, reply, response>>

End ==
    /\ step = "ready"
    /\ step' = "idle"
    /\ response' = Failure
    /\ UNCHANGED <<base, keys, began, source, client, call, bearer, reply>>

\* The call is over; its caller has the response.
Return(result) ==
    /\ step' = "ready"
    /\ call' = NoCall
    /\ bearer' = 0
    /\ reply' = NoReply
    /\ response' = result
    /\ UNCHANGED <<base, keys, began, client>>

\* A builder fails on a base URL that does not parse.
Call ==
    /\ step = "ready"
    /\ \E operation \in Operations(client) :
           \/ /\ operation.request # NoRequest
              /\ step' = "built"
              /\ call' = operation
              /\ UNCHANGED <<base, keys, began, client, bearer, reply, response>>
           \/ /\ operation.request = NoRequest
              /\ Return(Failure)
    /\ UNCHANGED source

\* An editor of the request refuses it.
EditorFails ==
    /\ step = "built"
    /\ Return(Failure)
    /\ UNCHANGED source

(***************************************************************************)
(* oauth2.Transport takes the token of its source, which asks the token    *)
(* endpoint for one when it has none that is valid.                        *)
(***************************************************************************)
Authorize ==
    /\ step = "built"
    /\ LET token == IF source.token # 0 THEN source.token ELSE source.keys IN
       /\ source' = [source EXCEPT !.token = token]
       /\ bearer' = token
    /\ step' = "sent"
    /\ UNCHANGED <<base, keys, began, client, call, reply, response>>

TokenRefused ==
    /\ step = "built"
    /\ source.token = 0
    /\ Return(Failure)
    /\ UNCHANGED source

\* The logging transport passes on what comes back: a reply or an error.
RoundTrip ==
    /\ step = "sent"
    /\ \/ \E r \in Replies :
              /\ step' = "replied"
              /\ reply' = r
              /\ UNCHANGED <<base, keys, began, client, call, bearer, response>>
       \/ Return(Failure)
    /\ UNCHANGED source

\* Each operation has a parser of its own.
Parsed ==
    CASE call.op = "GetCustomerManagedKeys" ->
             ParseGetCustomerManagedKeysResponse(reply)
      [] call.op = "PostCustomerManagedKeys" ->
             ParsePostCustomerManagedKeysResponse(reply)
      [] call.op = "DeleteCustomerManagedKeyId" ->
             ParseDeleteCustomerManagedKeyIdResponse(reply)
      [] call.op = "GetCustomerManagedKeyId" ->
             ParseGetCustomerManagedKeyIdResponse(reply)
      [] call.op = "GetSessions" -> ParseGetSessionsResponse(reply)
      [] call.op = "PostSession" -> ParsePostSessionResponse(reply)
      [] call.op = "PostSessionsSizing" ->
             ParsePostSessionsSizingResponse(reply)
      [] call.op = "DeleteSession" -> ParseDeleteSessionResponse(reply)
      [] call.op = "GetSession" -> ParseGetSessionResponse(reply)
      [] call.op = "GetInstances" -> ParseGetInstancesResponse(reply)
      [] call.op = "PostInstances" -> ParsePostInstancesResponse(reply)
      [] call.op = "PostInstancesSizing" ->
             ParsePostInstancesSizingResponse(reply)
      [] call.op = "DeleteInstanceId" -> ParseDeleteInstanceIdResponse(reply)
      [] call.op = "GetInstanceId" -> ParseGetInstanceIdResponse(reply)
      [] call.op = "PatchInstanceId" -> ParsePatchInstanceIdResponse(reply)
      [] call.op = "PostOverwriteInstance" ->
             ParsePostOverwriteInstanceResponse(reply)
      [] call.op = "PostPauseInstance" ->
             ParsePostPauseInstanceResponse(reply)
      [] call.op = "PostResumeInstance" ->
             ParsePostResumeInstanceResponse(reply)
      [] call.op = "GetSnapshots" -> ParseGetSnapshotsResponse(reply)
      [] call.op = "PostSnapshots" -> ParsePostSnapshotsResponse(reply)
      [] call.op = "GetSnapshotSnapshotid" ->
             ParseGetSnapshotSnapshotidResponse(reply)
      [] call.op = "PostRestoreSnapshot" ->
             ParsePostRestoreSnapshotResponse(reply)
      [] call.op = "PostUpgradeInstance" ->
             ParsePostUpgradeInstanceResponse(reply)
      [] call.op = "GetProjects" -> ParseGetProjectsResponse(reply)
      [] call.op = "GetProjectId" -> ParseGetProjectIdResponse(reply)
      [] call.op = "GetProjectMetricsIntegrationDetails" ->
             ParseGetProjectMetricsIntegrationDetailsResponse(reply)

\* The body is read to its end, or that fails.
ReadReply ==
    /\ step = "replied"
    /\ Return(Parsed) \/ Return(Failure)
    /\ UNCHANGED source

TokenExpires ==
    /\ source.token # 0
    /\ source' = [source EXCEPT !.token = 0]
    /\ UNCHANGED <<base, keys, began, client, step, call, bearer, reply, response>>

\* Somebody changes the credentials, and the cache has seen it.
RotateKeys ==
    /\ keys < MaxKeys
    /\ keys' = keys + 1
    /\ UNCHANGED <<base, began, source, client, step, call, bearer, reply, response>>

--------------------------------------------------------------------------------

Next ==
    \/ Begin \/ Call \/ EditorFails \/ Authorize \/ TokenRefused
    \/ RoundTrip \/ ReadReply \/ End
    \/ TokenExpires \/ RotateKeys

Spec == Init /\ [][Next]_vars

(***************************************************************************)
(* The worker goes on; the token endpoint and Aura answer when they like.  *)
(***************************************************************************)
LiveSpec ==
    /\ Spec
    /\ WF_vars(Begin)
    /\ WF_vars(Call)
    /\ WF_vars(ReadReply)
    /\ WF_vars(End)

--------------------------------------------------------------------------------

(***************************************************************************)
(* No two calls of different operations, or about different things, look   *)
(* alike to Aura, as long as no id is a dot segment: what is asked of the  *)
(* instance "." or ".." is asked of something else (the templates of the   *)
(* request builders, lines 1813-2921, and their escape of an id).          *)
(***************************************************************************)
Plain(operation) ==
    \A i \in 1..Len(operation.ids) : operation.ids[i] \notin DotSegments

RoutesIdentify ==
    step = "built" /\ Plain(call) =>
        \A other \in {operation \in Operations(client) : Plain(operation)} :
            /\ other.request.method = call.request.method
            /\ other.request.path = call.request.path
            => other.op = call.op /\ other.ids = call.ids

(***************************************************************************)
(* Every request goes below the configured base URL, whether or not that   *)
(* ends in a slash, and whatever the ids are: a dot segment never leads    *)
(* above it (NewClient, lines 1211-1231, and the templates of the request  *)
(* builders; main.go, lines 83-84).                                        *)
(***************************************************************************)
BelowBaseURL ==
    step = "built" => IsPrefix(base.path, call.request.path)

(***************************************************************************)
(* A request carries a token for the credentials its reconcile has read,   *)
(* so credentials that were replaced are used at most until the end of a   *)
(* reconcile (httpClient, lines 167-207).                                  *)
(***************************************************************************)
OwnCredentials == step = "sent" => bearer = began

(***************************************************************************)
(* A request ends, answered or not: there is a "timeout used for upstream  *)
(* http requests" (aurainstance_types.go, line 84).                        *)
(***************************************************************************)
RequestsEnd == (step = "sent") ~> (step # "sent")

================================================================================
