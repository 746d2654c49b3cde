------------------------------- MODULE AuraClient -------------------------------
(***************************************************************************)
(* How the generated HTTP client turns a reply of the Aura API into what   *)
(* the reconciler sees: an error, a status code, or a status code with the *)
(* decoded body.  A body is "full", "partial" (optional fields or the      *)
(* whole data object are missing, which decodes to nil pointers) or        *)
(* "malformed".                                                            *)
(***************************************************************************)
EXTENDS Integers

Codes == {200, 202, 404, 500}     \* 500 stands for every code the caller rejects

Reply == [code : Codes, json : BOOLEAN, body : {"full", "partial", "malformed"}]

\* The request, or reading its reply, failed: timeout, reset, no token.
NoReply == [code |-> 0, json |-> FALSE, body |-> "malformed"]

Response == [err : BOOLEAN, code : Nat, data : {"nil", "full", "partial"}]

Failure == [err |-> TRUE, code |-> 0, data |-> "nil"]

Refusals == {401, 403, 429, 500, 502, 503, 504}

--------------------------------------------------------------------------------

\* Defect: whether a body could be decoded is not looked at.
ParseUnchecked(reply, documented, success) ==
    IF reply = NoReply
    THEN Failure
    ELSE [err  |-> FALSE,
          code |-> reply.code,
          data |-> IF reply.json /\ reply.code \in success THEN reply.body ELSE "nil"]

(***************************************************************************)
(* A JSON reply with a documented code is decoded, and decoding may fail;  *)
(* every other reply keeps its code and no data.  Only a code of success   *)
(* fills a field with data; the fields of refusals are read by nobody.     *)
(***************************************************************************)
Parse(reply, documented, success) ==
    IF \/ reply = NoReply
       \/ /\ reply.json
          /\ reply.code \in documented
          /\ reply.body = "malformed"
    THEN Failure
    ELSE [err  |-> FALSE,
          code |-> reply.code,
          data |-> IF reply.json /\ reply.code \in success THEN reply.body ELSE "nil"]

ParseGetCustomerManagedKeysResponse(reply) ==
    Parse(reply, Refusals \cup {200}, {200})
ParsePostCustomerManagedKeysResponse(reply) ==
    Parse(reply, Refusals \cup {202, 400, 415}, {202})
ParseDeleteCustomerManagedKeyIdResponse(reply) ==
    Parse(reply, Refusals \cup {400, 404}, {})
ParseGetCustomerManagedKeyIdResponse(reply) ==
    Parse(reply, Refusals \cup {200, 404}, {200})
ParseGetSessionsResponse(reply) ==
    Parse(reply, Refusals \cup {200, 400, 404}, {200})
ParsePostSessionResponse(reply) ==
    Parse(reply, Refusals \cup {200, 202, 400, 409}, {200, 202})
ParsePostSessionsSizingResponse(reply) ==
    Parse(reply, Refusals \cup {200, 400, 415}, {200})
ParseDeleteSessionResponse(reply) == Parse(reply, Refusals \cup {202, 404}, {202})
ParseGetSessionResponse(reply) == Parse(reply, Refusals \cup {200, 404}, {200})
ParseGetInstancesResponse(reply) == Parse(reply, Refusals \cup {200}, {200})
ParsePostInstancesResponse(reply) ==
    Parse(reply, Refusals \cup {202, 400, 405, 415}, {202})
ParsePostInstancesSizingResponse(reply) ==
    Parse(reply, Refusals \cup {200, 415}, {200})
ParseDeleteInstanceIdResponse(reply) ==
    Parse(reply, Refusals \cup {202, 404, 409}, {202})
ParseGetInstanceIdResponse(reply) == Parse(reply, Refusals \cup {200, 404}, {200})
ParsePatchInstanceIdResponse(reply) ==
    Parse(reply, Refusals \cup {200, 202, 400, 404, 409, 415}, {200, 202})
ParsePostOverwriteInstanceResponse(reply) ==
    Parse(reply, Refusals \cup {202, 404, 409}, {202})
ParsePostPauseInstanceResponse(reply) ==
    Parse(reply, Refusals \cup {202, 400, 404, 409}, {202})
ParsePostResumeInstanceResponse(reply) ==
    Parse(reply, Refusals \cup {202, 404, 409}, {202})
ParseGetSnapshotsResponse(reply) == Parse(reply, Refusals \cup {200, 404}, {200})
ParsePostSnapshotsResponse(reply) ==
    Parse(reply, Refusals \cup {202, 404, 409}, {202})
ParseGetSnapshotSnapshotidResponse(reply) ==
    Parse(reply, Refusals \cup {200, 404}, {200})
ParsePostRestoreSnapshotResponse(reply) ==
    Parse(reply, Refusals \cup {202, 404, 409}, {202})
ParsePostUpgradeInstanceResponse(reply) ==
    Parse(reply, Refusals \cup {200, 404, 409}, {200})
ParseGetProjectsResponse(reply) == Parse(reply, Refusals \cup {200}, {200})
ParseGetProjectIdResponse(reply) == Parse(reply, Refusals \cup {200, 404}, {200})
ParseGetProjectMetricsIntegrationDetailsResponse(reply) ==
    Parse(reply, Refusals \cup {200, 404}, {200})

================================================================================
