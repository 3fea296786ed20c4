------------------------------- MODULE Errors -------------------------------
(***************************************************************************)
(* The error codes of psrpc, their translations, and what an error looks   *)
(* like on the wire (errors.go; the wire form in pkg/server/rpc.go,        *)
(* sendResponse).                                                          *)
(*                                                                         *)
(* A code is its string.  The codes of gRPC are named by the string of the *)
(* psrpc code with their name.  Of the text of an error only whether it is *)
(* empty is kept.                                                          *)
(***************************************************************************)
EXTENDS FiniteSets, Naturals

OK == ""

\* The codes that gRPC has as well.
GrpcCodes ==
    {OK, "canceled", "unknown", "invalid_argument", "deadline_exceeded", "not_found",
     "already_exists", "permission_denied", "resource_exhausted", "failed_precondition",
     "aborted", "out_of_range", "unimplemented", "internal", "unavailable", "data_loss",
     "unauthenticated"}

Codes == GrpcCodes \cup {"malformed_request", "malformed_result", "not_acceptable"}

\* Mutant of ToGRPC: a malformed request is nobody's fault.
ToGRPCUnknown(code) == IF code \in GrpcCodes THEN code ELSE "unknown"

ToGRPC(code) ==
    CASE code \in GrpcCodes         -> code
      [] code = "malformed_request" -> "invalid_argument"
      [] code = "malformed_result"  -> "internal"
      [] OTHER                      -> "unknown"

ErrorCodeFromGRPC(code) == IF code \in GrpcCodes THEN code ELSE "unknown"

\* The codes of each HTTP status; any other is a 500.
HTTPStatus ==
    [status \in {200, 400, 401, 403, 404, 406, 409, 412, 416, 429, 501, 503} |->
        CASE status = 200 -> {OK}
          [] status = 400 -> {"invalid_argument", "malformed_request"}
          [] status = 401 -> {"unauthenticated"}
          [] status = 403 -> {"permission_denied"}
          [] status = 404 -> {"not_found"}
          [] status = 406 -> {"not_acceptable"}
          [] status = 409 -> {"already_exists", "aborted"}
          [] status = 412 -> {"failed_precondition"}
          [] status = 416 -> {"out_of_range"}
          [] status = 429 -> {"resource_exhausted"}
          [] status = 501 -> {"unimplemented"}
          [] status = 503 -> {"canceled", "deadline_exceeded", "unavailable"}]

ToHTTP(code) ==
    IF \E status \in DOMAIN HTTPStatus : code \in HTTPStatus[status]
    THEN CHOOSE status \in DOMAIN HTTPStatus : code \in HTTPStatus[status]
    ELSE 500

----------------------------------------------------------------------------
\* Errors.  One that is nil is of type "none".

Nil == [type |-> "none", code |-> OK, text |-> FALSE]

PsrpcError(code) == [type |-> "psrpc", code |-> code, text |-> TRUE]

NewErrorFromResponse(code) == PsrpcError(IF code = OK THEN "unknown" ELSE code)

\* The Code and Error fields of a response.  An error that psrpc or gRPC knows keeps
\* its code, a status that says OK excepted.
Wire(err) ==
    [code |-> CASE err.type = "none"                     -> OK
                [] err.type = "psrpc"                    -> err.code
                [] err.type = "grpc" /\ err.code # OK    -> ErrorCodeFromGRPC(err.code)
                [] OTHER                                 -> "unknown",
     text |-> err.text]

\* The client takes a response without a text for a success.
FromWire(res) == IF res.text THEN NewErrorFromResponse(res.code) ELSE Nil

\* The codes that are worth another attempt.
TimeoutCodes == {"deadline_exceeded", "unavailable"}

IsTimeout(err) == err.type # "psrpc" \/ err.code \in TimeoutCodes
=============================================================================
