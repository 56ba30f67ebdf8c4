------------------------------ MODULE Requests ------------------------------
(***************************************************************************)
(* What the client makes of a server's answer (src/internal/mapError.ts,   *)
(* src/internal/request.ts, src/errors.ts).                                *)
(*                                                                         *)
(* An answer is a status and, when the server sent problem details, a      *)
(* problem type; status 0 is a request that failed without an answer.      *)
(***************************************************************************)
EXTENDS Naturals

Untyped == "no type"

Answer(status, type) == [status |-> status, type |-> type]
Ok == Answer(200, Untyped)
NoAnswer == Answer(0, Untyped)

(* The error classes that answer to a problem type.                        *)
ErrorClassByType ==
    [NotFound           |-> {"not-found"},
     CapabilityRevoked  |-> {"capability-revoked"},
     CapabilityExpired  |-> {"capability-expired"},
     Validation         |-> {"invalid-id", "invalid-request-body", "invalid-cursor",
                             "missing-content-type", "invalid-authorization-header",
                             "controller-mismatch", "invalid-import",
                             "unsupported-encryption-scheme", "encryption-scheme-mismatch"},
     AlreadyRevoked     |-> {"capability-already-revoked"},
     AuthRequired       |-> {"missing-authorization"},
     Conflict           |-> {"reserved-id", "id-conflict", "unsupported-backend",
                             "replica-refused", "backend-immutable", "encryption-immutable",
                             "encryption-history-log-governed", "revisions-immutable",
                             "resource-immutable"},
     PreconditionFailed |-> {"precondition-failed"},
     PayloadTooLarge    |-> {"payload-too-large"},
     QuotaExceeded      |-> {"quota-exceeded"},
     NotImplemented     |-> {"unsupported-operation"},
     Server             |-> {"storage-error", "internal-error"}]

ErrorClassByStatus(status) ==
    CASE status \in {400, 415, 422} -> "Validation"
      [] status \in {401, 403} -> "AuthRequired"
      [] status = 404 -> "NotFound"
      [] status = 409 -> "Conflict"
      [] status = 412 -> "PreconditionFailed"
      [] status = 413 -> "PayloadTooLarge"
      [] status = 501 -> "NotImplemented"
      [] status = 507 -> "QuotaExceeded"
      [] status >= 500 /\ status \notin {501, 507} -> "Server"
      [] OTHER -> "Pws"

(* The class of the error an answer becomes: its type decides, and its     *)
(* status only when the type is none the client knows.                     *)
MapError(answer) ==
    IF \E class \in DOMAIN ErrorClassByType : answer.type \in ErrorClassByType[class]
    THEN CHOOSE class \in DOMAIN ErrorClassByType : answer.type \in ErrorClassByType[class]
    ELSE ErrorClassByStatus(answer.status)

(* instanceof NotFoundError: a revoked or an expired capability is one.    *)
IsNotFound(answer) == MapError(answer) \in {"NotFound", "CapabilityRevoked", "CapabilityExpired"}
IsPreconditionFailed(answer) == MapError(answer) = "PreconditionFailed"

(* A read, or an idempotent delete, takes a bare 404 for an absence,       *)
(* whatever its problem type.                                              *)
Absent(answer) == answer.status = 404
=============================================================================
