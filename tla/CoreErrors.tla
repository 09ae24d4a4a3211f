------------------------------ MODULE CoreErrors ------------------------------
(***************************************************************************)
(* The stable error codes of the core (internal/errors/codes.go) and what  *)
(* an HTTP handler makes of them: internal/api/errors/envelope.go, and the *)
(* part of internal/proxy/api/anthropic_proxy.go that turns the status of  *)
(* the provider into a code.                                               *)
(***************************************************************************)
EXTENDS Integers

(* The codes a request to the core can end with; NoError is the code of a  *)
(* nil error (the empty string in Go).                                     *)
NoError == "none"
Codes == {"UNKNOWN_ERROR", "UNAUTHORIZED", "CONFIG_PARSE_ERROR",
          "CONFIG_PERMISSION_ERROR", "CONFIG_SCHEMA_ERROR", "CORE_NOT_RUNNING",
          "CONNECTION_REFUSED", "PORT_IN_USE", "STORAGE_OPEN_ERROR",
          "STORAGE_MIGRATION_ERROR", "STORAGE_QUERY_ERROR", "STORAGE_LOCK_ERROR",
          "STORAGE_PERMISSION_ERROR", "STORAGE_CORRUPT_ERROR",
          "VALIDATION_FAILED", "INTERNAL_SERVER_ERROR", "PROXY_DISABLED",
          "PROXY_NOT_CONFIGURED", "PROXY_UPSTREAM_ERROR", "PROXY_TIMEOUT"}

(* Mutant of toHTTPStatus: a timeout of the provider becomes Request Timeout. *)
toHTTPStatusTimeout(code) ==
    CASE code = "UNAUTHORIZED" -> 401
      [] code \in {"VALIDATION_FAILED", "CONFIG_SCHEMA_ERROR"} -> 400
      [] code = "PORT_IN_USE" -> 409
      [] code \in {"PROXY_DISABLED", "PROXY_NOT_CONFIGURED"} -> 503
      [] code = "PROXY_UPSTREAM_ERROR" -> 502
      [] code = "PROXY_TIMEOUT" -> 408
      [] OTHER -> 500

(* The HTTP status of the error envelope. *)
toHTTPStatus(code) ==
    CASE code = "UNAUTHORIZED" -> 401
      [] code \in {"VALIDATION_FAILED", "CONFIG_SCHEMA_ERROR"} -> 400
      [] code = "PORT_IN_USE" -> 409
      [] code \in {"PROXY_DISABLED", "PROXY_NOT_CONFIGURED"} -> 503
      [] code = "PROXY_UPSTREAM_ERROR" -> 502
      [] code = "PROXY_TIMEOUT" -> 504
      [] OTHER -> 500

(* Statuses the proxy passes through; any other is an error. *)
Success(status) == status \in 200..299

proxyErrorFromUpstreamStatus(status) ==
    IF status \in {400, 422} THEN "VALIDATION_FAILED" ELSE "PROXY_UPSTREAM_ERROR"
=============================================================================
