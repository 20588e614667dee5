------------------------------ MODULE Publisher -------------------------------
(***************************************************************************)
(* What the publisher makes of an invoice and tells the worker pool of     *)
(* Viettel's answers (internal/integration/viettel_publisher.go, mapper.go *)
(* and viettel_dto.go).                                                    *)
(***************************************************************************)
EXTENDS SInvoice

\* uuid.New(): neither the uuid CreateInvoice minted nor one in use.
FreshUuids(i) == Uuids \ (Known(i) \cup {1})

\* Mutated form: every request is given a uuid of its own.
RequestUuidsAlwaysNew(i, uuid) == FreshUuids(i)

\* MapInvoiceToViettel: the uuid of the invoice or, if it has none, a new one.
RequestUuids(i, uuid) == IF uuid = NoUuid THEN FreshUuids(i) ELSE {uuid}

-----------------------------------------------------------------------------
(* The answers to a create request that are errors: the HTTP status and    *)
(* the error code in the body, if one can be read.                         *)

\* nonRetryableViettelErrors
NonRetryable == {"TAX_CODE_INVALID", "TRANSACTION_UUID_REQUIRED",
                 "TAX_CODE_REQUIRED", "BUYER_EMAIL_REQUIRED",
                 "BUYER_EMAIL_ADDRESS_FORMAT", "NOT_FOUND_DATA"}

\* viettelErrCodeMap, whose other codes are UNKNOWN.
ErrCode == NonRetryable \cup {"EMAIL_CONFIG_NOT_ACTIVE", "EMAIL_NOT_CONFIG", "UNKNOWN"}

\* A 200 whose body holds an errorCode, a 400, any other status; "unreadable"
\* is a body that is not JSON.
ErrorAnswer == [http : {"200", "400", "other"}, code : ErrCode \cup {"unreadable"}]

\* ParseViettelError, for a 400 only: the other answers become errors that
\* are not a *ViettelError, whatever code they hold.
IsRetryable(a) == a.http = "400" => a.code \notin NonRetryable \cup {"unreadable"}

-----------------------------------------------------------------------------
\* CreateInvoice returns the invoice number, or an empty string while
\* Viettel has accepted the request and not numbered it yet.
ReturnsNumber(v) == v = "issued"

\* Mutated form: an invoice without a number yet is said to be completed.
QueryStatusEager(i, u) == IF viettel[i][u] = "none" THEN "pending" ELSE "completed"

\* QueryStatus: "pending" when Viettel knows nothing of the uuid.
QueryStatus(i, u) == CASE viettel[i][u] = "none"    -> "pending"
                       [] viettel[i][u] = "pending" -> "processing"
                       [] viettel[i][u] = "issued"  -> "completed"
=============================================================================
