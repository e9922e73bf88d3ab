------------------------------ MODULE Handlers ------------------------------
(***************************************************************************)
(* What the component modules share: the request handlers that may run at  *)
(* the same time, and a value for a column or a field that is empty.       *)
(***************************************************************************)
CONSTANTS
    Requests,   \* goroutines serving a request
    None        \* the empty string, a NULL column, a nil pointer

ASSUME NoneAssumption == None \notin Requests
=============================================================================
