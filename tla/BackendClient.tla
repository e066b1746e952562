---------------------------- MODULE BackendClient ----------------------------
(***************************************************************************)
(* What Process B's drainer, poller and registrar get to see of an HTTP     *)
(* exchange: _request and _parse of backend_client.py.  The client keeps no *)
(* state and retries nothing.                                               *)
(***************************************************************************)

\* How one HTTP exchange can end on the wire.
Wire == {"2xx", "2xx malformed", "4xx", "5xx", "no response", "other error"}
Refusal == {"2xx malformed", "4xx"}

\* (variant for a mutant) A timeout is taken for success.
OutcomeIgnoringTimeouts(wire) ==
  CASE wire \in {"2xx", "no response"}    -> "ok"
    [] wire \in {"2xx malformed", "4xx"} -> "permanent"
    [] wire = "5xx"                      -> "transient"
    [] wire = "other error"              -> "unexpected"

\* (variant for a mutant) Every failure counts against the row.
OutcomeNeverTransient(wire) ==
  IF wire = "2xx" THEN "ok" ELSE "permanent"

\* _request and _parse: what the caller gets to see of it.
Outcome(wire) ==
  CASE wire = "2xx"                     -> "ok"
    [] wire \in {"2xx malformed", "4xx"} -> "permanent"
    [] wire \in {"5xx", "no response"}   -> "transient"
    [] wire = "other error"              -> "unexpected"

Replies == {"none", "ok", "permanent", "transient", "unexpected"}
=============================================================================
