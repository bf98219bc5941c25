----------------------------- MODULE RetryPolicy -----------------------------
(***************************************************************************)
(* src/retry-policy.ts: which failures of a request are repeated.  The     *)
(* policy is derived from the shape of the request, never declared by the  *)
(* caller.                                                                 *)
(***************************************************************************)

(* What a RequestSpec says that the policy and the cache depend on.  A     *)
(* binary response is always asked for with GET and no body                *)
(* (executeBinary), whatever the method of the specification.              *)
Shapes ==
  {shape \in [method : {"GET", "POST"}, body : {"none", "json", "multipart"},
              response : {"json", "text", "binary"},
              intent : {"none", "fresh-read", "side-effecting-read"}] :
     shape.response = "binary" => shape.method = "GET" /\ shape.body = "none"}

(* Error statuses: "limited" 429, "failed" 500 and above, "rejected" any   *)
(* other 4xx.                                                              *)
ErrorStatuses == {"limited", "failed", "rejected"}

(* The first of these facts that holds decides.                            *)
deriveRetryPolicy(shape) ==
  IF shape.body = "multipart" THEN "none"
  ELSE IF shape.intent = "side-effecting-read" THEN "rateLimitOnly"
  ELSE IF shape.response = "binary" THEN "binaryGet"
  ELSE "full"

(* A mutated form: a 5xx of any request is repeated.                       *)
retryFailedWrites(policy, status, method) ==
  status \in {"limited", "failed"} /\ policy # "none"

isStatusRetryable(policy, status, method) ==
  \/ status = "limited" /\ policy # "none"
  \/ status = "failed" /\ (policy = "binaryGet" \/ (policy = "full" /\ method = "GET"))

(* A mutated form: every GET is repeated.                                  *)
retryNetworkOfGet(policy, method) == method = "GET"

isNetworkErrorRetryable(policy, method) ==
  policy = "binaryGet" \/ (policy = "full" /\ method = "GET")

-------------------------------------------------------------------------------
(* A request that may change something at TestRail: a write, an upload, a  *)
(* report generated by a GET.                                              *)
HasEffects(shape) ==
  shape.method # "GET" \/ shape.body = "multipart" \/ shape.intent = "side-effecting-read"
===============================================================================
