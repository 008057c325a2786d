----------------------------- MODULE Enforcement -----------------------------
(***************************************************************************)
(* ACCESS_CHECK over the tables that administration leaves, as the handler *)
(* answers it: from what PDP::evaluate returns, not from the reference     *)
(* meaning of rules.                                                       *)
(***************************************************************************)
EXTENDS Pep, Pdp

\* PEP::handleAccessCheck() of u: the results that may be returned, by the orders in
\* which PostgreSQL may return rows.
AccessCheck(u, r, a) ==
    CASE ~Caller(u) -> {"TOKEN_INVALID"}
      [] Caller(u) /\ r \notin Present(catalogue) -> {"RESOURCE_NOT_FOUND"}
      [] OTHER -> {IF d.allowed THEN "OK" ELSE "ACCESS_DENIED" :
                      d \in ServerDecisions(accounts[u], catalogue[r], a, policies)}

(* What is shown of Access holds of the server's answers: ACCESS_CHECK is  *)
(* answered ok, in whatever order rows of equal priority are read, exactly *)
(* if the rules as they stand permit it to an account that may be used,    *)
(* one that was locked out after it signed in included (pdp.cpp 20-28).    *)
AccessIsSettled ==
    \A u \in Users, r \in Resources, a \in Actions :
       LET results == AccessCheck(u, r, a)
       IN IF Can(u, r, a) THEN results = {"OK"} ELSE "OK" \notin results
=============================================================================
