------------------------------ MODULE Callers -------------------------------
(* Who calls the API and the contracts, and the requests of an instance:   *)
(* each is used once.                                                      *)
CONSTANTS Users, Nobody, Requests

ASSUME CallersAssumption == Nobody \notin Users /\ Nobody \notin Requests
=============================================================================
