----------------------------- MODULE MCEipStatus -----------------------------
(* EipStatus on a small instance: three of the threads, one state name for *)
(* each way a level is treated.                                            *)
EXTENDS EipStatus

MCThreads == {"mgmt", "main", "eip"}
MCPublished ==
  {"CONNECTED", "AUTH", "NONETWORK", "ESTABLISHVOIDVPN", "STOPPING", "NOPROCESS"}

(* Enough for the debouncing alone. *)
FewThreads == {"mgmt", "eip"}
FewPublished == {"CONNECTED", "NONETWORK", "NOPROCESS"}
=============================================================================
