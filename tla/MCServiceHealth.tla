--------------------------- MODULE MCServiceHealth ---------------------------
(* Services and mishaps for the run of ServiceHealth. *)
EXTENDS ServiceHealth

OneWorker == <<"order-worker">>

\* Pairs that interfere: an incident, and what disturbs its report.
Pairs ==
  {{"failed tick", "alert worker"}, {"failed tick", "postgres"}, {"late tick", "watchdog"},
   {"crash", "watchdog"}, {"stop", "watchdog"}, {"redis", "alert worker"}}
=============================================================================
