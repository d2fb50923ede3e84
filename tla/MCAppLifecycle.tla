----------------------------- MODULE MCAppLifecycle -----------------------------
(* Two requests and a runtime that is started at most twice.  The settings *)
(* are those that startup() tells apart; a close() that raises is combined *)
(* with the runtime that has two objects to close.                         *)
EXTENDS AppLifecycle

Enabled(m, r, t) == [memory |-> m, runtime |-> r, temporal |-> t]

MCScenarios ==
  [settings : {Enabled(TRUE, FALSE, FALSE), Enabled(TRUE, TRUE, FALSE),
               Enabled(TRUE, TRUE, TRUE), Enabled(FALSE, TRUE, FALSE)},
   faulty : {{"migration"}, {"open", "retry"}}]
  \cup [settings : {Enabled(TRUE, TRUE, FALSE)}, faulty : {{"close"}}]
=============================================================================
