----------------------------- MODULE MCStartup ------------------------------
(* Small instances of Startup: version 1 is installed, 2 is broken, 3 good.  *)
EXTENDS Startup

CONSTANTS e, a, b

MCSchema == [v \in Versions |-> 1]
\* Version 2 adds a field.
MCSchemaGrows == [v \in Versions |-> IF v = 1 THEN 1 ELSE 2]

Offer(v) == [version |-> v, stable |-> TRUE, complete |-> TRUE, intact |-> TRUE]

\* The latest release over time, among them some that must not be installed.
MCOffers ==
  {Offer(1), Offer(2), Offer(3),
   [Offer(3) EXCEPT !.stable = FALSE], [Offer(3) EXCEPT !.complete = FALSE],
   [Offer(3) EXCEPT !.intact = FALSE]}

Of(u, s, c) == [unified |-> u, server |-> s, client |-> c]

\* What the former programs, a copied file or an earlier start can have left.
MCFirstFiles ==
  {Of(Absent, Absent, Absent), Of(Empty, Absent, Absent), Of(Bad, Absent, Absent),
   Of(Unified([expose |-> e, access |-> a], 1), Absent, Absent),
   Of(Unified([expose |-> NoRole, access |-> a], 1), Legacy(e), Absent),
   Of(Absent, Legacy(e), Absent), Of(Absent, Absent, Legacy(a)),
   Of(Absent, Legacy(e), Legacy(a)), Of(Absent, Bad, Legacy(a)), Of(Absent, Empty, Legacy(a))}
=============================================================================
