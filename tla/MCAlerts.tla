------------------------------ MODULE MCAlerts ------------------------------
(* Model-checking instance of Alerts: windows of one and two minutes, two     *)
(* users of whom one follows more stocks than are monitored.                  *)
EXTENDS Alerts, TLC

CONSTANTS u1, u2, s1, s2, p1, p2
MCSymmetry == Permutations({p1, p2})
MCWatched == u1 :> {s1} @@ u2 :> {}
MCHeld == u1 :> {s2} @@ u2 :> {s2}
MCWindow == "WARN" :> 1 @@ "CRITICAL" :> 2
MCPercent == "WARN" :> 2 @@ "CRITICAL" :> 3
MCClose ==
  s1 :> [m \in Time |-> <<100, 102, 103, 100, 104>>[m + 1]] @@
  s2 :> [m \in Time |-> <<100, 98, 98, 102, 100>>[m + 1]]
=============================================================================
