------------------------------- MODULE MCDesk -------------------------------
EXTENDS Desk

CONSTANTS o1, o2, a1, a2, p1, p2, k1, k2, v1

MCOrgOf == [a \in Alerts |-> o1]
MCPartnerOf == [a \in Alerts |-> IF a = a1 THEN p1 ELSE p2]
MCTypeOf == [a \in Alerts |-> IF a = a1 THEN k1 ELSE k2]
MCFilters == {Filter("active", All, All), Filter("active", p1, All), Filter("active", All, k1)}
MCAlerts == {[a \in Alerts |-> "active"], [a \in Alerts |-> IF a = a1 THEN "active" ELSE "none"]}
MCPrefs == {[pins |-> {}, views |-> <<v1>>, landing |-> Unset, tables |-> [t \in Tables |-> "plain"]],
            [pins |-> Pos, views |-> <<>>, landing |-> Unset, tables |-> [t \in Tables |-> "compact"]]}
MCSettings == {[muted |-> Types, digest |-> FALSE]}

\* The operator begins in the organization that has the alerts, on their page
\* or, with one of them active, on the orders page.
MCInit == /\ Init
          /\ scene = "desk" => /\ token = o1
                               /\ \/ screen = "alerts"
                                  \/ screen = "orders" /\ alert[a2] = "none"
MCSpec == MCInit /\ [][Next]_vars

\* Bound: what the tab holds and has under way at once.
MCConstraint ==
  /\ Cardinality(DOMAIN cache) <= 2
  /\ Cardinality(DOMAIN cache) + Cardinality(fetches) + Cardinality(acts) + faults + news <= 4
=============================================================================
