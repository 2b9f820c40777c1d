----------------------------- MODULE MCScanReports -----------------------------
(*****************************************************************************)
(* Small catalogues for ScanReports.  Policy p1 is of severity low and runs  *)
(* on both buckets; p2 is of severity medium; p3 matches nothing.            *)
(*****************************************************************************)
EXTENDS ScanReports

MCInventory == {"a1", "a2", "a3"}

MCMatches == {<<"p1", "a1">>, <<"p1", "a2">>, <<"p2", "a3">>}

MCPolicySeverity ==
  [p \in {"p1", "p2", "p3"} |-> CASE p = "p1" -> "low" [] p = "p2" -> "medium"
                                  [] p = "p3" -> "critical"]

(* Framework f has every kind of control; g, which is hidden from customers, *)
(* has three assessed ones, so that a third and two thirds are rounded.      *)
MCControls == {"f_both", "f_manual", "f_unmapped", "g_one", "g_two", "g_all", "g_none"}

MCFrameworkOf ==
  [c \in MCControls |-> IF c \in {"f_both", "f_manual", "f_unmapped"} THEN "f" ELSE "g"]

MCCustomerVisible == {"f"}

MCPoliciesOf ==
  [c \in MCControls |->
     CASE c \in {"f_both", "g_all"} -> {"p1", "p2"} [] c = "g_one" -> {"p1"}
       [] c \in {"g_two", "f_manual"} -> {"p2"} [] c = "f_unmapped" -> {} [] c = "g_none" -> {"p3"}]

===============================================================================
