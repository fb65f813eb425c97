--------------------------- MODULE MCTenancyPicker --------------------------
EXTENDS TenancyPicker, TLC

OneOrg == {"acme"}
Labels == {[org |-> "acme", project |-> "shop"], [org |-> " ", project |-> "shop"]}
Padding == " " :> ""

Unscoped0 == [org |-> "", auth |-> FALSE, orgScoped |-> FALSE]
Contexts ==
  {Unscoped0} \cup
  [org : {"acme", "gone"}, auth : BOOLEAN, orgScoped : {TRUE}] \cup
  [org : {"", "all"}, auth : {TRUE}, orgScoped : {TRUE}]
=============================================================================
