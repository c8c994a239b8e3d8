--------------------------- MODULE MCReportDelivery ---------------------------
(* Instances of ReportDelivery for TLC: two tenants with a brief each. *)
EXTENDS ReportDelivery, TLC

CONSTANTS t1, t2, b1, b2, r1, r2
TwoOwners == b1 :> t1 @@ b2 :> t2
\* A report of three chunks and one without text.
Lengths == r1 :> 6 @@ r2 :> 0

=============================================================================
