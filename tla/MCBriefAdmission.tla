-------------------------- MODULE MCBriefAdmission --------------------------
(* BriefAdmission for TLC: no definition tells two calls, two registrations *)
(* or two tenants apart.                                                    *)
EXTENDS BriefAdmission, TLC

Symmetry == Permutations(Calls) \cup Permutations(Registrations)
              \cup Permutations(Tenants)

=============================================================================
