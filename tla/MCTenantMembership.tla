-------------------------- MODULE MCTenantMembership --------------------------
(* Constant values for model checking TenantMembership.                    *)
EXTENDS TenantMembership, TLC

MCSymmetry == Permutations(User) \cup Permutations(Invitation) \cup Permutations(Handler)
=============================================================================
