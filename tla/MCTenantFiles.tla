----------------------------- MODULE MCTenantFiles -----------------------------
(* TenantFiles for TLC: a tenant.yaml and two secrets, permuted.           *)
EXTENDS TenantFiles, TLC

Symmetry == Permutations(Secrets)
=============================================================================
