------------------------- MODULE MCRuntimeRegistry -------------------------
(* Small instances of RuntimeRegistry.  Tasks and runtimes are            *)
(* interchangeable; tenants are not, some are watched.                    *)
EXTENDS RuntimeRegistry, TLC

Symmetry == Permutations(Tasks) \cup Permutations(Runtimes)
=============================================================================
