-------------------------- MODULE AlertConstants --------------------------
(***************************************************************************)
(* What alerting is about, shared by the modules that alert.  A target is  *)
(* a node or a service.                                                    *)
(***************************************************************************)
EXTENDS Naturals

CONSTANTS
    Rules,      \* ids of alert rules
    Targets,    \* ids of the things rules watch (nodes, or services)
    AlertIds,   \* the bigserial ids rows can get
    None,       \* SQL's NULL, Go's zero row
    All         \* the scope of a rule without a concrete target

ASSUME AlertStoreAssumption ==
    AlertIds \subseteq Nat /\ None \notin AlertIds \cup Rules \cup Targets

ASSUME ScopeAssumption == All \notin Targets
=============================================================================
