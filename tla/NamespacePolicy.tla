-------------------------- MODULE NamespacePolicy --------------------------
(***************************************************************************)
(* Which namespaces are audited, and which get a checker of their own: the *)
(* effective ImageAuditPolicy of a namespace and the decisions taken from  *)
(* it.  Both the rollout of checkers and the central checker's secret      *)
(* grants decide with these operators.                                     *)
(***************************************************************************)
EXTENDS Naturals

CONSTANTS
    Namespaces,     \* namespace names
    Excluded,       \* EXCLUDED_NAMESPACES
    NsPolicy,       \* each namespace's own ImageAuditPolicy
    ClusterPolicy   \* the cluster-defaults ImageAuditPolicy

\* What a policy says about the opt-out label: there is no policy, it names
\* the label under excludeLabels, or it does not.
Policies == {"none", "selects", "plain"}

ASSUME PolicyAssumption ==
    /\ Excluded \subseteq Namespaces
    /\ NsPolicy \in [Namespaces -> Policies]
    /\ ClusterPolicy \in Policies

\* checker.mode and checker.enabled, which a process reads once when it starts.
AllModes == {"perNamespace", "central", "disabled", "centralDisabled"}
Enabled(mode) == mode \in {"perNamespace", "central"}
Central(mode) == mode \in {"central", "centralDisabled"}

\* _get_effective_policy: the namespace's own policy before cluster-defaults.
EffectivePolicy(n) == IF NsPolicy[n] # "none" THEN NsPolicy[n] ELSE ClusterPolicy

\* A read that fails is logged and the next source is tried: cluster-defaults,
\* then the empty policy.
FallbackPolicies(n) == {ClusterPolicy, "none"}

\* A variant: exclusion by name is looked up in the policy.
ExclusionByPolicy(mode, n, labelled, policy) ==
    /\ Enabled(mode)
    /\ ~(policy # "none" /\ n \in Excluded)
    /\ ~(labelled /\ policy = "selects")

\* _should_audit
ShouldAudit(mode, n, labelled, policy) ==
    /\ Enabled(mode)
    /\ n \notin Excluded
    /\ ~(labelled /\ policy = "selects")

\* _should_deploy_checker
ShouldDeploy(mode, n, labelled, policy) ==
    ~Central(mode) /\ ShouldAudit(mode, n, labelled, policy)
=============================================================================
