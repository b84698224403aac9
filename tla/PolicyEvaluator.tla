-------------------------- MODULE PolicyEvaluator ---------------------------
(* evaluate_policy (f/hermes_flow/policies/evaluator.py): what a request may *)
(* do to a capability, given the capability's declared AutonomyPolicy and    *)
(* CapabilityLimits.  A caller asks, and then asks again for more: a larger  *)
(* amount, or the same operation flagged destructive.                        *)
EXTENDS Naturals

CONSTANTS Dimensions,   \* bounded dimensions: concurrency, rate, duration, ...
          MaxAmount,    \* bound: largest amount requested, largest limit declared
          Unspecified          \* unknown capability, undeclared limit, unrequested amount

ASSUME PolicyAssumption == MaxAmount \in Nat /\ Unspecified \notin Nat

VARIABLES capability,   \* metadata of the target, Unspecified if the path is unknown
          action,       \* AutonomyAction of the request
          requested,    \* amount requested in each dimension
          destructive   \* the caller's flag

policyVars == <<capability, action, requested, destructive>>

Gated == {"promote", "schedule"}
Actions == {"discover", "execute", "compose", "create_candidate", "modify_candidate"} \union Gated
Levels == {"automatic", "approval_required"}
Outcomes == Levels \union {"denied"}

\* metadata: the declared level of the request's action, and the limits.
Metadata == [level : Levels, limits : [Dimensions -> 1..MaxAmount \union {Unspecified}]]

\* AutonomyPolicy's validator admits nothing but approval_required for the gated
\* actions.
PolicyInit ==
  /\ action \in Actions
  /\ capability \in {c \in Metadata : action \in Gated => c.level = "approval_required"}
                      \union {Unspecified}
  /\ requested = [d \in Dimensions |-> Unspecified]
  /\ destructive = FALSE

Bounded(d) == requested[d] # Unspecified /\ capability.limits[d] # Unspecified

Swapped(d) == Bounded(d) /\ requested[d] < capability.limits[d]       \* mutant
Exceeds(d) == Bounded(d) /\ requested[d] > capability.limits[d]

DeclaredLevel == capability.level

\* The rules of evaluate_policy in the order of its early returns.
Outcome ==
  IF action = "discover" THEN "automatic"
  ELSE IF capability = Unspecified THEN "denied"
  ELSE IF action \in Gated THEN "approval_required"
  ELSE IF destructive /\ DeclaredLevel = "automatic" THEN "approval_required"
  ELSE IF \E d \in Dimensions : Exceeds(d) THEN "denied"
  ELSE DeclaredLevel

PolicyTypeOK ==
  /\ capability \in Metadata \union {Unspecified}
  /\ action \in Actions
  /\ requested \in [Dimensions -> 0..MaxAmount \union {Unspecified}]
  /\ destructive \in BOOLEAN
  /\ Outcome \in Outcomes

-----------------------------------------------------------------------------
(* The caller asks again.                                                  *)

RequestMore(d) ==
  /\ \E n \in {m \in 0..MaxAmount : requested[d] # Unspecified => requested[d] < m} :
       requested' = [requested EXCEPT ![d] = n]
  /\ UNCHANGED <<capability, action, destructive>>

FlagDestructive ==
  /\ ~destructive
  /\ destructive' = TRUE
  /\ UNCHANGED <<capability, action, requested>>

PolicyNext == (\E d \in Dimensions : RequestMore(d)) \/ FlagDestructive
PolicySpec == PolicyInit /\ [][PolicyNext]_policyVars

-----------------------------------------------------------------------------
(* Properties.                                                             *)

\* How much stands between the caller and the effect.
Strictness(outcome) == CASE outcome = "automatic"         -> 0
                         [] outcome = "approval_required" -> 1
                         [] outcome = "denied"            -> 2

\* No request-time fact makes a decision more permissive than what the capability
\* declares, and nothing but discovery is allowed on an unknown one.
NeverMorePermissive ==
  action # "discover" =>
    IF capability = Unspecified THEN Outcome = "denied"
    ELSE Strictness(Outcome) >= Strictness(capability.level)

\* Asking for more is never answered more leniently than asking for less
\* (rule 5: a limit is a bound, whatever the other dimensions are), with one exception:
\* flagging as destructive a request that exceeds a limit turns its denial into an
\* approval_required, as the flag is looked at before the limits.
MoreIsNeverEasier ==
  [][\/ Strictness(Outcome) <= Strictness(Outcome')
     \/ /\ ~destructive /\ destructive' /\ \E d \in Dimensions : Exceeds(d)
        /\ Outcome' = "approval_required"]_policyVars
=============================================================================
