----------------------------- MODULE MCEnforcer -----------------------------
(* One limited program and one tag limit nobody carries, two ports.        *)
EXTENDS Enforcer

CONSTANTS app, group

NoLimits == {{}}
AppLimited == {{app}}

=============================================================================
