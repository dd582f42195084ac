----------------------------- MODULE MCPlatform -----------------------------
(***************************************************************************)
(* Three components that share no state, checked in one run: the life of a *)
(* service process, the push providers and the accounts of Identity.  A    *)
(* behaviour is a behaviour of one of them; the others stay at an initial  *)
(* state.                                                                  *)
(***************************************************************************)
EXTENDS Lifecycle, Push, Accounts

VARIABLE focus

platformVars == <<lifecycleVars, pushVars, accountsVars, focus>>

PlatformInit ==
    /\ focus \in {"lifecycle", "push", "accounts"}
    /\ LifecycleInit /\ PushInit /\ AccountsInit
    /\ focus # "lifecycle" => svc = "identity"
    /\ focus # "push" => configured = {} /\ platform = [c \in Pushers |-> "ios"]

Focused(f, A) == focus = f /\ A /\ UNCHANGED focus

LifecycleStep(A) == Focused("lifecycle", A) /\ UNCHANGED <<pushVars, accountsVars>>
PushingStep(A) == Focused("push", A) /\ UNCHANGED <<lifecycleVars, accountsVars>>
AccountStep(A) == Focused("accounts", A) /\ UNCHANGED <<lifecycleVars, pushVars>>

PlatformNext ==
    \/ LifecycleStep(LifecycleNext)
    \/ PushingStep(PushNext)
    \/ AccountStep(AccountsNext)

\* The fairness of LifecycleSpec, PushSpec and AccountsSpec.
PlatformSpec ==
    /\ PlatformInit
    /\ [][PlatformNext]_platformVars
    /\ WF_platformVars(LifecycleStep(Own))
    /\ WF_platformVars(LifecycleStep(SendsErr))
    /\ WF_platformVars(LifecycleStep(GRPCServes /\ GRPCStopped))
    /\ WF_platformVars(LifecycleStep(HTTPServes /\ HTTPStopped))
    /\ WF_platformVars(LifecycleStep(TaskEnds))
    /\ \A r \in Requests : WF_platformVars(LifecycleStep(Forward(r) \/ Handle(r)))
    /\ \A c \in Pushers : SF_platformVars(PushingStep(PushStep(c)))
    /\ \A a \in SignIns : WF_platformVars(AccountStep(AccountsStep(a)))

\* Nobody waits for ever for somebody else, for a mutex that is held over an HTTP
\* request or for the locks of a transaction: every Push and every SignIn returns.
CallsReturn == EveryPushReturns /\ SignInsEnd
=============================================================================
