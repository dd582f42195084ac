------------------------------ MODULE MCReads ------------------------------
(***************************************************************************)
(* Four components that share no state, checked in one run: the gateway,   *)
(* RequestGeneration, the Catalog service and the log store with its       *)
(* viewer.  Each of them puts an answer together from several reads.  A    *)
(* behaviour is a behaviour of one of them; the others stay at their       *)
(* initial states.                                                         *)
(***************************************************************************)
EXTENDS Gateway, Submission, Catalog, LogStore

VARIABLE focus

readsVars == <<gatewayVars, vars, catalogVars, logVars, focus>>

MCBudgets == [global |-> 2, ip |-> 1, user |-> 1, refresh |-> 0]

\* The key of a submit is one of its inputs: outside its own behaviours it is fixed.
SomeKey == CHOOSE k \in Keys : TRUE

ReadsInit ==
    /\ focus \in {"gateway", "submission", "catalog", "logs"}
    /\ GatewayInit /\ Init /\ CatalogInit /\ LogStoreInit
    /\ focus # "submission" => key = [c \in Calls |-> SomeKey]

ReadsNext ==
    /\ \/ focus = "gateway" /\ GatewayNext /\ UNCHANGED <<vars, catalogVars, logVars>>
       \/ focus = "submission" /\ Next /\ UNCHANGED <<gatewayVars, catalogVars, logVars>>
       \/ focus = "catalog" /\ CatalogNext /\ UNCHANGED <<gatewayVars, vars, logVars>>
       \/ focus = "logs" /\ LogStoreNext /\ UNCHANGED <<gatewayVars, vars, catalogVars>>
    /\ UNCHANGED focus

ReadsSpec == ReadsInit /\ [][ReadsNext]_readsVars
=============================================================================
