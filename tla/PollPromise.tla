---------------------------- MODULE PollPromise ----------------------------
(***************************************************************************)
(* What the Poll service promises, whatever fails inside it: an open poll  *)
(* takes one response and is then closed for good, and only the call whose *)
(* response was taken may be told so and may announce it, at any time      *)
(* after, or never.                                                        *)
(***************************************************************************)
CONSTANTS
    Polls,
    Calls

VARIABLES
    state,      \* "none", "active" or "completed"
    taken,      \* the calls whose response the poll took
    told,       \* the calls that were told that theirs was
    announced   \* the calls that announced the completion of a poll

promiseVars == <<state, taken, told, announced>>

PromiseInit ==
    /\ state = [p \in Polls |-> "none"]
    /\ taken = [p \in Polls |-> {}]
    /\ told = {}
    /\ announced = [p \in Polls |-> {}]

\* A poll is opened.
Open(p) ==
    /\ state[p] = "none"
    /\ state' = [state EXCEPT ![p] = "active"]
    /\ UNCHANGED <<taken, told, announced>>

\* An open poll takes a response, which closes it.
TakeResponse(p, c) ==
    /\ state[p] = "active"
    /\ state' = [state EXCEPT ![p] = "completed"]
    /\ taken' = [taken EXCEPT ![p] = {c}]
    /\ UNCHANGED <<told, announced>>

\* The call whose response was taken is told so, with or without an announcement.
Reply(p, c) ==
    /\ c \in taken[p]
    /\ told' = told \cup {c}
    /\ announced' \in {announced, [announced EXCEPT ![p] = @ \cup {c}]}
    /\ UNCHANGED <<state, taken>>

PromiseNext ==
    \E p \in Polls : Open(p) \/ \E c \in Calls : TakeResponse(p, c) \/ Reply(p, c)

PromiseSpec == PromiseInit /\ [][PromiseNext]_promiseVars
=============================================================================
