------------------------------ MODULE Session ------------------------------
(***************************************************************************)
(* Login sessions of the Identity service: SignIn (issuePair), the         *)
(* rotating RefreshToken with reuse detection, and Revoke, over one Valkey *)
(* key per session that expires by its TTL.                                *)
(*                                                                         *)
(* A refresh token is "{session}.{secret}" and the key holds the hash of   *)
(* one secret.  The secret a sign-in draws is named after the session and  *)
(* the one a refresh draws after the call, so no two are the same.         *)
(*                                                                         *)
(* Every Valkey command is a step.  A command may fail, applied or not; a  *)
(* process that dies in the middle of a call leaves what a failed command  *)
(* or a lost answer leaves.                                                *)
(*                                                                         *)
(* ExpiresAt is set by the sign-in and kept by every rotation.  Of the     *)
(* time before it the code tells the last second apart: there the TTL is   *)
(* rounded down to EX 0, which Valkey refuses.                             *)
(***************************************************************************)
EXTENDS Naturals

CONSTANTS
    Sessions,   \* session ids
    Calls,      \* RefreshToken and Revoke RPCs
    None        \* no session, no secret

ASSUME SessionConstants ==
    /\ Sessions \cap Calls = {}
    /\ None \notin Sessions \cup Calls

Secrets == Sessions \cup Calls

VARIABLES
    stored,     \* the secret in identity:session:{sid}, None if there is no key
    life,       \* "none" before the sign-in, then where now is before ExpiresAt
    got,        \* the secrets the device has been sent
    held,       \* the last of them
    pc,         \* where each call is
    sid,        \* the session each call is about
    presented,  \* the secret a refresh was called with
    raced,      \* history: sessions deleted under a refresh that had read them
    troubled    \* history: sessions with overlapping or replayed refreshes or
                \* with a rotation whose answer did not arrive

vars == <<stored, life, got, held, pc, sid, presented, raced, troubled>>

CallStates == {"new", "rotate", "rotated", "answered", "lost", "reuse", "expired",
               "killed", "spared", "revoked", "refused", "error"}

TypeOK ==
    /\ stored \in [Sessions -> Secrets \cup {None}]
    /\ life \in [Sessions -> {"none", "live", "lastSecond", "over"}]
    /\ got \in [Sessions -> SUBSET Secrets]
    /\ held \in [Sessions -> Secrets \cup {None}]
    /\ pc \in [Calls -> CallStates]
    /\ sid \in [Calls -> Sessions \cup {None}]
    /\ presented \in [Calls -> Secrets \cup {None}]
    /\ raced \subseteq Sessions
    /\ troubled \subseteq Sessions
    /\ \A c \in Calls : pc[c] = "new" <=> sid[c] = None

Goto(c, l) == pc' = [pc EXCEPT ![c] = l]

\* Refreshes of a session that have read it and not written it yet.
Rotating(s) == {c \in Calls : sid[c] = s /\ pc[c] = "rotate"}

\* Refreshes of a session the device is waiting for.
Pending(s) == {c \in Calls : sid[c] = s /\ pc[c] \in {"rotate", "rotated", "reuse", "expired"}}

\* put: SET with the time to ExpiresAt in whole seconds, and with one second
\* when that is past.  In the last second before it the command is refused.
Put(s, x) ==
    /\ life[s] # "lastSecond"
    /\ stored' = [stored EXCEPT ![s] = x]

\* The answer with a new refresh token reaches the device.
Receive(s, x) ==
    /\ got' = [got EXCEPT ![s] = @ \cup {x}]
    /\ held' = [held EXCEPT ![s] = x]

\* DEL of the key.
Delete(s) ==
    /\ stored' = [stored EXCEPT ![s] = None]
    /\ raced' = IF Rotating(s) # {} THEN raced \cup {s} ELSE raced

-----------------------------------------------------------------------------
(* SignIn *)

\* issuePair: a new session with its first secret, and the answer.
SignIn(s) ==
    /\ life[s] = "none"
    /\ life' = [life EXCEPT ![s] = "live"]
    /\ stored' = [stored EXCEPT ![s] = s]
    /\ Receive(s, s)
    /\ UNCHANGED <<pc, sid, presented, raced, troubled>>

\* The SET is applied, and the answer is an error or does not arrive.
SignInLost(s) ==
    /\ life[s] = "none"
    /\ life' = [life EXCEPT ![s] = "live"]
    /\ stored' = [stored EXCEPT ![s] = s]
    /\ UNCHANGED <<got, held, pc, sid, presented, raced, troubled>>

-----------------------------------------------------------------------------
(* RefreshToken *)

\* What RefreshToken does with the session it has read.
AfterGet(s, x) ==
    CASE stored[s] = None                        -> "refused"
      [] stored[s] # None /\ stored[s] # x       -> "reuse"
      [] stored[s] = x /\ life[s] = "over"       -> "expired"
      [] stored[s] = x /\ life[s] # "over"       -> "rotate"

\* A device presents a secret it has been sent, the last one or an old one.
GetSession(c, s, x) ==
    /\ pc[c] = "new"
    /\ x \in got[s]
    /\ Goto(c, AfterGet(s, x))
    /\ sid' = [sid EXCEPT ![c] = s]
    /\ presented' = [presented EXCEPT ![c] = x]
    /\ troubled' = IF x # held[s] \/ Pending(s) # {} THEN troubled \cup {s} ELSE troubled
    /\ UNCHANGED <<stored, life, got, held, raced>>

\* Mutant: the session is written back with the secret it had.
UpdateSessionUnrotated(c) ==
    /\ pc[c] = "rotate"
    /\ Put(sid[c], presented[c])
    /\ Goto(c, "rotated")
    /\ UNCHANGED <<life, got, held, sid, presented, raced, troubled>>

\* Update writes the session back with the new secret, whatever has happened to
\* it since the Get.
UpdateSession(c) ==
    /\ pc[c] = "rotate"
    /\ Put(sid[c], c)
    /\ Goto(c, "rotated")
    /\ UNCHANGED <<life, got, held, sid, presented, raced, troubled>>

\* The Update fails without effect; in the last second it always does.
UpdateSessionFails(c) ==
    /\ pc[c] = "rotate"
    /\ Goto(c, "error")
    /\ UNCHANGED <<stored, life, got, held, sid, presented, raced, troubled>>

\* Mutant: the answer carries the token that was presented.
AnswerStale(c) ==
    /\ pc[c] = "rotated"
    /\ Goto(c, "answered")
    /\ Receive(sid[c], presented[c])
    /\ UNCHANGED <<stored, life, sid, presented, raced, troubled>>

\* Issue signs the access token, and the pair reaches the device.
Answer(c) ==
    /\ pc[c] = "rotated"
    /\ Goto(c, "answered")
    /\ Receive(sid[c], c)
    /\ UNCHANGED <<stored, life, sid, presented, raced, troubled>>

\* The Update was applied, but the device gets an error or no answer.
AnswerLost(c) ==
    /\ pc[c] = "rotated"
    /\ Goto(c, "lost")
    /\ troubled' = troubled \cup {sid[c]}
    /\ UNCHANGED <<stored, life, got, held, sid, presented, raced>>

\* Mutant: reuse is refused, the session stays.
KillSessionSkipped(c) ==
    /\ pc[c] \in {"reuse", "expired"}
    /\ Goto(c, "killed")
    /\ UNCHANGED <<stored, life, got, held, sid, presented, raced, troubled>>

\* A stale secret or an expired session: delete it and refuse.
KillSession(c) ==
    /\ pc[c] \in {"reuse", "expired"}
    /\ Delete(sid[c])
    /\ Goto(c, "killed")
    /\ UNCHANGED <<life, got, held, sid, presented, troubled>>

\* The DEL fails; the error is ignored and the call refused all the same.
KillSessionFails(c) ==
    /\ pc[c] \in {"reuse", "expired"}
    /\ Goto(c, "spared")
    /\ UNCHANGED <<stored, life, got, held, sid, presented, raced, troubled>>

-----------------------------------------------------------------------------
(* Revoke *)

\* Sign-out by session id or refresh token; the secret is not looked at.  A DEL
\* that fails may have been applied.
Revoke(c, s) ==
    /\ pc[c] = "new"
    /\ life[s] # "none"
    /\ Delete(s)
    /\ Goto(c, "revoked") \/ Goto(c, "error")
    /\ sid' = [sid EXCEPT ![c] = s]
    /\ UNCHANGED <<life, got, held, presented, troubled>>

-----------------------------------------------------------------------------
(* Time *)

\* The last second before ExpiresAt begins.
LastSecond(s) ==
    /\ life[s] = "live"
    /\ life' = [life EXCEPT ![s] = "lastSecond"]
    /\ UNCHANGED <<stored, got, held, pc, sid, presented, raced, troubled>>

\* ExpiresAt passes: no TTL set before it is left.
ExpiresAt(s) ==
    /\ life[s] = "lastSecond"
    /\ life' = [life EXCEPT ![s] = "over"]
    /\ stored' = [stored EXCEPT ![s] = None]
    /\ UNCHANGED <<got, held, pc, sid, presented, raced, troubled>>

\* Mutant: a session written after its ExpiresAt gets no TTL.
ExpireInTimeOnly(s) ==
    /\ life[s] = "lastSecond"
    /\ stored[s] # None
    /\ stored' = [stored EXCEPT ![s] = None]
    /\ UNCHANGED <<life, got, held, pc, sid, presented, raced, troubled>>

\* The key's TTL ends: in the last second, because it is in whole seconds, or one
\* second after a write that came after ExpiresAt.
Expire(s) ==
    /\ life[s] \in {"lastSecond", "over"}
    /\ stored[s] # None
    /\ stored' = [stored EXCEPT ![s] = None]
    /\ UNCHANGED <<life, got, held, pc, sid, presented, raced, troubled>>

-----------------------------------------------------------------------------
(* Specification *)

Init ==
    /\ stored = [s \in Sessions |-> None]
    /\ life = [s \in Sessions |-> "none"]
    /\ got = [s \in Sessions |-> {}]
    /\ held = [s \in Sessions |-> None]
    /\ pc = [c \in Calls |-> "new"]
    /\ sid = [c \in Calls |-> None]
    /\ presented = [c \in Calls |-> None]
    /\ raced = {}
    /\ troubled = {}

RefreshStep(c) ==
    \/ UpdateSession(c) \/ UpdateSessionFails(c)
    \/ Answer(c) \/ AnswerLost(c)
    \/ KillSession(c) \/ KillSessionFails(c)

Next ==
    \/ \E s \in Sessions : SignIn(s) \/ SignInLost(s)
    \/ \E c \in Calls, s \in Sessions : Revoke(c, s) \/ \E x \in Secrets : GetSession(c, s, x)
    \/ \E c \in Calls : RefreshStep(c)
    \/ \E s \in Sessions : LastSecond(s) \/ ExpiresAt(s) \/ Expire(s)

\* A refresh under way goes on (its commands have a deadline), and time passes.
Fairness ==
    /\ \A c \in Calls : WF_vars(RefreshStep(c))
    /\ \A s \in Sessions : WF_vars(LastSecond(s) \/ ExpiresAt(s)) /\ WF_vars(Expire(s))

Spec == Init /\ [][Next]_vars /\ Fairness

-----------------------------------------------------------------------------
(* Properties *)

\* "Presenting a refresh token issues a new pair and invalidates the old one":
\* once the rotation of a secret has been written, that secret is never again
\* the one in the key, whatever other refreshes, racing on the same session,
\* write back after it.
SpentNeverReturns ==
    \A c \in Calls :
        pc[c] \in {"rotated", "answered", "lost"} => stored[sid[c]] # presented[c]

\* The sessions and the calls agree: a call that has begun is about a session, and
\* no rotated secret is in the key again.
SessionConsistent == TypeOK /\ SpentNeverReturns

\* "A stale secret means the token was already rotated or stolen": a device that
\* always presents its last token, one refresh at a time, and gets its answers
\* is never taken for a thief, neither by failed commands nor near ExpiresAt.
NoFalseReuse ==
    \A c \in Calls : pc[c] = "reuse" => sid[c] \in troubled

\* A session that was revoked, or killed for reuse or age, stays deleted, unless
\* a refresh had read it before the delete.
DeletedForGood ==
    \A c \in Calls :
        pc[c] \in {"revoked", "killed"} => stored[sid[c]] = None \/ sid[c] \in raced

\* "Instant revocation: deleting the Valkey session invalidates refresh": a
\* session that was revoked stays deleted.
RevokeIsFinal ==
    \A c \in Calls : pc[c] = "revoked" => stored[sid[c]] = None

\* Sessions do not outlive the lifetime their sign-in gave them, however often
\* and however late they are rotated: in the end the key is gone for good.
SessionsEnd == \A s \in Sessions : <>[](stored[s] = None)
=============================================================================
