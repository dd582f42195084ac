------------------------------ MODULE Accounts ------------------------------
(***************************************************************************)
(* Accounts of the Identity service: SignIn with a social identity or with *)
(* an email and a password, which registers what it does not find, over    *)
(* the tables users, credentials and oauth_links.                          *)
(*                                                                         *)
(* Every statement is a step.  Transactions run under READ COMMITTED: what *)
(* another one has inserted is not seen before its commit, but an insert   *)
(* with the same unique key waits for it.  A user id is named after the    *)
(* sign-in that draws it.  What issuePair does with the session is         *)
(* modelled in Session.                                                    *)
(***************************************************************************)
EXTENDS Naturals, FiniteSets

CONSTANTS
    SignIns,        \* SignIn RPCs
    Identities,     \* (provider, subject) pairs
    Emails,         \* addresses, without regard to case (citext)
    Passwords,
    NoEmail,        \* the provider gives no address
    Nobody,         \* no user, no password
    MaxAttempts     \* rate_limit.max_attempts

ASSUME AccountsConstants ==
    /\ NoEmail \notin Emails
    /\ Nobody \notin SignIns \cup Passwords
    /\ MaxAttempts \in Nat

VARIABLES
    users,      \* identity.users: ids with their email
    creds,      \* identity.credentials: the password of a user, or Nobody
    links,      \* identity.oauth_links: the user of an identity, or Nobody
    open,       \* rows of the open transactions
    place,      \* where each sign-in is
    req,        \* its request
    user,       \* the user it has resolved so far, or Nobody
    attempts,   \* identity:rl:signin:{email}
    ttl,        \* addresses whose counter has a TTL
    jwks        \* the provider's keys in ProviderVerifier.cache

accountsVars == <<users, creds, links, open, place, req, user, attempts, ttl, jwks>>

NoRequest == [kind |-> "none"]
SocialRequests == [kind : {"social"}, identity : Identities, email : Emails \cup {NoEmail}]
EmailRequests == [kind : {"email"}, email : Emails, password : Passwords]

\* A transaction's own rows.
NoRows == [inserted |-> FALSE, email |-> NoEmail, password |-> Nobody]

At(a, s) == place[a] = s
GoTo(a, s) == place' = [place EXCEPT ![a] = s]

\* The RPC answers, with tokens or with an error.
SignedIn(a) == place[a] = "signedIn"
Ended == {"signedIn", "refused", "error"}

OwnerOf(e) == {u.id : u \in {v \in users : v.email = e}}

-----------------------------------------------------------------------------
(* signInSocial *)

\* SignIn dispatches on the provider.
BeginSocial(a, r) ==
    /\ At(a, "new")
    /\ req' = [req EXCEPT ![a] = r]
    /\ GoTo(a, "verify")
    /\ UNCHANGED <<users, creds, links, open, user, attempts, ttl, jwks>>

\* keysFor: without keys in the cache they are fetched, by every call that finds
\* none, and used; a failed fetch refuses the sign-in.
FetchKeys(a) ==
    /\ At(a, "verify")
    /\ jwks = "none"
    /\ \/ jwks' = "current" /\ GoTo(a, "selectLink")
       \/ GoTo(a, "refused") /\ UNCHANGED jwks
    /\ UNCHANGED <<users, creds, links, open, req, user, attempts, ttl>>

\* Verify: an ID token signed with the provider's current key is accepted if the
\* cache has that key.  A kid the cache does not have is refused, not looked up.
VerifyIDToken(a) ==
    /\ At(a, "verify")
    /\ jwks # "none"
    /\ GoTo(a, IF jwks = "current" THEN "selectLink" ELSE "refused")
    /\ UNCHANGED <<users, creds, links, open, req, user, attempts, ttl, jwks>>

\* The cache entry reaches its TTL; the provider changes its key.
KeysExpire ==
    /\ jwks # "none"
    /\ jwks' = "none"
    /\ UNCHANGED <<users, creds, links, open, place, req, user, attempts, ttl>>

ProviderRotates ==
    /\ jwks = "current"
    /\ jwks' = "old"
    /\ UNCHANGED <<users, creds, links, open, place, req, user, attempts, ttl>>

\* UpsertOAuthUser: an identity that is linked is its user.
SelectLink(a) ==
    /\ At(a, "selectLink")
    /\ user' = [user EXCEPT ![a] = links[req[a].identity]]
    /\ GoTo(a, IF links[req[a].identity] # Nobody THEN "issuePair" ELSE "selectUser")
    /\ UNCHANGED <<users, creds, links, open, req, attempts, ttl, jwks>>

\* Otherwise the user with the address the provider gives, if there is one.
SelectUser(a) ==
    /\ At(a, "selectUser")
    /\ LET owner == IF req[a].email = NoEmail THEN {} ELSE OwnerOf(req[a].email) IN
       IF owner # {}
       THEN user' = [user EXCEPT ![a] = CHOOSE u \in owner : TRUE] /\ GoTo(a, "insertLink")
       ELSE GoTo(a, "insertUser") /\ UNCHANGED user
    /\ UNCHANGED <<users, creds, links, open, req, attempts, ttl, jwks>>

Rollback(a) ==
    /\ open' = [open EXCEPT ![a] = NoRows]
    /\ GoTo(a, "error")

\* INSERT INTO users: waits for an open insert of the address, and fails on a
\* committed one.
InsertUser(a) ==
    /\ At(a, "insertUser") \/ At(a, "createUser")
    /\ LET e == req[a].email IN
       IF e # NoEmail /\ OwnerOf(e) # {}
       THEN Rollback(a) /\ UNCHANGED user
       ELSE /\ e # NoEmail =>
                   ~\E b \in SignIns \ {a} : open[b].inserted /\ open[b].email = e
            /\ open' = [open EXCEPT ![a].inserted = TRUE, ![a].email = e]
            /\ user' = [user EXCEPT ![a] = a]
            /\ GoTo(a, IF At(a, "insertUser") THEN "insertLink" ELSE "insertCredential")
    /\ UNCHANGED <<users, creds, links, req, attempts, ttl, jwks>>

\* Mutant: ON CONFLICT DO NOTHING.
InsertLinkDoNothing(a) ==
    /\ At(a, "insertLink")
    /\ ~\E b \in SignIns \ {a} : At(b, "commitLink") /\ req[b].identity = req[a].identity
    /\ GoTo(a, "commitLink")
    /\ UNCHANGED <<users, creds, links, open, req, user, attempts, ttl, jwks>>

\* INSERT INTO oauth_links: the same, for (provider, provider_subject).
InsertLink(a) ==
    /\ At(a, "insertLink")
    /\ IF links[req[a].identity] # Nobody
       THEN Rollback(a)
       ELSE /\ ~\E b \in SignIns \ {a} : At(b, "commitLink") /\ req[b].identity = req[a].identity
            /\ GoTo(a, "commitLink")
            /\ UNCHANGED open
    /\ UNCHANGED <<users, creds, links, req, user, attempts, ttl, jwks>>

\* The transaction commits.
CommitRows(a) ==
    /\ users' = IF open[a].inserted THEN users \cup {[id |-> a, email |-> open[a].email]} ELSE users
    /\ open' = [open EXCEPT ![a] = NoRows]

CommitLink(a) ==
    /\ At(a, "commitLink")
    /\ CommitRows(a)
    /\ links' = [links EXCEPT ![req[a].identity] = user[a]]
    /\ GoTo(a, "issuePair")
    /\ UNCHANGED <<creds, req, user, attempts, ttl, jwks>>

-----------------------------------------------------------------------------
(* signInEmail *)

\* Allow: INCR, and EXPIRE by the call that made the counter.  The counter is not
\* told apart above MaxAttempts + 1.
BeginEmail(a, r) ==
    /\ At(a, "new")
    /\ req' = [req EXCEPT ![a] = r]
    /\ attempts' = [attempts EXCEPT ![r.email] = IF @ <= MaxAttempts THEN @ + 1 ELSE @]
    /\ GoTo(a, IF attempts[r.email] = 0 THEN "expire"
               ELSE IF attempts'[r.email] <= MaxAttempts THEN "getByEmail" ELSE "refused")
    /\ UNCHANGED <<users, creds, links, open, user, ttl, jwks>>

ExpireCounter(a) ==
    /\ At(a, "expire")
    /\ ttl' = ttl \cup {req[a].email}
    /\ GoTo(a, IF MaxAttempts > 0 THEN "getByEmail" ELSE "refused")
    /\ UNCHANGED <<users, creds, links, open, req, user, attempts, jwks>>

\* The counter's TTL runs out.
CounterEnds(e) ==
    /\ e \in ttl
    /\ attempts' = [attempts EXCEPT ![e] = 0]
    /\ ttl' = ttl \ {e}
    /\ UNCHANGED <<users, creds, links, open, place, req, user, jwks>>

\* GetByEmail: register or check the password.
GetByEmail(a) ==
    /\ At(a, "getByEmail")
    /\ LET owner == OwnerOf(req[a].email) IN
       IF owner = {}
       THEN GoTo(a, "createUser") /\ UNCHANGED user
       ELSE user' = [user EXCEPT ![a] = CHOOSE u \in owner : TRUE] /\ GoTo(a, "getPassword")
    /\ UNCHANGED <<users, creds, links, open, req, attempts, ttl, jwks>>

\* GetPasswordHash and password.Verify: a user without a password has no match.
CheckPassword(a) ==
    /\ At(a, "getPassword")
    /\ GoTo(a, IF creds[user[a]] = req[a].password THEN "issuePair" ELSE "refused")
    /\ UNCHANGED <<users, creds, links, open, req, user, attempts, ttl, jwks>>

\* CreateEmailUser: after the user (InsertUser) its credential, and the commit.
InsertCredential(a) ==
    /\ At(a, "insertCredential")
    /\ open' = [open EXCEPT ![a].password = req[a].password]
    /\ GoTo(a, "commitUser")
    /\ UNCHANGED <<users, creds, links, req, user, attempts, ttl, jwks>>

CommitUser(a) ==
    /\ At(a, "commitUser")
    /\ CommitRows(a)
    /\ creds' = [creds EXCEPT ![a] = open[a].password]
    /\ GoTo(a, "issuePair")
    /\ UNCHANGED <<links, req, user, attempts, ttl, jwks>>

-----------------------------------------------------------------------------
(* Both *)

\* issuePair: the session and the tokens.
IssuePair(a) ==
    /\ At(a, "issuePair")
    /\ GoTo(a, "signedIn")
    /\ UNCHANGED <<users, creds, links, open, req, user, attempts, ttl, jwks>>

Underway(a) == place[a] \notin Ended \cup {"new"}

\* A statement fails or the process dies: the transaction is rolled back.
StoreFails(a) ==
    /\ Underway(a)
    /\ ~At(a, "verify")
    /\ Rollback(a)
    /\ UNCHANGED <<users, creds, links, req, user, attempts, ttl, jwks>>

-----------------------------------------------------------------------------
(* Specification *)

AccountsInit ==
    /\ users = {}
    /\ creds = [u \in SignIns |-> Nobody]
    /\ links = [i \in Identities |-> Nobody]
    /\ open = [a \in SignIns |-> NoRows]
    /\ place = [a \in SignIns |-> "new"]
    /\ req = [a \in SignIns |-> NoRequest]
    /\ user = [a \in SignIns |-> Nobody]
    /\ attempts = [e \in Emails |-> 0]
    /\ ttl = {}
    /\ jwks = "none"

AccountsStep(a) ==
    \/ FetchKeys(a) \/ VerifyIDToken(a)
    \/ SelectLink(a) \/ SelectUser(a) \/ InsertUser(a) \/ InsertLink(a) \/ CommitLink(a)
    \/ ExpireCounter(a) \/ GetByEmail(a) \/ CheckPassword(a)
    \/ InsertCredential(a) \/ CommitUser(a)
    \/ IssuePair(a)

AccountsNext ==
    \/ \E a \in SignIns :
         \/ \E r \in SocialRequests : BeginSocial(a, r)
         \/ \E r \in EmailRequests : BeginEmail(a, r)
         \/ AccountsStep(a) \/ StoreFails(a)
    \/ KeysExpire \/ ProviderRotates
    \/ \E e \in Emails : CounterEnds(e)

\* A sign-in goes on; what it waits for is another one's transaction.
AccountsSpec ==
    /\ AccountsInit
    /\ [][AccountsNext]_accountsVars
    /\ \A a \in SignIns : WF_accountsVars(AccountsStep(a))

-----------------------------------------------------------------------------
(* Properties *)

AccountsTypeOK ==
    /\ users \subseteq [id : SignIns, email : Emails \cup {NoEmail}]
    /\ creds \in [SignIns -> Passwords \cup {Nobody}]
    /\ links \in [Identities -> SignIns \cup {Nobody}]
    /\ req \in [SignIns -> SocialRequests \cup EmailRequests \cup {NoRequest}]
    /\ user \in [SignIns -> SignIns \cup {Nobody}]
    /\ attempts \in [Emails -> 0..(MaxAttempts + 1)]

\* Who signs in twice is the same user twice: with one social identity, also when
\* the first logins race and when the provider gives the address only once, and
\* with one address and password.
SameAccount ==
    \A a, b \in SignIns :
        SignedIn(a) /\ SignedIn(b) =>
            /\ req[a].kind = "social" /\ req[b].kind = "social" /\ req[a].identity = req[b].identity
                   => user[a] = user[b]
            /\ req[a].kind = "email" /\ req[b].kind = "email" /\ req[a].email = req[b].email
                   => user[a] = user[b] /\ req[a].password = req[b].password

\* There is a way into every account: a user that is committed has a password or
\* a link, whichever statement of whichever racing sign-in failed.
NoOrphanAccount ==
    \A u \in users : creds[u.id] # Nobody \/ \E i \in Identities : links[i] = u.id

\* Every sign-in is answered: the transactions never wait for each other in a ring.
SignInsEnd == \A a \in SignIns : Underway(a) ~> place[a] \in Ended

\* Accounts are safe: the tables and the sign-ins are in one of their states, nobody
\* is signed in to somebody else's account, and every account has a way in.
AccountsSafe == AccountsTypeOK /\ SameAccount /\ NoOrphanAccount
=============================================================================
