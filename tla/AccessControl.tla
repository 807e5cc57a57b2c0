--------------------------- MODULE AccessControl ---------------------------
(***************************************************************************)
(* Who may call a handler: ApiAuthPolicy of packages/govmesh_common/       *)
(* api_auth.py and the proxy identities of                                 *)
(* packages/govmesh_identity/proxy_signature.py.  A policy is read from    *)
(* the environment when a server starts; every request is then decided by  *)
(* the policy, the clock and the headers alone.                            *)
(*                                                                         *)
(* An HMAC is the record of what it was made from, which is what the code  *)
(* relies on: nobody finds the same value for another message or secret.   *)
(***************************************************************************)
EXTENDS Integers, FiniteSets

CONSTANTS
    Tokens, NoToken,      \* bearer tokens; the variable or header is missing
    Prints, NoPrint,      \* certificate fingerprints as they may be written
    Normal(_),            \* _normalize_fingerprint
    Secrets, NoSecret,    \* GOVMESH_TRUSTED_PROXY_SECRET, or its absence
    NoClaim,              \* a header of the proxy is missing or unreadable
    MaxSkew,              \* MAX_CLOCK_SKEW_SECONDS, in ticks of the model
    Environments,         \* what servers may be started with
    Requests              \* what the headers of requests may say

ASSUME NormalAssumption ==
    /\ \A p \in Prints : Normal(p) # NoPrint /\ Normal(Normal(p)) = Normal(p)
    /\ Normal(NoPrint) = NoPrint
ASSUME NamesAssumption ==
    NoToken \notin Tokens /\ NoSecret \notin Secrets /\ MaxSkew \in Nat
ASSUME RequestsAssumption ==
    \A q \in Requests : q.claim # NoClaim => q.claim.issued \in Int

Roles == {"agent", "operator", "auditor", "importer", "approver"}

\* The variables of from_env in the order in which it reads them, and the
\* roles each gives to its token.
Variables == 1 .. 6
Granted == <<Roles, {"agent"}, Roles \ {"agent"}, {"auditor"}, {"importer"}, {"approver"}>>

\* What a server is started with.
Environment == [tokens : [Variables -> Tokens \cup {NoToken}],
                allowed : SUBSET Prints, secret : Secrets \cup {NoSecret}]

\* The headers of a request are its token, the fingerprint of its certificate,
\* and what a proxy says of it: a claim [user, roles, issued] and a signature.
Sign(secret, claim, print) == [by |-> secret, of |-> claim, print |-> Normal(print)]

\* The roles the handlers of the two servers ask for.
AgentRoute == {"agent", "operator"}
OperatorRoute == {"operator"}
Routes == {AgentRoute, OperatorRoute, {"auditor", "operator"},
           {"importer", "operator"}, {"approver", "operator"}}

-----------------------------------------------------------------------------
Named(env, token) == {v \in Variables : token # NoToken /\ env.tokens[v] = token}

Configured(env) == {t \in Tokens : Named(env, t) # {}}

\* With required=True, as both servers ask for it, from_env() raises a
\* ValueError where no token is set and the server does not start.
Startable(env, required) == required => Configured(env) # {}

Enabled(env) == Configured(env) # {}

\* mutant: every token is given the roles of the shared one
TokenRolesShared(env, token) == IF Named(env, token) = {} THEN {} ELSE Roles

\* Tokens are the keys of a dictionary: the last name a token is given under
\* says its roles.
TokenRoles(env, token) ==
    UNION {Granted[v] : v \in {u \in Named(env, token) :
                                  \A w \in Named(env, token) : w <= u}}

\* mutant: a signature is valid for ever
VouchedForEver(env, now, q) ==
    /\ env.secret # NoSecret
    /\ q.claim # NoClaim
    /\ q.signature = Sign(env.secret, q.claim, q.print)

\* verify_proxy_identity: the proxy has signed this claim for this
\* certificate, at a time that is near enough.
Vouched(env, now, q) ==
    /\ env.secret # NoSecret
    /\ q.claim # NoClaim
    /\ now - q.claim.issued \in -MaxSkew .. MaxSkew
    /\ q.signature = Sign(env.secret, q.claim, q.print)

PrintAllowed(env, q) ==
    env.allowed = {} \/ Normal(q.print) \in {Normal(p) : p \in env.allowed}

Principal(actor, roles) == [actor |-> actor, roles |-> roles]
Nobody == Principal("nobody", {})

\* The principal of a request.  A proxy identity that holds is taken before
\* the token is looked at; one that does not is as good as none.
Identity(env, now, q) ==
    IF ~Enabled(env) THEN Principal("anonymous-dev", Roles)
    ELSE IF Vouched(env, now, q) THEN Principal("sso", q.claim.roles)
    ELSE IF q.token \in Configured(env) THEN Principal("api-token", TokenRoles(env, q.token))
    ELSE Nobody

\* authenticate() for a handler that asks for one of the required roles: the
\* certificate has to be on the list, if there is one, and the principal to
\* have one of the roles.  What is refused gets a 401 or a 403.
Admits(env, now, q, required) ==
    \/ ~Enabled(env)
    \/ /\ PrintAllowed(env, q)
       /\ Identity(env, now, q).roles \cap required # {}
-----------------------------------------------------------------------------
(* Properties.                                                             *)

\* Some variable gives the token of the request this role, or the proxy of
\* this server has vouched for it near enough to now, for this certificate.
HasRole(env, now, q, role) ==
    \/ \E v \in Variables : /\ q.token # NoToken /\ env.tokens[v] = q.token
                            /\ role \in Granted[v]
    \/ /\ env.secret # NoSecret /\ q.claim # NoClaim
       /\ q.signature = Sign(env.secret, q.claim, q.print)
       /\ now <= q.claim.issued + MaxSkew /\ q.claim.issued <= now + MaxSkew
       /\ role \in q.claim.roles

\* At this time, whatever the tokens, the allow list and the proxy are, and
\* though one way in is tried after the other: nobody passes without a role
\* the handler asks for, or with a certificate that is not on the list.
EntitledAt(now) ==
    \A env \in Environments, q \in Requests, required \in Routes :
        Enabled(env) /\ Admits(env, now, q, required) =>
            /\ env.allowed # {} => \E p \in env.allowed : Normal(p) = Normal(q.print)
            /\ \E role \in required : HasRole(env, now, q, role)

\* Tokens as generate_local_tokens.py makes them: no two variables alike.
Distinct(env) ==
    \A v, w \in Variables : env.tokens[v] \in Tokens /\ env.tokens[v] = env.tokens[w] => v = w

\* With such tokens, each opens just the handlers of its variable's roles to
\* whoever does not come through a proxy: the agents' token no other than the
\* agents'.
NamedTokensAt(now) ==
    \A env \in Environments, q \in Requests, v \in Variables, required \in Routes :
        /\ Distinct(env) /\ q.token \in Tokens /\ env.tokens[v] = q.token
        /\ q.claim = NoClaim /\ PrintAllowed(env, q)
        => (Admits(env, now, q, required) <=> Granted[v] \cap required # {})
=============================================================================
