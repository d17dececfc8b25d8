----------------------------- MODULE GatewayAccess -----------------------------
(***************************************************************************)
(* Signing in to the gateway and what an administrator does there: tokens, *)
(* their revocation, and the handlers that change something and then write *)
(* an audit row.  A handler is the sequence of its steps, each of which    *)
(* commits on its own and can raise.                                       *)
(***************************************************************************)
EXTENDS Naturals, Sequences, SequencesExt

CONSTANTS
    Requests,   \* requests of administrators, each handled once
    Users,      \* the users they assign roles to, or who sign in
    Renewals,   \* refresh tokens
    Tokens,     \* access tokens
    Privileged  \* those whose claims name the role admin; issue_token makes none

ASSUME AccessAssumption == Privileged \subseteq Tokens /\ Renewals \intersect Tokens = {}

VARIABLES
    request,    \* each request: its handler, the steps left and made, its answer
    roles,      \* users with a row in user_roles
    refresh,    \* tokens with a row in refresh_tokens
    expired,    \* tokens whose time is over, of either kind
    revoked     \* tokens with a row in revoked_tokens

accessVars == <<request, roles, refresh, expired, revoked>>

-----------------------------------------------------------------------------
(***************************************************************************)
(* The handlers.  "write" commits a change, "look" reads, "find" reads     *)
(* what the write depends on, "call" asks another service to change        *)
(* something, and "audit" commits the row of the audit log.                *)
(***************************************************************************)

ListRoles == <<"look", "audit">>
AssignRole == <<"find", "write", "audit">>
ListFlags == <<"audit", "look">>
ToggleFlag == <<"write", "audit", "look">>
Protected == <<"audit">>
TriggerCleanup == <<"write", "write", "audit">>
PurgePii == <<"write", "audit">>
ApproveRun == <<"write", "write", "audit">>
RejectRun == <<"write", "audit">>
AuditLogs == <<"look", "audit">>
ListModels == <<"audit", "look">>
SwitchModel == <<"find", "write", "audit">>
\* Slip: the audit row is written before the publisher is asked.
EditTaskAuditFirst == <<"audit", "call">>
EditTask == <<"call", "audit">>
RetryTask == <<"call", "audit">>

Handlers == {ListRoles, AssignRole, ListFlags, ToggleFlag, Protected, TriggerCleanup,
             PurgePii, ApproveRun, RejectRun, AuditLogs, ListModels, SwitchModel,
             EditTask, RetryTask}

Changing == {"write", "call"}

Changes(h) == ToSet(h) \intersect Changing # {}

AccessInit ==
    /\ request = [r \in Requests |-> [handler |-> <<>>, left |-> <<>>, changed |-> FALSE,
                                      audited |-> FALSE, answer |-> "none"]]
    /\ roles = {} /\ refresh = {} /\ expired = {} /\ revoked = {}

-----------------------------------------------------------------------------
(***************************************************************************)
(* Tokens.                                                                 *)
(***************************************************************************)

\* An administrator of the database gives a user the first role.
SeedRole(u) ==
    /\ u \notin roles
    /\ roles' = roles \union {u}
    /\ UNCHANGED <<request, refresh, expired, revoked>>

\* issue_token: any user with a role gets an access token, and a refresh token.
IssueToken(u, t) ==
    /\ u \in roles
    /\ t \notin refresh \union expired
    /\ refresh' = refresh \union {t}
    /\ UNCHANGED <<request, roles, expired, revoked>>

\* refresh_auth_token: the column has no time zone and now() has one, so the
\* comparison raises for every token that is found, before anything is changed.
Refresh(t) == t \in refresh /\ UNCHANGED accessVars

\* Nothing deletes the rows of tokens that have expired.
Expire(t) ==
    /\ expired' = expired \union {t}
    /\ UNCHANGED <<request, roles, refresh, revoked>>

\* jwt.decode, with the local secret or with a key of Auth0: the signature of
\* every token here is good, so that only its time decides.
Decoded(t) == t \notin expired

\* verify_token
Accepted(t) == Decoded(t) /\ t \notin revoked

\* revoke_token: the row is never deleted.
RevokeToken(t) == revoked' = revoked \union {t}

\* revoke_auth_token
Revoke(t) ==
    /\ Accepted(t)
    /\ RevokeToken(t)
    /\ UNCHANGED <<request, roles, refresh, expired>>

-----------------------------------------------------------------------------
(***************************************************************************)
(* Handling a request.                                                     *)
(***************************************************************************)

tables == <<roles, refresh, expired, revoked>>

\* require_role: a request that is let in runs its handler.
LetIn(r, t, h) ==
    /\ request[r].handler = <<>>
    /\ Accepted(t) /\ t \in Privileged
    /\ request' = [request EXCEPT ![r].handler = h, ![r].left = h]
    /\ UNCHANGED tables

\* A request as it is when it has made its first step.
Made(q) ==
    LET step == Head(q.left)
    IN  [q EXCEPT !.left = Tail(@),
                  !.changed = @ \/ step \in Changing,
                  !.audited = @ \/ step = "audit",
                  !.answer = IF Len(q.left) = 1 THEN "ok" ELSE @]

Step(r) ==
    /\ request[r].left # <<>>
    /\ request' = [request EXCEPT ![r] = Made(@)]
    /\ UNCHANGED tables

\* The step raises: a page that is not there, a model or a task that is not
\* found, two first assignments of a role to one user, a database that is away.
Raise(r) ==
    /\ request[r].left # <<>>
    /\ request' = [request EXCEPT ![r].left = <<>>, ![r].answer = "error"]
    /\ UNCHANGED tables

\* The other service has done what it was asked, and its answer is lost.
CallTimesOut(r) ==
    /\ request[r].left # <<>> /\ Head(request[r].left) = "call"
    /\ request' = [request EXCEPT ![r].left = <<>>, ![r].changed = TRUE, ![r].answer = "error"]
    /\ UNCHANGED tables

AccessNext ==
    \/ \E u \in Users : SeedRole(u) \/ \E t \in Renewals : IssueToken(u, t)
    \/ \E t \in Renewals : Refresh(t)
    \/ \E t \in Tokens : Revoke(t)
    \/ \E t \in Renewals \union Tokens : Expire(t)
    \/ \E r \in Requests :
         \/ \E t \in Tokens, h \in Handlers : LetIn(r, t, h)
         \/ Step(r) \/ Raise(r) \/ CallTimesOut(r)

AccessSpec == AccessInit /\ [][AccessNext]_accessVars

-----------------------------------------------------------------------------
(***************************************************************************)
(* What holds.                                                             *)
(***************************************************************************)

AccessTypeOK ==
    /\ request \in [Requests -> [handler : Handlers \union {<<>>},
                                 left : UNION {Suffixes(h) : h \in Handlers \union {<<>>}},
                                 changed : BOOLEAN, audited : BOOLEAN,
                                 answer : {"none", "ok", "error"}]]
    /\ roles \subseteq Users
    /\ refresh \subseteq Renewals /\ expired \subseteq Renewals \union Tokens /\ revoked \subseteq Tokens

\* The audit log names no change that was not made, and lacks one only if the
\* administrator was told of an error, wherever the handler was interrupted.
AuditAccounted ==
    \A r \in Requests :
        LET q == request[r]
        IN  /\ q.audited /\ Changes(q.handler) => q.changed
            /\ q.answer = "ok" /\ q.changed => q.audited
=============================================================================
