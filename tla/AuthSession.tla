------------------------------ MODULE AuthSession ------------------------------
(***************************************************************************)
(* Refresh tokens and the session of one browser                           *)
(* (apps/api/src/auth/auth.service.ts, apps/web/lib/api.ts and auth.ts).   *)
(*                                                                         *)
(* A token is the number of its row; the access token issued with it has   *)
(* the same number.  A request is one call of the web client: it is sent,  *)
(* and when it is answered 401 the client refreshes once and sends it      *)
(* again.  Every step between two awaits of the server is an action, and   *)
(* so is the client's handling of an answer.  The session is the browser's *)
(* localStorage, shared by all pages and tabs.  There is one account.      *)
(***************************************************************************)
EXTENDS Naturals, FiniteSets

CONSTANTS
  Requests,   \* the calls the pages may have in flight
  MaxTokens,  \* bound on the rows of RefreshToken
  MaxFaults   \* bound on the failed calls and lost answers

ASSUME BoundsAssumption == MaxTokens \in Nat /\ MaxFaults \in Nat
ASSUME RequestsAssumption == IsFiniteSet(Requests)

VARIABLES
  issued,   \* the rows created: 1..issued
  hashed,   \* the rows whose tokenHash is not "pending_hash"
  revoked,  \* the rows with revokedAt
  expired,  \* the rows past expiresAt
  stale,    \* the access tokens past their 15 minutes
  parent,   \* history: the token a row was exchanged for, None after a login
  session,  \* the stored session, None when cleared
  req,      \* [Requests -> the call]
  faults    \* history: failed calls and lost answers

vars == <<issued, hashed, revoked, expired, stale, parent, session, req, faults>>
tokens == <<issued, hashed, revoked, parent>>

None == 0
Tokens == 1..MaxTokens
Kinds == {"call", "login", "logout"}
ServerSteps == {"sent", "find", "revoke", "create", "hash", "logoutFind", "logoutRevoke"}
Answers == {"ok", "denied", "failed", "granted", "refused"}

\* access and body are what the request carries, refresh is the token that a
\* refresh sends, fresh is the row that the server has created for it.
Call == [pc : ServerSteps \cup Answers \cup {"idle"}, kind : Kinds, retry : BOOLEAN,
         access : Tokens \cup {None}, body : Tokens \cup {None},
         refresh : Tokens \cup {None}, fresh : Tokens \cup {None}]
Idle == [pc |-> "idle", kind |-> "call", retry |-> TRUE,
         access |-> None, body |-> None, refresh |-> None, fresh |-> None]

Init ==
  /\ issued = 0 /\ hashed = {} /\ revoked = {} /\ expired = {} /\ stale = {}
  /\ parent = [t \in Tokens |-> None]
  /\ session = None
  /\ req = [r \in Requests |-> Idle]
  /\ faults = 0

Busy == {r \in Requests : req[r].pc # "idle"}
At(r, pc) == req[r].pc = pc
Go(r, pc) == req' = [req EXCEPT ![r].pc = pc]
End(r) == req' = [req EXCEPT ![r] = Idle]

(* The client sends. *)

Start(r) ==
  /\ At(r, "idle")
  /\ issued + Cardinality(Busy) < MaxTokens
  /\ \E kind \in Kinds :
       /\ kind = "logout" => session # None
       /\ req' = [req EXCEPT ![r] =
            [Idle EXCEPT !.pc = "sent", !.kind = kind,
                         !.access = IF kind = "login" THEN None ELSE session,
                         !.body = IF kind = "logout" THEN session ELSE None]]
  /\ UNCHANGED <<tokens, expired, stale, session, faults>>

(* The server. *)

Authorised(r) == req[r].access # None /\ req[r].access \notin stale

Serve(r) ==
  /\ At(r, "sent")
  /\ Go(r, CASE req[r].kind = "login" -> "create"
             [] req[r].kind # "login" /\ ~Authorised(r) -> "denied"
             [] req[r].kind = "call" /\ Authorised(r) -> "ok"
             [] req[r].kind = "logout" /\ Authorised(r) -> "logoutFind")
  /\ UNCHANGED <<tokens, expired, stale, session, faults>>

\* includeRevoked, for logout.
MatchesRevokedToo(t) == t \in hashed /\ t \notin expired
Matches(t) == MatchesRevokedToo(t) /\ t \notin revoked

FindForRefresh(r) ==
  /\ At(r, "find")
  /\ Go(r, IF Matches(req[r].refresh) THEN "revoke" ELSE "refused")
  /\ UNCHANGED <<tokens, expired, stale, session, faults>>

RevokeForRefresh(r) ==
  /\ At(r, "revoke")
  /\ revoked' = revoked \cup {req[r].refresh}
  /\ Go(r, "create")
  /\ UNCHANGED <<issued, hashed, expired, stale, parent, session, faults>>

CreateToken(r) ==
  /\ At(r, "create") /\ issued < MaxTokens
  /\ issued' = issued + 1
  /\ parent' = [parent EXCEPT ![issued + 1] = req[r].refresh]
  /\ req' = [req EXCEPT ![r].pc = "hash", ![r].fresh = issued + 1]
  /\ UNCHANGED <<hashed, revoked, expired, stale, session, faults>>

StoreHash(r) ==
  /\ At(r, "hash")
  /\ hashed' = hashed \cup {req[r].fresh}
  /\ Go(r, "granted")
  /\ UNCHANGED <<issued, revoked, expired, stale, parent, session, faults>>

FindForLogout(r) ==
  /\ At(r, "logoutFind")
  /\ Go(r, CASE ~MatchesRevokedToo(req[r].body) -> "denied"
             [] Matches(req[r].body) -> "logoutRevoke"
             [] OTHER -> "ok")
  /\ UNCHANGED <<tokens, expired, stale, session, faults>>

RevokeForLogout(r) ==
  /\ At(r, "logoutRevoke")
  /\ revoked' = revoked \cup {req[r].body}
  /\ Go(r, "ok")
  /\ UNCHANGED <<issued, hashed, expired, stale, parent, session, faults>>

\* A call of the handler rejects, or the limiter answers 429: what was written
\* stays written.  The last call is an audit, once the hash is stored or the token
\* revoked: the client is then refused although a row was issued for it.
ServerFails(r) ==
  /\ \/ req[r].pc \in ServerSteps \cup {"granted"}
     \/ At(r, "ok") /\ req[r].kind = "logout"
  /\ faults < MaxFaults
  /\ faults' = faults + 1
  /\ Go(r, IF req[r].refresh # None /\ req[r].retry THEN "refused" ELSE "failed")
  /\ UNCHANGED <<tokens, expired, stale, session>>

(* The client handles the answer. *)

\* logout clears the session whether or not its call succeeded; me() writes the
\* session back as it is now.
Finish(r) ==
  /\ \/ req[r].pc \in {"ok", "failed"}
     \/ At(r, "denied") /\ (req[r].kind = "login" \/ ~req[r].retry \/ session = None)
  /\ session' = IF req[r].kind = "logout" THEN None ELSE session
  /\ End(r)
  /\ UNCHANGED <<tokens, expired, stale, faults>>

Refresh(r) ==
  /\ At(r, "denied") /\ req[r].kind # "login" /\ req[r].retry /\ session # None
  /\ req' = [req EXCEPT ![r].pc = "find", ![r].refresh = session]
  /\ UNCHANGED <<tokens, expired, stale, session, faults>>

\* The second attempt may refresh again, for a mutant.
ResentWithRetry(r) == [req[r] EXCEPT !.pc = "sent", !.access = req[r].fresh]
\* The body of the request is the one it was first sent with.
Resent(r) == [req[r] EXCEPT !.pc = "sent", !.retry = FALSE, !.access = req[r].fresh]

\* The new pair is used once and not stored, for a mutant.
UseTokens(r) ==
  /\ At(r, "granted")
  /\ session' = IF req[r].kind = "login" THEN req[r].fresh ELSE session
  /\ req' = [req EXCEPT ![r] = IF req[r].kind = "login" THEN Idle ELSE Resent(r)]
  /\ UNCHANGED <<tokens, expired, stale, faults>>

StoreTokens(r) ==
  /\ At(r, "granted")
  /\ session' = req[r].fresh
  /\ req' = [req EXCEPT ![r] = IF req[r].kind = "login" THEN Idle ELSE Resent(r)]
  /\ UNCHANGED <<tokens, expired, stale, faults>>

\* Any answer that is not ok clears the session, whoever has stored it.
GiveUp(r) ==
  /\ At(r, "refused")
  /\ session' = None
  /\ End(r)
  /\ UNCHANGED <<tokens, expired, stale, faults>>

\* fetch rejects: nothing is stored and nothing is cleared, except by logout.
LoseAnswer(r) ==
  /\ req[r].pc \in Answers /\ faults < MaxFaults
  /\ faults' = faults + 1
  /\ session' = IF req[r].kind = "logout" THEN None ELSE session
  /\ End(r)
  /\ UNCHANGED <<tokens, expired, stale>>

(* Time. *)

AccessExpires ==
  /\ \E t \in hashed \ stale : stale' = stale \cup {t}
  /\ UNCHANGED <<tokens, expired, session, req, faults>>

RefreshExpires ==
  /\ \E t \in stale \ expired : expired' = expired \cup {t}
  /\ UNCHANGED <<tokens, stale, session, req, faults>>

ServerStep(r) ==
  \/ Serve(r) \/ FindForRefresh(r) \/ RevokeForRefresh(r) \/ CreateToken(r)
  \/ StoreHash(r) \/ FindForLogout(r) \/ RevokeForLogout(r)
ClientStep(r) == Finish(r) \/ Refresh(r) \/ StoreTokens(r) \/ GiveUp(r)

Next ==
  \/ \E r \in Requests : Start(r) \/ ServerStep(r) \/ ClientStep(r)
                         \/ ServerFails(r) \/ LoseAnswer(r)
  \/ AccessExpires \/ RefreshExpires

Spec == Init /\ [][Next]_vars

\* A handler and a page run to their end.
FairSpec == Spec /\ \A r \in Requests : WF_vars(ServerStep(r) \/ ClientStep(r))
-------------------------------------------------------------------------------
TypeOK ==
  /\ issued \in 0..MaxTokens
  /\ hashed \subseteq 1..issued /\ revoked \subseteq hashed
  /\ stale \subseteq hashed /\ expired \subseteq stale
  /\ parent \in [Tokens -> Tokens \cup {None}]
  /\ session \in hashed \cup {None}
  /\ req \in [Requests -> Call]
  /\ faults \in 0..MaxFaults

Successors(t) == {n \in 1..issued : parent[n] = t}

\* A token is looked up and revoked in two calls: requests that are in flight
\* together may all exchange it, but no others, so it has at most as many
\* successors as there are requests.
SuccessorsAreBounded ==
  \A t \in Tokens : Cardinality(Successors(t)) <= Cardinality(Requests)

\* When nothing is in flight and nothing has failed, the stored session can be
\* refreshed until it expires: whichever of several answers came last, the
\* token it stored is not one that another request has exchanged.
SessionIsLive ==
  Busy = {} /\ faults = 0 => session \notin revoked

\* Every call ends: a refresh is tried once and never waits for another.
CallsEnd == \A r \in Requests : r \in Busy ~> r \notin Busy
================================================================================
