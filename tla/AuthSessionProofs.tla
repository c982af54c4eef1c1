--------------------------- MODULE AuthSessionProofs ---------------------------
(***************************************************************************)
(* Theorems of AuthSession, for any number of requests, tokens and faults. *)
(***************************************************************************)
EXTENDS AuthSession, FiniteSetTheorems, TLAPS

USE DEF tokens, At, Go, End

\* A request names only tokens that a client can have: what it sends was stored,
\* and what the server writes was created or found.
ReqOK(x, n, h) ==
  /\ x.pc = "hash" => x.fresh \in 1..n
  /\ x.pc = "granted" => x.fresh \in h
  /\ x.refresh \in h \cup {None}
  /\ x.body \in h \cup {None}
  /\ x.pc \in {"find", "revoke"} => x.refresh \in h
  /\ x.pc = "logoutRevoke" => x.body \in h
  /\ x.kind = "login" => x.refresh = None

ReqsOK == \A r \in Requests : ReqOK(req[r], issued, hashed)

TypeInv == TypeOK /\ ReqsOK

LEMMA TypeInit == Init => TypeInv
  <1> SUFFICES ASSUME Init PROVE TypeInv
    OBVIOUS
  <1>1. Idle \in Call /\ ReqOK(Idle, issued, hashed)
    BY DEF Idle, Call, ReqOK, Kinds, None
  <1>2. TypeOK
    BY <1>1, BoundsAssumption DEF Init, TypeOK
  <1> QED
    BY <1>1, <1>2 DEF Init, TypeInv, ReqsOK

\* What the tables hold after a step, whatever the requests do.
TablesOK ==
  /\ issued \in 0..MaxTokens
  /\ hashed \subseteq 1..issued /\ revoked \subseteq hashed
  /\ stale \subseteq hashed /\ expired \subseteq stale
  /\ parent \in [Tokens -> Tokens \cup {None}]
  /\ session \in hashed \cup {None}
  /\ faults \in 0..MaxFaults

\* A step that gives one request a well-formed record and only adds tokens.
LEMMA OneRequest ==
  ASSUME TypeInv, NEW r \in Requests, NEW x \in Call, req' = [req EXCEPT ![r] = x],
         TablesOK', issued' >= issued, hashed \subseteq hashed', ReqOK(x, issued', hashed')
  PROVE  TypeInv'
  <1>1. req' \in [Requests -> Call]
    BY DEF TypeInv, TypeOK
  <1>2. ASSUME NEW q \in Requests PROVE ReqOK(req'[q], issued', hashed')
    <2>1. CASE q = r
      BY <2>1 DEF TypeInv, TypeOK
    <2>2. CASE q # r
      <3>1. req'[q] = req[q] /\ ReqOK(req[q], issued, hashed)
        BY <2>2 DEF TypeInv, TypeOK, ReqsOK
      <3>2. 1..issued \subseteq 1..issued'
        BY DEF TypeInv, TypeOK, TablesOK
      <3> QED
        BY <3>1, <3>2 DEF ReqOK
    <2> QED
      BY <2>1, <2>2
  <1> QED
    BY <1>1, <1>2 DEF TypeInv, TypeOK, ReqsOK, TablesOK

\* A request that takes a step of its own, with its tokens as they are.
LEMMA Moves ==
  ASSUME TypeInv, NEW r \in Requests, NEW pc, req' = [req EXCEPT ![r].pc = pc],
         pc \in ServerSteps \cup Answers,
         TablesOK', issued' >= issued, hashed \subseteq hashed',
         pc \in {"find", "revoke"} => req[r].refresh \in hashed,
         pc = "logoutRevoke" => req[r].body \in hashed,
         pc = "hash" => req[r].fresh \in 1..issued',
         pc = "granted" => req[r].fresh \in hashed'
  PROVE  TypeInv'
  <1> DEFINE x == [req[r] EXCEPT !.pc = pc]
  <1>1. req[r] \in Call /\ ReqOK(req[r], issued, hashed)
    BY DEF TypeInv, TypeOK, ReqsOK
  <1>2. x \in Call /\ req' = [req EXCEPT ![r] = x]
    BY <1>1 DEF Call
  <1>3. /\ x.pc = pc /\ x.refresh = req[r].refresh /\ x.body = req[r].body
        /\ x.fresh = req[r].fresh /\ x.kind = req[r].kind
    BY <1>1 DEF Call
  <1>4. ReqOK(x, issued', hashed')
    BY <1>1, <1>3 DEF ReqOK
  <1> QED
    BY <1>2, <1>4, OneRequest

LEMMA Ends ==
  ASSUME TypeInv, NEW r \in Requests, req' = [req EXCEPT ![r] = Idle],
         TablesOK', issued' = issued, hashed' = hashed
  PROVE  TypeInv'
  <1>1. Idle \in Call /\ ReqOK(Idle, issued', hashed')
    BY DEF Idle, Call, ReqOK, Kinds, None
  <1>2. issued' >= issued
    BY DEF TypeInv, TypeOK
  <1> QED
    BY <1>1, <1>2, OneRequest

LEMMA RequestType ==
  ASSUME TypeInv, NEW r \in Requests
  PROVE  /\ req[r] \in Call /\ ReqOK(req[r], issued, hashed) /\ TablesOK
         /\ req[r].refresh \in Tokens \cup {None} /\ req[r].body \in Tokens \cup {None}
         /\ issued \in Nat /\ issued >= issued
         /\ hashed \subseteq Tokens /\ session \in Tokens \cup {None}
  <1>1. /\ req[r] \in Call /\ ReqOK(req[r], issued, hashed) /\ TablesOK
        /\ req[r].refresh \in Tokens \cup {None} /\ req[r].body \in Tokens \cup {None}
    BY DEF TypeInv, TypeOK, ReqsOK, TablesOK, Call
  <1>2. 1..issued \subseteq Tokens /\ issued \in Nat
    BY <1>1, BoundsAssumption DEF TablesOK, Tokens
  <1> QED
    BY <1>1, <1>2 DEF TablesOK

LEMMA TypeServer ==
  ASSUME TypeInv, NEW r \in Requests, ServerStep(r) \/ ServerFails(r)
  PROVE  TypeInv'
  <1>1. CASE Serve(r)
    BY <1>1, RequestType, Moves DEF Serve, TablesOK, ServerSteps, Answers, Call, Kinds
  <1>2. CASE FindForRefresh(r)
    <2> DEFINE pc == IF Matches(req[r].refresh) THEN "revoke" ELSE "refused"
    <2>1. req' = [req EXCEPT ![r].pc = pc] /\ pc \in ServerSteps \cup Answers
      BY <1>2 DEF FindForRefresh, ServerSteps, Answers
    <2>2. TablesOK' /\ issued' = issued /\ hashed' = hashed
      BY <1>2, RequestType DEF FindForRefresh, TablesOK
    <2>3. pc = "revoke" => req[r].refresh \in hashed
      BY DEF Matches, MatchesRevokedToo
    <2>4. pc \notin {"find", "logoutRevoke", "hash", "granted"}
      OBVIOUS
    <2> HIDE DEF pc
    <2> QED
      BY <2>1, <2>2, <2>3, <2>4, RequestType, Moves
  <1>3. CASE RevokeForRefresh(r)
    BY <1>3, RequestType, Moves DEF RevokeForRefresh, TablesOK, ServerSteps, Answers, ReqOK
  <1>4. CASE CreateToken(r)
    <2> DEFINE x == [req[r] EXCEPT !.pc = "hash", !.fresh = issued + 1]
    <2>1. TablesOK' /\ issued' = issued + 1 /\ hashed' = hashed /\ issued + 1 \in Tokens
          /\ issued \in Nat
      <3>1. issued \in Nat /\ MaxTokens \in Nat /\ issued' = issued + 1 /\ issued + 1 \in Tokens
        BY <1>4, RequestType, BoundsAssumption DEF CreateToken, TablesOK, Tokens
      <3>2. parent' \in [Tokens -> Tokens \cup {None}]
        BY <1>4, RequestType DEF CreateToken, TablesOK
      <3> QED
        BY <1>4, <3>1, <3>2, RequestType DEF CreateToken, TablesOK, Tokens
    <2>2. req' = [req EXCEPT ![r] = x]
      BY <1>4 DEF CreateToken
    <2>3. x \in Call
      BY <2>1, RequestType DEF Call, ServerSteps
    <2>4. ReqOK(x, issued', hashed')
      <3>1. x.pc = "hash" /\ x.fresh = issued + 1 /\ x.refresh = req[r].refresh
            /\ x.body = req[r].body /\ x.kind = req[r].kind
        BY RequestType DEF Call
      <3> QED
        BY <2>1, <3>1, RequestType DEF ReqOK
    <2>5. issued' >= issued /\ hashed \subseteq hashed'
      BY <2>1
    <2> HIDE DEF x
    <2> QED
      BY <2>1, <2>2, <2>3, <2>4, <2>5, OneRequest
  <1>5. CASE StoreHash(r)
    BY <1>5, RequestType, Moves DEF StoreHash, TablesOK, ServerSteps, Answers, ReqOK
  <1>6. CASE FindForLogout(r)
    BY <1>6, RequestType, Moves
       DEF FindForLogout, TablesOK, ServerSteps, Answers, Matches, MatchesRevokedToo
  <1>7. CASE RevokeForLogout(r)
    BY <1>7, RequestType, Moves DEF RevokeForLogout, TablesOK, ServerSteps, Answers, ReqOK
  <1>8. CASE ServerFails(r)
    <2> DEFINE pc == IF req[r].refresh # None /\ req[r].retry THEN "refused" ELSE "failed"
    <2>1. req' = [req EXCEPT ![r].pc = pc] /\ pc \in ServerSteps \cup Answers
      BY <1>8 DEF ServerFails, ServerSteps, Answers
    <2>2. TablesOK' /\ issued' = issued /\ hashed' = hashed
      <3>1. faults' \in 0..MaxFaults
        BY <1>8, RequestType, BoundsAssumption DEF ServerFails, TablesOK
      <3> QED
        BY <1>8, <3>1, RequestType DEF ServerFails, TablesOK
    <2>3. pc \notin {"find", "revoke", "logoutRevoke", "hash", "granted"}
      OBVIOUS
    <2> HIDE DEF pc
    <2> QED
      BY <2>1, <2>2, <2>3, RequestType, Moves
  <1> QED
    BY <1>1, <1>2, <1>3, <1>4, <1>5, <1>6, <1>7, <1>8 DEF ServerStep

LEMMA TypeClient ==
  ASSUME TypeInv, NEW r \in Requests, Start(r) \/ ClientStep(r) \/ LoseAnswer(r)
  PROVE  TypeInv'
  <1>1. CASE Start(r)
    <2>1. PICK kind \in Kinds : Start(r)!3!(kind)
      BY <1>1 DEF Start
    <2> DEFINE x == [Idle EXCEPT !.pc = "sent", !.kind = kind,
                       !.access = IF kind = "login" THEN None ELSE session,
                       !.body = IF kind = "logout" THEN session ELSE None]
    <2>2. req' = [req EXCEPT ![r] = x]
      BY <2>1
    <2>3. session \in Tokens \cup {None} /\ session \in hashed \cup {None}
      BY RequestType DEF TablesOK
    <2>4. /\ x.pc = "sent" /\ x.refresh = None /\ x.body \in hashed \cup {None}
          /\ x \in Call
      BY <2>3 DEF Idle, Call, ServerSteps, None
    <2>5. ReqOK(x, issued', hashed') /\ TablesOK' /\ issued' = issued /\ hashed' = hashed
      BY <1>1, <2>4, RequestType DEF ReqOK, Start, TablesOK
    <2> QED
      BY <2>2, <2>4, <2>5, RequestType, OneRequest
  <1>2. CASE Finish(r)
    BY <1>2, RequestType, Ends DEF Finish, TablesOK
  <1>3. CASE Refresh(r)
    <2> DEFINE x == [req[r] EXCEPT !.pc = "find", !.refresh = session]
    <2>1. session \in Tokens /\ session \in hashed
      BY <1>3, RequestType DEF Refresh, TablesOK
    <2>2. req' = [req EXCEPT ![r] = x]
      BY <1>3 DEF Refresh
    <2>3. x \in Call
      BY <2>1, RequestType DEF Call, ServerSteps
    <2>4. ReqOK(x, issued', hashed') /\ TablesOK' /\ issued' = issued /\ hashed' = hashed
      <3>1. x.pc = "find" /\ x.refresh = session /\ x.body = req[r].body
            /\ x.kind = req[r].kind
        BY RequestType DEF Call
      <3> QED
        BY <1>3, <2>1, <3>1, RequestType DEF ReqOK, Refresh, TablesOK
    <2> QED
      BY <2>2, <2>3, <2>4, RequestType, OneRequest
  <1>4. CASE StoreTokens(r)
    <2>1. TablesOK' /\ issued' = issued /\ hashed' = hashed
      BY <1>4, RequestType DEF StoreTokens, TablesOK, ReqOK
    <2>2. CASE req[r].kind = "login"
      BY <1>4, <2>1, <2>2, Ends DEF StoreTokens
    <2>3. CASE req[r].kind # "login"
      <3> DEFINE x == [req[r] EXCEPT !.pc = "sent", !.retry = FALSE, !.access = req[r].fresh]
      <3>1. req' = [req EXCEPT ![r] = x]
        BY <1>4, <2>3 DEF StoreTokens, Resent
      <3>2. x \in Call
        BY RequestType DEF Call, ServerSteps
      <3>3. x.pc = "sent" /\ x.refresh = req[r].refresh /\ x.body = req[r].body
            /\ x.kind = req[r].kind
        BY RequestType DEF Call
      <3>4. ReqOK(x, issued', hashed')
        BY <2>1, <3>3, RequestType DEF ReqOK
      <3> QED
        BY <2>1, <3>1, <3>2, <3>4, RequestType, OneRequest
    <2> QED
      BY <2>2, <2>3
  <1>5. CASE GiveUp(r)
    BY <1>5, RequestType, Ends DEF GiveUp, TablesOK
  <1>6. CASE LoseAnswer(r)
    <2>1. faults' \in 0..MaxFaults
      BY <1>6, RequestType, BoundsAssumption DEF LoseAnswer, TablesOK
    <2> QED
      BY <1>6, <2>1, RequestType, Ends DEF LoseAnswer, TablesOK
  <1> QED
    BY <1>1, <1>2, <1>3, <1>4, <1>5, <1>6 DEF ClientStep

LEMMA TypeNext == TypeInv /\ [Next]_vars => TypeInv'
  <1> SUFFICES ASSUME TypeInv, [Next]_vars PROVE TypeInv'
    OBVIOUS
  <1>1. CASE AccessExpires \/ RefreshExpires
    BY <1>1 DEF AccessExpires, RefreshExpires, TypeInv, TypeOK, ReqsOK
  <1>2. CASE UNCHANGED vars
    BY <1>2 DEF vars, TypeInv, TypeOK, ReqsOK
  <1> QED
    BY <1>1, <1>2, TypeServer, TypeClient DEF Next

LEMMA TypeAlways == Spec => []TypeInv
  BY TypeInit, TypeNext, PTL DEF Spec

\* Rows, hashes and marks nest: no token is revoked, stale or expired before its
\* hash is stored, and the session a browser keeps is always such a token.
THEOREM TypeCorrect == Spec => []TypeOK
  BY TypeAlways, PTL DEF TypeInv

(* Successors. *)

\* The requests between finding the token and replacing it.
Exchanging(t) == {r \in Requests : req[r].pc \in {"revoke", "create"} /\ req[r].refresh = t}

\* A token is found only while it is not revoked, and then it has no successor;
\* from then on every exchange in flight leaves at most one.
ChainOK(t) ==
  /\ Cardinality(Successors(t)) + Cardinality(Exchanging(t)) <= Cardinality(Requests)
  /\ t \notin revoked =>
       Successors(t) = {} /\ \A r \in Requests : ~(req[r].pc = "create" /\ req[r].refresh = t)

ChainsOK == \A t \in Tokens : ChainOK(t)

LEMMA Finite ==
  ASSUME TypeInv, NEW t
  PROVE  /\ IsFiniteSet(Successors(t)) /\ IsFiniteSet(Exchanging(t)) /\ IsFiniteSet(Requests)
         /\ Cardinality(Successors(t)) \in Nat /\ Cardinality(Exchanging(t)) \in Nat
         /\ Cardinality(Requests) \in Nat
         /\ Cardinality(Exchanging(t)) <= Cardinality(Requests)
  <1>1. IsFiniteSet(1..issued) /\ Successors(t) \subseteq 1..issued
    BY FS_Interval DEF TypeInv, TypeOK, Successors
  <1>2. IsFiniteSet(Requests) /\ Exchanging(t) \subseteq Requests
    BY RequestsAssumption DEF Exchanging
  <1> QED
    BY <1>1, <1>2, FS_Subset, FS_CardinalityType

LEMMA ChainInit == Init => ChainsOK
  <1> SUFFICES ASSUME Init, NEW t \in Tokens PROVE ChainOK(t)
    BY DEF ChainsOK
  <1>1. Successors(t) = {} /\ Exchanging(t) = {}
    BY DEF Init, Successors, Exchanging, Idle
  <1>2. Cardinality({}) = 0 /\ Cardinality(Requests) \in Nat
    BY FS_EmptySet, RequestsAssumption, FS_CardinalityType
  <1> QED
    BY <1>1, <1>2 DEF Init, ChainOK, Idle

\* A step that creates no token and starts no exchange of t.
LEMMA ChainKept ==
  ASSUME TypeInv, TypeInv', NEW t \in Tokens, ChainOK(t), issued' = issued, parent' = parent,
         revoked \subseteq revoked', Exchanging(t)' \subseteq Exchanging(t),
         t \notin revoked' =>
           \A r \in Requests : ~(req'[r].pc = "create" /\ req'[r].refresh = t)
  PROVE  ChainOK(t)'
  <1>1. Successors(t)' = Successors(t)
    BY DEF Successors
  <1>2. Cardinality(Exchanging(t)') <= Cardinality(Exchanging(t))
    BY Finite, FS_Subset
  <1>3. Cardinality(Exchanging(t)') \in Nat
    BY Finite, FS_Subset, FS_CardinalityType
  <1>4. Cardinality(Successors(t)) + Cardinality(Exchanging(t)') <= Cardinality(Requests)
    BY <1>2, <1>3, Finite DEF ChainOK
  <1> QED
    BY <1>1, <1>4 DEF ChainOK

\* A request that moves to any step but these two takes part in no exchange.
LEMMA Leaves ==
  ASSUME TypeInv, NEW t \in Tokens, NEW r \in Requests, NEW x,
         req' = [req EXCEPT ![r] = x], x.pc \notin {"revoke", "create"}
  PROVE  /\ Exchanging(t)' \subseteq Exchanging(t)
         /\ \A q \in Requests : req'[q].pc = "create" => req'[q] = req[q]
  BY DEF Exchanging, TypeInv, TypeOK

LEMMA ChainMoves ==
  ASSUME TypeInv, TypeInv', ChainsOK, NEW t \in Tokens, NEW r \in Requests, NEW x,
         req' = [req EXCEPT ![r] = x], x.pc \notin {"revoke", "create"},
         issued' = issued, parent' = parent, revoked \subseteq revoked'
  PROVE  ChainOK(t)'
  <1>1. ChainOK(t)
    BY DEF ChainsOK
  <1> QED
    BY <1>1, ChainKept, Leaves DEF ChainOK

\* A step of one request that leaves the tokens or revokes some.
Going(r, pc) ==
  /\ req' = [req EXCEPT ![r].pc = pc]
  /\ issued' = issued /\ parent' = parent /\ revoked \subseteq revoked'

LEMMA ChainGoes ==
  ASSUME TypeInv, TypeInv', ChainsOK, NEW t \in Tokens, NEW r \in Requests, NEW pc,
         Going(r, pc), pc \notin {"revoke", "create"}
  PROVE  ChainOK(t)'
  <1> DEFINE x == [req[r] EXCEPT !.pc = pc]
  <1>1. req' = [req EXCEPT ![r] = x] /\ x.pc = pc
    BY RequestType DEF Call, Going
  <1> HIDE DEF x
  <1> QED
    BY <1>1, ChainMoves DEF Going

LEMMA ChainNext == TypeInv /\ TypeInv' /\ ChainsOK /\ [Next]_vars => ChainsOK'
  <1> SUFFICES ASSUME TypeInv, TypeInv', ChainsOK, [Next]_vars, NEW t \in Tokens
               PROVE  ChainOK(t)'
    BY DEF ChainsOK
  <1>1. ChainOK(t)
    BY DEF ChainsOK
  <1>2. CASE AccessExpires \/ RefreshExpires \/ UNCHANGED vars
    BY <1>1, <1>2 DEF AccessExpires, RefreshExpires, vars, ChainOK, Successors, Exchanging
  <1>4. ASSUME NEW r \in Requests, req' = [req EXCEPT ![r] = Idle],
               issued' = issued, parent' = parent, revoked \subseteq revoked'
        PROVE  ChainOK(t)'
    BY <1>4, ChainMoves DEF Idle
  <1>5. ASSUME NEW r \in Requests, ServerStep(r) PROVE ChainOK(t)'
    <2>1. CASE Serve(r)
      <3>1. CASE req[r].kind # "login"
        <4>1. req[r].kind \in Kinds
          BY RequestType DEF Call
        <4>2. \E pc \in {"denied", "ok", "logoutFind"} : Going(r, pc)
          BY <2>1, <3>1, <4>1 DEF Serve, Kinds, Going
        <4> QED
          BY <4>2, ChainGoes
      <3>2. CASE req[r].kind = "login"
        <4>1. req' = [req EXCEPT ![r].pc = "create"] /\ req[r].refresh = None
          BY <2>1, <3>2, RequestType DEF Serve, ReqOK
        <4>2. req'[r].refresh = None /\ \A q \in Requests \ {r} : req'[q] = req[q]
          BY <4>1, RequestType DEF Call, TypeInv, TypeOK
        <4>3. t # None
          BY DEF Tokens, None
        <4>4. Exchanging(t)' \subseteq Exchanging(t)
          BY <4>2, <4>3 DEF Exchanging
        <4>5. \A q \in Requests :
                req'[q].pc = "create" /\ req'[q].refresh = t =>
                  req[q].pc = "create" /\ req[q].refresh = t
          BY <4>2, <4>3
        <4> QED
          BY <1>1, <2>1, <4>4, <4>5, ChainKept DEF Serve, ChainOK
      <3> QED
        BY <3>1, <3>2
    <2>2. CASE FindForRefresh(r)
      <3>1. CASE ~Matches(req[r].refresh)
        <4>1. Going(r, "refused")
          BY <2>2, <3>1 DEF FindForRefresh, Going
        <4> QED
          BY <4>1, ChainGoes
      <3>2. CASE Matches(req[r].refresh)
        <4>1. req' = [req EXCEPT ![r].pc = "revoke"] /\ UNCHANGED tokens
          BY <2>2, <3>2 DEF FindForRefresh
        <4>2. /\ req'[r].pc = "revoke" /\ req'[r].refresh = req[r].refresh
              /\ \A q \in Requests \ {r} : req'[q] = req[q]
          BY <4>1, RequestType DEF Call, TypeInv, TypeOK
        <4>3. \A q \in Requests :
                req'[q].pc = "create" /\ req'[q].refresh = t =>
                  req[q].pc = "create" /\ req[q].refresh = t
          BY <4>2
        <4>4. CASE req[r].refresh = t
          <5>1. t \notin revoked /\ t \notin revoked'
            BY <3>2, <4>1, <4>4 DEF Matches
          <5>2. Successors(t)' = {}
            BY <1>1, <4>1, <5>1 DEF ChainOK, Successors
          <5>3. Cardinality(Successors(t)') = 0
            BY <5>2, FS_EmptySet
          <5>4. /\ Cardinality(Exchanging(t)') <= Cardinality(Requests)
                /\ Cardinality(Exchanging(t)') \in Nat
            <6>1. Exchanging(t)' \subseteq Requests
              BY DEF Exchanging
            <6> QED
              BY <6>1, RequestsAssumption, FS_Subset, FS_CardinalityType
          <5> QED
            BY <1>1, <4>3, <5>1, <5>2, <5>3, <5>4 DEF ChainOK
        <4>5. CASE req[r].refresh # t
          <5>1. Exchanging(t)' \subseteq Exchanging(t)
            BY <4>2, <4>5 DEF Exchanging
          <5> QED
            BY <1>1, <4>1, <4>3, <5>1, ChainKept DEF ChainOK
        <4> QED
          BY <4>4, <4>5
      <3> QED
        BY <3>1, <3>2
    <2>3. CASE RevokeForRefresh(r)
      <3>1. /\ req' = [req EXCEPT ![r].pc = "create"] /\ req[r].pc = "revoke"
            /\ issued' = issued /\ parent' = parent /\ revoked' = revoked \cup {req[r].refresh}
        BY <2>3 DEF RevokeForRefresh
      <3>2. /\ req'[r].pc = "create" /\ req'[r].refresh = req[r].refresh
            /\ \A q \in Requests \ {r} : req'[q] = req[q]
        BY <3>1, RequestType DEF Call, TypeInv, TypeOK
      <3>3. Exchanging(t)' \subseteq Exchanging(t)
        BY <3>1, <3>2 DEF Exchanging
      <3>4. t \notin revoked' =>
              \A q \in Requests : ~(req'[q].pc = "create" /\ req'[q].refresh = t)
        BY <1>1, <3>1, <3>2 DEF ChainOK
      <3> QED
        BY <1>1, <3>1, <3>3, <3>4, ChainKept
    <2>4. CASE CreateToken(r)
      <3> DEFINE new == issued + 1
      <3>1. /\ req[r].pc = "create" /\ issued' = new /\ new \in Tokens /\ issued \in Nat
            /\ parent' = [parent EXCEPT ![new] = req[r].refresh] /\ revoked' = revoked
        BY <2>4, RequestType, BoundsAssumption DEF CreateToken, Tokens, TablesOK
      <3>2. /\ req'[r].pc = "hash" /\ req'[r].refresh = req[r].refresh
            /\ \A q \in Requests \ {r} : req'[q] = req[q]
        BY <2>4, RequestType DEF CreateToken, Call, TypeInv, TypeOK
      <3>3. /\ parent'[new] = req[r].refresh /\ new \notin 1..issued
            /\ \A n \in 1..issued : parent'[n] = parent[n]
        BY <3>1, RequestType DEF TablesOK
      <3>4. 1..issued' = (1..issued) \cup {new}
        BY <3>1
      <3> HIDE DEF new
      <3>5. \A q \in Requests :
              req'[q].pc = "create" /\ req'[q].refresh = t =>
                req[q].pc = "create" /\ req[q].refresh = t
        BY <3>2
      <3>6. CASE req[r].refresh = t
        <4>1. t \in revoked
          BY <1>1, <3>1, <3>6 DEF ChainOK
        <4>2. Successors(t)' = Successors(t) \cup {new} /\ new \notin Successors(t)
          BY <3>3, <3>4, <3>6 DEF Successors
        <4>3. Exchanging(t)' = Exchanging(t) \ {r} /\ r \in Exchanging(t)
          BY <3>1, <3>2, <3>6 DEF Exchanging
        <4>4. Cardinality(Successors(t)') = Cardinality(Successors(t)) + 1
          BY <4>2, Finite, FS_AddElement
        <4>5. Cardinality(Exchanging(t)') = Cardinality(Exchanging(t)) - 1
          BY <4>3, Finite, FS_RemoveElement
        <4> QED
          BY <1>1, <3>1, <4>1, <4>4, <4>5, Finite DEF ChainOK
      <3>7. CASE req[r].refresh # t
        <4>1. Successors(t)' = Successors(t)
          BY <3>3, <3>4, <3>7 DEF Successors
        <4>2. Exchanging(t)' = Exchanging(t)
          BY <3>2, <3>7 DEF Exchanging
        <4> QED
          BY <1>1, <3>1, <3>5, <4>1, <4>2 DEF ChainOK
      <3> QED
        BY <3>6, <3>7
    <2>5. CASE StoreHash(r)
      <3>1. \E pc \in {"granted"} : Going(r, pc)
        BY <2>5 DEF StoreHash, Going
      <3> QED
        BY <3>1, ChainGoes
    <2>6. CASE FindForLogout(r)
      <3>1. \E pc \in {"denied", "logoutRevoke", "ok"} : Going(r, pc)
        <4>1. CASE ~MatchesRevokedToo(req[r].body)
          <5>1. Going(r, "denied")
            BY <2>6, <4>1 DEF FindForLogout, Going, Matches
          <5> QED
            BY <5>1
        <4>2. CASE Matches(req[r].body)
          <5>1. Going(r, "logoutRevoke")
            BY <2>6, <4>2 DEF FindForLogout, Going, Matches
          <5> QED
            BY <5>1
        <4>3. CASE MatchesRevokedToo(req[r].body) /\ ~Matches(req[r].body)
          <5>1. Going(r, "ok")
            BY <2>6, <4>3 DEF FindForLogout, Going
          <5> QED
            BY <5>1
        <4> QED
          BY <4>1, <4>2, <4>3
      <3> QED
        BY <3>1, ChainGoes
    <2>7. CASE RevokeForLogout(r)
      <3>1. \E pc \in {"ok"} : Going(r, pc)
        BY <2>7 DEF RevokeForLogout, Going
      <3> QED
        BY <3>1, ChainGoes
    <2> QED
      BY <1>5, <2>1, <2>2, <2>3, <2>4, <2>5, <2>6, <2>7 DEF ServerStep
  <1>6. ASSUME NEW r \in Requests, ServerFails(r) PROVE ChainOK(t)'
    <2>1. \E pc \in {"refused", "failed"} : Going(r, pc)
      BY <1>6 DEF ServerFails, Going
    <2> QED
      BY <2>1, ChainGoes
  <1>7. ASSUME NEW r \in Requests, Finish(r) \/ GiveUp(r) \/ LoseAnswer(r) PROVE ChainOK(t)'
    BY <1>4, <1>7 DEF Finish, GiveUp, LoseAnswer
  <1>8. ASSUME NEW r \in Requests, Start(r) PROVE ChainOK(t)'
    <2>1. PICK kind \in Kinds : Start(r)!3!(kind)
      BY <1>8 DEF Start
    <2> DEFINE x == [Idle EXCEPT !.pc = "sent", !.kind = kind,
                       !.access = IF kind = "login" THEN None ELSE session,
                       !.body = IF kind = "logout" THEN session ELSE None]
    <2>2. req' = [req EXCEPT ![r] = x]
      BY <2>1
    <2>3. x.pc = "sent"
      BY DEF Idle
    <2> HIDE DEF x
    <2> QED
      BY <1>8, <2>2, <2>3, ChainMoves DEF Start
  <1>9. ASSUME NEW r \in Requests, Refresh(r) PROVE ChainOK(t)'
    <2> DEFINE x == [req[r] EXCEPT !.pc = "find", !.refresh = session]
    <2>1. req' = [req EXCEPT ![r] = x] /\ x.pc = "find"
      BY <1>9, RequestType DEF Refresh, Call
    <2> HIDE DEF x
    <2> QED
      BY <1>9, <2>1, ChainMoves DEF Refresh
  <1>10. ASSUME NEW r \in Requests, StoreTokens(r) PROVE ChainOK(t)'
    <2>1. CASE req[r].kind = "login"
      BY <1>4, <1>10, <2>1 DEF StoreTokens
    <2>2. CASE req[r].kind # "login"
      <3>1. req' = [req EXCEPT ![r] = Resent(r)] /\ Resent(r).pc = "sent"
        BY <1>10, <2>2, RequestType DEF StoreTokens, Resent, Call
      <3>2. PICK x : x = Resent(r)
        OBVIOUS
      <3> QED
        BY <1>10, <3>1, <3>2, ChainMoves DEF StoreTokens
    <2> QED
      BY <2>1, <2>2
  <1> QED
    BY <1>2, <1>5, <1>6, <1>7, <1>8, <1>9, <1>10 DEF Next, ClientStep

\* However many pages refresh the same token at the same moment, it is exchanged
\* at most once by each request: once it is revoked no new exchange begins.
THEOREM SuccessorsBounded == Spec => []SuccessorsAreBounded
  <1>1. TypeInv /\ ChainsOK => SuccessorsAreBounded
    <2> SUFFICES ASSUME TypeInv, ChainsOK, NEW t \in Tokens
                 PROVE  Cardinality(Successors(t)) <= Cardinality(Requests)
      BY DEF SuccessorsAreBounded
    <2> QED
      BY Finite DEF ChainsOK, ChainOK
  <1> QED
    BY <1>1, TypeAlways, ChainInit, ChainNext, PTL DEF Spec

(* The stored session. *)

\* What anybody but the request that was given it can have of a token.
Known ==
  revoked \cup {session, None} \cup {req[q].refresh : q \in Requests} \cup {req[q].body : q \in Requests}

Given(r) == req[r].pc \in {"hash", "granted"}

\* A token on its way to the browser is unknown to all others, and so it is live.
FreshOK ==
  \A r \in Requests : Given(r) =>
    /\ req[r].fresh \notin Known
    /\ \A q \in Requests : Given(q) /\ q # r => req[q].fresh # req[r].fresh

\* The requests that will not leave the session as it is: an exchange of its token will
\* store another, and a logout will clear it.
Replaces(r) ==
  \/ req[r].pc \in {"create", "hash", "granted"} /\ req[r].refresh = session
  \/ req[r].pc # "idle" /\ req[r].kind = "logout"

\* The body of a request and the two steps of logout are logout's own.
LogoutOK ==
  \A r \in Requests : req[r].pc \in {"logoutFind", "logoutRevoke"} => req[r].kind = "logout"

SessionInv ==
  /\ FreshOK /\ LogoutOK
  /\ faults = 0 /\ session \in revoked => \E r \in Requests : Replaces(r)

LEMMA SessionInit == Init => SessionInv
  BY DEF Init, SessionInv, FreshOK, LogoutOK, Given, Idle

LEMMA KnownTokens ==
  ASSUME TypeInv
  PROVE  Known \subseteq hashed \cup {None}
  BY DEF Known, TypeInv, TypeOK, ReqsOK, ReqOK

\* A step of one request that lets nobody know more.
LEMMA FreshKept ==
  ASSUME TypeInv, FreshOK, Known' \subseteq Known, NEW r \in Requests, NEW x,
         req' = [req EXCEPT ![r] = x],
         x.pc \in {"hash", "granted"} => Given(r) /\ x.fresh = req[r].fresh
  PROVE  FreshOK'
  <1>1. \A q \in Requests : Given(q)' => Given(q) /\ req'[q].fresh = req[q].fresh
    BY DEF Given, TypeInv, TypeOK
  <1> QED
    BY <1>1 DEF FreshOK

\* A request that keeps to what it and the session know.
LEMMA KnownKept ==
  ASSUME TypeInv, NEW r \in Requests, NEW x, req' = [req EXCEPT ![r] = x],
         session' \in {session, None}, revoked' \subseteq Known,
         x.refresh \in Known, x.body \in Known
  PROVE  Known' \subseteq Known
  <1>1. /\ req'[r] = x /\ \A q \in Requests \ {r} : req'[q] = req[q]
    BY DEF TypeInv, TypeOK
  <1>2. \A q \in Requests : req'[q].refresh \in Known /\ req'[q].body \in Known
    BY <1>1 DEF Known
  <1>3. session' \in Known /\ None \in Known
    BY DEF Known
  <1> QED
    BY <1>2, <1>3 DEF Known

\* A step of a request that leaves the session and the revoked tokens alone, and does not
\* end what will replace the session.
LEMMA SessionKept ==
  ASSUME TypeInv, SessionInv, NEW r \in Requests, NEW x, req' = [req EXCEPT ![r] = x],
         session' = session, revoked' = revoked, faults' = faults,
         x.refresh \in Known, x.body \in Known,
         x.pc \in {"hash", "granted"} => Given(r) /\ x.fresh = req[r].fresh,
         x.pc \in {"logoutFind", "logoutRevoke"} => x.kind = "logout",
         Replaces(r) => \/ x.pc \in {"create", "hash", "granted"} /\ x.refresh = session
                        \/ x.pc # "idle" /\ x.kind = "logout"
  PROVE  SessionInv'
  <1>1. req'[r] = x /\ \A q \in Requests \ {r} : req'[q] = req[q]
    BY DEF TypeInv, TypeOK
  <1>2. FreshOK'
    <2>1. revoked' \subseteq Known
      BY DEF Known
    <2> QED
      BY <2>1, KnownKept, FreshKept DEF SessionInv
  <1>3. LogoutOK'
    BY <1>1 DEF SessionInv, LogoutOK
  <1>4. \A q \in Requests : Replaces(q) => Replaces(q)'
    BY <1>1 DEF Replaces
  <1> QED
    BY <1>2, <1>3, <1>4 DEF SessionInv

\* A request that goes on as it is.
LEMMA SessionGoes ==
  ASSUME TypeInv, SessionInv, NEW r \in Requests, NEW pc, req' = [req EXCEPT ![r].pc = pc],
         session' = session, revoked' = revoked, faults' = faults, pc # "idle",
         pc \in {"hash", "granted"} => Given(r),
         pc \in {"logoutFind", "logoutRevoke"} => req[r].kind = "logout",
         req[r].pc \in {"create", "hash", "granted"} => pc \in {"create", "hash", "granted"}
  PROVE  SessionInv'
  <1> DEFINE x == [req[r] EXCEPT !.pc = pc]
  <1>1. /\ req' = [req EXCEPT ![r] = x] /\ x.pc = pc /\ x.refresh = req[r].refresh
        /\ x.body = req[r].body /\ x.kind = req[r].kind /\ x.fresh = req[r].fresh
    BY RequestType DEF Call
  <1> HIDE DEF x
  <1>2. x.refresh \in Known /\ x.body \in Known
    BY <1>1 DEF Known
  <1> QED
    BY <1>1, <1>2, SessionKept DEF Replaces

\* A session that is cleared, or a failure, asks for nothing more.
LEMMA SessionCleared ==
  ASSUME TypeInv, TypeInv', SessionInv, NEW r \in Requests, NEW x, req' = [req EXCEPT ![r] = x],
         session' \in {session, None}, revoked' = revoked,
         session' = None \/ faults' # 0,
         x.refresh \in Known, x.body \in Known,
         x.pc \notin {"hash", "granted", "logoutFind", "logoutRevoke"}
  PROVE  SessionInv'
  <1>1. req'[r] = x /\ \A q \in Requests \ {r} : req'[q] = req[q]
    BY DEF TypeInv, TypeOK
  <1>2. FreshOK'
    <2>1. revoked' \subseteq Known
      BY DEF Known
    <2> QED
      BY <2>1, KnownKept, FreshKept DEF SessionInv
  <1>3. LogoutOK'
    BY <1>1 DEF SessionInv, LogoutOK
  <1>4. None \notin revoked'
    BY DEF TypeInv, TypeOK, None
  <1> QED
    BY <1>2, <1>3, <1>4 DEF SessionInv

LEMMA SessionServer ==
  ASSUME TypeInv, TypeInv', SessionInv, NEW r \in Requests, ServerStep(r)
  PROVE  SessionInv'
  <1>1. CASE Serve(r)
    <2>1. req[r].kind \in Kinds /\ req[r].pc = "sent"
      BY <1>1, RequestType DEF Serve, Call
    <2>2. PICK pc \in {"create", "denied", "ok", "logoutFind"} :
            /\ req' = [req EXCEPT ![r].pc = pc]
            /\ pc = "logoutFind" => req[r].kind = "logout"
      BY <1>1, <2>1 DEF Serve, Kinds
    <2> QED
      BY <1>1, <2>1, <2>2, SessionGoes DEF Serve
  <1>2. CASE FindForRefresh(r)
    <2>1. req[r].pc = "find" /\ \E pc \in {"revoke", "refused"} : req' = [req EXCEPT ![r].pc = pc]
      BY <1>2 DEF FindForRefresh
    <2> QED
      BY <1>2, <2>1, SessionGoes DEF FindForRefresh
  <1>3. CASE RevokeForRefresh(r)
    <2> DEFINE x == [req[r] EXCEPT !.pc = "create"]
    <2>1. /\ req' = [req EXCEPT ![r] = x] /\ x.pc = "create" /\ x.refresh = req[r].refresh
          /\ x.body = req[r].body /\ x.kind = req[r].kind
          /\ revoked' = revoked \cup {req[r].refresh} /\ session' = session /\ faults' = faults
      BY <1>3, RequestType DEF RevokeForRefresh, Call
    <2> HIDE DEF x
    <2>2. req'[r] = x /\ \A q \in Requests \ {r} : req'[q] = req[q]
      BY <2>1 DEF TypeInv, TypeOK
    <2>3. x.refresh \in Known /\ x.body \in Known /\ revoked' \subseteq Known
      BY <2>1 DEF Known
    <2>4. FreshOK'
      BY <2>1, <2>3, KnownKept, FreshKept DEF SessionInv
    <2>5. LogoutOK'
      BY <2>1, <2>2 DEF SessionInv, LogoutOK
    <2>6. session = req[r].refresh => Replaces(r)'
      BY <2>1, <2>2 DEF Replaces
    <2>7. \A q \in Requests : Replaces(q) => Replaces(q)'
      BY <1>3, <2>1, <2>2 DEF Replaces, RevokeForRefresh
    <2> QED
      BY <2>1, <2>4, <2>5, <2>6, <2>7 DEF SessionInv
  <1>4. CASE CreateToken(r)
    <2> DEFINE x == [req[r] EXCEPT !.pc = "hash", !.fresh = issued + 1]
    <2>1. /\ req' = [req EXCEPT ![r] = x] /\ x.pc = "hash" /\ x.refresh = req[r].refresh
          /\ x.body = req[r].body /\ x.kind = req[r].kind /\ x.fresh = issued + 1
          /\ revoked' = revoked /\ session' = session /\ faults' = faults /\ req[r].pc = "create"
      BY <1>4, RequestType DEF CreateToken, Call
    <2> HIDE DEF x
    <2>2. req'[r] = x /\ \A q \in Requests \ {r} : req'[q] = req[q]
      BY <2>1 DEF TypeInv, TypeOK
    <2>3. x.refresh \in Known /\ x.body \in Known /\ revoked' \subseteq Known
      BY <2>1 DEF Known
    <2>4. Known' \subseteq Known
      BY <2>1, <2>3, KnownKept
    <2>5. /\ issued + 1 \notin 1..issued /\ issued + 1 # None /\ hashed \subseteq 1..issued
      BY RequestType DEF TablesOK, None
    <2>6. issued + 1 \notin Known
      BY <2>5, KnownTokens
    <2>7. \A q \in Requests : Given(q) => req[q].fresh \in 1..issued
      BY <2>5 DEF Given, TypeInv, ReqsOK, ReqOK
    <2>8. \A q \in Requests \ {r} : Given(q)' <=> Given(q)
      BY <2>2 DEF Given
    <2>9. FreshOK'
      BY <2>1, <2>2, <2>4, <2>5, <2>6, <2>7, <2>8 DEF FreshOK, SessionInv
    <2>10. LogoutOK'
      BY <2>1, <2>2 DEF SessionInv, LogoutOK
    <2>11. \A q \in Requests : Replaces(q) => Replaces(q)'
      BY <2>1, <2>2 DEF Replaces
    <2> QED
      BY <2>1, <2>9, <2>10, <2>11 DEF SessionInv
  <1>5. CASE StoreHash(r)
    BY <1>5, SessionGoes DEF StoreHash, Given
  <1>6. CASE FindForLogout(r)
    <2>1. req[r].pc = "logoutFind"
      BY <1>6 DEF FindForLogout
    <2>2. req[r].kind = "logout"
      BY <2>1 DEF SessionInv, LogoutOK
    <2>3. PICK pc \in {"denied", "logoutRevoke", "ok"} : req' = [req EXCEPT ![r].pc = pc]
      BY <1>6 DEF FindForLogout, Matches
    <2> QED
      BY <1>6, <2>1, <2>2, <2>3, SessionGoes DEF FindForLogout
  <1>7. CASE RevokeForLogout(r)
    <2> DEFINE x == [req[r] EXCEPT !.pc = "ok"]
    <2>1. /\ req' = [req EXCEPT ![r] = x] /\ x.pc = "ok" /\ x.refresh = req[r].refresh
          /\ x.body = req[r].body /\ x.kind = req[r].kind
          /\ revoked' = revoked \cup {req[r].body} /\ session' = session
          /\ req[r].pc = "logoutRevoke"
      BY <1>7, RequestType DEF RevokeForLogout, Call
    <2> HIDE DEF x
    <2>2. req'[r] = x /\ \A q \in Requests \ {r} : req'[q] = req[q]
      BY <2>1 DEF TypeInv, TypeOK
    <2>3. x.refresh \in Known /\ x.body \in Known /\ revoked' \subseteq Known
      BY <2>1 DEF Known
    <2>4. FreshOK'
      BY <2>1, <2>3, KnownKept, FreshKept DEF SessionInv
    <2>5. LogoutOK' /\ x.kind = "logout"
      BY <2>1, <2>2 DEF SessionInv, LogoutOK
    <2>6. Replaces(r)'
      BY <2>1, <2>2, <2>5 DEF Replaces
    <2> QED
      BY <2>4, <2>5, <2>6 DEF SessionInv
  <1> QED
    BY <1>1, <1>2, <1>3, <1>4, <1>5, <1>6, <1>7 DEF ServerStep

LEMMA SessionClient ==
  ASSUME TypeInv, TypeInv', SessionInv, NEW r \in Requests,
         Start(r) \/ ClientStep(r) \/ ServerFails(r) \/ LoseAnswer(r)
  PROVE  SessionInv'
  <1>0. /\ None \in Known /\ session \in Known /\ req[r].refresh \in Known /\ req[r].body \in Known
        /\ faults \in Nat
    BY BoundsAssumption DEF Known, TypeInv, TypeOK
  <1>1. CASE Start(r)
    <2>1. PICK kind \in Kinds : Start(r)!3!(kind)
      BY <1>1 DEF Start
    <2> DEFINE x == [Idle EXCEPT !.pc = "sent", !.kind = kind,
                       !.access = IF kind = "login" THEN None ELSE session,
                       !.body = IF kind = "logout" THEN session ELSE None]
    <2>2. req' = [req EXCEPT ![r] = x]
      BY <2>1
    <2>3. x.pc = "sent" /\ x.refresh = None /\ x.body \in {session, None}
      BY DEF Idle
    <2> HIDE DEF x
    <2>4. req[r].pc = "idle" /\ session' = session /\ revoked' = revoked /\ faults' = faults
      BY <1>1 DEF Start
    <2>5. ~Replaces(r)
      BY <2>4 DEF Replaces
    <2> QED
      BY <1>0, <2>2, <2>3, <2>4, <2>5, SessionKept
  <1>2. CASE Finish(r)
    <2>1. /\ req' = [req EXCEPT ![r] = Idle] /\ revoked' = revoked /\ faults' = faults
          /\ req[r].pc \in {"ok", "failed", "denied"}
          /\ session' = IF req[r].kind = "logout" THEN None ELSE session
      BY <1>2 DEF Finish
    <2>2. Idle.pc = "idle" /\ Idle.refresh = None /\ Idle.body = None
      BY DEF Idle
    <2>3. CASE req[r].kind = "logout"
      BY <1>0, <2>1, <2>2, <2>3, SessionCleared
    <2>4. CASE req[r].kind # "logout"
      <3>1. ~Replaces(r)
        BY <2>1, <2>4 DEF Replaces
      <3> QED
        BY <1>0, <2>1, <2>2, <2>4, <3>1, SessionKept
    <2> QED
      BY <2>3, <2>4
  <1>3. CASE Refresh(r)
    <2> DEFINE x == [req[r] EXCEPT !.pc = "find", !.refresh = session]
    <2>1. /\ req' = [req EXCEPT ![r] = x] /\ x.pc = "find" /\ x.refresh = session
          /\ x.body = req[r].body /\ x.kind = req[r].kind /\ req[r].pc = "denied"
          /\ session' = session /\ revoked' = revoked /\ faults' = faults
      BY <1>3, RequestType DEF Refresh, Call
    <2> HIDE DEF x
    <2>2. Replaces(r) => x.kind = "logout"
      BY <2>1 DEF Replaces
    <2> QED
      BY <1>0, <2>1, <2>2, SessionKept
  <1>4. CASE StoreTokens(r)
    <2>1. /\ req[r].pc = "granted" /\ session' = req[r].fresh /\ revoked' = revoked
          /\ req' = [req EXCEPT ![r] = IF req[r].kind = "login" THEN Idle ELSE Resent(r)]
      BY <1>4 DEF StoreTokens
    <2>2. /\ Resent(r).pc = "sent" /\ Resent(r).refresh = req[r].refresh /\ Resent(r).body = req[r].body
          /\ Idle.pc = "idle" /\ Idle.refresh = None /\ Idle.body = None
      BY RequestType DEF Resent, Call, Idle
    <2>3. PICK x : /\ req' = [req EXCEPT ![r] = x] /\ x.pc \in {"sent", "idle"}
                   /\ x.refresh \in Known /\ x.body \in Known
      <3>1. CASE req[r].kind = "login"
        BY <1>0, <2>1, <2>2, <3>1
      <3>2. CASE req[r].kind # "login"
        <4>1. PICK x : x = Resent(r)
          OBVIOUS
        <4> QED
          BY <1>0, <2>1, <2>2, <3>2, <4>1
      <3> QED
        BY <3>1, <3>2
    <2>4. req'[r] = x /\ \A q \in Requests \ {r} : req'[q] = req[q]
      BY <2>3 DEF TypeInv, TypeOK
    <2>5. Given(r) /\ req[r].fresh \notin Known
      BY <2>1 DEF Given, SessionInv, FreshOK
    <2>6. Known' \subseteq Known \cup {req[r].fresh}
      <3>1. \A q \in Requests : req'[q].refresh \in Known /\ req'[q].body \in Known
        BY <2>3, <2>4 DEF Known
      <3> QED
        BY <2>1, <3>1 DEF Known
    <2>7. \A q \in Requests : Given(q)' => Given(q) /\ q # r /\ req'[q] = req[q]
      BY <2>3, <2>4 DEF Given
    <2>8. FreshOK'
      BY <2>5, <2>6, <2>7 DEF FreshOK, SessionInv
    <2>9. LogoutOK'
      BY <2>3, <2>4 DEF LogoutOK, SessionInv
    <2>10. session' \notin revoked'
      BY <2>1, <2>5 DEF Known
    <2> QED
      BY <2>8, <2>9, <2>10 DEF SessionInv
  <1>5. CASE GiveUp(r)
    BY <1>0, <1>5, SessionCleared DEF GiveUp, Idle
  <1>6. CASE ServerFails(r)
    <2> DEFINE pc == IF req[r].refresh # None /\ req[r].retry THEN "refused" ELSE "failed"
               x == [req[r] EXCEPT !.pc = pc]
    <2>1. /\ req' = [req EXCEPT ![r] = x] /\ x.pc \in {"refused", "failed"}
          /\ x.refresh = req[r].refresh /\ x.body = req[r].body
          /\ session' = session /\ revoked' = revoked /\ faults' = faults + 1
      BY <1>6, RequestType DEF ServerFails, Call
    <2> HIDE DEF x, pc
    <2>2. faults' # 0
      BY <1>0, <2>1
    <2> QED
      BY <1>0, <2>1, <2>2, SessionCleared
  <1>7. CASE LoseAnswer(r)
    <2>1. faults' # 0
      BY <1>0, <1>7 DEF LoseAnswer
    <2> QED
      BY <1>0, <1>7, <2>1, SessionCleared DEF LoseAnswer, Idle
  <1> QED
    BY <1>1, <1>2, <1>3, <1>4, <1>5, <1>6, <1>7 DEF ClientStep

LEMMA SessionNext == TypeInv /\ TypeInv' /\ SessionInv /\ [Next]_vars => SessionInv'
  <1> SUFFICES ASSUME TypeInv, TypeInv', SessionInv, [Next]_vars PROVE SessionInv'
    OBVIOUS
  <1>1. CASE AccessExpires \/ RefreshExpires \/ UNCHANGED vars
    <2>1. UNCHANGED <<revoked, session, req, faults>>
      BY <1>1 DEF AccessExpires, RefreshExpires, vars
    <2> QED
      BY <2>1 DEF SessionInv, FreshOK, LogoutOK, Given, Known, Replaces
  <1> QED
    BY <1>1, SessionServer, SessionClient DEF Next

\* Whichever of several refreshes stores its tokens last, the session that stays is not
\* one that another request has exchanged: with nothing in flight and nothing failed it
\* can be refreshed (api.ts requestApi and performTokenRefresh, auth.service.ts refresh).
THEOREM SessionStaysLive == Spec => []SessionIsLive
  <1>1. TypeInv /\ SessionInv => SessionIsLive
    BY DEF SessionInv, SessionIsLive, Busy, Replaces
  <1> QED
    BY <1>1, TypeAlways, SessionInit, SessionNext, PTL DEF Spec
================================================================================
