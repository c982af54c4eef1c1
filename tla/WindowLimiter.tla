----------------------------- MODULE WindowLimiter -----------------------------
(***************************************************************************)
(* What the rate limiter of the API promises (docs/SECURITY.md, "Rate      *)
(* Limiting"): each key has a quota that is full while no window is open;  *)
(* the first request opens a window, the window closes Window later, and a *)
(* request is answered by whether quota is left.  Nothing is said of       *)
(* buckets, of the requests that were refused or of the cleanup.           *)
(***************************************************************************)
EXTENDS Integers

CONSTANTS
  Keys,    \* who is limited: a rule and a client address
  Limit,   \* [Keys -> the requests of one window]
  Window,  \* the length of a window
  Second   \* the unit of Retry-After

VARIABLES
  clock,   \* the time
  used,    \* [Keys -> quota used in the open window, 0 when none is open]
  until,   \* [Keys -> when the open window closes, 0 when none is open]
  answer   \* the last answer and its headers

vars == <<clock, used, until, answer>>

\* What is left of f, a function of the open windows, at the time now.
Open(f, now) == [k \in Keys |-> IF until[k] > now THEN f[k] ELSE 0]

Init ==
  /\ clock \in Nat
  /\ used = [k \in Keys |-> 0]
  /\ until = [k \in Keys |-> 0]
  /\ answer = [kind |-> "none"]

Pass(now) ==
  /\ used' = Open(used, now)
  /\ until' = Open(until, now)
  /\ UNCHANGED answer

Accept(k, now) ==
  LET before == Open(used, now) IN
  /\ before[k] < Limit[k]
  /\ used' = [before EXCEPT ![k] = before[k] + 1]
  /\ until' = [Open(until, now) EXCEPT ![k] = IF before[k] = 0 THEN now + Window ELSE until[k]]
  /\ answer' = [kind |-> "accepted", key |-> k, remaining |-> Limit[k] - used'[k]]

\* Retry-After is the least whole number of seconds after which the window is
\* closed.
Reject(k, now) ==
  /\ Open(used, now)[k] = Limit[k]
  /\ used' = Open(used, now)
  /\ until' = Open(until, now)
  /\ \E seconds \in 1..Window :
       /\ now + seconds * Second >= until[k]
       /\ now + (seconds - 1) * Second < until[k]
       /\ answer' = [kind |-> "rejected", key |-> k, retryAt |-> now + seconds * Second]

Next ==
  /\ clock' \in Nat /\ clock' >= clock
  /\ Pass(clock') \/ \E k \in Keys : Accept(k, clock') \/ Reject(k, clock')

Spec == Init /\ [][Next]_vars
================================================================================
