------------------------------- MODULE RateLimit -------------------------------
(***************************************************************************)
(* The rate limit every HTTP request passes first: a counter in Redis per  *)
(* client address, one INCR and one EXPIRE per request.  The two are sent  *)
(* together but are no transaction: between them the key may expire, other *)
(* requests may come, and the connection may break, upon which the client  *)
(* of Redis sends both again.  Their replies travel back as long as they   *)
(* like before the request goes on.  All Requests come from one address,   *)
(* as addresses share nothing.                                             *)
(***************************************************************************)
EXTENDS Naturals, FiniteSets

CONSTANTS
    Requests,
    maxRequests,   \* 100 in the code
    window,        \* in ticks of the clock
    MaxRetries     \* bound: pipelines that are sent again, of all requests together

ASSUME LimitAssumption   == maxRequests \in Nat \ {0} /\ window \in Nat \ {0}
ASSUME RetriesAssumption == MaxRetries \in Nat

VARIABLES
    count,    \* the counter, 0 when there is no such key
    ttl,      \* ticks until it expires, 0 when it has no expiry
    pc,       \* per request: what Redis is to do for it, or what became of it
    number,   \* per request: what INCR told it
    age,      \* per request: ticks since Redis did its EXPIRE, at most `window`
    split,    \* the requests whose INCR and EXPIRE an expiry separated
    retries   \* retries so far

vars == <<count, ttl, pc, number, age, split, retries>>

\* The variables keep their types; only a counter that exists has an expiry.
TypeOK ==
    /\ count \in Nat
    /\ ttl \in 0 .. window
    /\ ttl > 0 => count > 0
    /\ pc \in [Requests -> {"incr", "expire", "reply", "passed", "limited", "failed"}]
    /\ number \in [Requests -> Nat]
    /\ age \in [Requests -> 0 .. window]
    /\ split \in SUBSET Requests
    /\ retries \in 0 .. MaxRetries

Init ==
    /\ count = 0 /\ ttl = 0
    /\ pc = [q \in Requests |-> "incr"]
    /\ number = [q \in Requests |-> 0]
    /\ age = [q \in Requests |-> window]
    /\ split = {} /\ retries = 0

Goto(q, where) == pc' = [pc EXCEPT ![q] = where]

Incr(q) ==
    /\ pc[q] = "incr"
    /\ count' = count + 1
    /\ number' = [number EXCEPT ![q] = count + 1]
    /\ split' = split \ {q}
    /\ Goto(q, "expire")
    /\ UNCHANGED <<ttl, age, retries>>

SetAlways(q) == ttl' = window          \* slip: an expiry even when there is no key
RefreshOnce(q) ==                      \* slip: EXPIRE with the first request only
    ttl' = IF count > 0 /\ number[q] = 1 THEN window ELSE ttl
Refresh(q) == ttl' = IF count > 0 THEN window ELSE ttl

Expire(q) ==
    /\ pc[q] = "expire"
    /\ Refresh(q)
    /\ age' = [age EXCEPT ![q] = 0]
    /\ Goto(q, "reply")
    /\ UNCHANGED <<count, number, split, retries>>

\* Exec returns, however late, and the handler is called, or the request refused.
Granted(q) == number[q] <= maxRequests

Return(q) ==
    /\ pc[q] = "reply"
    /\ Goto(q, IF Granted(q) THEN "passed" ELSE "limited")
    /\ UNCHANGED <<count, ttl, number, age, split, retries>>

\* The connection breaks before, between or after the commands, whose effects stay, and the
\* client of Redis sends both again.
Retry(q) ==
    /\ pc[q] \in {"expire", "reply"}
    /\ retries < MaxRetries /\ retries' = retries + 1
    /\ Goto(q, "incr")
    /\ UNCHANGED <<count, ttl, number, age, split>>

\* It has done so often enough, or the request was given up: Exec fails.
ExecFails(q) ==
    /\ pc[q] \in {"incr", "expire", "reply"}
    /\ Goto(q, "failed")
    /\ UNCHANGED <<count, ttl, number, age, split, retries>>

\* A tick of the clock.  Redis deletes the counter when its time is over.
Tick ==
    /\ ttl > 0 \/ \E q \in Requests : age[q] < window
    /\ ttl' = IF ttl > 0 THEN ttl - 1 ELSE 0
    /\ age' = [q \in Requests |-> IF age[q] < window THEN age[q] + 1 ELSE window]
    /\ IF ttl = 1
       THEN count' = 0 /\ split' = split \cup {q \in Requests : pc[q] = "expire"}
       ELSE UNCHANGED <<count, split>>
    /\ UNCHANGED <<pc, number, retries>>

Request(q) == Incr(q) \/ Expire(q) \/ Return(q) \/ Retry(q) \/ ExecFails(q)
Next == Tick \/ \E q \in Requests : Request(q)
Spec == Init /\ [][Next]_vars

--------------------------------------------------------------------------------
\* Of the requests that Redis counted within the last `window`, at most maxRequests are let
\* pass, not even across an expiry of the counter, or after commands that were lost or done
\* twice: the counter outlives everything it has let pass.  Excepted are the requests whose
\* two commands an expiry of the counter separated; the code takes that gap for acceptable.
\* When the handlers start is another matter: a reply may take longer than the others, so
\* that more than maxRequests of them may start within one window.
PassedLately == {q \in Requests : /\ pc[q] \in {"reply", "passed"} /\ Granted(q)
                                  /\ age[q] < window} \ split
LimitHolds == Cardinality(PassedLately) <= maxRequests
================================================================================
