---------------------------- MODULE RateLimit_proofs ----------------------------
(***************************************************************************)
(* The rate limit keeps its promise for any number of requests, any limit  *)
(* and any window: the requests let pass lately have different numbers, as *)
(* the counter that numbered them has not expired since.                   *)
(***************************************************************************)
EXTENDS RateLimit, FiniteSetTheorems, TLAPS

USE LimitAssumption, RetriesAssumption

\* The requests the counter of today has numbered and still answers for.
Numbered == {q \in Requests : pc[q] = "expire"} \ split
Live == PassedLately \cup Numbered

LiveAreCounted == \A q \in Live : number[q] \in 1 .. count
LiveDiffer     == \A p, q \in Live : p # q => number[p] # number[q]
CounterOutlives == \A q \in PassedLately : ttl >= window - age[q]

Inv == TypeOK /\ LiveAreCounted /\ LiveDiffer /\ CounterOutlives

LEMMA InitInv == Init => Inv
  BY DEF Init, Inv, TypeOK, LiveAreCounted, LiveDiffer, CounterOutlives,
         Live, PassedLately, Numbered

--------------------------------------------------------------------------------
\* A new number is higher than those of all live requests.
LEMMA IncrInv == ASSUME Inv, NEW q \in Requests, Incr(q) PROVE Inv'
<1> USE DEF Inv, Incr, Goto
<1>1. TypeOK'
  BY DEF TypeOK
<1>2. PassedLately' = PassedLately /\ Live' = Live \cup {q}
  BY DEF TypeOK, PassedLately, Granted, Live, Numbered
<1>3. \A p \in Live \ {q} : number'[p] = number[p] /\ number[p] \in 1 .. count
  BY DEF TypeOK, LiveAreCounted, Live, PassedLately, Numbered
<1>4. number'[q] = count + 1 /\ count' = count + 1 /\ count \in Nat
  BY DEF TypeOK
<1>5. LiveAreCounted' /\ LiveDiffer'
  BY <1>2, <1>3, <1>4 DEF LiveAreCounted, LiveDiffer
<1>6. CounterOutlives'
  BY <1>2 DEF CounterOutlives
<1> QED
  BY <1>1, <1>5, <1>6

\* The EXPIRE of a request gives the counter a full window to live.
LEMMA ExpireInv == ASSUME Inv, NEW q \in Requests, Expire(q) PROVE Inv'
<1> USE DEF Inv, Expire, Goto, Refresh
<1>1. TypeOK'
  BY DEF TypeOK
<1>2. /\ Live' \subseteq Live
      /\ PassedLately' \subseteq IF q \in split THEN PassedLately ELSE PassedLately \cup {q}
  BY DEF TypeOK, PassedLately, Granted, Live, Numbered
<1>3. LiveAreCounted' /\ LiveDiffer'
  BY <1>2 DEF LiveAreCounted, LiveDiffer
<1>4. q \notin split => count > 0
  BY DEF LiveAreCounted, Live, Numbered, TypeOK
<1>5. CounterOutlives'
  <2> SUFFICES ASSUME NEW p \in PassedLately' PROVE ttl' >= window - age'[p]
    BY DEF CounterOutlives
  <2>1. p \in Requests /\ (p = q => q \notin split)
    BY DEF PassedLately
  <2>2. CASE p = q
    BY <1>4, <2>1, <2>2 DEF TypeOK
  <2>3. CASE p # q
    BY <1>2, <2>1, <2>3 DEF TypeOK, CounterOutlives
  <2> QED
    BY <2>2, <2>3
<1> QED
  BY <1>1, <1>3, <1>5

\* The other steps of a request touch nothing in Redis, and let nobody pass who was not
\* granted it.
LEMMA ClientInv ==
  ASSUME Inv, NEW q \in Requests, Return(q) \/ Retry(q) \/ ExecFails(q) PROVE Inv'
<1> USE DEF Inv, Return, Retry, ExecFails, Goto
<1>1. TypeOK'
  BY DEF TypeOK
<1>2. PassedLately' \subseteq PassedLately /\ Live' \subseteq Live
  BY DEF TypeOK, PassedLately, Granted, Live, Numbered
<1>3. LiveAreCounted' /\ LiveDiffer'
  BY <1>2 DEF LiveAreCounted, LiveDiffer
<1>4. CounterOutlives'
  BY <1>2 DEF CounterOutlives
<1> QED
  BY <1>1, <1>3, <1>4

\* When the counter expires, whoever it let pass did so a whole window ago.
LEMMA TickInv == ASSUME Inv, Tick PROVE Inv'
<1> USE DEF Inv, Tick
<1>1. TypeOK'
  BY DEF TypeOK
<1>2. CASE ttl = 1
  <2>1. PassedLately' = {}
    BY <1>2 DEF PassedLately, Granted, CounterOutlives, TypeOK
  <2>2. Live' = {}
    BY <1>2, <2>1 DEF Live, Numbered
  <2> QED
    BY <1>1, <2>1, <2>2 DEF LiveAreCounted, LiveDiffer, CounterOutlives
<1>3. CASE ttl # 1
  <2>1. PassedLately' \subseteq PassedLately /\ Live' \subseteq Live
    BY <1>3 DEF PassedLately, Granted, Live, Numbered, TypeOK
  <2>2. LiveAreCounted' /\ LiveDiffer'
    BY <1>3, <2>1 DEF LiveAreCounted, LiveDiffer
  <2>3. CounterOutlives'
    BY <1>3, <2>1 DEF CounterOutlives, PassedLately, TypeOK
  <2> QED
    BY <1>1, <2>2, <2>3
<1> QED
  BY <1>2, <1>3

LEMMA StutterInv == Inv /\ UNCHANGED vars => Inv'
  BY DEF Inv, vars, TypeOK, LiveAreCounted, LiveDiffer, CounterOutlives,
         Live, PassedLately, Granted, Numbered

LEMMA NextInv == Inv /\ [Next]_vars => Inv'
  BY IncrInv, ExpireInv, ClientInv, TickInv, StutterInv DEF Next, Request

--------------------------------------------------------------------------------
\* Their numbers map the requests let pass one to one into 1 .. maxRequests.
LEMMA AtMostMax == Inv => LimitHolds
<1> SUFFICES ASSUME Inv PROVE LimitHolds
  OBVIOUS
<1> DEFINE f == [q \in PassedLately |-> number[q]]
<1>1. f \in [PassedLately -> 1 .. maxRequests]
  BY DEF Inv, LiveAreCounted, PassedLately, Granted, Live, TypeOK
<1>2. f \in Injection(PassedLately, 1 .. maxRequests)
  <2>1. \A p, q \in PassedLately : p # q => f[p] # f[q]
    BY DEF Inv, LiveDiffer, Live
  <2> HIDE DEF f
  <2> QED
    BY <1>1, <2>1, Zenon DEF Injection, IsInjective
<1>3. IsFiniteSet(1 .. maxRequests) /\ Cardinality(1 .. maxRequests) = maxRequests
  BY FS_Interval
<1> HIDE DEF f
<1> QED
  BY <1>2, <1>3, FS_Injection DEF LimitHolds

LEMMA SpecInv == Spec => []Inv
  BY InitInv, NextInv, PTL DEF Spec

\* The variables keep their types, and only a counter that exists has an expiry.
THEOREM TypeCorrect == Spec => []TypeOK
<1>1. Inv => TypeOK
  BY DEF Inv
<1> QED
  BY <1>1, SpecInv, PTL

\* Of the requests that Redis counted within the last window, at most maxRequests are let
\* pass, but for those between whose two commands the counter expired.
THEOREM LimitIsKept == Spec => []LimitHolds
  BY SpecInv, AtMostMax, PTL
================================================================================
