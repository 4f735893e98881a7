------------------------ MODULE GitHubClientProofs ------------------------
(***************************************************************************)
(* Proofs about GitHubClient: however many tokens are limited how often,   *)
(* and whatever calls compete for them, a call sends at most one request   *)
(* per token of the pool, and none waits longer than MaxWait at a time.    *)
(***************************************************************************)
EXTENDS GitHubClient, FiniteSetTheorems, WellFoundedInduction, TLAPS

-----------------------------------------------------------------------------
(* The earliest token *)

\* Of the subsets of a finite set that share a defect, one is smallest.
LEMMA SmallestSubset ==
    ASSUME NEW S, IsFiniteSet(S), NEW bad, bad \subseteq SUBSET S, bad # {}
    PROVE  \E u \in bad : \A v \in bad : v \subseteq u => v = u
  <1> DEFINE R == StrictSubsetOrdering(S)
  <1>1. IsWellFoundedOn(R, FiniteSubsetsOf(S))
    BY FS_StrictSubsetOrderingWellFounded
  <1>2. FiniteSubsetsOf(S) = SUBSET S
    BY FS_FiniteSubsetsOfFinite
  <1>3. \E u \in bad : \A v \in bad : ~(<<v, u>> \in R)
    <2> HIDE DEF R
    <2> QED BY <1>1, <1>2, WFMin
  <1>4. QED
    BY <1>3 DEF StrictSubsetOrdering

\* The wait for the earliest token is for a token of the pool, and for none
\* later than any other.
LEMMA EarliestExists ==
    ASSUME NEW when \in [Tokens -> Nat], Tokens # {}
    PROVE  LET earliest == Min({when[t] : t \in Tokens})
           IN  /\ \E t \in Tokens : earliest = when[t]
               /\ \A t \in Tokens : earliest <= when[t]
  <1> DEFINE before(t) == {s \in Tokens : when[s] < when[t]}
             bad == {before(t) : t \in Tokens}
  <1>1. bad \subseteq SUBSET Tokens /\ bad # {}
    <2>1. \A t \in Tokens : before(t) \subseteq Tokens
      OBVIOUS
    <2> HIDE DEF before
    <2>2. QED
      BY <2>1
  <1>2. PICK u \in bad : \A v \in bad : v \subseteq u => v = u
    <2> HIDE DEF bad
    <2> QED BY <1>1, SmallestSubset, ClientAssumption
  <1>3. PICK t \in Tokens : u = before(t)
    BY <1>2
  <1>4. ASSUME NEW s \in Tokens PROVE when[t] <= when[s]
    <2> SUFFICES ASSUME when[s] < when[t] PROVE FALSE
      OBVIOUS
    <2>1. before(s) \in bad /\ before(s) \subseteq u
      BY <1>3
    <2>2. s \in u /\ s \notin before(s)
      BY <1>3
    <2>3. QED
      BY <1>2, <2>1, <2>2
  <1> DEFINE times == {when[s] : s \in Tokens}
  <1>5. when[t] \in times /\ \A n \in times : when[t] <= n
    BY <1>4
  <1>6. Min(times) \in times /\ \A n \in times : Min(times) <= n
    <2> HIDE DEF times
    <2> QED BY <1>5 DEF Min
  <1>7. QED
    BY <1>6

-----------------------------------------------------------------------------
(* Type correctness *)

\* The states a call may be in agree with its fields: a request in flight has
\* a token of the pool and has been counted, and only a waiting call has time
\* left to wait.
CallFields ==
    \A c \in Calls :
        /\ call[c].pc = "sent" => call[c].token \in Tokens /\ call[c].attempt > 0
        /\ call[c].pc = "idle" => call[c].attempt = 0
        /\ call[c].pc # "wait" => call[c].timer = 0

ClientInv == TypeOK /\ CallFields

LEMMA CountType == Count \in Nat /\ (Tokens = {} => Count = 0)
  BY ClientAssumption, FS_CardinalityType, FS_EmptySet DEF Count

LEMMA ClientInit == Init => ClientInv
  BY CountType, ClientAssumption
  DEF Init, ClientInv, TypeOK, CallFields, Times, CallState, Waiting

\* What the steps of a call have in common: they change their call only, and
\* into one whose fields agree.
LEMMA CallStep ==
    ASSUME ClientInv, NEW c \in Calls, NEW r \in CallState,
           cool' \in [Tokens -> Times], call' = [call EXCEPT ![c] = r],
           r.pc = "sent" => r.token \in Tokens /\ r.attempt > 0,
           r.pc = "idle" => r.attempt = 0,
           r.pc # "wait" => r.timer = 0
    PROVE  ClientInv'
  BY DEF ClientInv, TypeOK, CallFields

\* A step that only moves its call on to another place than a request in flight.
LEMMA MoveStep ==
    ASSUME ClientInv, NEW c \in Calls, NEW pc \in {"loop", "ok", "failed"},
           call[c].timer = 0, cool' \in [Tokens -> Times], To(c, pc)
    PROVE  ClientInv'
  <1> DEFINE r == [call[c] EXCEPT !.pc = pc]
  <1>1. call[c] \in CallState
    BY DEF ClientInv, TypeOK
  <1>2. /\ r \in CallState
        /\ r.pc = pc /\ r.timer = 0
    BY <1>1 DEF CallState
  <1>3. call' = [call EXCEPT ![c] = r]
    BY DEF To
  <1>4. QED
    <2> HIDE DEF r
    <2> QED BY <1>2, <1>3, CallStep

\* Putting a token aside, or not, keeps the times of the pool.
LEMMA FloorType ==
    ASSUME TypeOK, NEW c, NEW low \in BOOLEAN, NEW until \in Times,
           BelowFloor(c, low, until)
    PROVE  cool' \in [Tokens -> Times]
  BY DEF TypeOK, BelowFloor

LEMMA ClientGet ==
    ASSUME ClientInv, NEW c \in Calls, Get(c)
    PROVE  ClientInv'
  <1>0. /\ TypeOK
        /\ call[c] \in CallState
        /\ cool \in [Tokens -> Times]
        /\ call[c].pc # "wait" => call[c].timer = 0
    BY DEF ClientInv, TypeOK, CallFields
  <1>1. ASSUME NEW t \in Tokens, PickBest(c, t) PROVE ClientInv'
    <2> DEFINE r == [call[c] EXCEPT !.pc = "sent", !.token = t, !.attempt = @ + 1]
    <2>1. call[c].attempt + 1 \in 0..Count /\ call[c].attempt + 1 > 0
      BY <1>0, <1>1, CountType DEF PickBest, CallState
    <2>2. r.pc = "sent" /\ r.token = t /\ r.attempt = call[c].attempt + 1 /\ r.timer = 0
      BY <1>0, <1>1 DEF PickBest, CallState
    <2>3. r \in CallState
      BY <1>0, <2>1 DEF CallState
    <2>4. call' = [call EXCEPT ![c] = r] /\ cool' = cool
      <3>1. call \in [Calls -> CallState]
        BY <1>0 DEF TypeOK
      <3>2. QED
        BY <1>1, <3>1 DEF PickBest
    <2>5. QED
      <3> HIDE DEF r
      <3> QED BY <1>0, <2>1, <2>2, <2>3, <2>4, CallStep
  <1>2. ASSUME OutOfAttempts(c) PROVE ClientInv'
    BY <1>0, <1>2, MoveStep DEF OutOfAttempts
  <1>3. ASSUME WaitForAvailableToken(c) PROVE ClientInv'
    <2> DEFINE earliest == Min({cool[t] : t \in Tokens})
               r == [call[c] EXCEPT !.pc = "wait", !.timer = earliest]
    <2>1. call[c].pc = "loop" /\ call[c].attempt < Count /\ cool' = cool
      BY <1>3 DEF WaitForAvailableToken
    <2>2. CASE earliest > MaxWait
      <3>1. To(c, "failed")
        BY <1>3, <2>2 DEF WaitForAvailableToken
      <3>2. QED
        BY <1>0, <2>1, <3>1, MoveStep
    <2>3. CASE ~(earliest > MaxWait)
      <3>1. Tokens # {}
        BY <1>0, <2>1, CountType DEF CallState
      <3>2. cool \in [Tokens -> Nat]
        BY <1>0, ClientAssumption DEF Times
      <3>3. \E t \in Tokens : earliest = cool[t]
        <4> QED BY <3>1, <3>2, EarliestExists
      <3>4. earliest \in Nat
        <4> HIDE DEF earliest
        <4> QED BY <3>2, <3>3
      <3>5. earliest \in 0..MaxWait
        <4> HIDE DEF earliest
        <4> QED BY <2>3, <3>4, ClientAssumption
      <3>6. call' = [call EXCEPT ![c] = r]
        BY <1>3, <2>3 DEF WaitForAvailableToken
      <3>7. r \in CallState /\ r.pc = "wait"
        <4> HIDE DEF earliest
        <4> QED BY <1>0, <3>5 DEF CallState
      <3>8. QED
        <4> HIDE DEF r, earliest
        <4> QED BY <1>0, <2>1, <3>6, <3>7, CallStep
    <2>4. QED
      BY <2>2, <2>3
  <1>4. ASSUME WaitOver(c) PROVE ClientInv'
    BY <1>0, <1>4, MoveStep DEF WaitOver
  <1>5. ASSUME WaitCancelled(c) PROVE ClientInv'
    <2> DEFINE r == [call[c] EXCEPT !.pc = "failed", !.timer = 0]
    <2>1. r \in CallState
      <3>1. 0 \in 0..MaxWait
        BY ClientAssumption
      <3>2. QED
        BY <1>0, <3>1 DEF CallState
    <2>0. r.pc = "failed" /\ r.timer = 0
      BY <1>0 DEF CallState
    <2>2. call' = [call EXCEPT ![c] = r] /\ cool' = cool
      BY <1>5 DEF WaitCancelled
    <2>3. QED
      <3> HIDE DEF r
      <3> QED BY <1>0, <2>0, <2>1, <2>2, CallStep
  <1>6. ASSUME RequestFails(c) PROVE ClientInv'
    BY <1>0, <1>6, MoveStep DEF RequestFails
  <1>7. ASSUME NEW low \in BOOLEAN, NEW until \in Times,
               Succeeds(c, low, until) \/ TryAgain(c, low, until) \/ OtherStatus(c, low, until)
        PROVE  ClientInv'
    <2>1. call[c].pc = "sent" /\ BelowFloor(c, low, until)
      BY <1>7 DEF Succeeds, TryAgain, OtherStatus
    <2>2. \E pc \in {"loop", "ok", "failed"} : To(c, pc)
      BY <1>7 DEF Succeeds, TryAgain, OtherStatus
    <2>3. QED
      BY <1>0, <2>1, <2>2, FloorType, MoveStep
  <1>8. ASSUME NEW reset \in Times, NEW retryAfter \in Times,
               RateLimited(c, reset, retryAfter)
        PROVE  ClientInv'
    <2>1. Max({reset, retryAfter}) \in Times
      BY ClientAssumption DEF Max, Times
    <2>2. cool' \in [Tokens -> Times]
      BY <1>0, <1>8, <2>1 DEF RateLimited
    <2>3. QED
      BY <1>0, <1>8, <2>2, MoveStep DEF RateLimited
  <1>9. QED
    BY <1>1, <1>2, <1>3, <1>4, <1>5, <1>6, <1>7, <1>8 DEF Get

LEMMA ClientNext == ClientInv /\ [Next]_vars => ClientInv'
  <1> SUFFICES ASSUME ClientInv, [Next]_vars PROVE ClientInv'
    OBVIOUS
  <1>1. ASSUME NEW c \in Calls, Begin(c) PROVE ClientInv'
    <2>1. call[c].timer = 0 /\ cool' \in [Tokens -> Times]
      BY <1>1 DEF Begin, ClientInv, TypeOK, CallFields
    <2>2. \E pc \in {"loop", "ok", "failed"} : To(c, pc)
      BY <1>1 DEF Begin
    <2>3. QED
      BY <2>1, <2>2, MoveStep
  <1>2. ASSUME NEW c \in Calls, Get(c) PROVE ClientInv'
    BY <1>2, ClientGet
  <1>3. ASSUME Tick PROVE ClientInv'
    <2>1. \A n \in Nat : Less(n) \in Nat /\ Less(n) <= n
      BY DEF Less
    <2>2. cool' \in [Tokens -> Times]
      BY <1>3, <2>1, ClientAssumption DEF Tick, ClientInv, TypeOK, Times
    <2>3. ASSUME NEW c \in Calls
          PROVE  /\ call'[c] \in CallState
                 /\ call'[c].pc = call[c].pc
                 /\ call'[c].token = call[c].token
                 /\ call'[c].attempt = call[c].attempt
                 /\ call[c].timer = 0 => call'[c].timer = 0
      <3>1. call[c] \in CallState
        BY DEF ClientInv, TypeOK
      <3>2. call'[c] = [call[c] EXCEPT !.timer = Less(@)]
        BY <1>3 DEF Tick
      <3>3. Less(call[c].timer) \in 0..MaxWait
        BY <2>1, <3>1, ClientAssumption DEF CallState
      <3>4. Less(0) = 0
        BY DEF Less
      <3>5. QED
        BY <3>1, <3>2, <3>3, <3>4 DEF CallState
    <2>4. call' \in [Calls -> CallState]
      BY <1>3, <2>3 DEF Tick
    <2>5. QED
      BY <2>2, <2>3, <2>4 DEF ClientInv, TypeOK, CallFields
  <1>4. ASSUME UNCHANGED vars PROVE ClientInv'
    BY <1>4 DEF ClientInv, TypeOK, CallFields, vars
  <1>5. QED
    BY <1>1, <1>2, <1>3, <1>4 DEF Next

\* get never makes more attempts than the pool has tokens and never waits
\* longer than maxTokenAvailabilityWait at a time (client.go:247, :343), for
\* any pool, any number of calls and any answers.
THEOREM TypeCorrect == Spec => []TypeOK
  <1>1. ClientInv => TypeOK
    BY DEF ClientInv
  <1>2. QED
    BY ClientInit, ClientNext, <1>1, PTL DEF Spec

=============================================================================
