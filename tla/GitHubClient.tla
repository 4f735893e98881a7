---------------------------- MODULE GitHubClient ----------------------------
(***************************************************************************)
(* The retry loop every GitHub request of the service goes through, and    *)
(* the pool of tokens its calls share (internal/github/client.go, get).    *)
(*                                                                         *)
(* The pool is a library outside src/: what the loop needs of it is when   *)
(* each token may be used again. Times are kept as what is left of them,   *)
(* so that time can go on for ever.                                        *)
(***************************************************************************)
EXTENDS Naturals, FiniteSets, FiniteSetsExt

CONSTANTS
    Tokens,
    Calls,      \* the calls of one busy period
    NoToken,
    MaxCool,    \* bound: the longest reset or Retry-After GitHub announces
    MaxWait     \* maxTokenAvailabilityWait

ASSUME ClientAssumption ==
    /\ IsFiniteSet(Tokens)
    /\ NoToken \notin Tokens
    /\ MaxCool \in Nat
    /\ MaxWait \in Nat

VARIABLES
    cool,   \* until when DisableUntil put each token aside: what is left
    call    \* where each call is

vars == <<cool, call>>

Count == Cardinality(Tokens)
Times == 0..MaxCool

Waiting == [pc |-> "idle", attempt |-> 0, token |-> NoToken, timer |-> 0]

CallState == [pc : {"idle", "loop", "sent", "wait", "ok", "failed"},
              attempt : 0..Count, token : Tokens \cup {NoToken},
              timer : 0..MaxWait]

Ended == {"ok", "failed"}

Init ==
    /\ cool = [t \in Tokens |-> 0]
    /\ call = [c \in Calls |-> Waiting]

-----------------------------------------------------------------------------

To(c, pc) == call' = [call EXCEPT ![c].pc = pc]

Begin(c) ==
    /\ call[c].pc = "idle"
    /\ To(c, IF Count = 0 THEN "failed" ELSE "loop")
    /\ UNCHANGED cool

\* PickBest answers with a token that is not put aside; which one is up to the
\* pool, the one of the last attempt included. Picking it counts as an attempt.
PickBest(c, t) ==
    /\ call[c].pc = "loop"
    /\ call[c].attempt < Count
    /\ cool[t] = 0
    /\ call' = [call EXCEPT ![c].pc = "sent", ![c].token = t, ![c].attempt = @ + 1]
    /\ UNCHANGED cool

OutOfAttempts(c) ==
    /\ call[c].pc = "loop"
    /\ call[c].attempt = Count
    /\ To(c, "failed")
    /\ UNCHANGED cool

\* Mutant of WaitForAvailableToken: however long it takes.
WaitForAnyToken(c) ==
    LET earliest == Min({cool[t] : t \in Tokens})
    IN  /\ call[c].pc = "loop"
        /\ call[c].attempt < Count
        /\ earliest > 0
        /\ call' = [call EXCEPT ![c] = [@ EXCEPT !.pc = "wait", !.timer = earliest]]
        /\ UNCHANGED cool

\* No token: wait for the earliest, unless that is further away than MaxWait.
\* Another call may have taken it, and put it aside, when the wait is over.
WaitForAvailableToken(c) ==
    LET earliest == Min({cool[t] : t \in Tokens})
    IN  /\ call[c].pc = "loop"
        /\ call[c].attempt < Count
        /\ earliest > 0
        /\ IF earliest > MaxWait THEN To(c, "failed")
           ELSE call' = [call EXCEPT ![c] = [@ EXCEPT !.pc = "wait",
                                                      !.timer = earliest]]
        /\ UNCHANGED cool

WaitOver(c) ==
    /\ call[c].pc = "wait"
    /\ call[c].timer = 0
    /\ To(c, "loop")
    /\ UNCHANGED cool

\* The caller's context ends. A request in flight fails like any other.
WaitCancelled(c) ==
    /\ call[c].pc = "wait"
    /\ call' = [call EXCEPT ![c] = [@ EXCEPT !.pc = "failed", !.timer = 0]]
    /\ UNCHANGED cool

\* DisableUntil(token, until) as disableBelowFloor uses it: only for an answer
\* that says the token is near its limit.
BelowFloor(c, low, until) ==
    cool' = IF low THEN [cool EXCEPT ![call[c].token] = until] ELSE cool

\* Mutant of RequestFails: an attempt without an answer is not counted.
RequestFailsUncounted(c) ==
    /\ call[c].pc = "sent"
    /\ call' = [call EXCEPT ![c].pc = "loop", ![c].attempt = @ - 1]
    /\ UNCHANGED cool

\* No answer (20 s at most).
RequestFails(c) ==
    /\ call[c].pc = "sent"
    /\ To(c, "loop")
    /\ UNCHANGED cool

\* 2xx: the answer counts even if its token is put aside for the next one.
Succeeds(c, low, until) ==
    /\ call[c].pc = "sent"
    /\ BelowFloor(c, low, until)
    /\ To(c, "ok")

\* 403 and 429: the later of the reset and Retry-After.
RateLimited(c, reset, retryAfter) ==
    /\ call[c].pc = "sent"
    /\ cool' = [cool EXCEPT ![call[c].token] = Max({reset, retryAfter})]
    /\ To(c, "loop")

\* 401, 502, 503 and 504 leave the token where it is: it may be picked again.
TryAgain(c, low, until) ==
    /\ call[c].pc = "sent"
    /\ BelowFloor(c, low, until)
    /\ To(c, "loop")

\* Any other status is the answer, unless the token was near its limit.
OtherStatus(c, low, until) ==
    /\ call[c].pc = "sent"
    /\ BelowFloor(c, low, until)
    /\ To(c, IF low THEN "loop" ELSE "failed")

Less(n) == IF n = 0 THEN 0 ELSE n - 1

Tick ==
    /\ \/ \E t \in Tokens : cool[t] > 0
       \/ \E c \in Calls : call[c].timer > 0
    /\ cool' = [t \in Tokens |-> Less(cool[t])]
    /\ call' = [c \in Calls |-> [call[c] EXCEPT !.timer = Less(@)]]

Get(c) ==
    \/ \E t \in Tokens : PickBest(c, t)
    \/ OutOfAttempts(c)
    \/ WaitForAvailableToken(c)
    \/ WaitOver(c)
    \/ WaitCancelled(c)
    \/ RequestFails(c)
    \/ \E low \in BOOLEAN, until \in Times :
           \/ Succeeds(c, low, until)
           \/ TryAgain(c, low, until)
           \/ OtherStatus(c, low, until)
    \/ \E reset, retryAfter \in Times : RateLimited(c, reset, retryAfter)

Next ==
    \/ \E c \in Calls : Begin(c) \/ Get(c)
    \/ Tick

Spec == Init /\ [][Next]_vars

\* Requests have a timeout and clocks go on. Nothing is assumed of contexts:
\* WaitCancelled competes with other steps of its call and need not happen.
FairSpec ==
    /\ Spec
    /\ WF_vars(Tick)
    /\ \A c \in Calls : WF_vars(Get(c) /\ ~(call[c].pc = "wait" /\ call'[c].pc = "failed"))

-----------------------------------------------------------------------------
(* Properties. *)

\* A call sends at most one request per token of the pool (attempt), and no
\* single wait is longer than MaxWait (timer) (client.go:247, :343).
TypeOK ==
    /\ cool \in [Tokens -> Times]
    /\ call \in [Calls -> CallState]

\* A call ends although tokens are limited again and again, answers are lost
\* and other calls take the token it waited for, even if nobody cancels it, as
\* long as finitely many calls run (client.go:247, :334).
CallsEnd == \A c \in Calls : (call[c].pc # "idle") ~> (call[c].pc \in Ended)

=============================================================================
