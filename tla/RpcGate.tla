-------------------------------- MODULE RpcGate --------------------------------
(***************************************************************************)
(* The process-wide RPC gate of src/routing/rpc.py: eth_call and           *)
(* eth_call_capture post under one asyncio.Semaphore, retry a rate limited *)
(* post after a sleep outside of it, and may be cancelled at any await     *)
(* (the wait_for of a strategy, of the solve, of a validator).             *)
(*                                                                         *)
(* The semaphore is the one of Python 3.12: a release hands the slot to    *)
(* the first waiter by completing its future, and the waiter takes it up   *)
(* when the loop runs it again.  In between it can still be cancelled.     *)
(***************************************************************************)
EXTENDS Naturals, Sequences, FiniteSets

CONSTANTS
    Callers,     \* coroutines that may be inside eth_call at once
    Slots,       \* rpc_max_concurrent
    Attempts     \* posts a call makes at most: the retry delays, and the last

ASSUME GateAssumption ==
    /\ IsFiniteSet(Callers)
    /\ Slots \in Nat \ {0}
    /\ Attempts \in Nat \ {0}

VARIABLES
    value,       \* _value of the semaphore
    waiters,     \* _waiters of the semaphore, oldest first
    st,          \* where a caller stands
    posts,       \* posts made by the current call of a caller
    ended        \* how its last call ended

vars == <<value, waiters, st, posts, ended>>

\* granted: its future is completed, and it has not run yet; cancelled and
\* revoked: cancelled while queued, or granted, and it has not run yet.
States == {"idle", "queued", "granted", "cancelled", "revoked", "posting", "backoff"}

Answers == {"ok", "rateLimited", "revert", "authRevert", "failure"}
Endings == {"none", "result", "reverted", "raised", "spent", "cancelled"}

In(S) == {c \in Callers : st[c] \in S}

TypeOK ==
    /\ value \in 0..Slots
    /\ waiters \in Seq(Callers)
    /\ st \in [Callers -> States]
    /\ posts \in [Callers -> 0..Attempts]
    /\ ended \in [Callers -> Endings]

Init ==
    /\ value = Slots
    /\ waiters = <<>>
    /\ st = [c \in Callers |-> "idle"]
    /\ posts = [c \in Callers |-> 0]
    /\ ended = [c \in Callers |-> "none"]

-----------------------------------------------------------------------------
(* asyncio.Semaphore                                                       *)

Before(c, d) ==
    \E i, j \in DOMAIN waiters : i < j /\ waiters[i] = c /\ waiters[j] = d

\* Variant: anybody may be woken.
Woken(S) == S \subseteq In({"queued"})

\* S are the oldest waiters whose futures are pending.
Oldest(S) ==
    /\ S \subseteq In({"queued"})
    /\ \A c \in S : \A d \in In({"queued"}) \ S : Before(c, d)

\* With free slots in hand, complete the futures of the oldest waiters: one
\* per slot at most, and no more than limit.
WakeUp(free, limit, S) ==
    /\ Oldest(S)
    /\ Cardinality(S) <= free /\ Cardinality(S) <= limit
    /\ \/ S = In({"queued"})
       \/ Cardinality(S) = free
       \/ Cardinality(S) = limit
    /\ value' = free - Cardinality(S)

\* The state of a caller after S were woken and c moved on to s.
Moved(c, s, S) ==
    [d \in Callers |-> IF d = c THEN s ELSE IF d \in S THEN "granted" ELSE st[d]]

\* acquire() queues while any future in the deque is not cancelled, whether
\* or not a slot is free.
Locked == value = 0 \/ \E i \in DOMAIN waiters : st[waiters[i]] # "cancelled"

\* Variant: the finally of acquire() wakes nobody.
LeaveQueueSilently(c, free, s) ==
    /\ \E i \in DOMAIN waiters :
         /\ waiters[i] = c
         /\ waiters' = SubSeq(waiters, 1, i - 1) \o SubSeq(waiters, i + 1, Len(waiters))
    /\ value' = free
    /\ st' = [st EXCEPT ![c] = s]

\* The waiter leaves the deque, and hands on every slot that is free.
LeaveQueue(c, free, s) ==
    /\ \E i \in DOMAIN waiters :
         /\ waiters[i] = c
         /\ waiters' = SubSeq(waiters, 1, i - 1) \o SubSeq(waiters, i + 1, Len(waiters))
    /\ \E S \in SUBSET In({"queued"}) :
         /\ WakeUp(free, free, S)
         /\ st' = Moved(c, s, S)

\* release() wakes one waiter.
Release(c, s) ==
    /\ \E S \in SUBSET In({"queued"}) :
         /\ WakeUp(value + 1, 1, S)
         /\ st' = Moved(c, s, S)
    /\ UNCHANGED waiters

-----------------------------------------------------------------------------
(* eth_call and eth_call_capture                                           *)

\* async with _rpc_gate(): post at once, or wait in line.
Enter(c, made) ==
    \/ /\ ~Locked
       /\ value' = value - 1
       /\ st' = [st EXCEPT ![c] = "posting"]
       /\ posts' = [posts EXCEPT ![c] = made + 1]
       /\ UNCHANGED waiters
    \/ /\ Locked
       /\ waiters' = Append(waiters, c)
       /\ st' = [st EXCEPT ![c] = "queued"]
       /\ posts' = [posts EXCEPT ![c] = made]
       /\ UNCHANGED value

Call(c) ==
    /\ st[c] = "idle"
    /\ Enter(c, 0)
    /\ ended' = [ended EXCEPT ![c] = "none"]

Retry(c) ==
    /\ st[c] = "backoff"
    /\ Enter(c, posts[c])
    /\ UNCHANGED ended

\* The waiter runs again and has its slot.
TakeSlot(c) ==
    /\ st[c] = "granted"
    /\ LeaveQueue(c, value, "posting")
    /\ posts' = [posts EXCEPT ![c] = @ + 1]
    /\ UNCHANGED ended

\* HTTP 429, or -32005, is retried as long as a delay is left.
Retries(c, answer) == answer = "rateLimited" /\ posts[c] < Attempts

Ending(answer) ==
    CASE answer = "ok" -> "result"
      [] answer = "revert" -> "reverted"
      [] answer = "rateLimited" -> "spent"
      [] OTHER -> "raised"

\* The post answered, or raised within its timeout: the slot is given back
\* first, whatever follows.
FinishPost(c, answer) ==
    /\ st[c] = "posting"
    /\ UNCHANGED posts
    /\ \/ Retries(c, answer) /\ Release(c, "backoff") /\ UNCHANGED ended
       \/ /\ ~Retries(c, answer)
          /\ Release(c, "idle")
          /\ ended' = [ended EXCEPT ![c] = Ending(answer)]

-----------------------------------------------------------------------------
(* Cancellation                                                            *)

\* task.cancel() of a caller in the line: its future is cancelled, or, when
\* that is completed already, the task is marked.
CancelWaiter(c) ==
    /\ \/ st[c] = "queued" /\ st' = [st EXCEPT ![c] = "cancelled"]
       \/ st[c] = "granted" /\ st' = [st EXCEPT ![c] = "revoked"]
    /\ UNCHANGED <<value, waiters, posts, ended>>

\* Variant: a slot that was granted to a cancelled waiter is not given back.
UnwindLeaking(c) ==
    /\ st[c] \in {"cancelled", "revoked"}
    /\ LeaveQueue(c, value, "idle")
    /\ ended' = [ended EXCEPT ![c] = "cancelled"]
    /\ UNCHANGED posts

\* CancelledError runs through acquire(): a slot that was granted is put
\* back, and every free slot is handed on.
Unwind(c) ==
    /\ \/ st[c] = "cancelled" /\ LeaveQueue(c, value, "idle")
       \/ st[c] = "revoked" /\ LeaveQueue(c, value + 1, "idle")
    /\ ended' = [ended EXCEPT ![c] = "cancelled"]
    /\ UNCHANGED posts

CancelPost(c) ==
    /\ st[c] = "posting"
    /\ Release(c, "idle")
    /\ ended' = [ended EXCEPT ![c] = "cancelled"]
    /\ UNCHANGED posts

CancelBackoff(c) ==
    /\ st[c] = "backoff"
    /\ st' = [st EXCEPT ![c] = "idle"]
    /\ ended' = [ended EXCEPT ![c] = "cancelled"]
    /\ UNCHANGED <<value, waiters, posts>>

Step(c) ==
    \/ Call(c) \/ Retry(c) \/ TakeSlot(c)
    \/ \E a \in Answers : FinishPost(c, a)
    \/ CancelWaiter(c) \/ Unwind(c) \/ CancelPost(c) \/ CancelBackoff(c)

Next == \E c \in Callers : Step(c)

Spec == Init /\ [][Next]_vars

\* The loop runs a task that is ready, httpx gives a post five seconds, and a
\* sleep ends.
Fairness ==
    \A c \in Callers :
        /\ WF_vars(TakeSlot(c) \/ Unwind(c))
        /\ WF_vars(\E a \in Answers : FinishPost(c, a))
        /\ WF_vars(Retry(c))

FairSpec == Spec /\ Fairness

-----------------------------------------------------------------------------
(* Properties                                                              *)

\* Callers that hold a slot, in use or granted.
Holders == In({"posting", "granted", "revoked"})

\* No slot is lost, and none is made: whatever is cancelled when, the free
\* slots and the held ones are the configured number.  (The docstring of
\* gate_stats suspects a leak.)
SlotsConserved == value + Cardinality(Holders) = Slots

\* No wakeup is lost: a slot that is free while somebody waits is about to
\* be handed on, by a waiter that is ready to run.
FreeSlotIsHandedOn ==
    value > 0 /\ In({"queued"}) # {} => In({"granted", "cancelled", "revoked"}) # {}

\* First come, first served: a caller still waiting is never behind in the
\* line of one that was given a slot, and those in line stand there once.
QueueIsFair ==
    /\ \A c \in In({"granted", "revoked"}), d \in In({"queued"}) : ~Before(d, c)
    /\ \A c \in Callers : ~Before(c, c)

\* Every call ends: no burst of newcomers, no cancellation and no rate limit
\* keeps a caller in it for ever.
EveryCallEnds == \A c \in Callers : st[c] # "idle" ~> st[c] = "idle"
=============================================================================
