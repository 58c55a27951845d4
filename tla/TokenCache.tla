----------------------------- MODULE TokenCache -----------------------------
(***************************************************************************)
(* getToken of mod_aliyun_tts: the access token all sessions share.        *)
(*                                                                         *)
(* A caller takes the time, tests the cached expiry without the lock, and  *)
(* only when it is near takes the lock, tests again and asks the server    *)
(* (AccessToken::apply).  The token string and its expiry are two globals  *)
(* that are read without the lock; assigning the string is not atomic.     *)
(*                                                                         *)
(* A token is known by the time it expires; 0 is the empty string.         *)
(***************************************************************************)
EXTENDS Integers

CONSTANTS
    Callers,   \* sessions that open a speech handle
    Nobody,    \* owner of the free mutex
    Margin,    \* a token is renewed when it has less than this left (3600)
    Life,      \* how long a new token lives
    MaxTime    \* bound: the clock stops here

ASSUME TokenAssumption ==
    /\ Margin \in Nat
    /\ Life \in Nat /\ Life >= Margin
    /\ MaxTime \in Nat
    /\ Nobody \notin Callers

VARIABLES
    clock,              \* switch_time_now(), in seconds
    token,              \* globals.token
    token_expire_time,  \* globals.token_expire_time
    writing,            \* is globals.token being assigned?
    mutex,              \* globals.MUTEX
    pc,
    now,                \* the caller's local "now"
    fresh,              \* the token its AccessToken received
    failed,             \* did its apply() fail?
    result,             \* what getToken returned
    torn                \* was the returned string copied during an assignment?

shared == <<token, token_expire_time, writing, mutex>>
locals == <<pc, now, fresh, failed, result, torn>>
vars == <<clock, shared, locals>>

Labels == {"idle", "test", "lock", "apply", "hung", "assign", "stamp", "copy",
           "done"}

Init ==
    /\ clock = 1
    /\ token = 0
    /\ token_expire_time = 0
    /\ writing = FALSE
    /\ mutex = Nobody
    /\ pc = [c \in Callers |-> "idle"]
    /\ now = [c \in Callers |-> 1]
    /\ fresh = [c \in Callers |-> 0]
    /\ failed = [c \in Callers |-> FALSE]
    /\ result = [c \in Callers |-> 0]
    /\ torn = [c \in Callers |-> FALSE]

Goto(c, l) == pc' = [pc EXCEPT ![c] = l]

-----------------------------------------------------------------------------
Call(c) ==
    /\ pc[c] \in {"idle", "done"}
    /\ now' = [now EXCEPT ![c] = clock]
    /\ failed' = [failed EXCEPT ![c] = FALSE]
    /\ Goto(c, "test")
    /\ UNCHANGED <<clock, shared, fresh, result, torn>>

\* The test without the lock.
TestExpiry(c) ==
    /\ pc[c] = "test"
    /\ Goto(c, IF token_expire_time - now[c] > Margin THEN "copy" ELSE "lock")
    /\ UNCHANGED <<clock, shared, now, fresh, failed, result, torn>>

\* Mutant: no second test once the lock is taken.
AlwaysExpiring(c) == pc[c] = "lock"

\* The test with the lock: another caller may have renewed the token.
StillExpiring(c) == token_expire_time - now[c] < Margin

Lock(c) ==
    /\ pc[c] = "lock" /\ mutex = Nobody
    /\ \/ StillExpiring(c) /\ mutex' = c /\ Goto(c, "apply")
       \/ ~StillExpiring(c) /\ UNCHANGED mutex /\ Goto(c, "copy")
    /\ UNCHANGED <<clock, token, token_expire_time, writing, now, fresh, failed,
                   result, torn>>

\* Mutant: a failed request is tried again without giving the lock back.
ApplyAgain(c) ==
    /\ pc[c] = "apply"
    /\ failed' = [failed EXCEPT ![c] = ~@]
    /\ UNCHANGED <<clock, shared, pc, now, fresh, result, torn>>

\* An exception, or an answer without an expiry: the cache stays, unlock.
ApplyFails(c) ==
    /\ pc[c] = "apply"
    /\ failed' = [failed EXCEPT ![c] = TRUE]
    /\ mutex' = Nobody
    /\ Goto(c, "copy")
    /\ UNCHANGED <<clock, token, token_expire_time, writing, now, fresh, result, torn>>

\* The server takes the request and never answers it: curl_easy_perform is
\* called without a time limit, and with the lock.
ApplyHangs(c) ==
    /\ pc[c] = "apply"
    /\ Goto(c, "hung")
    /\ UNCHANGED <<clock, shared, now, fresh, failed, result, torn>>

\* Mutant: the expiry is published together with the start of the string's
\* assignment, before the string is there.
ApplyStampsFirst(c) ==
    /\ pc[c] = "apply"
    /\ fresh' = [fresh EXCEPT ![c] = clock + Life]
    /\ token_expire_time' = clock + Life
    /\ Goto(c, "assign")
    /\ UNCHANGED <<clock, token, writing, mutex, now, failed, result, torn>>

\* The server answers with a new token; the assignment of the string starts.
ApplyOk(c) ==
    /\ pc[c] = "apply"
    /\ fresh' = [fresh EXCEPT ![c] = clock + Life]
    /\ writing' = TRUE
    /\ Goto(c, "assign")
    /\ UNCHANGED <<clock, token, token_expire_time, mutex, now, failed, result, torn>>

AssignToken(c) ==
    /\ pc[c] = "assign"
    /\ token' = fresh[c]
    /\ writing' = FALSE
    /\ Goto(c, "stamp")
    /\ UNCHANGED <<clock, token_expire_time, mutex, now, fresh, failed, result, torn>>

StampExpiry(c) ==
    /\ pc[c] = "stamp"
    /\ token_expire_time' = fresh[c]
    /\ mutex' = Nobody
    /\ Goto(c, "copy")
    /\ UNCHANGED <<clock, token, writing, now, fresh, failed, result, torn>>

\* return globals.token, on either path without the lock.
CopyToken(c) ==
    /\ pc[c] = "copy"
    /\ result' = [result EXCEPT ![c] = token]
    /\ torn' = [torn EXCEPT ![c] = writing]
    /\ Goto(c, "done")
    /\ UNCHANGED <<clock, shared, now, fresh, failed>>

Tick ==
    /\ clock < MaxTime
    /\ clock' = clock + 1
    /\ UNCHANGED <<shared, locals>>

CallerStep(c) == \/ TestExpiry(c) \/ Lock(c) \/ ApplyOk(c) \/ ApplyFails(c)
                 \/ ApplyHangs(c) \/ AssignToken(c) \/ StampExpiry(c) \/ CopyToken(c)

Next == Tick \/ \E c \in Callers : Call(c) \/ CallerStep(c)

Spec == Init /\ [][Next]_vars

\* A caller inside getToken keeps running; its request is answered, fails or
\* hangs.
FairSpec == Spec /\ \A c \in Callers : WF_vars(CallerStep(c))

-----------------------------------------------------------------------------
(* Properties                                                              *)

\* Types; the cached expiry is never further away than a token's life.
TypeOK ==
    /\ clock \in Nat
    /\ token \in Nat
    /\ token_expire_time \in 0..(clock + Life)
    /\ writing \in BOOLEAN
    /\ mutex \in Callers \cup {Nobody}
    /\ pc \in [Callers -> Labels]
    /\ now \in [Callers -> Nat]
    /\ fresh \in [Callers -> Nat]
    /\ failed \in [Callers -> BOOLEAN]
    /\ result \in [Callers -> Nat]
    /\ torn \in [Callers -> BOOLEAN]

\* Every token getToken hands out to a caller whose own request did not fail
\* has at least the margin left at the time of the call: callers that do not
\* lock see the new string whenever they see its expiry, because the string
\* goes first.
FreshEnough ==
    \A c \in Callers :
        pc[c] = "done" /\ ~failed[c] /\ ~torn[c] => result[c] - now[c] >= Margin

\* Callers that found the token expiring together do not renew it one after
\* the other: two renewals are more than Life - Margin apart.
RenewedOnce ==
    [][token_expire_time' # token_expire_time =>
          token_expire_time' - token_expire_time > Life - Margin]_vars

\* A caller that renews the token gives the lock back, also when apply()
\* throws: only a server that never answers lets one session block the others.
LockReleased == \A c \in Callers : mutex = c ~> mutex # c \/ pc[c] = "hung"
=============================================================================
