-------------------------- MODULE TokenCacheProofs --------------------------
(***************************************************************************)
(* Theorems about TokenCache, for any number of sessions, any margin and   *)
(* any token life not shorter than it.                                     *)
(***************************************************************************)
EXTENDS TokenCache, TLAPS

USE DEF shared, locals, Goto

\* A caller owns the mutex exactly between its second test and its unlock.
LockInv ==
    \A c \in Callers : pc[c] \in {"apply", "hung", "assign", "stamp"} <=> mutex = c

\* Nobody's "now" is ahead of the clock, and the owner of the lock still has
\* to renew: what it received expires later than the cached expiry by more
\* than Life - Margin.
TimeInv ==
    /\ \A c \in Callers : now[c] <= clock
    /\ \A c \in Callers : pc[c] \in {"apply", "hung", "assign", "stamp"} =>
          token_expire_time - now[c] < Margin
    /\ \A c \in Callers : pc[c] \in {"assign", "stamp"} =>
          now[c] + Life <= fresh[c] /\ fresh[c] <= clock + Life

IInv == TypeOK /\ LockInv /\ TimeInv

\* The invariant holds initially.
LEMMA IInvInit == TokenAssumption /\ Init => IInv
<1> SUFFICES ASSUME TokenAssumption, Init PROVE IInv
  OBVIOUS
<1>1. TypeOK
  <2>1. token_expire_time \in 0..(clock + Life)
    BY DEF TokenAssumption, Init
  <2> QED BY <2>1 DEF Init, TypeOK, Labels
<1>2. LockInv
  BY DEF TokenAssumption, Init, LockInv
<1>3. TimeInv
  BY DEF TokenAssumption, Init, TimeInv
<1> QED
  BY <1>1, <1>2, <1>3 DEF IInv

\* Every step of getToken and of the clock preserves it.
LEMMA IInvStep == TokenAssumption /\ IInv /\ [Next]_vars => IInv'
<1> SUFFICES ASSUME TokenAssumption, IInv, [Next]_vars PROVE IInv'
  OBVIOUS
<1> USE DEF TokenAssumption, IInv, TypeOK, Labels, LockInv, TimeInv
<1>1. CASE Tick
  BY <1>1 DEF Tick
<1>2. ASSUME NEW c \in Callers, Call(c) PROVE IInv'
  BY <1>2 DEF Call
<1>3. ASSUME NEW c \in Callers, TestExpiry(c) PROVE IInv'
  BY <1>3 DEF TestExpiry
<1>4. ASSUME NEW c \in Callers, Lock(c) PROVE IInv'
  BY <1>4 DEF Lock, StillExpiring
<1>5. ASSUME NEW c \in Callers, ApplyOk(c) PROVE IInv'
  BY <1>5 DEF ApplyOk
<1>6. ASSUME NEW c \in Callers, ApplyFails(c) PROVE IInv'
  BY <1>6 DEF ApplyFails
<1>7. ASSUME NEW c \in Callers, AssignToken(c) PROVE IInv'
  BY <1>7 DEF AssignToken
<1>8. ASSUME NEW c \in Callers, StampExpiry(c) PROVE IInv'
  BY <1>8 DEF StampExpiry
<1>9. ASSUME NEW c \in Callers, CopyToken(c) PROVE IInv'
  BY <1>9 DEF CopyToken
<1>10. CASE UNCHANGED vars
  BY <1>10 DEF vars
<1>11. ASSUME NEW c \in Callers, ApplyHangs(c) PROVE IInv'
  BY <1>11 DEF ApplyHangs
<1> QED
  BY <1>1, <1>2, <1>3, <1>4, <1>5, <1>6, <1>7, <1>8, <1>9, <1>10, <1>11
  DEF Next, CallerStep

\* The cache's variables keep their types.
THEOREM TypeCorrect == Spec => []TypeOK
<1>1. IInv => TypeOK
  BY DEF IInv
<1> QED BY TokenAssumption, IInvInit, IInvStep, <1>1, PTL DEF Spec

\* Sessions that find the token expiring at the same time renew it once: the
\* second test, under the lock, keeps renewals more than Life - Margin apart.
THEOREM RenewedOnceCorrect == Spec => RenewedOnce
<1>1. IInv /\ [Next]_vars =>
         [token_expire_time' # token_expire_time =>
             token_expire_time' - token_expire_time > Life - Margin]_vars
  <2> SUFFICES ASSUME IInv, [Next]_vars, token_expire_time' # token_expire_time
               PROVE  token_expire_time' - token_expire_time > Life - Margin
    OBVIOUS
  <2>1. PICK c \in Callers : StampExpiry(c)
    BY DEF Next, vars, CallerStep, Tick, Call, TestExpiry, Lock, ApplyOk,
           ApplyFails, ApplyHangs, AssignToken, CopyToken
  <2> QED BY <2>1, TokenAssumption DEF StampExpiry, IInv, TimeInv, TypeOK, TokenAssumption
<1> QED BY TokenAssumption, IInvInit, IInvStep, <1>1, PTL DEF Spec, RenewedOnce

-----------------------------------------------------------------------------
(* Every token handed out is fresh enough                                  *)

\* The cached string is never older than the cached expiry; a caller about to
\* copy it has seen an expiry far enough away, unless its request failed.
FreshInv ==
    /\ token_expire_time <= token
    /\ \A c \in Callers : pc[c] = "stamp" => token = fresh[c]
    /\ \A c \in Callers : pc[c] = "copy" /\ ~failed[c] =>
          token_expire_time - now[c] >= Margin
    /\ FreshEnough

\* Every step preserves freshness.
LEMMA FreshStep ==
    ASSUME TokenAssumption, IInv, FreshInv, [Next]_vars
    PROVE  FreshInv'
<1> USE DEF TokenAssumption, IInv, TypeOK, Labels, LockInv, TimeInv, FreshInv,
            FreshEnough
<1>1. CASE Tick
  BY <1>1 DEF Tick
<1>2. ASSUME NEW c \in Callers, Call(c) PROVE FreshInv'
  BY <1>2 DEF Call
<1>3. ASSUME NEW c \in Callers, TestExpiry(c) PROVE FreshInv'
  BY <1>3 DEF TestExpiry
<1>4. ASSUME NEW c \in Callers, Lock(c) PROVE FreshInv'
  BY <1>4 DEF Lock, StillExpiring
<1>5. ASSUME NEW c \in Callers, ApplyOk(c) PROVE FreshInv'
  BY <1>5 DEF ApplyOk
<1>6. ASSUME NEW c \in Callers, ApplyFails(c) PROVE FreshInv'
  BY <1>6 DEF ApplyFails
<1>7. ASSUME NEW c \in Callers, AssignToken(c) PROVE FreshInv'
  BY <1>7 DEF AssignToken
<1>8. ASSUME NEW c \in Callers, StampExpiry(c) PROVE FreshInv'
  BY <1>8 DEF StampExpiry
<1>9. ASSUME NEW c \in Callers, CopyToken(c) PROVE FreshInv'
  BY <1>9 DEF CopyToken
<1>10. CASE UNCHANGED vars
  BY <1>10 DEF vars
<1>11. ASSUME NEW c \in Callers, ApplyHangs(c) PROVE FreshInv'
  BY <1>11 DEF ApplyHangs
<1> QED
  BY <1>1, <1>2, <1>3, <1>4, <1>5, <1>6, <1>7, <1>8, <1>9, <1>10, <1>11
  DEF Next, CallerStep

\* A token returned whole to a caller whose own request did not fail has the
\* margin left at the time of the call, although the fast path and the final
\* copy read without the lock.
THEOREM FreshCorrect == Spec => []FreshEnough
<1>1. Init => IInv /\ FreshInv
  BY TokenAssumption, IInvInit DEF Init, FreshInv, FreshEnough
<1>2. IInv /\ FreshInv /\ [Next]_vars => (IInv /\ FreshInv)'
  BY TokenAssumption, IInvStep, FreshStep
<1>3. FreshInv => FreshEnough
  BY DEF FreshInv
<1> QED BY <1>1, <1>2, <1>3, PTL DEF Spec
=============================================================================
