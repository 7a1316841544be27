---------------------------- MODULE EffectPromise ----------------------------
(***************************************************************************)
(* What PgLedger.effect promises to its callers, without workers, locks or *)
(* transactions: until an effect is recorded it may be tried, once it is   *)
(* recorded it is never tried again, and what is recorded and returned is  *)
(* the reference of the latest try.                                        *)
(***************************************************************************)
EXTENDS Naturals

CONSTANT Effects

VARIABLES
  fired,     \* tries the outside world saw
  recorded,  \* the reference on the row, 0 when none
  returned   \* references given to callers

promiseVars == <<fired, recorded, returned>>

Init ==
  /\ fired = [e \in Effects |-> 0]
  /\ recorded = fired
  /\ returned = [e \in Effects |-> {}]

Try(e) ==
  /\ recorded[e] = 0
  /\ fired' = [fired EXCEPT ![e] = @ + 1]
  /\ UNCHANGED <<recorded, returned>>

Record(e) ==
  /\ recorded[e] = 0 /\ fired[e] > 0
  /\ recorded' = [recorded EXCEPT ![e] = fired[e]]
  /\ returned' = [returned EXCEPT ![e] = @ \cup {fired[e]}]
  /\ UNCHANGED fired

Repeat(e) ==
  /\ recorded[e] > 0
  /\ returned' = [returned EXCEPT ![e] = @ \cup {recorded[e]}]
  /\ UNCHANGED <<fired, recorded>>

Next == \E e \in Effects : Try(e) \/ Record(e) \/ Repeat(e)

Spec == Init /\ [][Next]_promiseVars
=============================================================================
