----------------------------- MODULE CodeLedger -----------------------------
(***************************************************************************)
(* What an opener relies on when it hears one client id: the abstract      *)
(* promise of the rolling-code bookkeeping (docs/syncing.md).  A code is   *)
(* retired once a command has consumed it, or once the sender has lost     *)
(* power after putting it on the air; a retired code is never aired again. *)
(* A press holds its code open so that the release can carry the same one. *)
(*                                                                         *)
(*   floor   codes below it are retired                                    *)
(*   aired   one more than the highest code on the air, 0 if there is none *)
(***************************************************************************)
EXTENDS Naturals

CONSTANT Code  \* the codes, a set of naturals

VARIABLES floor, aired

vars == <<floor, aired>>

Init == floor = 0 /\ aired = 0

\* A code that is not retired goes on the air; "consume" retires it.
Air(c, consume) ==
    /\ c >= floor
    /\ aired' = IF c + 1 > aired THEN c + 1 ELSE aired
    /\ floor' = IF consume THEN c + 1 ELSE floor

\* The sender restarts: whatever it has aired is retired.
Retire == floor' = aired /\ UNCHANGED aired

\* The sender takes a new client id, which the opener has not heard yet.
Renew == floor' = 0 /\ aired' = 0

Next == \/ \E c \in Code, consume \in BOOLEAN : Air(c, consume)
        \/ Retire
        \/ Renew

Spec == Init /\ [][Next]_vars
=============================================================================
