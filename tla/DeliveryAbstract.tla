--------------------------- MODULE DeliveryAbstract ---------------------------
(***************************************************************************)
(* What a callback delivery engine with retry promises its callers (spec  *)
(* 4.4 and 7: outbound notifications are delivered at least once despite   *)
(* transient failures and restarts, unless a terminal condition is hit).   *)
(*                                                                         *)
(* A delivery is accepted once its retry record is durable.  Its record    *)
(* then stays durable until the delivery has concluded (delivered, or a    *)
(* terminal condition reported), and only then may it be forgotten; a      *)
(* forgotten record never comes back, and no delivery is accepted twice.   *)
(* Concluding again is allowed: at-least-once permits a repeated attempt.  *)
(* Several deliveries may change at once (a crash applies several pending  *)
(* writes of the store together).                                          *)
(***************************************************************************)
EXTENDS FiniteSets

CONSTANT CbIds   \* delivery ids

VARIABLES
  records,     \* ids whose retry record is durable
  accepted,    \* ids ever accepted
  concluded    \* ids whose delivery has concluded at least once

vars == <<records, accepted, concluded>>

TypeOK ==
  /\ records \subseteq accepted /\ accepted \subseteq CbIds
  /\ concluded \subseteq accepted

Init == records = {} /\ accepted = {} /\ concluded = {}

(* A step: new deliveries are accepted (acc), accepted ones conclude      *)
(* (fin), and records of concluded deliveries are forgotten (drop).        *)
Step ==
  \E acc \in SUBSET (CbIds \ accepted), fin \in SUBSET accepted :
    \E drop \in SUBSET (concluded \cup fin) :
      /\ records' = (records \cup acc) \ drop
      /\ accepted' = accepted \cup acc
      /\ concluded' = concluded \cup fin

Spec == Init /\ [][Step]_vars
=============================================================================
