------------------------------ MODULE MC_ZkProof ------------------------------
EXTENDS ZkProof

(* Valid RSA keys (e prime to phi(n)), one with two-byte values.           *)
MCKeys == {[n |-> 15, e |-> 3], [n |-> 35, e |-> 5], [n |-> 35, e |-> 7],
           [n |-> 323, e |-> 5]}

(* Hashed sids: units, factors of a modulus (no inverse), a value past one *)
(* byte.                                                                    *)
MCHashes == {1, 2, 3, 5, 17, 34, 256, 300}

(* Random bytes: one byte (zero included), and two bytes, one with a       *)
(* leading zero.                                                           *)
MCRandoms == {<<0>>, <<1>>, <<2>>, <<255>>, <<0, 7>>, <<1, 0>>, <<1, 144>>}

MCChallenges == 0..2
=============================================================================
