------------------------------- MODULE ZkProof -------------------------------
(***************************************************************************)
(* The identity proof of the main server (src/main-server/src/utils/      *)
(* callback.js, generateIdentityProof and verifyZKProof).  An IdP holding *)
(* secret, an e-th root of the hashed sid modulo its RSA modulus n, draws *)
(* random k and sends the blockchain proof k^e mod n and the private      *)
(* proof k * secret^challenge mod n.  The verifier checks the private     *)
(* proof against the hash published on the ledger, then accepts when      *)
(* privateProof^e * inverse(hashedSid)^challenge = blockchainProof mod n, *)
(* computing the inverse with a recursive extended Euclid.                *)
(*                                                                         *)
(* Numbers are naturals; a proof travels as the big-endian bytes of       *)
(* toBuffer (base64 text is held as the bytes it encodes: every such      *)
(* string is decoded by stringToBigInt before use).  The bignum library's *)
(* mod may keep the sign of a negative dividend; both conventions are     *)
(* allowed.  powm reduces its base modulo n first, as OpenSSL's           *)
(* BN_mod_exp does for an odd modulus.  extractParameterFromPublicKey     *)
(* (openssl text parsing) is not modelled: the key's n and e are given.   *)
(* hash (./crypto, not in the repository) is modelled as collision-free.  *)
(***************************************************************************)
EXTENDS Integers, Sequences, SequencesExt

CONSTANTS
  Keys,        \* RSA public keys [n, e] of IdPs
  Hashes,      \* values of stringToBigInt(hash(namespace:identifier))
  Randoms,     \* byte strings randomBase64Bytes(zkRandomLengthForIdp) may return
  Challenges,  \* values of stringToBigInt(challenge)
  ModSigns     \* sign conventions of bignum mod: "truncated", "floored"

VARIABLES
  key, sidHash, secret, k, challenge, modSign,  \* the inputs, fixed in Init
  proof,      \* what generateIdentityProof returned, or <<>>
  received,   \* the private proof bytes that reached the verifier
  published,  \* the bytes whose hash the ledger holds as privateProofHash
  verdict     \* "none", or verifyZKProof's "accept", "reject" or "error" (throw)

vars == <<key, sidHash, secret, k, challenge, modSign,
          proof, received, published, verdict>>

(* bignum's mod: with the truncated convention the result takes the sign  *)
(* of a negative dividend.                                                 *)
BigMod(a, m) ==
  IF a < 0 /\ modSign = "truncated" THEN -((-a) % m) ELSE a % m

RECURSIVE PowerMod(_, _, _)
PowerMod(base, exponent, modulus) ==
  IF exponent = 0 THEN 1 % modulus
  ELSE ((base % modulus) * PowerMod(base, exponent - 1, modulus)) % modulus

(* bignum.toBuffer: the big-endian bytes of the hex digits, one zero byte *)
(* for zero.                                                               *)
RECURSIVE ToBuffer(_)
ToBuffer(x) == IF x < 256 THEN <<x>> ELSE Append(ToBuffer(x \div 256), x % 256)

StringToBigInt(bytes) == FoldLeft(LAMBDA acc, b : acc * 256 + b, 0, bytes)

Hash(bytes) == <<"sha256", bytes>>

RECURSIVE EuclideanGCDUnswapped(_, _)
EuclideanGCDUnswapped(a, b) ==
  IF a = 0 THEN <<b, 0, 1>>
  ELSE LET r == EuclideanGCDUnswapped(BigMod(b, a), a)
       IN  <<r[1], r[2] - ((b - BigMod(b, a)) \div a) * r[3], r[3]>>

(* euclideanGCD(a, b) returns [g, x, y] with a*x + b*y = g, recursing on   *)
(* (b mod a, a); (b - b mod a) / a is the quotient.                         *)
RECURSIVE EuclideanGCD(_, _)
EuclideanGCD(a, b) ==
  IF a = 0 THEN <<b, 0, 1>>
  ELSE LET r == EuclideanGCD(BigMod(b, a), a)   \* r = [g, y, x]
       IN  <<r[1], r[3] - ((b - BigMod(b, a)) \div a) * r[2], r[2]>>

(* Throws unless gcd(a, modulo) = 1; else x mod modulo, which the          *)
(* truncated convention leaves negative for a negative x.                  *)
ModuloMultiplicativeInverse(a, modulo) ==
  LET r == EuclideanGCD(a, modulo)
  IN  [thrown |-> r[1] # 1, value |-> BigMod(r[2], modulo)]

(* The roots of h: the secrets an IdP of key can hold for hashed sid h.    *)
Roots(kk, h) == {s \in 0..kk.n - 1 : PowerMod(s, kk.e, kk.n) = h}

Init ==
  /\ key \in Keys
  /\ sidHash \in {h \in Hashes : h < key.n}
  /\ secret \in Roots(key, sidHash)
  /\ k \in Randoms
  /\ challenge \in Challenges
  /\ modSign \in ModSigns
  /\ proof = <<>> /\ received = <<>> /\ published = <<>>
  /\ verdict = "none"

(* The IdP computes [blockchainProof, privateProof].                       *)
GenerateIdentityProof ==
  /\ proof = <<>>
  /\ LET kInt == StringToBigInt(k) IN
       proof' = <<ToBuffer(PowerMod(kInt, key.e, key.n)),
                  ToBuffer(BigMod(kInt * PowerMod(secret, challenge, key.n), key.n))>>
  /\ UNCHANGED <<key, sidHash, secret, k, challenge, modSign,
                 received, published, verdict>>

(* The private proof a verifier may be handed: the IdP's own, or any      *)
(* residue, or the IdP's value plus n.                                     *)
Candidates ==
  {ToBuffer(v) : v \in (0..key.n - 1) \cup {StringToBigInt(proof[2]) + key.n}}

(* verifyZKProof with the given private proof and a ledger hash of either *)
(* the IdP's proof or the one delivered.                                   *)
VerifyZKProof ==
  /\ proof # <<>> /\ verdict = "none"
  /\ \E pp \in Candidates : \E pub \in {proof[2], pp} :
       /\ received' = pp /\ published' = pub
       /\ verdict' =
            LET inv  == ModuloMultiplicativeInverse(sidHash, key.n)
                tmp1 == PowerMod(StringToBigInt(pp), key.e, key.n)
                tmp2 == PowerMod(inv.value, challenge, key.n)
                tmp3 == BigMod(tmp1 * tmp2, key.n)
            IN  IF Hash(pub) # Hash(pp) THEN "reject"
                ELSE IF inv.thrown THEN "error"
                ELSE IF StringToBigInt(proof[1]) = tmp3 THEN "accept" ELSE "reject"
  /\ UNCHANGED <<key, sidHash, secret, k, challenge, modSign, proof>>

Next == GenerateIdentityProof \/ VerifyZKProof

Spec == Init /\ [][Next]_vars

-----------------------------------------------------------------------------
(* Reference definitions.                                                  *)

RefGcd(a, b) ==
  LET D == {d \in 1..(a + b) : a % d = 0 /\ b % d = 0} IN Max(D)

(* The verdict a correct verifier gives: reject a proof whose hash is not *)
(* the published one, fail when the hashed sid has no inverse modulo n,   *)
(* and otherwise accept exactly the proofs congruent to k*secret^challenge.*)
Expected ==
  IF received # published THEN "reject"
  ELSE IF RefGcd(sidHash, key.n) # 1 THEN "error"
  ELSE IF StringToBigInt(received) % key.n
            = (StringToBigInt(k) * secret ^ challenge) % key.n
       THEN "accept" ELSE "reject"

(* verifyZKProof accepts an IdP's proof exactly when it is the one the IdP *)
(* derived from its secret (completeness and uniqueness), through the      *)
(* byte encoding of toBuffer, the recursive extended Euclid and the sign  *)
(* of bignum's mod, and throws only for a hashed sid sharing a factor     *)
(* with n.                                                                 *)
VerifierAcceptsExactlyHonestProofs ==
  verdict # "none" => verdict = Expected
=============================================================================
