\* verifyZKProof against the IdP's generateIdentityProof, over small RSA keys.
CONSTANTS
  Keys <- MCKeys
  Hashes <- MCHashes
  Randoms <- MCRandoms
  Challenges <- MCChallenges
  ModSigns = {"truncated", "floored"}
SPECIFICATION Spec
INVARIANT VerifierAcceptsExactlyHonestProofs
\* One proof is generated and verified; the computation then ends.
CHECK_DEADLOCK FALSE
