--------------------------- MODULE KeyChainTrust ---------------------------
(***************************************************************************)
(* The trust model the KeyChain verifies against: which Data objects and   *)
(* certificates are signed by a chain of good signatures, each on a name   *)
(* the policy accepts, that ends in a trust anchor.  The signing graph is  *)
(* static: every object carries one KeyLocator naming the certificate      *)
(* whose key signed it.  Shared by the abstract and detailed verifiers.    *)
(***************************************************************************)
EXTENDS Naturals, FiniteSets

CONSTANTS
  Items,        \* names of Data objects and certificates (model values)
  Certs,        \* the items that are certificates
  Anchors,      \* certificates installed with setTrustAnchor
  KeyLocator,   \* KeyLocator[x]: the certificate name in x's signature
  GoodSig,      \* items whose signature verifies under KeyLocator's key
  PolicyOK,     \* items accepted by checkVerificationPolicy
  RequireVerify,\* items for which requireVerify holds
  SkipVerify    \* items matched by a verification exemption

ASSUME /\ Certs \subseteq Items
       /\ Anchors \subseteq Certs
       /\ KeyLocator \in [Items -> Certs]
       /\ GoodSig \subseteq Items
       /\ PolicyOK \subseteq Items
       /\ RequireVerify \subseteq Items
       /\ SkipVerify \subseteq Items

(***************************************************************************)
(* SignedChain(x, n): x has a good signature on a policy-compliant name,   *)
(* and its signer is an anchor or itself has a signed chain (at most n     *)
(* more links; n = |Items| is enough to visit every certificate).          *)
(***************************************************************************)
RECURSIVE SignedChain(_, _)
SignedChain(x, n) ==
  /\ x \in GoodSig
  /\ x \in PolicyOK
  /\ \/ KeyLocator[x] \in Anchors
     \/ n > 0 /\ SignedChain(KeyLocator[x], n - 1)

Trusted(x) == SignedChain(x, Cardinality(Items))

(***************************************************************************)
(* What verifyData may report as verified: exempt data that no rule       *)
(* requires verifying, or data with a signed chain to an anchor.           *)
(***************************************************************************)
Acceptable(x) ==
  \/ x \in SkipVerify /\ x \notin RequireVerify
  \/ Trusted(x)
=============================================================================
