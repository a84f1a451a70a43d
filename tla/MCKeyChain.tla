----------------------------- MODULE MCKeyChain -----------------------------
(***************************************************************************)
(* A signing graph for checking KeyChain:                                  *)
(*   A  trust anchor                                                       *)
(*   C1 signed by A;  C2 signed by C1, valid only at time 0                *)
(*   B  signed by C1 with a bad signature, handed to verifyData and to     *)
(*      installCertificate; C1 is installed too (both require verifying)   *)
(*   U  signed by A, never served by the network                           *)
(*   D1 signed by C2 (two fetches: more than MaxStep = 2 allows unless a   *)
(*      certificate is already cached), D2 signed by C1, D3 signed by U,    *)
(*   D4 signed by A, rejected by the policy and also exempt,               *)
(*   D5 signed by B: B is fetched as a signer and must never be cached     *)
(*   E  exempt from verification, N neither required nor exempt.           *)
(* Signing: C1 certifies the key of identity I1; D2 and N are signed.    *)
(* The signing policy lets C1 sign D2 only; D2's identity is inferred as  *)
(* I1, N's as the empty name.                                             *)
(***************************************************************************)
EXTENDS KeyChainFacade, TLC

CONSTANTS A, C1, C2, B, U, D1, D2, D3, D4, D5, E, N, I1

MCItems == {A, C1, C2, B, U, D1, D2, D3, D4, D5, E, N}
MCCerts == {A, C1, C2, B, U}

MCKeyLocator ==
  (D1 :> C2 @@ C2 :> C1 @@ C1 :> A @@ A :> A @@ D2 :> C1 @@ D3 :> U
   @@ U :> A @@ B :> C1 @@ D4 :> A @@ D5 :> B @@ E :> A @@ N :> A)

MCGoodSig == MCItems \ {B}
MCPolicyOK == MCItems \ {D4}
MCRequireVerify == {D1, D2, D3, D4, D5, B, C1}
MCTargets == {D1, D2, D3, D4, D5, B, E, N}
MCPublished == MCCerts \ {U}
MCNotBefore == [c \in MCCerts |-> 0]
MCIdentityOf == C1 :> I1
MCSignData == {D2, N}
MCInfer == D2 :> I1 @@ N :> NoName
MCSigningPolicy == {<<D2, C1>>}
MCNotAfter == [c \in MCCerts |-> IF c = C2 THEN 0 ELSE 1]
=============================================================================
