CONSTANTS
  A = A  C1 = C1  C2 = C2  B = B  U = U
  D1 = D1  D2 = D2  D3 = D3  D4 = D4  D5 = D5  E = E  N = N
  NoItem = NoItem
  I1 = I1  NoName = NoName  ABlob = ABlob  SecException = SecException
  Identities = {I1}
  OwnCerts = {C1}
  IdentityOf <- MCIdentityOf
  SignData <- MCSignData
  InferSigningIdentity <- MCInfer
  SigningPolicy <- MCSigningPolicy
  Tasks = {t1, t2, t3}
  Items <- MCItems
  Certs <- MCCerts
  Anchors = {A}
  KeyLocator <- MCKeyLocator
  GoodSig <- MCGoodSig
  PolicyOK <- MCPolicyOK
  RequireVerify <- MCRequireVerify
  SkipVerify = {E, D4}
  Targets <- MCTargets
  InstallTargets = {}
  Published <- MCPublished
  NotBefore <- MCNotBefore
  NotAfter <- MCNotAfter
  MaxStep = 2
  MaxTime = 1
SPECIFICATION FacadeSpec
PROPERTY VerdictSignerValid
CHECK_DEADLOCK FALSE
