--------------------------- MODULE KeyChainFacade ---------------------------
(***************************************************************************)
(* The signing side of Keychain (keychain.cc 93-201) composed with its     *)
(* verification loop (module KeyChain).  The two meet in the              *)
(* IdentityManager: installCertificate's verified callback is              *)
(* IdentityManager::addCertificate, and signByIdentity signs with the      *)
(* default certificate the IdentityManager holds for an identity.          *)
(*                                                                         *)
(* The IdentityManager and the PolicyManager are not in the repository:    *)
(* their answers are constants (InferSigningIdentity, SigningPolicy) or    *)
(* a map from identity to the last default certificate set (spec 4.7).    *)
(* Each signing call is synchronous: one action.  A call that throws       *)
(* SecException leaves the data unsigned; the variable signature records  *)
(* what the last call produced.                                            *)
(***************************************************************************)
EXTENDS KeyChain

CONSTANTS
  Identities,           \* identity names the application signs with
  OwnCerts,             \* certificates of the application's own keys
  NoName,               \* the empty Name (size() == 0)
  IdentityOf,           \* IdentityOf[c]: identity whose key c certifies
  SignData,             \* Data objects handed to sign / signByIdentity
  ABlob,                \* a Blob handed to sign / signByIdentity
  InferSigningIdentity, \* policyManager.inferSigningIdentity(dataName)
  SigningPolicy,        \* pairs <<data, cert>> checkSigningPolicy accepts
  SecException          \* the SecException thrown (a model value)

ASSUME /\ OwnCerts \subseteq Certs
       /\ IdentityOf \in [OwnCerts -> Identities]
       /\ SignData \subseteq Items
       /\ InferSigningIdentity \in [SignData -> Identities \cup {NoName}]
       /\ SigningPolicy \subseteq SignData \X Certs

VARIABLES
  defaultCert, \* IdentityManager: default certificate name per identity
  signature    \* what the last signing call produced

fvars == <<defaultCert, signature>>
allvars == <<vars, fvars>>

NoSig == [via |-> "none"]

\* The signature a call produced: how it chose the certificate and, for
\* signByIdentity, the certificate name put in the KeyLocator.
Signatures ==
  [via : {"identity"}, cert : OwnCerts]
  \cup {[via |-> "certificate"]}

FacadeTypeOK ==
  /\ TypeOK
  /\ defaultCert \in [Identities -> OwnCerts \cup {NoName}]
  /\ signature \in Signatures \cup {NoSig, SecException}

FacadeInit ==
  /\ Init
  /\ defaultCert = [i \in Identities |-> NoName]
  /\ signature = NoSig

\* IdentityManager::getDefaultCertificateNameByIdentity; the empty
\* identity has no certificate.
DefaultCertName(identity) ==
  IF identity = NoName THEN NoName ELSE defaultCert[identity]

\* Keychain::setDefaultCertificateForKey: delegated to the IdentityManager,
\* which makes c the default of its key's identity.  Neither keychain.cc
\* nor spec.md requires c to have been installed first, so any
\* certificate name may be passed, also one whose install is still running.
setDefaultCertificateForKey(c) ==
  /\ defaultCert' = [defaultCert EXCEPT ![IdentityOf[c]] = c]
  /\ UNCHANGED signature

\* Keychain::sign(data, certName) and sign(blob, certName): delegated to
\* signByCertificate, with no policy check.
sign(x, c) ==
  /\ signature' = [via |-> "certificate"]
  /\ UNCHANGED defaultCert

\* Keychain::signByIdentity(Data &, identity): an empty identity is
\* inferred from the data name; no default certificate, or one the signing
\* policy rejects for the data name, throws SecException.
signByIdentity(d, identity) ==
  LET certName == DefaultCertName(IF identity = NoName
                                  THEN InferSigningIdentity[d] ELSE identity)
  IN  /\ signature' =
           IF certName = NoName THEN SecException
           ELSE IF <<d, certName>> \notin SigningPolicy THEN SecException
           ELSE [via |-> "identity", cert |-> certName]
      /\ UNCHANGED defaultCert

\* Keychain::signByIdentity(const Blob &, identity): no inference and no
\* signing policy; only a missing default certificate throws.
signBlobByIdentity(identity) ==
  LET certName == DefaultCertName(identity)
  IN  /\ signature' = IF certName = NoName THEN SecException
                      ELSE [via |-> "identity", cert |-> certName]
      /\ UNCHANGED defaultCert

\* A signing call from the application; the verification state is left
\* alone.
SignCall ==
  /\ \/ \E c \in OwnCerts : setDefaultCertificateForKey(c)
     \/ \E x \in SignData \cup {ABlob}, c \in OwnCerts : sign(x, c)
     \/ \E d \in SignData, i \in Identities \cup {NoName} : signByIdentity(d, i)
     \/ \E i \in Identities \cup {NoName} : signBlobByIdentity(i)
  /\ UNCHANGED vars

FacadeNext ==
  \/ Next /\ UNCHANGED fvars
  \/ SignCall

FacadeSpec == FacadeInit /\ [][FacadeNext]_allvars

\* as FairSpec: every outstanding Interest is eventually answered
FacadeFairSpec ==
  FacadeSpec /\ \A t \in Tasks : WF_allvars(Answer(t) /\ UNCHANGED fvars)

=============================================================================
