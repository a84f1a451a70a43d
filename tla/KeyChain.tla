------------------------------ MODULE KeyChain ------------------------------
(***************************************************************************)
(* Keychain::verifyData and its callback-driven recursion (keychain.cc).   *)
(*                                                                         *)
(* Several verification tasks run on the executor; each callback runs to  *)
(* completion, so one action is one callback.  A task is either settled    *)
(* synchronously inside verifyData, or it has one Interest outstanding for *)
(* the certificate named by the KeyLocator of the last item of its stack.  *)
(* The stack holds the items whose onCertificateVerified closure is        *)
(* waiting (the chain of bound RecursiveVerifiedCallbacks); the transport  *)
(* answers an Interest with the certificate or a timeout.  The certificate *)
(* cache is shared by all tasks.                                           *)
(***************************************************************************)
EXTENDS KeyChainTrust, Sequences, SequencesExt

CONSTANTS
  Tasks,        \* concurrent verifyData calls
  Targets,      \* items handed to verifyData
  InstallTargets, \* certificates handed to installCertificate
  NoItem,       \* target of a task not started yet
  Published,    \* certificates the network answers an Interest for
  NotBefore,    \* NotBefore[c], NotAfter[c]: validity window of c
  NotAfter,
  MaxStep,      \* m_maxStep (100 in the constructor; small here)
  MaxTime       \* bound of the clock

ASSUME /\ Targets \subseteq Items /\ InstallTargets \subseteq Certs
       /\ Published \subseteq Certs
       /\ MaxStep \in Nat \ {0}
       /\ NotBefore \in [Certs -> 0..MaxTime]
       /\ NotAfter \in [Certs -> 0..MaxTime]

\* the retry count bound in the first closure of stepVerify
InterestRetries == 3

VARIABLES
  now,      \* current time (seconds, abstracted)
  cache,    \* names held by m_certificateCache
  phase,    \* phase[t]: "idle", "fetching", "verified" or "failed"
  target,   \* the item verifyData was called with
  stack,    \* items waiting for their signer's certificate
  steps,    \* stepCount of the stepVerify that sent the Interest
  retry,    \* retry argument bound into the pending timeout closure
  checks,   \* number of verifySignature calls made for the task
  callbacks \* the pair verifyData was given: "user" (the caller's
            \* onVerified/onFailed) or "install" (installCertificate's
            \* addCertificate binding and an empty VerifyFailCallback)

vars == <<now, cache, phase, target, stack, steps, retry, checks, callbacks>>

Settled == {"verified", "failed"}

\* Certificate::isTooEarly / isTooLate against the current time
Valid(c) == c \in Certs /\ NotBefore[c] <= now /\ now <= NotAfter[c]

TypeOK ==
  /\ now \in 0..MaxTime
  /\ cache \subseteq Certs
  /\ phase \in [Tasks -> {"idle", "fetching"} \cup Settled]
  /\ target \in [Tasks -> Items \cup {NoItem}]
  /\ stack \in [Tasks -> Seq(Items)]
  /\ steps \in [Tasks -> 0..MaxStep]
  /\ retry \in [Tasks -> 0..InterestRetries]
  /\ checks \in [Tasks -> Nat]
  /\ callbacks \in [Tasks -> {"user", "install"}]

Init ==
  /\ now = 0
  /\ cache = {}
  /\ phase = [t \in Tasks |-> "idle"]
  /\ target = [t \in Tasks |-> NoItem]
  /\ stack = [t \in Tasks |-> <<>>]
  /\ steps = [t \in Tasks |-> 0]
  /\ retry = [t \in Tasks |-> 0]
  /\ checks = [t \in Tasks |-> 0]
  /\ callbacks = [t \in Tasks |-> "user"]

\* verifySignature(data, publickey): RSA/SHA-256 verification of the signed
\* portion under the signer's key, abstracted to its verdict.
verifySignature(x) == x \in GoodSig

(***************************************************************************)
(* onCertificateVerified, applied down the chain of bound closures once    *)
(* signer is verified: cache signer if it is in its window, verify the     *)
(* waiting item with signer's key, then continue with that item as the     *)
(* next signer; the empty stack is the caller's verifiedCallback.  Yields  *)
(* the verdict, the new cache and the new verifySignature count.           *)
(***************************************************************************)
RECURSIVE onCertificateVerified(_, _, _, _)
onCertificateVerified(signer, stk, c, n) ==
  IF stk = <<>>
  THEN [ok |-> TRUE, cache |-> c, checks |-> n]
  ELSE LET x  == Last(stk)
           c2 == IF Valid(signer) THEN c \cup {signer} ELSE c
       IN  IF verifySignature(x)
           THEN onCertificateVerified(x, Front(stk), c2, n + 1)
           ELSE [ok |-> FALSE, cache |-> c2, checks |-> n + 1]

\* the task's verifiedCallback or failureCallback runs; the task is settled
Settle(t, verdict, c, n) ==
  /\ phase' = [phase EXCEPT ![t] = IF verdict THEN "verified" ELSE "failed"]
  /\ cache' = c
  /\ checks' = [checks EXCEPT ![t] = n]
  /\ stack' = [stack EXCEPT ![t] = <<>>]
  /\ UNCHANGED <<steps, retry>>

failureCallback(t) == Settle(t, FALSE, cache, checks[t])

\* Variant that trusts an item whose signer is an anchor or cached without
\* checking its signature.
stepVerify_NoSigCheck(t, x, isFirst, sc) ==
  LET checked == sc # 0 /\ x \in PolicyOK /\ (isFirst \/ Valid(x))
  IN
  \/ sc = 0 /\ failureCallback(t)
  \/ sc # 0 /\ x \notin PolicyOK /\ failureCallback(t)
  \/ sc # 0 /\ x \in PolicyOK /\ ~isFirst /\ ~Valid(x) /\ failureCallback(t)
  \/ /\ checked /\ KeyLocator[x] \in Anchors \cup cache
     /\ LET r == onCertificateVerified(x, stack[t], cache, checks[t] + 1)
        IN  Settle(t, r.ok, r.cache, r.checks)
  \/ /\ checked /\ KeyLocator[x] \notin Anchors \cup cache
     /\ phase' = [phase EXCEPT ![t] = "fetching"]
     /\ stack' = [stack EXCEPT ![t] = Append(@, x)]
     /\ steps' = [steps EXCEPT ![t] = sc]
     /\ retry' = [retry EXCEPT ![t] = InterestRetries]
     /\ UNCHANGED <<cache, checks>>

(***************************************************************************)
(* Keychain::stepVerify(x, isFirst, sc) for task t, with the task's stack  *)
(* as the bound preRecurVerifyCallback.  Early returns in source order.    *)
(***************************************************************************)
stepVerify(t, x, isFirst, sc) ==
  LET kn      == KeyLocator[x]
      checked == sc # 0 /\ x \in PolicyOK /\ (isFirst \/ Valid(x))
  IN
  \/ sc = 0 /\ failureCallback(t)
  \/ sc # 0 /\ x \notin PolicyOK /\ failureCallback(t)
  \/ sc # 0 /\ x \in PolicyOK /\ ~isFirst /\ ~Valid(x) /\ failureCallback(t)
  \* kn is a trust anchor or cached: verifySignature with that key
  \/ /\ checked /\ kn \in Anchors \cup cache /\ verifySignature(x)
     /\ LET r == onCertificateVerified(x, stack[t], cache, checks[t] + 1)
        IN  Settle(t, r.ok, r.cache, r.checks)
  \/ /\ checked /\ kn \in Anchors \cup cache /\ ~verifySignature(x)
     /\ Settle(t, FALSE, cache, checks[t] + 1)
  \* otherwise send an Interest for kn; x waits for its signer
  \/ /\ checked /\ kn \notin Anchors \cup cache
     /\ phase' = [phase EXCEPT ![t] = "fetching"]
     /\ stack' = [stack EXCEPT ![t] = Append(@, x)]
     /\ steps' = [steps EXCEPT ![t] = sc]
     /\ retry' = [retry EXCEPT ![t] = InterestRetries]
     /\ UNCHANGED <<cache, checks>>

\* the certificate named by the last waiting item's KeyLocator
Awaited(t) == KeyLocator[Last(stack[t])]

\* Variant that tests skipVerify before requireVerify, as spec 4.7 lists them.
verifyData_SkipFirst(t, d) ==
  /\ phase[t] = "idle"
  /\ target' = [target EXCEPT ![t] = d]
  /\ UNCHANGED now
  /\ \/ d \in SkipVerify /\ Settle(t, TRUE, cache, checks[t])
     \/ d \notin SkipVerify /\ d \in RequireVerify
        /\ stepVerify(t, d, TRUE, MaxStep)
     \/ d \notin RequireVerify /\ d \notin SkipVerify
        /\ failureCallback(t)

(***************************************************************************)
(* Keychain::verifyData: requireVerify is tested before skipVerify.        *)
(***************************************************************************)
verifyData(t, d) ==
  /\ phase[t] = "idle"
  /\ target' = [target EXCEPT ![t] = d]
  /\ UNCHANGED now
  /\ \/ d \in RequireVerify /\ stepVerify(t, d, TRUE, MaxStep)
     \/ d \notin RequireVerify /\ d \in SkipVerify
        /\ Settle(t, TRUE, cache, checks[t])
     \/ d \notin RequireVerify /\ d \notin SkipVerify
        /\ failureCallback(t)

\* Variant whose closure binds stepCount instead of stepCount-1.
OnCertificateData_NoDecrement(t) ==
  /\ phase[t] = "fetching"
  /\ Awaited(t) \in Published
  /\ stepVerify(t, Awaited(t), FALSE, steps[t])
  /\ UNCHANGED <<now, target>>

\* the unverified-data closure: the certificate arrives, stepVerify recurses
OnCertificateData(t) ==
  /\ phase[t] = "fetching"
  /\ Awaited(t) \in Published
  /\ stepVerify(t, Awaited(t), FALSE, steps[t] - 1)
  /\ UNCHANGED <<now, target>>

\* Variant testing retry >= 0: one re-expression too many.
onCertificateInterestTimeout_RetryGeq(t) ==
  /\ phase[t] = "fetching"
  /\ UNCHANGED <<now, target>>
  /\ \/ retry[t] >= 0 /\ retry' = [retry EXCEPT ![t] = @ - 1]
        /\ UNCHANGED <<cache, phase, stack, steps, checks>>
     \/ retry[t] < 0 /\ failureCallback(t)

\* Variant whose re-expressed closure binds retry instead of retry - 1.
onCertificateInterestTimeout_NoDecrement(t) ==
  /\ phase[t] = "fetching"
  /\ UNCHANGED <<now, target>>
  /\ \/ retry[t] > 0 /\ UNCHANGED <<retry, cache, phase, stack, steps, checks>>
     \/ retry[t] = 0 /\ failureCallback(t)

\* Keychain::onCertificateInterestTimeout: re-express or give up
onCertificateInterestTimeout(t) ==
  /\ phase[t] = "fetching"
  /\ UNCHANGED <<now, target>>
  /\ \/ retry[t] > 0 /\ retry' = [retry EXCEPT ![t] = @ - 1]
        /\ UNCHANGED <<cache, phase, stack, steps, checks>>
     \/ retry[t] = 0 /\ failureCallback(t)

\* time passes; certificates enter and leave their validity windows
Tick ==
  /\ now < MaxTime
  /\ now' = now + 1
  /\ UNCHANGED <<cache, phase, target, stack, steps, retry, checks, callbacks>>

\* the transport answers the task's outstanding Interest
Answer(t) ==
  /\ OnCertificateData(t) \/ onCertificateInterestTimeout(t)
  /\ UNCHANGED callbacks

\* an application calls verifyData with its own callbacks
VerifyCall(t, d) ==
  /\ verifyData(t, d)
  /\ callbacks' = [callbacks EXCEPT ![t] = "user"]

\* Keychain::installCertificate: verifyData on the certificate, with
\* IdentityManager::addCertificate bound as the verified callback and a
\* default-constructed VerifyFailCallback as the failure callback.
installCertificate(t, c) ==
  /\ verifyData(t, c)
  /\ callbacks' = [callbacks EXCEPT ![t] = "install"]

\* the certificates addCertificate has stored in the IdentityManager
Installed == {target[t] : t \in {u \in Tasks : callbacks[u] = "install"
                                              /\ phase[u] = "verified"}}

Next ==
  \/ \E t \in Tasks, d \in Targets : VerifyCall(t, d)
  \/ \E t \in Tasks, c \in InstallTargets : installCertificate(t, c)
  \/ \E t \in Tasks : Answer(t)
  \/ Tick

Spec == Init /\ [][Next]_vars

\* ccnd eventually delivers Data or expires every expressed Interest
FairSpec == Spec /\ \A t \in Tasks : WF_vars(Answer(t))

-----------------------------------------------------------------------------
(***************************************************************************)
(* Properties.                                                             *)
(***************************************************************************)

\* The spec's bound on the recursion of stepVerify: a verification task
\* makes at most m_maxStep verifySignature calls, however long the
\* KeyLocator chain and whatever the cache holds when it starts.
SignatureChecksBounded == \A t \in Tasks : checks[t] <= MaxStep

\* Every certificate onCertificateVerified puts in the shared cache has a
\* chain of good signatures to a trust anchor, whichever task fetched it
\* and however the verifications of the tasks interleave.
CacheOnlyTrusted == \A c \in cache : Trusted(c)

\* Every verifyData call ends in its verifiedCallback or failureCallback:
\* the timeout retries and the step budget bound the Interest exchanges.
EveryVerificationSettles ==
  \A t \in Tasks : phase[t] # "idle" ~> phase[t] \in Settled

\* The detailed verifier implements the abstract one: the verdict is given
\* once, and onVerified only for exempt data or data with a trusted chain.
Abstract == INSTANCE KeyChainVerifier WITH
  Targets <- Targets \cup InstallTargets,
  status  <- [t \in Tasks |-> IF phase[t] = "fetching" THEN "pending"
                                                      ELSE phase[t]],
  subject <- target

VerifierRefined == Abstract!ASpec

FailuresReportedThroughOnFailed ==
  \A t \in Tasks : phase[t] = "failed" => callbacks[t] = "user"

\* Spec section 4.7: data matched by a verification exemption is reported
\* verified by verifyData, whatever the verification rules say.
ExemptDataVerified ==
  \A t \in Tasks :
    target[t] \in SkipVerify /\ phase[t] \in Settled => phase[t] = "verified"

\* Spec section 4.7: a signer certificate outside its validity window is
\* fatal; when stepVerify reports data verified, the certificate whose key
\* checked the data's signature is within its window at that moment.
VerdictSignerValid ==
  [][\A t \in Tasks :
       /\ phase[t] # "verified" /\ phase'[t] = "verified"
       /\ target'[t] \in RequireVerify
       /\ KeyLocator[target'[t]] \notin Anchors
       => Valid(KeyLocator[target'[t]])]_vars
=============================================================================
