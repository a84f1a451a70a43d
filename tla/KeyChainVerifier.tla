-------------------------- MODULE KeyChainVerifier --------------------------
(***************************************************************************)
(* Abstract specification of Keychain::verifyData: what a caller may       *)
(* observe.  Each verification task is started once on one item and ends   *)
(* in exactly one of onVerified / onFailed, after which it never changes.  *)
(* onVerified is only allowed for Acceptable items; onFailed is always     *)
(* allowed (timeouts, step budget, expired certificates).                  *)
(***************************************************************************)
EXTENDS KeyChainTrust

CONSTANTS Tasks, Targets, NoItem

VARIABLES status, subject

Status == {"idle", "pending", "verified", "failed"}

AInit ==
  /\ status = [t \in Tasks |-> "idle"]
  /\ subject = [t \in Tasks |-> NoItem]

\* verifyData is called; the verdict may already be given synchronously.
Begin(t, d) ==
  /\ status[t] = "idle"
  /\ subject' = [subject EXCEPT ![t] = d]
  /\ \/ status' = [status EXCEPT ![t] = "pending"]
     \/ status' = [status EXCEPT ![t] = "failed"]
     \/ Acceptable(d) /\ status' = [status EXCEPT ![t] = "verified"]

Accept(t) ==
  /\ status[t] = "pending"
  /\ Acceptable(subject[t])
  /\ status' = [status EXCEPT ![t] = "verified"]
  /\ UNCHANGED subject

Reject(t) ==
  /\ status[t] = "pending"
  /\ status' = [status EXCEPT ![t] = "failed"]
  /\ UNCHANGED subject

ANext ==
  \/ \E t \in Tasks, d \in Targets : Begin(t, d)
  \/ \E t \in Tasks : Accept(t) \/ Reject(t)

ASpec == AInit /\ [][ANext]_<<status, subject>>
=============================================================================
