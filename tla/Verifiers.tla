------------------------------ MODULE Verifiers ------------------------------
(***************************************************************************)
(* The strategy verifiers: which tasks a thread may start.  `status` maps  *)
(* a thread to its entry of the code's map; a missing entry is 0, as       *)
(* Verify inserts it.                                                      *)
(***************************************************************************)
EXTENDS Naturals

(* runtime/include/strategy_verifier.h, DefaultStrategyVerifier. *)
DefaultVerify(status, c, i, is_new) == TRUE
DefaultOnFinished(status, c, i) == status

(* Mutant: Unlock is always allowed. *)
MutexVerifyUnlockAlways(status, c, i, is_new) ==
  is_new => c.name = "Unlock" \/ status[i] = 0

(* verifying/blocking/verifiers/mutex_verifier.h, MutexVerifier. *)
MutexVerify(status, c, i, is_new) ==
  is_new => status[i] = (CASE c.name = "Lock" -> 0 [] c.name = "Unlock" -> 1)

MutexOnFinished(status, c, i) ==
  [status EXCEPT ![i] = CASE c.name = "Lock" -> 1 [] c.name = "Unlock" -> 0]

(* verifying/blocking/verifiers/shared_mutex_verifier.h: the lock a thread *)
(* holds is FREE, WRITER or READER.  A task that goes on is asked about    *)
(* like a new one.                                                         *)
FREE == 0
WRITER == 1
READER == 4

SharedMutexVerify(status, c, i, is_new) ==
  status[i] = (CASE c.name \in {"lock", "lock_shared"} -> FREE
                 [] c.name = "unlock" -> WRITER
                 [] c.name = "unlock_shared" -> READER)

SharedMutexOnFinished(status, c, i) ==
  [status EXCEPT ![i] = CASE c.name = "lock" -> WRITER
                          [] c.name = "lock_shared" -> READER
                          [] OTHER -> FREE]
=============================================================================
