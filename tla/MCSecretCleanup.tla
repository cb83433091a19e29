-------------------------- MODULE MCSecretCleanup --------------------------
(* A small instance of SecretCleanup for TLC.                               *)
EXTENDS SecretCleanup, TLC

(* A Secret that somebody replaces is looked at without a second Job and     *)
(* without faults.                                                           *)
ReplacedAlone == secret.uid = 2 => Current.uid + faults <= 1
=============================================================================
