----------------------------- MODULE MCHelpers -----------------------------
(* Small instances of two helpers that stand alone, in one run: the          *)
(* controller's locks, and the client's tunnel.  They share nothing, so a    *)
(* behaviour is one of either.                                               *)
EXTENDS KeyedLocks, PortForward

VARIABLE part

HelpersInit ==
  /\ LocksInit
  /\ \/ part = "locks"
        /\ eligible = {} /\ closed = FALSE /\ faults = MaxFaults
        /\ loop = [pc |-> "failed", port |-> 0] /\ tunnel = NoTunnel
     \/ part = "forward" /\ ForwardInit

HelpersNext ==
  /\ UNCHANGED part
  /\ \/ part = "locks" /\ LocksNext /\ UNCHANGED forwardVars
     \/ part = "forward" /\ ForwardNext /\ UNCHANGED lockVars

HelpersSpec ==
  /\ HelpersInit /\ [][HelpersNext]_<<part, lockVars, forwardVars>>
  /\ part = "locks" => LocksFairness
  /\ part = "forward" => ForwardFairness

=============================================================================
