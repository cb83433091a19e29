---------------------------- MODULE PortForward ----------------------------
(***************************************************************************)
(* client/portforward.go: the tunnel from a command to the controller's    *)
(* Service.  `loop` is PortForward.run and the call of startPortForward it  *)
(* is in; `tunnel` is a portForwardTunnel with its goroutines: the one that *)
(* forwards, the observer of readiness and the watcher of the context.      *)
(* A step is one critical section of the tunnel's mutex, one channel         *)
(* operation or one call.  What is left of older tunnels touches nobody.    *)
(***************************************************************************)
EXTENDS Naturals

CONSTANTS
  Pods,       \* names of the Service's Pods, in order
  Ports,      \* local ports the kernel may pick
  MaxFaults   \* bound on failed calls, broken connections and timeouts

ASSUME ForwardAssumption ==
  /\ Pods \subseteq Nat /\ Ports \subseteq Nat \ {0} /\ Ports # {} /\ MaxFaults \in Nat

VARIABLES
  eligible,  \* Pods that are running, ready and not being deleted
  closed,    \* the forward's context: closed by its owner
  loop,      \* where run is, and localPort (0 before the first tunnel)
  tunnel,
  faults

forwardVars == <<eligible, closed, loop, tunnel, faults>>

NoTunnel == [fwd |-> "none", pod |-> 0, bound |-> 0, broken |-> FALSE, cancelled |-> FALSE,
             once |-> FALSE, stopping |-> FALSE, finished |-> FALSE, done |-> FALSE,
             waitErr |-> FALSE, observer |-> "select", port |-> 0, err |-> FALSE,
             ready |-> FALSE, readyErr |-> FALSE, localPort |-> 0]

Fault == faults < MaxFaults /\ faults' = faults + 1
At(pc) == loop.pc = pc
Go(pc) == loop' = [loop EXCEPT !.pc = pc]

ForwardInit ==
  /\ eligible \in SUBSET Pods /\ closed = FALSE /\ faults = 0
  /\ loop = [pc |-> "resolve", port |-> 0] /\ tunnel = NoTunnel

-----------------------------------------------------------------------------
(* portForwardTunnel.                                                       *)

(* requestStop, under stopOnce. *)
RequestStop(t) ==
  IF t.once \/ t.finished THEN [t EXCEPT !.once = TRUE]
  ELSE [t EXCEPT !.once = TRUE, !.stopping = TRUE, !.cancelled = TRUE]

Alive == tunnel.fwd \in {"dialing", "bound"}

(* Mutant: a replacement asks for any port. *)
BindAnyPort(port) ==
  /\ tunnel.fwd = "dialing"
  /\ tunnel' = [tunnel EXCEPT !.fwd = "bound", !.bound = port]
  /\ UNCHANGED <<eligible, closed, loop, faults>>

(* ForwardPorts: the listener is bound and ready is closed. *)
Bind(port) ==
  /\ tunnel.fwd = "dialing"
  /\ loop.port \in {0, port}
  /\ tunnel' = [tunnel EXCEPT !.fwd = "bound", !.bound = port]
  /\ UNCHANGED <<eligible, closed, loop, faults>>

(* ForwardPorts returns: it is told to, its Pod is gone, or its port is     *)
(* taken or its connection lost.                                            *)
ForwardReturns ==
  /\ Alive
  /\ \/ tunnel.cancelled /\ faults' = faults /\ tunnel' = [tunnel EXCEPT !.fwd = "ended"]
     \/ /\ \/ tunnel.pod \notin eligible /\ faults' = faults
           \/ Fault
        /\ tunnel' = [tunnel EXCEPT !.fwd = "ended", !.broken = TRUE]
  /\ UNCHANGED <<eligible, closed, loop>>

(* run, under the mutex, then close(done). *)
Finish ==
  /\ tunnel.fwd = "ended" /\ ~tunnel.finished
  /\ tunnel' = [tunnel EXCEPT !.finished = TRUE, !.waitErr = @ \/ (tunnel.broken /\ ~tunnel.stopping)]
  /\ UNCHANGED <<eligible, closed, loop, faults>>

CloseDone ==
  /\ tunnel.finished /\ ~tunnel.done
  /\ tunnel' = [tunnel EXCEPT !.done = TRUE]
  /\ UNCHANGED <<eligible, closed, loop, faults>>

(* observeReady: both channels may be ready. *)
ObserveBound ==
  /\ tunnel.observer = "select" /\ tunnel.bound # 0
  /\ \/ /\ tunnel' = [tunnel EXCEPT !.observer = "mark", !.port = tunnel.bound]
        /\ faults' = faults
     \/ /\ Fault
        /\ tunnel' = [tunnel EXCEPT !.observer = "mark and stop", !.err = TRUE]
  /\ UNCHANGED <<eligible, closed, loop>>

ObserveDone ==
  /\ tunnel.observer = "select" /\ tunnel.done
  /\ tunnel' = [tunnel EXCEPT !.observer = "mark", !.err = TRUE]
  /\ UNCHANGED <<eligible, closed, loop, faults>>

(* markReady, then requestStop if the port could not be read. *)
MarkReady ==
  /\ tunnel.observer \in {"mark", "mark and stop"}
  /\ LET late == tunnel.finished /\ (~tunnel.err \/ tunnel.waitErr)
     IN tunnel' = [tunnel EXCEPT !.ready = TRUE, !.readyErr = tunnel.err \/ late,
                                 !.localPort = IF late THEN 0 ELSE tunnel.port,
                                 !.observer = IF @ = "mark" THEN "done" ELSE "stop"]
  /\ UNCHANGED <<eligible, closed, loop, faults>>

StopUnread ==
  /\ tunnel.observer = "stop"
  /\ tunnel' = [RequestStop(tunnel) EXCEPT !.observer = "done"]
  /\ UNCHANGED <<eligible, closed, loop, faults>>

(* The goroutine that waits for the context or the end. *)
Watch ==
  /\ closed /\ tunnel.fwd # "none" /\ ~tunnel.done /\ ~tunnel.once
  /\ tunnel' = RequestStop(tunnel)
  /\ UNCHANGED <<eligible, closed, loop, faults>>

TunnelNext ==
  \/ \E port \in Ports : Bind(port)
  \/ ForwardReturns \/ Finish \/ CloseDone
  \/ ObserveBound \/ ObserveDone \/ MarkReady \/ StopUnread \/ Watch

-----------------------------------------------------------------------------
(* startPortForward, called with the port kept so far.                       *)

(* Mutant: a replacement is tried once. *)
StartFailsForGood == Go("failed")

(* The first failure is the caller's, a later one is tried again. *)
StartFails == IF loop.port = 0 THEN Go("failed") ELSE Go("backoff")

(* The setup context ends with the forward's or at StartupTimeout. *)
SetupEnds == (closed /\ faults' = faults) \/ Fault

(* resolvePortForwardTarget polls for the first eligible Pod; setup makes a *)
(* forwarder for it and newPortForward starts its goroutines.               *)
Resolve ==
  /\ At("resolve")
  /\ \E first \in eligible :
       /\ \A pod \in eligible : first <= pod
       /\ tunnel' = [NoTunnel EXCEPT !.fwd = "dialing", !.pod = first]
  /\ Go("ready")
  /\ UNCHANGED <<eligible, closed, faults>>

ResolveFails ==
  /\ At("resolve") /\ SetupEnds
  /\ StartFails
  /\ UNCHANGED <<eligible, closed, tunnel>>

(* WaitReady; run keeps the port of the first tunnel. *)
Ready ==
  /\ At("ready") /\ tunnel.ready
  /\ IF tunnel.readyErr THEN Go("abandon")
     ELSE IF loop.port = 0 THEN loop' = [pc |-> "wait", port |-> tunnel.localPort]
     ELSE IF closed THEN Go("discard") ELSE Go("wait")
  /\ UNCHANGED <<eligible, closed, tunnel, faults>>

ReadyFails ==
  /\ At("ready") /\ SetupEnds
  /\ Go("abandon")
  /\ UNCHANGED <<eligible, closed, tunnel>>

(* Mutant: a tunnel that did not become ready is left to itself. *)
AbandonSilently ==
  /\ At("abandon") \/ At("discard")
  /\ IF At("abandon") THEN StartFails ELSE Go("done")
  /\ UNCHANGED <<eligible, closed, tunnel, faults>>

(* Close of the tunnel: requestStop, then Wait. *)
Abandon ==
  /\ At("abandon") \/ At("discard")
  /\ tunnel' = RequestStop(tunnel)
  /\ IF At("abandon") THEN Go("abandoned") ELSE Go("discarded")
  /\ UNCHANGED <<eligible, closed, faults>>

Abandoned ==
  /\ At("abandoned") \/ At("discarded")
  /\ tunnel.done
  /\ IF At("abandoned") THEN StartFails ELSE Go("done")
  /\ UNCHANGED <<eligible, closed, tunnel, faults>>

-----------------------------------------------------------------------------
(* PortForward.run.                                                         *)

TunnelEnds ==
  /\ At("wait") /\ tunnel.done
  /\ IF closed THEN Go("done") ELSE Go("resolve")
  /\ UNCHANGED <<eligible, closed, tunnel, faults>>

BackoffEnds ==
  /\ At("backoff")
  /\ IF closed THEN Go("done") ELSE Go("resolve")
  /\ UNCHANGED <<eligible, closed, tunnel, faults>>

LoopNext ==
  \/ Resolve \/ ResolveFails \/ Ready \/ ReadyFails \/ Abandon \/ Abandoned
  \/ TunnelEnds \/ BackoffEnds

-----------------------------------------------------------------------------
(* The owner closes the forward, or its own context ends; Pods come and go. *)

Close ==
  /\ ~closed /\ closed' = TRUE
  /\ UNCHANGED <<eligible, loop, tunnel, faults>>

PodStarts ==
  /\ eligible # Pods /\ \E p \in Pods \ eligible : eligible' = eligible \cup {p}
  /\ UNCHANGED <<closed, loop, tunnel, faults>>

PodStops ==
  /\ Fault /\ \E p \in eligible : eligible' = eligible \ {p}
  /\ UNCHANGED <<closed, loop, tunnel>>

ForwardNext == TunnelNext \/ LoopNext \/ Close \/ PodStarts \/ PodStops

ForwardSpec == ForwardInit /\ [][ForwardNext]_forwardVars

(* Goroutines run, a forwarder that is told to stop does, and the Service    *)
(* gets a Pod again (the Deployment's replica).                              *)
ForwardFairness ==
  /\ WF_forwardVars(\E port \in Ports : Bind(port))
  /\ WF_forwardVars(ForwardReturns /\ faults' = faults)
  /\ WF_forwardVars(Finish) /\ WF_forwardVars(CloseDone)
  /\ WF_forwardVars(ObserveBound /\ faults' = faults) /\ WF_forwardVars(ObserveDone)
  /\ WF_forwardVars(MarkReady) /\ WF_forwardVars(StopUnread) /\ WF_forwardVars(Watch)
  /\ WF_forwardVars(LoopNext)
  /\ WF_forwardVars(PodStarts)

FairForwardSpec == ForwardSpec /\ ForwardFairness

-----------------------------------------------------------------------------

(* No listener outlives the forward, and a replacement is not started while  *)
(* its predecessor may hold the port they share, however Close, the startup  *)
(* timeout and the end of the connection fall together.                     *)
NothingLeaks ==
  loop.pc \in {"resolve", "backoff", "done", "failed"} => ~Alive

(* Commands keep the address they were given: a tunnel in use has the port   *)
(* of the first one (LocalPort).                                            *)
PortIsStable ==
  At("wait") => tunnel.localPort = loop.port /\ loop.port \in Ports

(* Close returns; a forward that had a tunnel and is not closed is up again   *)
(* after any failure (Close, run).                                          *)
Serving == At("wait") /\ tunnel.fwd = "bound"
ForwardSettles ==
  <>[](IF closed THEN loop.pc \in {"done", "failed"}
       ELSE Serving \/ (At("failed") /\ loop.port = 0))

=============================================================================
