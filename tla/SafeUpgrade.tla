---------------------------- MODULE SafeUpgrade ----------------------------
(***************************************************************************)
(* What an upgrade of a firewall promises, whatever drives it: no firmware *)
(* is flashed on behalf of an update before the configuration the firewall *)
(* had without it is archived and noted as that update's backup, and the   *)
(* note is made once.  One step of this module is one step an operator     *)
(* sees from outside; caches, queues, retries and snapshots are absent.    *)
(***************************************************************************)
EXTENDS Integers

CONSTANTS Updates, Versions, FirstVersion, None

VARIABLES
  secured,  \* the backup noted for each update
  archive,  \* the configurations archived so far
  device    \* what runs, what is being installed, who flashed it so far

promise == <<secured, archive, device>>

Running == [version |-> device.version, by |-> device.by]

Init ==
  /\ secured = [u \in Updates |-> None]
  /\ archive = {}
  /\ device = [version |-> FirstVersion, installing |-> None, by |-> {}]

Archive ==
  /\ device.installing = None
  /\ archive' = archive \cup {Running}
  /\ UNCHANGED <<secured, device>>

Secure(u) ==
  /\ secured[u] = None
  /\ u \notin device.by
  /\ Running \in archive
  /\ secured' = [secured EXCEPT ![u] = Running]
  /\ UNCHANGED <<archive, device>>

Flash(u, v) ==
  /\ secured[u] # None
  /\ device.installing = None
  /\ device' = [device EXCEPT !.installing = v, !.by = @ \cup {u}]
  /\ UNCHANGED <<secured, archive>>

Boot ==
  /\ device.installing # None
  /\ device' = [device EXCEPT !.version = device.installing, !.installing = None]
  /\ UNCHANGED <<secured, archive>>

Next ==
  \/ Archive
  \/ \E u \in Updates : Secure(u)
  \/ \E u \in Updates, v \in Versions : Flash(u, v)
  \/ Boot

Spec == Init /\ [][Next]_promise
=============================================================================
