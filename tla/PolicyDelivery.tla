--------------------------- MODULE PolicyDelivery ---------------------------
(***************************************************************************)
(* What aw-sync promises a machine, without files, keys and failures: a    *)
(* run takes one bundle that the control plane served, not older than what *)
(* a pinned machine had, and in the end either records that bundle or      *)
(* leaves the record as it was.  Whatever happens to the files meanwhile,  *)
(* a machine is called clean only when it holds the recorded bundle whole. *)
(***************************************************************************)
EXTENDS Naturals

CONSTANTS
  Bundles,   \* what can be served, each with the time it was revised
  None       \* no bundle

VARIABLES
  served,    \* what the control plane serves now
  late,      \* what it served before and may still arrive
  pinned,    \* the machine trusts a key
  fetched,   \* the bundle of the run under way
  recorded,  \* the bundle of the last complete run
  floor,     \* the latest time of a bundle recorded since the machine enrolled
  held,      \* the bundles that the files hold whole
  clean      \* the machine is reported to be in sync

deliveryVars == <<served, late, pinned, fetched, recorded, floor, held, clean>>

DeliveryInit ==
  /\ served \in Bundles /\ late = {}
  /\ pinned = FALSE
  /\ fetched = None /\ recorded = None /\ floor = 0
  /\ held = {} /\ clean = FALSE

Honest == clean => recorded \in held

Publish ==
  /\ served' \in Bundles
  /\ UNCHANGED <<late, pinned, fetched, recorded, floor, held, clean>>

\* An answer that is lost or refused may arrive again.
Linger ==
  /\ late' = late \cup {served}
  /\ UNCHANGED <<served, pinned, fetched, recorded, floor, held, clean>>

Take(b) ==
  /\ fetched = None
  /\ b \in {served} \cup late
  /\ pinned => b.revisedAt >= floor
  /\ fetched' = b
  /\ late' \in {late, late \cup {b}}
  /\ clean' = FALSE
  /\ UNCHANGED <<served, pinned, recorded, floor, held>>

\* Some file changes, by the run or by somebody else.
Touch ==
  /\ held' \subseteq Bundles /\ clean' \in BOOLEAN
  /\ UNCHANGED <<served, late, pinned, fetched, recorded, floor>>

\* The run is over: complete, complete but for an agent, or given up.
Finish(b) ==
  /\ fetched # None
  /\ b \in {fetched, None}
  /\ fetched' = None
  /\ recorded' = b
  /\ floor' = IF floor < fetched.revisedAt THEN fetched.revisedAt ELSE floor
  /\ held' \subseteq Bundles /\ clean' \in BOOLEAN
  /\ UNCHANGED <<served, late, pinned>>

GiveUp ==
  /\ fetched # None
  /\ fetched' = None
  /\ held' \subseteq Bundles /\ clean' \in BOOLEAN
  /\ UNCHANGED <<served, late, pinned, recorded, floor>>

\* The machine enrolls anew, or loses its record; either may be half done.
Reenroll ==
  /\ fetched = None
  /\ pinned' \in BOOLEAN
  /\ held' \subseteq Bundles
  /\ clean' = FALSE
  /\ UNCHANGED <<served, late, fetched>>
  /\ \/ recorded' = None /\ floor' = 0
     \/ UNCHANGED <<recorded, floor>>

DeliveryNext ==
  /\ \/ Publish \/ Linger \/ Touch \/ GiveUp \/ Reenroll
     \/ \E b \in Bundles : Take(b)
     \/ \E b \in Bundles \cup {None} : Finish(b)
  /\ Honest'

DeliverySpec == DeliveryInit /\ [][DeliveryNext]_deliveryVars
=============================================================================
