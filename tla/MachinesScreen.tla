--------------------------- MODULE MachinesScreen ---------------------------
(***************************************************************************)
(* The console's Machines and Overview screens: the list of machines, the  *)
(* revocation of one through its row's dialog, and the recent activity,    *)
(* over a network that delays and loses, with other operators at work.     *)
(*                                                                         *)
(* Both screens read the query ["machines"]; ["audit", "recent"] is on     *)
(* screen on Overview only, so an invalidation fetches it only there.      *)
(***************************************************************************)
EXTENDS QueryCache, FiniteSets

CONSTANTS
    Machines,        \* machine ids; an id is never enrolled twice
    MaxMachineSteps  \* what operators do, and faults, in a behaviour

ASSUME MachinesAssumption == MaxMachineSteps \in Nat

VARIABLES
    enrolled, revoked,         \* awd: machines enrolled; machines with a revoke event
    machinesQ, machinesRead,   \* ["machines"], and what awd read for its fetch
    recentQ, recentRead,       \* ["audit", "recent"], likewise
    at,                        \* the screen shown
    row,                       \* RevokeButton's state, per machine
    del,                       \* the DELETE of each machine
    note,                      \* Machines: whom the status message is about
    machineSteps,              \* what is left of MaxMachineSteps
    said,                      \* history: machines a message called revoked
    missed                     \* history: invalidated off screen, with an older fetch out

machinesServer  == <<enrolled, revoked>>
machinesQueries == <<machinesQ, machinesRead, recentQ, recentRead>>
machinesUI      == <<at, row, note>>
machinesHistory == <<said, missed>>
machinesVars == <<machinesServer, machinesQueries, machinesUI, del, machineSteps,
                  machinesHistory>>

Screens == {"machines", "overview", "elsewhere"}
RowStates == [open : BOOLEAN, confirmed : BOOLEAN, alert : BOOLEAN]
Deletes == [phase : {"none", "sent", "answered"}, answer : {0, 204} \cup Failures,
            row : BOOLEAN, page : BOOLEAN]
Closed == [open |-> FALSE, confirmed |-> FALSE, alert |-> FALSE]
NoDelete == [phase |-> "none", answer |-> 0, row |-> FALSE, page |-> FALSE]

MachineStep == machineSteps > 0 /\ machineSteps' = machineSteps - 1

(* The rows on screen: a failed refetch replaces the table by an alert.    *)
Rows(q, screen) == IF screen = "machines" /\ isSuccess(q) THEN q.data ELSE {}

(* A row that is not on screen any more loses its state, and the callbacks *)
(* of its DELETE set nothing in it.                                        *)
Render(q, screen) ==
    /\ row' = [i \in Machines |-> IF i \in Rows(q, screen) THEN row[i] ELSE Closed]
    /\ del' = [i \in Machines |-> [del[i] EXCEPT !.row = @ /\ i \in Rows(q, screen)]]

MachinesInit ==
    /\ enrolled \in SUBSET Machines /\ revoked = {}
    /\ machinesQ = NewQuery({}, 1) /\ machinesRead = {}
    /\ at \in {"machines", "overview"}
    /\ recentQ = NewQuery({}, IF at = "overview" THEN 1 ELSE 0) /\ recentRead = {}
    /\ row = [i \in Machines |-> Closed]
    /\ del = [i \in Machines |-> NoDelete]
    /\ note = {}
    /\ machineSteps = MaxMachineSteps
    /\ said = {} /\ missed = FALSE

(***************************************************************************)
(* The queries.                                                            *)
(***************************************************************************)
ReadMachines ==
    /\ machinesQ.fetch = 1
    /\ machinesQ' = [machinesQ EXCEPT !.fetch = 2]
    /\ machinesRead' = enrolled
    /\ UNCHANGED <<machinesServer, recentQ, recentRead, machinesUI, del, machineSteps,
                   machinesHistory>>

ReceiveMachines ==
    /\ machinesQ.fetch = 2
    /\ machinesQ' = Succeed(machinesQ, machinesRead)
    /\ Render(machinesQ', at)
    /\ UNCHANGED <<machinesServer, machinesRead, recentQ, recentRead, at, note,
                   machineSteps, machinesHistory>>

FailMachines ==
    /\ MachineStep /\ machinesQ.fetch # 0
    /\ machinesQ' = Fail(machinesQ, Down)
    /\ Render(machinesQ', at)
    /\ UNCHANGED <<machinesServer, machinesRead, recentQ, recentRead, at, note,
                   machinesHistory>>

(* The whole log as awd held it; the card shows the last five events of   *)
(* it (limit=5), so a revocation is on it until five others follow.       *)
ReadRecent ==
    /\ recentQ.fetch = 1
    /\ recentQ' = [recentQ EXCEPT !.fetch = 2]
    /\ recentRead' = revoked
    /\ UNCHANGED <<machinesServer, machinesQ, machinesRead, machinesUI, del, machineSteps,
                   machinesHistory>>

(* An answer of a fetch that an invalidation went past is the last of its  *)
(* kind: the next mount asks anew.                                         *)
ReceiveRecent ==
    /\ recentQ.fetch = 2
    /\ recentQ' = Succeed(recentQ, recentRead)
    /\ UNCHANGED <<machinesServer, machinesQ, machinesRead, recentRead, machinesUI, del,
                   machineSteps, machinesHistory>>

FailRecent ==
    /\ MachineStep /\ recentQ.fetch # 0
    /\ recentQ' = Fail(recentQ, Down)
    /\ UNCHANGED <<machinesServer, machinesQ, machinesRead, recentRead, machinesUI, del,
                   machinesHistory>>

(* A screen mounts and fetches its queries; the one left is unmounted, its *)
(* message and its dialogs with it.                                        *)
MutOpenScreen(screen) ==
    /\ MachineStep /\ screen # at
    /\ at' = screen
    /\ machinesQ' = IF screen = "elsewhere" THEN machinesQ ELSE Fetch(machinesQ, 1)
    /\ recentQ' = IF screen = "overview" /\ ~recentQ.got THEN Fetch(recentQ, 1) ELSE recentQ
    /\ missed' = (missed /\ (recentQ.fetch # 0 \/ screen # "overview"))
    /\ note' = {}
    /\ row' = [i \in Machines |-> Closed]
    /\ del' = [i \in Machines |-> [del[i] EXCEPT !.row = FALSE, !.page = FALSE]]
    /\ UNCHANGED <<machinesServer, machinesRead, recentRead, said>>
OpenScreen(screen) ==
    /\ MachineStep /\ screen # at
    /\ at' = screen
    /\ machinesQ' = IF screen = "elsewhere" THEN machinesQ ELSE Fetch(machinesQ, 1)
    /\ recentQ' = IF screen = "overview" THEN Fetch(recentQ, 1) ELSE recentQ
    /\ missed' = (missed /\ (recentQ.fetch # 0 \/ screen # "overview"))
    /\ note' = {}
    /\ row' = [i \in Machines |-> Closed]
    /\ del' = [i \in Machines |-> [del[i] EXCEPT !.row = FALSE, !.page = FALSE]]
    /\ UNCHANGED <<machinesServer, machinesRead, recentRead, said>>

FocusMachines ==
    /\ MachineStep /\ at # "elsewhere"
    /\ machinesQ' = Fetch(machinesQ, 1)
    /\ recentQ' = IF at = "overview" THEN Fetch(recentQ, 1) ELSE recentQ
    /\ missed' = (missed /\ (recentQ.fetch # 0 \/ at # "overview"))
    /\ machinesQ' # machinesQ \/ recentQ' # recentQ
    /\ Render(machinesQ', at)
    /\ UNCHANGED <<machinesServer, machinesRead, recentRead, at, note, said>>

(***************************************************************************)
(* A row's dialog. It is modal: the other rows are out of reach behind it. *)
(***************************************************************************)
Reachable(i) == i \in Rows(machinesQ, at) /\ \A j \in Machines \ {i} : ~row[j].open

OpenDialog(i) ==
    /\ MachineStep /\ Reachable(i) /\ ~row[i].open
    /\ row' = [row EXCEPT ![i].open = TRUE]
    /\ UNCHANGED <<machinesServer, machinesQueries, at, note, del, machinesHistory>>

(* Typing the label enables the button; anything else disables it again.   *)
TypeLabel(i) ==
    /\ MachineStep /\ row[i].open
    /\ row' = [row EXCEPT ![i].confirmed = ~@]
    /\ UNCHANGED <<machinesServer, machinesQueries, at, note, del, machinesHistory>>

DismissDialog(i) ==
    /\ MachineStep /\ row[i].open
    /\ row' = [row EXCEPT ![i].open = FALSE, ![i].confirmed = FALSE]
    /\ UNCHANGED <<machinesServer, machinesQueries, at, note, del, machinesHistory>>

(* Disabled while this row's DELETE is out; one DELETE per machine is also *)
(* the model's bound.                                                      *)
RevokeMachine(i) ==
    /\ MachineStep /\ row[i].open /\ row[i].confirmed /\ del[i].phase = "none"
    /\ del' = [del EXCEPT ![i] = [phase |-> "sent", answer |-> 0, row |-> TRUE,
                                  page |-> TRUE]]
    /\ row' = [row EXCEPT ![i].alert = FALSE]
    /\ UNCHANGED <<machinesServer, machinesQueries, at, note, machinesHistory>>

(***************************************************************************)
(* awd: 404 for a machine that is not enrolled (any more).                 *)
(***************************************************************************)
RevokeOnServer(i) ==
    /\ enrolled' = enrolled \ {i}
    /\ revoked' = IF i \in enrolled THEN revoked \cup {i} ELSE revoked

ServeDelete(i) ==
    /\ del[i].phase = "sent"
    /\ RevokeOnServer(i)
    /\ del' = [del EXCEPT ![i].phase = "answered",
                          ![i].answer = IF i \in enrolled THEN 204 ELSE 404]
    /\ UNCHANGED <<machinesQueries, machinesUI, machineSteps, machinesHistory>>

LoseDelete(i) ==
    /\ MachineStep /\ del[i].phase # "none" /\ del[i].answer # Down
    /\ del' = [del EXCEPT ![i].phase = "answered", ![i].answer = Down]
    /\ UNCHANGED <<machinesServer, machinesQueries, machinesUI, machinesHistory>>

RevokedElsewhere(i) ==
    /\ MachineStep /\ i \in enrolled
    /\ RevokeOnServer(i)
    /\ UNCHANGED <<machinesQueries, machinesUI, del, machinesHistory>>

EnrollMachine(i) ==
    /\ MachineStep /\ i \notin enrolled /\ i \notin revoked
    /\ enrolled' = enrolled \cup {i}
    /\ UNCHANGED <<revoked, machinesQueries, machinesUI, del, machinesHistory>>

(***************************************************************************)
(* The DELETE's answer: 204, and 404 too, close the dialog, tell the       *)
(* operator and invalidate; anything else leaves the dialog with an alert. *)
(***************************************************************************)
MutInvalidate ==
    /\ UNCHANGED machinesQ
    /\ recentQ' = IF at = "overview" THEN Refetch(recentQ, 1) ELSE recentQ
    /\ missed' = (missed \/ (recentQ.fetch # 0 /\ (at # "overview" \/ Joins(recentQ))))
invalidate ==
    /\ machinesQ' = IF at = "elsewhere" THEN machinesQ ELSE Refetch(machinesQ, 1)
    /\ recentQ' = IF at = "overview" THEN Refetch(recentQ, 1) ELSE recentQ
    /\ missed' = (missed \/ (recentQ.fetch # 0 /\ (at # "overview" \/ Joins(recentQ))))

MutResolves(answer) == answer # 500
Resolves(answer) == answer \in {204, 404}

Resolved(i) ==
    /\ del[i].phase = "answered" /\ Resolves(del[i].answer)
    /\ invalidate
    /\ row' = [j \in Machines |->
                 IF j \notin Rows(machinesQ', at) THEN Closed
                 ELSE IF j = i /\ del[i].row THEN [row[j] EXCEPT !.open = FALSE]
                 ELSE row[j]]
    /\ note' = IF del[i].page THEN {i} ELSE note
    /\ said' = IF del[i].page THEN said \cup {i} ELSE said
    /\ del' = [del EXCEPT ![i] = NoDelete]
    /\ UNCHANGED <<machinesServer, machinesRead, recentRead, at, machineSteps>>

NotResolved(i) ==
    /\ del[i].phase = "answered" /\ ~Resolves(del[i].answer)
    /\ row' = IF del[i].row THEN [row EXCEPT ![i].alert = TRUE] ELSE row
    /\ del' = [del EXCEPT ![i] = NoDelete]
    /\ UNCHANGED <<machinesServer, machinesQueries, at, note, machineSteps,
                   machinesHistory>>

MachineAction(i) ==
    \/ OpenDialog(i) \/ TypeLabel(i) \/ DismissDialog(i) \/ RevokeMachine(i)
    \/ ServeDelete(i) \/ LoseDelete(i) \/ RevokedElsewhere(i) \/ EnrollMachine(i)
    \/ Resolved(i) \/ NotResolved(i)

MachinesNext ==
    \/ ReadMachines \/ ReceiveMachines \/ FailMachines
    \/ ReadRecent \/ ReceiveRecent \/ FailRecent
    \/ FocusMachines \/ (\E screen \in Screens : OpenScreen(screen))
    \/ \E i \in Machines : MachineAction(i)

MachinesSpec == MachinesInit /\ [][MachinesNext]_machinesVars

-----------------------------------------------------------------------------
MachinesTypeOK ==
    /\ enrolled \subseteq Machines /\ revoked \subseteq Machines
    /\ machinesQ \in Queries(SUBSET Machines, 0 .. 2) /\ machinesRead \subseteq Machines
    /\ recentQ \in Queries(SUBSET Machines, 0 .. 2) /\ recentRead \subseteq Machines
    /\ at \in Screens
    /\ row \in [Machines -> RowStates] /\ del \in [Machines -> Deletes]
    /\ note \subseteq Machines
    /\ machineSteps \in 0 .. MaxMachineSteps
    /\ said \subseteq Machines /\ missed \in BOOLEAN

(* A machine the console called revoked ("Revoked ..." or "... was already *)
(* revoked") cannot fetch bundles any more.                                *)
RevokedIsGone == said \cap enrolled = {}

(* A machine that was called revoked is not in a list that settled since:  *)
(* no list read before the revocation replaces the newer one.              *)
ListDropsRevoked ==
    isSuccess(machinesQ) /\ machinesQ.fetch = 0 => said \cap machinesQ.data = {}

(* The recent activity of Overview has every revocation a message told of, *)
(* unless an older fetch was in flight when ["audit"] was invalidated from *)
(* another screen and Overview joined it.                                  *)
RecentShowsRevoked ==
    at = "overview" /\ isSuccess(recentQ) /\ recentQ.fetch = 0 /\ ~missed
    => said \subseteq recentQ.data
=============================================================================
