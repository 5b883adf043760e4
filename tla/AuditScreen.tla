----------------------------- MODULE AuditScreen -----------------------------
(***************************************************************************)
(* The console's Audit screen: the log read a page at a time, newest       *)
(* first, while events are recorded.  A refetch reads every loaded page    *)
(* anew, each with the last event of the one before it, and stores them    *)
(* together at its end; "Older" reads one more page.                       *)
(*                                                                         *)
(* Event ids are handed out in order, but with PostgreSQL an event with a  *)
(* lower id may become visible after one with a higher id.                 *)
(***************************************************************************)
EXTENDS QueryCache, FiniteSets, FiniteSetsExt

CONSTANTS
    PageSize,      \* PAGE_SIZE
    MaxEvent,      \* events are 1 .. MaxEvent
    MaxAuditSteps  \* what operators do, and faults, in a behaviour

ASSUME AuditAssumption ==
    PageSize \in Nat \ {0} /\ MaxEvent \in Nat /\ MaxAuditSteps \in Nat

VARIABLES
    log,        \* awd: the events visible
    reserved,   \* awd: the highest id handed out
    auditQ,     \* the query ["audit"]; data: its pages
    reading,    \* the fetch in flight: the pages read so far, and how many are left
    auditSteps, \* what is left of MaxAuditSteps
    late        \* history: events that became visible after a later one

auditVars == <<log, reserved, auditQ, reading, auditSteps, late>>

EventIds == 1 .. MaxEvent

(* The pages of the query as one record: the events in them, how many      *)
(* pages, the pageParam of the next one (0: hasNextPage is false), and the *)
(* newest event.                                                           *)
NoPages == [ids |-> {}, pages |-> 0, next |-> 0, newest |-> 0]
Pages == [ids : SUBSET EventIds, pages : 0 .. MaxEvent + 1, next : 0 .. MaxEvent,
          newest : 0 .. MaxEvent]
NoReading == [got |-> NoPages, left |-> 0, more |-> FALSE]

AuditStep == auditSteps > 0 /\ auditSteps' = auditSteps - 1

(* getAudit: the PageSize newest events below "before", 0 for no bound.    *)
Below(before) == {e \in log : before = 0 \/ e < before}
AuditEvents(before) ==
    {e \in Below(before) : Cardinality({f \in Below(before) : f > e}) < PageSize}

MutGetNextPageParam(page) == IF Cardinality(page) > PageSize THEN Min(page) ELSE 0
getNextPageParam(page) == IF Cardinality(page) = PageSize THEN Min(page) ELSE 0

AppendPage(got, page) ==
    [ids    |-> got.ids \cup page,
     pages  |-> got.pages + 1,
     next   |-> getNextPageParam(page),
     newest |-> Max(got.ids \cup page \cup {0})]

AuditInit ==
    /\ log = {} /\ reserved = 0
    /\ auditQ = NewQuery(NoPages, 1)
    /\ reading = [NoReading EXCEPT !.left = 1]
    /\ auditSteps = MaxAuditSteps
    /\ late = {}

(***************************************************************************)
(* awd records events: an id is handed out, and the event becomes visible. *)
(***************************************************************************)
Reserve ==
    /\ reserved < MaxEvent
    /\ reserved' = reserved + 1
    /\ UNCHANGED <<log, auditQ, reading, auditSteps, late>>

RecordAudit(e) ==
    /\ e <= reserved /\ e \notin log
    /\ log' = log \cup {e}
    /\ late' = IF \E f \in log : f > e THEN late \cup {e} ELSE late
    /\ UNCHANGED <<reserved, auditQ, reading, auditSteps>>

(***************************************************************************)
(* The query. A fetch in flight reads page after page.                     *)
(***************************************************************************)
RefetchPages == [got |-> NoPages, left |-> Max({1, auditQ.data.pages}), more |-> FALSE]
OlderPage    == [got |-> auditQ.data, left |-> 1, more |-> TRUE]

ReadPage ==
    /\ auditQ.fetch # 0 /\ reading.left > 0
    /\ LET got == AppendPage(reading.got, AuditEvents(reading.got.next))
       IN  reading' = [reading EXCEPT
               !.got = got,
               !.left = IF got.next = 0 THEN 0 ELSE @ - 1]
    /\ UNCHANGED <<log, reserved, auditQ, auditSteps, late>>

ReceivePages ==
    /\ auditQ.fetch # 0 /\ reading.left = 0
    /\ auditQ' = Succeed(auditQ, reading.got)
    /\ reading' = NoReading
    /\ UNCHANGED <<log, reserved, auditSteps, late>>

FailPages ==
    /\ AuditStep /\ auditQ.fetch # 0
    /\ auditQ' = Fail(auditQ, Down)
    /\ reading' = NoReading
    /\ UNCHANGED <<log, reserved, late>>

(* On focus, or coming back to the screen.                                 *)
FocusAudit ==
    /\ AuditStep /\ auditQ.fetch = 0
    /\ auditQ' = Fetch(auditQ, 1)
    /\ reading' = RefetchPages
    /\ UNCHANGED <<log, reserved, late>>

(* A mutation sent from another screen invalidates ["audit"].              *)
InvalidateAudit ==
    /\ AuditStep
    /\ auditQ' = Refetch(auditQ, 1)
    /\ reading' = IF Joins(auditQ) THEN reading ELSE RefetchPages
    /\ UNCHANGED <<log, reserved, late>>

(* "Older" is offered while there is a next page and is not pressed twice; *)
(* fetchNextPage gives up a refetch in flight.                             *)
Older ==
    /\ AuditStep
    /\ auditQ.got /\ auditQ.data.next # 0
    /\ ~(auditQ.fetch # 0 /\ reading.more)
    /\ auditQ' = Start(auditQ, 1)
    /\ reading' = OlderPage
    /\ UNCHANGED <<log, reserved, late>>

AuditNext ==
    \/ Reserve \/ (\E e \in EventIds : RecordAudit(e))
    \/ ReadPage \/ ReceivePages \/ FailPages
    \/ FocusAudit \/ InvalidateAudit \/ Older

AuditSpec == AuditInit /\ [][AuditNext]_auditVars

-----------------------------------------------------------------------------
AuditTypeOK ==
    /\ log \subseteq EventIds /\ reserved \in 0 .. MaxEvent /\ late \subseteq EventIds
    /\ auditQ \in Queries(Pages, 0 .. 1)
    /\ reading \in [got : Pages, left : 0 .. MaxEvent + 1, more : BOOLEAN]
    /\ auditSteps \in 0 .. MaxAuditSteps

(* The table has no holes and its end is the end: every event from where   *)
(* "Older" would go on (or from the first one, when "Older" is not         *)
(* offered) up to the newest one shown is in it, however the pages were    *)
(* read between new events.  Only an event that became visible out of      *)
(* order can be missing.                                                   *)
AuditIsComplete ==
    \A e \in log \ late :
        e <= auditQ.data.newest /\ e >= auditQ.data.next => e \in auditQ.data.ids
=============================================================================
