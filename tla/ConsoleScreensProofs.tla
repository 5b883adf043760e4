------------------------ MODULE ConsoleScreensProofs ------------------------
(***************************************************************************)
(* Proofs about the console's screens, for every set of machines and users *)
(* and every bound.  Each screen has an inductive invariant of its own.    *)
(***************************************************************************)
EXTENDS ConsoleTheme, EnrollmentScreen, MachinesScreen, GroupsScreen, PolicyScreen,
        AuditScreen, QueryCacheProofs, FiniteSetTheorems

(***************************************************************************)
(* Theme.  What the page shows is what the next mount of the toggle reads. *)
(***************************************************************************)
ThemeInv ==
    /\ ThemeTypeOK
    /\ works /\ alone => theme = currentTheme
    /\ ToggleNamesTheme

LEMMA ThemeStep == ThemeInv /\ [ThemeNext]_themeVars => ThemeInv'
  <1> SUFFICES ASSUME ThemeInv, [ThemeNext]_themeVars PROVE ThemeInv'
    OBVIOUS
  <1> USE DEF ThemeInv, ThemeTypeOK, ToggleNamesTheme, currentTheme, Themes
  <1>1. CASE LoadPage
    BY <1>1 DEF LoadPage
  <1>2. CASE MountToggle
    BY <1>2 DEF MountToggle
  <1>3. CASE UnmountToggle
    BY <1>3 DEF UnmountToggle
  <1>4. CASE toggle
    BY <1>4 DEF toggle, setStoredTheme, Other
  <1>5. CASE ChangedElsewhere
    BY <1>5 DEF ChangedElsewhere, Other
  <1>6. CASE UNCHANGED themeVars
    BY <1>6 DEF themeVars
  <1> QED
    BY <1>1, <1>2, <1>3, <1>4, <1>5, <1>6 DEF ThemeNext

(* The page, the toggle and the stored choice name a theme that exists, in *)
(* every tab and whether localStorage works or throws (theme.ts).          *)
THEOREM ThemeTypes == ThemeSpec => []ThemeTypeOK
  <1>1. ThemeInit => ThemeInv
    BY DEF ThemeInit, ThemeInv, ThemeTypeOK, Themes, ToggleNamesTheme, currentTheme
  <1>2. ThemeInv => ThemeTypeOK
    BY DEF ThemeInv
  <1> QED
    BY <1>1, <1>2, ThemeStep, PTL DEF ThemeSpec

(* The toggle names the theme the page has (theme.ts, ThemeToggle).        *)
THEOREM ThemeToggleNames == ThemeSpec => []ToggleNamesTheme
  <1>1. ThemeInit => ThemeInv
    BY DEF ThemeInit, ThemeInv, ThemeTypeOK, Themes, ToggleNamesTheme, currentTheme
  <1>2. ThemeInv => ToggleNamesTheme
    BY DEF ThemeInv
  <1> QED
    BY <1>1, <1>2, ThemeStep, PTL DEF ThemeSpec

(***************************************************************************)
(* Enrollment.  A token that did not overtake a copy is the only one any   *)
(* copy still running can put into the clipboard.                          *)
(***************************************************************************)
EnrollScreenInv ==
    /\ CopiedIsInClipboard
    /\ result # 0 /\ ~overtaken => copying \cup astray \subseteq {result}

LEMMA EnrollScreenStep ==
    EnrollScreenInv /\ [EnrollScreenNext]_enrollScreenVars => EnrollScreenInv'
  <1> SUFFICES ASSUME EnrollScreenInv, [EnrollScreenNext]_enrollScreenVars
               PROVE  EnrollScreenInv'
    OBVIOUS
  <1> USE DEF EnrollScreenInv, CopiedIsInClipboard
  <1>1. CASE submit
    BY <1>1 DEF submit
  <1>2. CASE ServeToken
    BY <1>2 DEF ServeToken
  <1>3. CASE TokenArrives
    BY <1>3 DEF TokenArrives
  <1>4. CASE copy
    BY <1>4 DEF copy
  <1>5. CASE LeaveEnrollment
    BY <1>5 DEF LeaveEnrollment
  <1>6. ASSUME NEW t \in 1 .. MaxTokens, CopySettles(t) PROVE EnrollScreenInv'
    BY <1>6 DEF CopySettles
  <1>7. ASSUME NEW t \in 1 .. MaxTokens, StraySettles(t) PROVE EnrollScreenInv'
    BY <1>7 DEF StraySettles
  <1>8. CASE UNCHANGED enrollScreenVars
    BY <1>8 DEF enrollScreenVars
  <1> QED
    BY <1>1, <1>2, <1>3, <1>4, <1>5, <1>6, <1>7, <1>8 DEF EnrollScreenNext

(* "Copied" beside a token is about that token (enrollment.tsx).           *)
THEOREM CopiedIsThisToken == EnrollScreenSpec => []CopiedIsInClipboard
  <1>1. EnrollScreenInit => EnrollScreenInv
    BY DEF EnrollScreenInit, EnrollScreenInv, CopiedIsInClipboard
  <1>2. EnrollScreenInv => CopiedIsInClipboard
    BY DEF EnrollScreenInv
  <1> QED
    BY <1>1, <1>2, EnrollScreenStep, PTL DEF EnrollScreenSpec

(* What is shown, copied or in the clipboard, awd created, for a POST.     *)
OnlyCreated ==
    /\ answer \in 0 .. created /\ result \in 0 .. created
    /\ copying \subseteq 1 .. created /\ astray \subseteq 1 .. created
    /\ clipboard \in 0 .. created

EnrollScreenNumbers ==
    /\ created \in 0 .. MaxTokens /\ posted \in 0 .. MaxTokens /\ created <= posted
    /\ creation \in {"idle", "sent", "created", "failed"}
    /\ creation = "sent" => created < posted
    /\ OnlyCreated

EnrollScreenFlags == copied \in BOOLEAN /\ overtaken \in BOOLEAN

LEMMA EnrollScreenNumbersStep ==
    EnrollScreenNumbers /\ [EnrollScreenNext]_enrollScreenVars => EnrollScreenNumbers'
  <1> SUFFICES ASSUME EnrollScreenNumbers, [EnrollScreenNext]_enrollScreenVars
               PROVE  EnrollScreenNumbers'
    OBVIOUS
  <1> USE TokensAssumption DEF EnrollScreenNumbers, OnlyCreated
  <1>1. CASE submit
    BY <1>1 DEF submit
  <1>2. CASE ServeToken
    BY <1>2 DEF ServeToken
  <1>3. CASE TokenArrives
    BY <1>3 DEF TokenArrives
  <1>4. CASE copy
    BY <1>4 DEF copy
  <1>5. CASE LeaveEnrollment
    BY <1>5 DEF LeaveEnrollment
  <1>6. ASSUME NEW t \in 1 .. MaxTokens, CopySettles(t) PROVE EnrollScreenNumbers'
    BY <1>6 DEF CopySettles
  <1>7. ASSUME NEW t \in 1 .. MaxTokens, StraySettles(t) PROVE EnrollScreenNumbers'
    BY <1>7 DEF StraySettles
  <1>8. CASE UNCHANGED enrollScreenVars
    BY <1>8 DEF enrollScreenVars
  <1> QED
    BY <1>1, <1>2, <1>3, <1>4, <1>5, <1>6, <1>7, <1>8 DEF EnrollScreenNext

LEMMA EnrollScreenFlagsStep ==
    EnrollScreenFlags /\ [EnrollScreenNext]_enrollScreenVars => EnrollScreenFlags'
  BY DEF EnrollScreenFlags, EnrollScreenNext, submit, ServeToken, TokenArrives, copy, CopySettles, StraySettles,
         LeaveEnrollment, enrollScreenVars

(* No token is shown, copied or in the clipboard that awd did not create,  *)
(* and awd creates one per POST at most (enrollment.tsx).                  *)
THEOREM TokensArePosted == EnrollScreenSpec => [](EnrollScreenTypeOK /\ OnlyCreated)
  <1>1. EnrollScreenInit => EnrollScreenNumbers
    BY TokensAssumption DEF EnrollScreenInit, EnrollScreenNumbers, OnlyCreated
  <1>2. EnrollScreenInit => EnrollScreenFlags
    BY DEF EnrollScreenInit, EnrollScreenFlags
  <1>3. EnrollScreenNumbers /\ EnrollScreenFlags => EnrollScreenTypeOK /\ OnlyCreated
    <2> SUFFICES ASSUME EnrollScreenNumbers, EnrollScreenFlags
                 PROVE  EnrollScreenTypeOK /\ OnlyCreated
      OBVIOUS
    <2>1. /\ answer \in 0 .. MaxTokens /\ result \in 0 .. MaxTokens
          /\ copying \subseteq 1 .. MaxTokens /\ astray \subseteq 1 .. MaxTokens
          /\ clipboard \in 0 .. MaxTokens
      BY TokensAssumption DEF EnrollScreenNumbers, OnlyCreated
    <2> QED
      BY <2>1, Zenon DEF EnrollScreenNumbers, EnrollScreenFlags, EnrollScreenTypeOK
  <1> QED
    BY <1>1, <1>2, <1>3, EnrollScreenNumbersStep, EnrollScreenFlagsStep, PTL DEF EnrollScreenSpec

(***************************************************************************)
(* Machines and Overview.  A machine that is on a list, in a dialog or in  *)
(* a DELETE was enrolled once; one that a DELETE was resolved for, or that *)
(* was called revoked, has its revocation on awd.  What awd reads after    *)
(* that does not list it, and a fetch that was out is given up.            *)
(***************************************************************************)
Known == enrolled \cup revoked

RevocationInv ==
    /\ enrolled \cap revoked = {}
    /\ machinesRead \subseteq Known
    /\ machinesQ.data \subseteq Known
    /\ \A i \in Machines : row[i].open => i \in Known
    /\ \A i \in Machines : del[i].phase # "none" => i \in Known
    /\ \A i \in Machines : del[i].phase = "answered" /\ del[i].answer \in {204, 404}
                              => i \in revoked
    /\ said \subseteq revoked

ListInv ==
    /\ \A i \in Machines : row[i].open => machinesQ.got /\ at = "machines"
    /\ \A i \in Machines : del[i].page => machinesQ.got /\ at = "machines"
    /\ machinesQ.fetch = 2 => said \cap machinesRead = {}
    /\ ListDropsRevoked

RecentInv ==
    /\ recentQ.fetch = 2 /\ ~missed => said \subseteq recentRead
    /\ RecentShowsRevoked

MachinesInv == MachinesTypeOK /\ RevocationInv /\ ListInv /\ RecentInv

(* The queries of these screens stay queries.                              *)
LEMMA MachinesQueryTypes ==
    ASSUME NEW q \in Queries(SUBSET Machines, 0 .. 2), NEW d \in SUBSET Machines
    PROVE  /\ Fetch(q, 1) \in Queries(SUBSET Machines, 0 .. 2)
           /\ Refetch(q, 1) \in Queries(SUBSET Machines, 0 .. 2)
           /\ Succeed(q, d) \in Queries(SUBSET Machines, 0 .. 2)
           /\ Fail(q, Down) \in Queries(SUBSET Machines, 0 .. 2)
           /\ [q EXCEPT !.fetch = 2] \in Queries(SUBSET Machines, 0 .. 2)
  <1>1. 0 \in 0 .. 2 /\ 1 \in 0 .. 2 /\ 2 \in 0 .. 2 /\ Down \in Failures
    BY DEF Failures, Down
  <1> QED
    BY <1>1, QueryTypes

(* A row's dialog and a row's DELETE keep their types.                     *)
LEMMA RowTypes ==
    ASSUME NEW r \in RowStates
    PROVE  /\ [r EXCEPT !.open = TRUE] \in RowStates
           /\ [r EXCEPT !.open = FALSE] \in RowStates
           /\ [r EXCEPT !.open = FALSE, !.confirmed = FALSE] \in RowStates
           /\ [r EXCEPT !.alert = TRUE] \in RowStates
           /\ [r EXCEPT !.alert = FALSE] \in RowStates
           /\ [r EXCEPT !.confirmed = ~r.confirmed] \in RowStates
  BY DEF RowStates

LEMMA DeleteTypes ==
    ASSUME NEW d \in Deletes, NEW a \in {204} \cup Failures
    PROVE  /\ [d EXCEPT !.phase = "answered", !.answer = a] \in Deletes
           /\ [d EXCEPT !.row = FALSE, !.page = FALSE] \in Deletes
           /\ [phase |-> "sent", answer |-> 0, row |-> TRUE, page |-> TRUE] \in Deletes
  <1>1. [d EXCEPT !.phase = "answered", !.answer = a] \in Deletes
    BY DEF Deletes
  <1>2. [d EXCEPT !.row = FALSE, !.page = FALSE] \in Deletes
    BY DEF Deletes
  <1>3. [phase |-> "sent", answer |-> 0, row |-> TRUE, page |-> TRUE] \in Deletes
    BY DEF Deletes
  <1> QED
    BY <1>1, <1>2, <1>3

LEMMA DeleteRowTypes ==
    ASSUME NEW d \in Deletes, NEW P
    PROVE  [d EXCEPT !.row = d.row /\ P] \in Deletes
  <1> DEFINE b == d.row /\ P
  <1>2. b \in BOOLEAN
    OBVIOUS
  <1> HIDE DEF b
  <1>3. [d EXCEPT !.row = b] \in Deletes
    BY <1>2, SMTT(30) DEF Deletes
  <1> QED
    BY <1>3 DEF b

LEMMA StartTypes == Closed \in RowStates /\ NoDelete \in Deletes
  BY DEF Closed, RowStates, NoDelete, Deletes

LEMMA RenderTypes ==
    ASSUME MachinesTypeOK, NEW q, NEW screen, Render(q, screen)
    PROVE  row' \in [Machines -> RowStates] /\ del' \in [Machines -> Deletes]
  <1>1. \A i \in Machines : row[i] \in RowStates /\ del[i] \in Deletes
    BY DEF MachinesTypeOK
  <1>2. \A i \in Machines : [del[i] EXCEPT !.row = del[i].row /\ i \in Rows(q, screen)]
                             \in Deletes
    BY <1>1, DeleteRowTypes, Zenon
  <1> QED
    BY <1>1, <1>2, StartTypes DEF Render

LEMMA RenderFields ==
    ASSUME MachinesTypeOK, NEW q, NEW screen, Render(q, screen)
    PROVE  \A i \in Machines :
              /\ row'[i].open => row[i].open /\ i \in Rows(q, screen)
              /\ del'[i].phase = del[i].phase /\ del'[i].answer = del[i].answer
              /\ del'[i].page = del[i].page
  BY DEF MachinesTypeOK, Render, Closed, Deletes

LEMMA MachinesTypeStep ==
    ASSUME MachinesTypeOK, [MachinesNext]_machinesVars
    PROVE  MachinesTypeOK'
  <1> USE DEF MachinesTypeOK, MachineStep
  <1>q. \A d \in SUBSET Machines : \A q \in {machinesQ, recentQ} :
          /\ Fetch(q, 1) \in Queries(SUBSET Machines, 0 .. 2)
          /\ Refetch(q, 1) \in Queries(SUBSET Machines, 0 .. 2)
          /\ Succeed(q, d) \in Queries(SUBSET Machines, 0 .. 2)
          /\ Fail(q, Down) \in Queries(SUBSET Machines, 0 .. 2)
          /\ [q EXCEPT !.fetch = 2] \in Queries(SUBSET Machines, 0 .. 2)
    BY MachinesQueryTypes
  <1>s. MachineStep => machineSteps' \in 0 .. MaxMachineSteps
    BY MachinesAssumption
  <1>t. \A i \in Machines : row[i] \in RowStates /\ del[i] \in Deletes
    OBVIOUS
  <1>1. CASE ReadMachines
    BY <1>1, <1>q DEF ReadMachines, machinesServer, machinesUI, machinesHistory
  <1>2. CASE ReceiveMachines
    <2>1. Render(machinesQ', at)
      BY <1>2 DEF ReceiveMachines
    <2> QED
      BY <1>2, <1>q, <2>1, RenderTypes DEF ReceiveMachines, machinesServer, machinesHistory
  <1>3. CASE FailMachines
    <2>1. Render(machinesQ', at)
      BY <1>3 DEF FailMachines
    <2> QED
      BY <1>3, <1>q, <1>s, <2>1, RenderTypes DEF FailMachines, machinesServer, machinesHistory
  <1>4. CASE ReadRecent
    BY <1>4, <1>q DEF ReadRecent, machinesServer, machinesUI, machinesHistory
  <1>5. CASE ReceiveRecent
    BY <1>5, <1>q DEF ReceiveRecent, machinesServer, machinesUI, machinesHistory
  <1>6. CASE FailRecent
    BY <1>6, <1>q, <1>s DEF FailRecent, machinesServer, machinesUI, machinesHistory
  <1>7. ASSUME NEW screen \in Screens, OpenScreen(screen) PROVE MachinesTypeOK'
    <2>1. \A i \in Machines : [del[i] EXCEPT !.row = FALSE, !.page = FALSE] \in Deletes
      BY <1>t, DeleteTypes, Zenon
    <2>2. row' \in [Machines -> RowStates] /\ del' \in [Machines -> Deletes]
      BY <1>7, <2>1, StartTypes DEF OpenScreen
    <2>3. missed' \in BOOLEAN /\ machineSteps' \in 0 .. MaxMachineSteps
      BY <1>7, <1>s DEF OpenScreen
    <2>4. /\ machinesQ' \in {machinesQ, Fetch(machinesQ, 1)}
          /\ recentQ' \in {recentQ, Fetch(recentQ, 1)}
      BY <1>7 DEF OpenScreen
    <2>5. at' \in Screens /\ note' = {} /\ UNCHANGED <<enrolled, revoked, machinesRead, recentRead, said>>
      BY <1>7 DEF OpenScreen, machinesServer
    <2> QED
      BY <1>q, <2>2, <2>3, <2>4, <2>5
  <1>8. CASE FocusMachines
    <2>1. Render(machinesQ', at)
      BY <1>8 DEF FocusMachines
    <2>2. row' \in [Machines -> RowStates] /\ del' \in [Machines -> Deletes]
      BY <2>1, RenderTypes
    <2>3. missed' \in BOOLEAN /\ machineSteps' \in 0 .. MaxMachineSteps
      BY <1>8, <1>s DEF FocusMachines
    <2>4. machinesQ' = Fetch(machinesQ, 1) /\ recentQ' \in {recentQ, Fetch(recentQ, 1)}
      BY <1>8 DEF FocusMachines
    <2>5. UNCHANGED <<enrolled, revoked, machinesRead, recentRead, at, note, said>>
      BY <1>8 DEF FocusMachines, machinesServer
    <2> QED
      BY <1>q, <2>2, <2>3, <2>4, <2>5
  <1>9. ASSUME NEW i \in Machines, MachineAction(i) PROVE MachinesTypeOK'
    <2>1. CASE OpenDialog(i) \/ TypeLabel(i) \/ DismissDialog(i)
      <3>1. \/ row' = [row EXCEPT ![i] = [row[i] EXCEPT !.open = TRUE]]
            \/ row' = [row EXCEPT ![i] = [row[i] EXCEPT !.confirmed = ~row[i].confirmed]]
            \/ row' = [row EXCEPT ![i] = [row[i] EXCEPT !.open = FALSE, !.confirmed = FALSE]]
        BY <2>1 DEF OpenDialog, TypeLabel, DismissDialog
      <3>2. PICK r \in RowStates : row' = [row EXCEPT ![i] = r]
        BY <3>1, <1>t, RowTypes, Zenon
      <3>3. row' \in [Machines -> RowStates]
        BY <3>2
      <3> QED
        BY <2>1, <3>3, <1>s, SMTT(30) DEF OpenDialog, TypeLabel, DismissDialog, machinesServer,
                                machinesQueries, machinesHistory
    <2>2. CASE RevokeMachine(i)
      <3>1. row' \in [Machines -> RowStates] /\ del' \in [Machines -> Deletes]
        BY <2>2, <1>t, RowTypes, DeleteTypes, ZenonT(30) DEF RevokeMachine
      <3> QED
        BY <2>2, <3>1, <1>s DEF RevokeMachine, machinesServer, machinesQueries,
                                machinesHistory
    <2>3. CASE ServeDelete(i)
      <3> DEFINE a == IF i \in enrolled THEN 204 ELSE 404
      <3>1. del' = [del EXCEPT ![i] = [del[i] EXCEPT !.phase = "answered", !.answer = a]]
        BY <2>3, ZenonT(30) DEF ServeDelete
      <3>a. a \in {204} \cup Failures
        BY DEF Failures
      <3> HIDE DEF a
      <3>2. del' \in [Machines -> Deletes]
        BY <3>1, <3>a, <1>t, DeleteTypes
      <3> QED
        BY <2>3, <3>2 DEF ServeDelete, RevokeOnServer, machinesUI, machinesQueries,
                          machinesHistory
    <2>4. CASE LoseDelete(i)
      <3>1. del' = [del EXCEPT ![i] = [del[i] EXCEPT !.phase = "answered", !.answer = Down]]
        BY <2>4 DEF LoseDelete
      <3>a. Down \in {204} \cup Failures
        BY DEF Failures
      <3>2. del' \in [Machines -> Deletes]
        BY <3>1, <3>a, <1>t, DeleteTypes
      <3> QED
        BY <2>4, <3>2, <1>s DEF LoseDelete, machinesServer, machinesUI, machinesQueries,
                                machinesHistory
    <2>5. CASE RevokedElsewhere(i) \/ EnrollMachine(i)
      BY <2>5, <1>s DEF RevokedElsewhere, EnrollMachine, RevokeOnServer, machinesUI,
                        machinesQueries, machinesHistory
    <2>6. CASE Resolved(i)
      <3>1. row' \in [Machines -> RowStates] /\ del' \in [Machines -> Deletes]
        BY <2>6, <1>t, RowTypes, StartTypes DEF Resolved
      <3>2. /\ machinesQ' \in {machinesQ, Refetch(machinesQ, 1)}
            /\ recentQ' \in {recentQ, Refetch(recentQ, 1)}
        BY <2>6 DEF Resolved, invalidate
      <3>3. missed' \in BOOLEAN
        BY <2>6 DEF Resolved, invalidate
      <3>4. /\ note' \subseteq Machines /\ said' \subseteq Machines
            /\ UNCHANGED <<enrolled, revoked, machinesRead, recentRead, at, machineSteps>>
        BY <2>6 DEF Resolved, machinesServer
      <3> QED
        BY <1>q, <3>1, <3>2, <3>3, <3>4
    <2>7. CASE NotResolved(i)
      <3>1. row' \in [Machines -> RowStates] /\ del' \in [Machines -> Deletes]
        BY <2>7, <1>t, RowTypes, StartTypes DEF NotResolved
      <3> QED
        BY <2>7, <3>1 DEF NotResolved, machinesServer, machinesQueries, machinesHistory
    <2> QED
      BY <1>9, <2>1, <2>2, <2>3, <2>4, <2>5, <2>6, <2>7 DEF MachineAction
  <1>10. CASE UNCHANGED machinesVars
    BY <1>10 DEF machinesVars, machinesServer, machinesUI, machinesQueries, machinesHistory
  <1> QED
    BY <1>1, <1>2, <1>3, <1>4, <1>5, <1>6, <1>7, <1>8, <1>9, <1>10 DEF MachinesNext

LEMMA MachinesInitInv == MachinesInit => MachinesInv
  <1> SUFFICES ASSUME MachinesInit PROVE MachinesInv
    OBVIOUS
  <1>1. /\ machinesQ \in Queries(SUBSET Machines, 0 .. 2)
        /\ recentQ \in Queries(SUBSET Machines, 0 .. 2)
    BY DEF MachinesInit, Queries, NewQuery
  <1>2. row \in [Machines -> RowStates] /\ del \in [Machines -> Deletes]
    BY StartTypes DEF MachinesInit
  <1>3. /\ enrolled \subseteq Machines /\ revoked \subseteq Machines
        /\ machinesRead \subseteq Machines /\ recentRead \subseteq Machines
        /\ at \in Screens /\ note \subseteq Machines /\ said \subseteq Machines
        /\ missed = FALSE
    BY DEF MachinesInit, Screens
  <1>4. machineSteps \in 0 .. MaxMachineSteps
    BY MachinesAssumption DEF MachinesInit
  <1>5. MachinesTypeOK
    BY <1>1, <1>2, <1>3, <1>4 DEF MachinesTypeOK
  <1> QED
    BY <1>5 DEF MachinesInit, MachinesInv, RevocationInv, ListInv, RecentInv, NewQuery, Closed,
                NoDelete, ListDropsRevoked, RecentShowsRevoked, isSuccess, Known

LEMMA MachinesInvStep == MachinesInv /\ [MachinesNext]_machinesVars => MachinesInv'
  <1> SUFFICES ASSUME MachinesInv, [MachinesNext]_machinesVars PROVE MachinesInv'
    OBVIOUS
  <1>0. MachinesTypeOK /\ MachinesTypeOK'
    BY MachinesTypeStep DEF MachinesInv
  <1> SUFFICES RevocationInv' /\ ListInv' /\ RecentInv'
    BY <1>0 DEF MachinesInv
  <1>q. QueryFacts(machinesQ) /\ QueryFacts(recentQ)
    BY <1>0, QueryFactsHold DEF MachinesTypeOK
  <1>r. \A screen : Render(machinesQ', screen) =>
          \A i \in Machines :
              /\ row'[i].open => row[i].open /\ i \in Rows(machinesQ', screen)
              /\ del'[i].phase = del[i].phase /\ del'[i].answer = del[i].answer
              /\ del'[i].page = del[i].page
    BY <1>0, RenderFields
  <1> USE DEF MachinesInv, RevocationInv, ListInv, RecentInv, Known
  <1> USE DEF ListDropsRevoked, RecentShowsRevoked, QueryFacts
  <1>1. CASE ReadMachines
    BY <1>1, <1>q DEF ReadMachines, machinesServer, machinesUI, machinesHistory
  <1>2. CASE ReceiveMachines
    BY <1>2, <1>q, <1>r DEF ReceiveMachines, machinesServer, machinesHistory
  <1>3. CASE FailMachines
    BY <1>3, <1>q, <1>r DEF FailMachines, machinesServer, machinesHistory
  <1>4. CASE ReadRecent
    BY <1>4, <1>q DEF ReadRecent, machinesServer, machinesUI, machinesHistory
  <1>5. CASE ReceiveRecent
    BY <1>5, <1>q DEF ReceiveRecent, machinesServer, machinesUI, machinesHistory
  <1>6. CASE FailRecent
    BY <1>6, <1>q DEF FailRecent, machinesServer, machinesUI, machinesHistory
  <1>7. ASSUME NEW screen \in Screens, OpenScreen(screen)
        PROVE  RevocationInv' /\ ListInv' /\ RecentInv'
    <2>1. \A i \in Machines : ~row'[i].open /\ ~del'[i].page /\ del'[i].phase = del[i].phase
                              /\ del'[i].answer = del[i].answer
      <3>1. \A i \in Machines :
              /\ row'[i] = Closed /\ del[i] \in Deletes
              /\ del'[i] = [del[i] EXCEPT !.row = FALSE, !.page = FALSE]
        BY <1>0, <1>7 DEF OpenScreen, MachinesTypeOK
      <3>2. ~Closed.open
        BY DEF Closed
      <3>3. \A d \in Deletes :
              /\ ~[d EXCEPT !.row = FALSE, !.page = FALSE].page
              /\ [d EXCEPT !.row = FALSE, !.page = FALSE].phase = d.phase
              /\ [d EXCEPT !.row = FALSE, !.page = FALSE].answer = d.answer
        BY DEF Deletes
      <3> QED
        BY <3>1, <3>2, <3>3, ZenonT(30)
    <2>2. UNCHANGED <<enrolled, revoked, machinesRead, recentRead, said>>
      BY <1>7 DEF OpenScreen, machinesServer
    <2>3. \/ machinesQ' = machinesQ
          \/ machinesQ' = Fetch(machinesQ, 1)
      BY <1>7 DEF OpenScreen
    <2>4. RevocationInv' /\ ListInv'
      BY <1>q, <2>1, <2>2, <2>3
    <2>5. /\ screen # "overview" \/ recentQ.fetch # 0 => (missed' <=> missed)
          /\ recentQ' = IF screen = "overview" THEN Fetch(recentQ, 1) ELSE recentQ
          /\ at' = screen
      BY <1>7 DEF OpenScreen
    <2>6. RecentInv'
      <3>1. CASE screen = "overview"
        BY <1>q, <2>2, <2>5, <3>1
      <3>2. CASE screen # "overview"
        BY <2>2, <2>5, <3>2
      <3> QED
        BY <3>1, <3>2
    <2> QED
      BY <2>4, <2>6
  <1>8. CASE FocusMachines
    <2>1. /\ UNCHANGED <<enrolled, revoked, machinesRead, recentRead, at, said>>
          /\ machinesQ' = Fetch(machinesQ, 1) /\ Render(machinesQ', at)
      BY <1>8 DEF FocusMachines, machinesServer
    <2>2. RevocationInv' /\ ListInv'
      BY <1>q, <1>r, <2>1
    <2>3. /\ at # "overview" \/ recentQ.fetch # 0 => (missed' <=> missed)
          /\ recentQ' = IF at = "overview" THEN Fetch(recentQ, 1) ELSE recentQ
      BY <1>8 DEF FocusMachines
    <2>4. RecentInv'
      <3>1. CASE at = "overview"
        BY <1>q, <2>1, <2>3, <3>1
      <3>2. CASE at # "overview"
        BY <2>1, <2>3, <3>2
      <3> QED
        BY <3>1, <3>2
    <2> QED
      BY <2>2, <2>4
  <1>9. ASSUME NEW i \in Machines, MachineAction(i)
        PROVE  RevocationInv' /\ ListInv' /\ RecentInv'
    <2> USE <1>0 DEF Closed, NoDelete, RowStates, Deletes
    <2>1. CASE OpenDialog(i)
      <3>1. \A j \in Machines : row'[j].open => row[j].open \/ j = i
        BY <2>1 DEF OpenDialog, MachinesTypeOK
      <3>2. i \in machinesQ.data /\ machinesQ.got /\ at = "machines"
        BY <2>1 DEF OpenDialog, Reachable, Rows, isSuccess
      <3>3. UNCHANGED <<enrolled, revoked, machinesQueries, at, del, machinesHistory>>
        BY <2>1 DEF OpenDialog, machinesServer
      <3> QED
        BY <3>1, <3>2, <3>3 DEF machinesQueries, machinesHistory
    <2>2. CASE TypeLabel(i)
      BY <2>2 DEF TypeLabel, machinesServer, machinesQueries, machinesHistory, MachinesTypeOK
    <2>3. CASE DismissDialog(i)
      BY <2>3 DEF DismissDialog, machinesServer, machinesQueries, machinesHistory,
                  MachinesTypeOK
    <2>4. CASE RevokeMachine(i)
      BY <2>4 DEF RevokeMachine, machinesServer, machinesQueries, machinesHistory,
                  MachinesTypeOK
    <2>5. CASE ServeDelete(i)
      BY <2>5 DEF ServeDelete, RevokeOnServer, machinesUI, machinesQueries, machinesHistory,
                  MachinesTypeOK
    <2>6. CASE LoseDelete(i)
      BY <2>6 DEF LoseDelete, Down, machinesServer, machinesUI, machinesQueries,
                  machinesHistory, MachinesTypeOK
    <2>7. CASE RevokedElsewhere(i)
      BY <2>7 DEF RevokedElsewhere, RevokeOnServer, machinesUI, machinesQueries,
                  machinesHistory, MachinesTypeOK
    <2>8. CASE EnrollMachine(i)
      BY <2>8 DEF EnrollMachine, machinesUI, machinesQueries, machinesHistory, MachinesTypeOK
    <2>9. CASE Resolved(i)
      <3>1. /\ i \in revoked
            /\ UNCHANGED <<enrolled, revoked, machinesRead, recentRead, at>>
        BY <2>9 DEF Resolved, Resolves, machinesServer
      <3>2. \A j \in Machines :
              /\ row'[j].open => row[j].open
              /\ del'[j].phase # "none" => del'[j] = del[j]
              /\ del'[j].page => del'[j] = del[j]
        BY <2>9 DEF Resolved, MachinesTypeOK
      <3>3. /\ said' = IF del[i].page THEN said \cup {i} ELSE said
            /\ machinesQ' = IF at = "elsewhere" THEN machinesQ ELSE Refetch(machinesQ, 1)
            /\ recentQ' = IF at = "overview" THEN Refetch(recentQ, 1) ELSE recentQ
        BY <2>9 DEF Resolved, invalidate
      <3>n. missed' = (missed \/ (recentQ.fetch # 0 /\ (at # "overview" \/ Joins(recentQ))))
        BY <2>9 DEF Resolved, invalidate
      <3>m. ~missed' => ~missed /\ (recentQ.fetch = 0 \/ (at = "overview" /\ ~Joins(recentQ)))
        BY <3>n DEF Joins
      <3>4. RevocationInv'
        BY <1>q, <3>1, <3>2, <3>3
      <3>5. ListInv'
        <4>1. CASE del[i].page
          BY <1>q, <3>1, <3>2, <3>3, <4>1
        <4>2. CASE ~del[i].page
          BY <1>q, <3>1, <3>2, <3>3, <4>2
        <4> QED
          BY <4>1, <4>2
      <3>6. RecentInv'
        <4>1. CASE at = "overview"
          BY <1>q, <3>1, <3>3, <3>m, <4>1 DEF Joins
        <4>2. CASE at # "overview"
          BY <3>1, <3>3, <3>m, <4>2
        <4> QED
          BY <4>1, <4>2
      <3> QED
        BY <3>4, <3>5, <3>6
    <2>10. CASE NotResolved(i)
      BY <2>10 DEF NotResolved, machinesServer, machinesQueries, machinesHistory,
                   MachinesTypeOK
    <2> QED
      BY <1>9, <2>1, <2>2, <2>3, <2>4, <2>5, <2>6, <2>7, <2>8, <2>9, <2>10
      DEF MachineAction
  <1>10. CASE UNCHANGED machinesVars
    BY <1>10 DEF machinesVars, machinesServer, machinesUI, machinesQueries, machinesHistory
  <1> QED
    BY <1>1, <1>2, <1>3, <1>4, <1>5, <1>6, <1>7, <1>8, <1>9, <1>10 DEF MachinesNext

LEMMA MachinesInvAlways == MachinesSpec => []MachinesInv
  BY MachinesInitInv, MachinesInvStep, PTL DEF MachinesSpec

(* Both screens' queries, rows, dialogs and DELETEs keep their types       *)
(* (machines.tsx, overview.tsx).                                           *)
THEOREM MachinesTypes == MachinesSpec => []MachinesTypeOK
  <1>1. MachinesInv => MachinesTypeOK
    BY DEF MachinesInv
  <1> QED
    BY <1>1, MachinesInvAlways, PTL

(* A machine the console called revoked is not enrolled any more, the 404  *)
(* that RevokeButton takes for success included (machines.tsx).            *)
THEOREM RevokedStaysGone == MachinesSpec => []RevokedIsGone
  <1>1. MachinesInv => RevokedIsGone
    BY DEF MachinesInv, RevocationInv, RevokedIsGone
  <1> QED
    BY <1>1, MachinesInvAlways, PTL

(* A list that settled since does not have it (invalidate gives up the     *)
(* fetch that was out).                                                    *)
THEOREM ListsDropRevoked == MachinesSpec => []ListDropsRevoked
  <1>1. MachinesInv => ListDropsRevoked
    BY DEF MachinesInv, ListInv
  <1> QED
    BY <1>1, MachinesInvAlways, PTL

(* Overview's recent activity has its revocation, outside the one race the *)
(* property names (overview.tsx, machines.tsx).                            *)
THEOREM RecentHasRevoked == MachinesSpec => []RecentShowsRevoked
  <1>1. MachinesInv => RecentShowsRevoked
    BY DEF MachinesInv, RecentInv
  <1> QED
    BY <1>1, MachinesInvAlways, PTL

(***************************************************************************)
(* Groups.  What the form settles with, or is about to, was read after it  *)
(* switched to the user.                                                   *)
(***************************************************************************)
ResolveInv ==
    /\ moment \in 0 .. MaxChanges /\ since \in 0 .. moment
    /\ user \subseteq Users
    /\ resolveQ \in [Users -> Queries(0 .. MaxChanges, 0 .. 2)]
    /\ resolveRead \in [Users -> 0 .. MaxChanges]
    /\ \A u \in user : ~rejoined =>
          /\ resolveQ[u].fetch = 2 => resolveRead[u] >= since
          /\ isSuccess(resolveQ[u]) /\ resolveQ[u].fetch = 0 => resolveQ[u].data >= since

LEMMA ResolveQueryTypes ==
    ASSUME NEW q \in Queries(0 .. MaxChanges, 0 .. 2), NEW d \in 0 .. MaxChanges
    PROVE  /\ Fetch(q, 1) \in Queries(0 .. MaxChanges, 0 .. 2)
           /\ Succeed(q, d) \in Queries(0 .. MaxChanges, 0 .. 2)
           /\ Fail(q, Down) \in Queries(0 .. MaxChanges, 0 .. 2)
           /\ [q EXCEPT !.fetch = 2] \in Queries(0 .. MaxChanges, 0 .. 2)
  <1>1. 0 \in 0 .. 2 /\ 1 \in 0 .. 2 /\ 2 \in 0 .. 2 /\ Down \in Failures
    BY DEF Failures
  <1> QED
    BY <1>1, QueryTypes

LEMMA ResolveStep == ResolveInv /\ [GroupsNext]_groupsVars => ResolveInv'
  <1> SUFFICES ASSUME ResolveInv, [GroupsNext]_groupsVars PROVE ResolveInv'
    OBVIOUS
  <1>q. \A u \in Users : resolveQ[u] \in Queries(0 .. MaxChanges, 0 .. 2)
                         /\ QueryFacts(resolveQ[u])
    BY QueryFactsHold DEF ResolveInv
  <1>m. moment \in Nat /\ since \in Nat /\ since <= moment /\ moment \in 0 .. MaxChanges
    BY GroupsAssumption DEF ResolveInv
  <1>1. CASE \E m \in Members : putGroups(m)
    <2>1. moment' = moment + 1 /\ moment < MaxChanges /\ UNCHANGED resolveVars
      BY <1>1 DEF putGroups
    <2> QED
      BY <1>m, <2>1, GroupsAssumption DEF resolveVars, ResolveInv
  <1>2. CASE ReadGroups \/ ReceiveGroups \/ FailGroups \/ UNCHANGED groupsVars
    BY <1>2 DEF ReadGroups, ReceiveGroups, FailGroups, groupsVars, resolveVars, ResolveInv
  <1>3. CASE FocusGroups
    <2>1. /\ resolveQ' = [u \in Users |-> IF u \in user THEN Fetch(resolveQ[u], 1)
                                                        ELSE resolveQ[u]]
          /\ UNCHANGED <<moment, resolveRead, user, since, rejoined>>
      BY <1>3 DEF FocusGroups
    <2>2. resolveQ' \in [Users -> Queries(0 .. MaxChanges, 0 .. 2)]
      BY <1>q, <2>1, ResolveQueryTypes, <1>m
    <2>3. \A u \in user : resolveQ'[u] = Fetch(resolveQ[u], 1)
      BY <2>1 DEF ResolveInv
    <2>4. ASSUME NEW u \in user, ~rejoined'
          PROVE  /\ resolveQ'[u].fetch = 2 => resolveRead'[u] >= since'
                 /\ isSuccess(resolveQ'[u]) /\ resolveQ'[u].fetch = 0
                      => resolveQ'[u].data >= since'
      <3>1. resolveQ'[u] = Fetch(resolveQ[u], 1) /\ QueryFacts(resolveQ[u]) /\ ~rejoined
        BY <1>q, <2>1, <2>3, <2>4 DEF ResolveInv
      <3> QED
        BY <2>1, <3>1 DEF ResolveInv, QueryFacts
    <2> QED
      BY <2>1, <2>2, <2>4 DEF ResolveInv
  <1>4. ASSUME NEW u \in Users, TypeUser(u) PROVE ResolveInv'
    BY <1>4 DEF TypeUser, ResolveInv
  <1>5. ASSUME NEW u \in Users, Resolve(u) PROVE ResolveInv'
    <2>1. /\ user' = {u} /\ since' = moment /\ UNCHANGED <<moment, resolveRead>>
          /\ resolveQ' = [resolveQ EXCEPT ![u] = Fetch(resolveQ[u], 1)]
          /\ ~rejoined' => resolveQ[u].fetch = 0
      BY <1>5 DEF Resolve, FetchOnSwitch
    <2>2. resolveQ' \in [Users -> Queries(0 .. MaxChanges, 0 .. 2)]
      BY <1>q, <2>1, ResolveQueryTypes, <1>m DEF ResolveInv
    <2>3. ~rejoined' => resolveQ'[u].fetch = 1
      BY <1>q, <2>1 DEF ResolveInv, QueryFacts
    <2> QED
      BY <1>m, <2>1, <2>2, <2>3 DEF ResolveInv
  <1>6. ASSUME NEW u \in Users, ReadResolve(u) PROVE ResolveInv'
    <2>1. /\ UNCHANGED <<moment, user, since, rejoined>>
          /\ resolveQ' = [resolveQ EXCEPT ![u] = [resolveQ[u] EXCEPT !.fetch = 2]]
          /\ resolveRead' = [resolveRead EXCEPT ![u] = moment]
      BY <1>6 DEF ReadResolve
    <2>2. resolveQ' \in [Users -> Queries(0 .. MaxChanges, 0 .. 2)]
      BY <1>q, <2>1, ResolveQueryTypes, <1>m DEF ResolveInv
    <2> QED
      BY <1>q, <1>m, <2>1, <2>2 DEF ResolveInv, QueryFacts
  <1>7. ASSUME NEW u \in Users, ReceiveResolve(u) PROVE ResolveInv'
    <2>1. /\ UNCHANGED <<moment, user, since, rejoined, resolveRead>>
          /\ resolveQ' = [resolveQ EXCEPT ![u] = Succeed(resolveQ[u], resolveRead[u])]
          /\ resolveQ[u].fetch = 2
      BY <1>7 DEF ReceiveResolve
    <2>2. resolveQ' \in [Users -> Queries(0 .. MaxChanges, 0 .. 2)]
      BY <1>q, <2>1, ResolveQueryTypes DEF ResolveInv
    <2>3. \A v \in Users : resolveQ'[v] = IF v = u THEN Succeed(resolveQ[u], resolveRead[u])
                                                   ELSE resolveQ[v]
      BY <2>1 DEF ResolveInv
    <2>4. ASSUME NEW v \in user, ~rejoined'
          PROVE  /\ resolveQ'[v].fetch = 2 => resolveRead'[v] >= since'
                 /\ isSuccess(resolveQ'[v]) /\ resolveQ'[v].fetch = 0
                      => resolveQ'[v].data >= since'
      <3>1. CASE v = u
        <4>1. resolveQ'[v] = Succeed(resolveQ[u], resolveRead[u]) /\ QueryFacts(resolveQ[u]) /\ ~rejoined
          BY <1>q, <2>1, <2>3, <2>4, <3>1
        <4> QED
          BY <2>1, <3>1, <4>1 DEF ResolveInv, QueryFacts
      <3>2. CASE v # u
        <4>1. resolveQ'[v] = resolveQ[v]
          BY <2>3, <3>2 DEF ResolveInv
        <4> QED
          BY <2>1, <2>4, <4>1 DEF ResolveInv
      <3> QED
        BY <3>1, <3>2
    <2> QED
      BY <2>1, <2>2, <2>4 DEF ResolveInv
  <1>8. ASSUME NEW u \in Users, FailResolve(u) PROVE ResolveInv'
    <2>1. /\ UNCHANGED <<moment, user, since, rejoined, resolveRead>>
          /\ resolveQ' = [resolveQ EXCEPT ![u] = Fail(resolveQ[u], Down)]
      BY <1>8 DEF FailResolve
    <2>2. resolveQ' \in [Users -> Queries(0 .. MaxChanges, 0 .. 2)]
      BY <1>q, <2>1, ResolveQueryTypes, <1>m DEF ResolveInv
    <2>3. \A v \in Users : resolveQ'[v] = IF v = u THEN Fail(resolveQ[u], Down)
                                                   ELSE resolveQ[v]
      BY <2>1 DEF ResolveInv
    <2>4. ASSUME NEW v \in user, ~rejoined'
          PROVE  /\ resolveQ'[v].fetch = 2 => resolveRead'[v] >= since'
                 /\ isSuccess(resolveQ'[v]) /\ resolveQ'[v].fetch = 0
                      => resolveQ'[v].data >= since'
      <3>1. CASE v = u
        <4>1. resolveQ'[v] = Fail(resolveQ[u], Down) /\ QueryFacts(resolveQ[u]) /\ ~rejoined
          BY <1>q, <2>1, <2>3, <2>4, <3>1
        <4> QED
          BY <2>1, <3>1, <4>1 DEF ResolveInv, QueryFacts
      <3>2. CASE v # u
        <4>1. resolveQ'[v] = resolveQ[v]
          BY <2>3, <3>2 DEF ResolveInv
        <4> QED
          BY <2>1, <2>4, <4>1 DEF ResolveInv
      <3> QED
        BY <3>1, <3>2
    <2> QED
      BY <2>1, <2>2, <2>4 DEF ResolveInv
  <1> QED
    BY <1>1, <1>2, <1>3, <1>4, <1>5, <1>6, <1>7, <1>8 DEF GroupsNext

(* Groups read before the form switched to the user are on screen only     *)
(* while a fetch is out or beside its error, and the answer of that fetch  *)
(* is not as old, unless the switch joined an older fetch (groups.tsx,     *)
(* ResolveForm).                                                           *)
THEOREM OlderGroupsReplaced == GroupsSpec => []OlderGroupsGiveWay
  <1>1. GroupsInit => ResolveInv
    <2> SUFFICES ASSUME GroupsInit PROVE ResolveInv
      OBVIOUS
    <2>1. NewQuery(0, 0) \in Queries(0 .. MaxChanges, 0 .. 2)
      BY GroupsAssumption DEF NewQuery, Queries
    <2> QED
      BY <2>1, GroupsAssumption DEF GroupsInit, ResolveInv
  <1>2. ResolveInv => OlderGroupsGiveWay
    <2> SUFFICES ASSUME ResolveInv, NEW u \in user, ~rejoined
                 PROVE  /\ resolveQ[u].got /\ resolveQ[u].data < since
                             => resolveQ[u].fetch # 0 \/ isError(resolveQ[u])
                        /\ resolveQ[u].fetch = 2 => resolveRead[u] >= since
      BY DEF OlderGroupsGiveWay
    <2>1. resolveQ[u] \in Queries(0 .. MaxChanges, 0 .. 2) /\ since \in Nat
      BY GroupsAssumption DEF ResolveInv
    <2> QED
      BY <2>1, GroupsAssumption DEF ResolveInv, Queries, isSuccess, isError
  <1> QED
    BY <1>1, <1>2, ResolveStep, PTL DEF GroupsSpec
(***************************************************************************)
(* The counts.  Where no user's list repeats a group, the mentions of a    *)
(* group and the users that have it are in bijection.                      *)
(***************************************************************************)
MentionsOf(members, g) ==
    {m \in (DOMAIN members) \X (1 .. MaxListed) :
        m[2] \in DOMAIN members[m[1]] /\ members[m[1]][m[2]] = g}
UsersOf(members, g) == {u \in DOMAIN members : Contains(members[u], g)}

LEMMA ListFacts ==
    ASSUME NEW members \in Members, NEW g
    PROVE  /\ DOMAIN members = Users
           /\ \A u \in Users : DOMAIN members[u] \subseteq 1 .. MaxListed
           /\ \A u \in Users : Contains(members[u], g) <=>
                                \E i \in DOMAIN members[u] : members[u][i] = g
  <1>1. DOMAIN members = Users /\ \A u \in Users : members[u] \in GroupLists(MaxListed)
    BY DEF Members
  <1>2. ASSUME NEW u \in Users
        PROVE  /\ DOMAIN members[u] \subseteq 1 .. MaxListed
               /\ Contains(members[u], g) <=>
                     \E i \in DOMAIN members[u] : members[u][i] = g
    <2>1. PICK k \in 0 .. MaxListed : members[u] \in [1 .. k -> GroupNames]
      BY <1>1, <1>2 DEF GroupLists
    <2>2. DOMAIN members[u] = 1 .. k /\ members[u] \in Seq(GroupNames)
      BY <2>1, GroupsAssumption
    <2>3. Len(members[u]) = k
      BY <2>1, <2>2, GroupsAssumption
    <2> QED
      BY <2>2, <2>3, GroupsAssumption DEF Contains
  <1> QED
    BY <1>1, <1>2

LEMMA MentionsCountUsers ==
    ASSUME NEW members \in Members, NEW g,
           \A u \in DOMAIN members : \A i, j \in DOMAIN members[u] :
              members[u][i] = members[u][j] => i = j
    PROVE  Cardinality(MentionsOf(members, g)) = Cardinality(UsersOf(members, g))
  <1> DEFINE O == UsersOf(members, g)
             M == MentionsOf(members, g)
             at1(u) == CHOOSE i \in DOMAIN members[u] : members[u][i] = g
             f == [u \in O |-> <<u, at1(u)>>]
  <1>0. DOMAIN members = Users /\ O \subseteq Users
    BY ListFacts DEF UsersOf
  <1>1. \A u \in O : at1(u) \in DOMAIN members[u] /\ members[u][at1(u)] = g
    BY <1>0, ListFacts, ZenonT(30) DEF UsersOf
  <1>2. \A u \in O : <<u, at1(u)>> \in M
    BY <1>0, <1>1, ListFacts DEF MentionsOf
  <1>3. \A m \in M : m[1] \in O /\ m = <<m[1], at1(m[1])>>
    <2> TAKE m \in M
    <2>1. /\ m[1] \in Users /\ m[2] \in DOMAIN members[m[1]] /\ members[m[1]][m[2]] = g
          /\ m = <<m[1], m[2]>>
      BY <1>0 DEF MentionsOf
    <2>2. m[1] \in O
      BY <1>0, <2>1, ListFacts DEF UsersOf
    <2>3. m[2] = at1(m[1])
      BY <1>0, <1>1, <2>1, <2>2
    <2> QED
      BY <2>1, <2>2, <2>3
  <1> HIDE DEF at1, O, M
  <1>4. f \in [O -> M] /\ \A u \in O : f[u] = <<u, at1(u)>>
    BY <1>2
  <1> HIDE DEF f
  <1>5. DOMAIN f = O
    BY <1>4
  <1>6. \A u, v \in O : f[u] = f[v] => u = v
    BY <1>4
  <1>7. \A m \in M : \E u \in O : f[u] = m
    BY <1>3, <1>4
  <1>8. f \in Bijection(O, M)
    BY <1>4, <1>5, <1>6, <1>7 DEF Bijection, Injection, Surjection, IsInjective
  <1>9. IsFiniteSet(O)
    BY <1>0, GroupsAssumption, FS_Subset
  <1>10. ExistsBijection(O, M)
    BY <1>8 DEF ExistsBijection
  <1>11. Cardinality(M) = Cardinality(O)
    BY <1>9, <1>10, FS_Bijection
  <1> QED
    BY <1>11 DEF M, O

LEMMA CountsCorrect ==
    ASSUME NEW members \in Members
    PROVE  LET counts == groupCounts(members)
               of(g) == {u \in DOMAIN members : Contains(members[u], g)}
               repeats(u) == \E i, j \in DOMAIN members[u] :
                                i # j /\ members[u][i] = members[u][j]
           IN  /\ DOMAIN counts = {g \in GroupNames : of(g) # {}}
               /\ (\A u \in DOMAIN members : ~repeats(u)) =>
                      \A g \in DOMAIN counts : counts[g] = Cardinality(of(g))
  <1>1. groupCounts(members) = [g \in {h \in GroupNames : MentionsOf(members, h) # {}} |->
                                  Cardinality(MentionsOf(members, g))]
    BY DEF groupCounts, MentionsOf
  <1>2. ASSUME NEW g PROVE MentionsOf(members, g) # {} <=> UsersOf(members, g) # {}
    <2>1. ASSUME NEW m \in MentionsOf(members, g) PROVE m[1] \in UsersOf(members, g)
      BY ListFacts DEF MentionsOf, UsersOf
    <2>2. ASSUME NEW u \in UsersOf(members, g) PROVE MentionsOf(members, g) # {}
      <3>0. u \in Users /\ Contains(members[u], g)
        BY <2>2, ListFacts DEF UsersOf
      <3>1. PICK i \in DOMAIN members[u] : members[u][i] = g
        BY <3>0, ListFacts
      <3>2. <<u, i>> \in MentionsOf(members, g)
        BY <2>2, <3>1, ListFacts DEF MentionsOf, UsersOf
      <3> QED
        BY <3>2
    <2> QED
      BY <2>1, <2>2
  <1>3. DOMAIN groupCounts(members) = {g \in GroupNames : UsersOf(members, g) # {}}
    BY <1>1, <1>2
  <1>4. ASSUME \A u \in DOMAIN members : \A i, j \in DOMAIN members[u] :
                  members[u][i] = members[u][j] => i = j,
               NEW g \in DOMAIN groupCounts(members)
        PROVE  groupCounts(members)[g] = Cardinality(UsersOf(members, g))
    BY <1>1, <1>4, MentionsCountUsers
  <1> QED
    BY <1>3, <1>4 DEF UsersOf

CountsInv ==
    /\ groupsQ \in Queries(SUBSET Members, 0 .. 2)
    /\ snapshotNow \subseteq Members /\ groupsRead \subseteq Members

LEMMA CountsStep == CountsInv /\ [GroupsNext]_groupsVars => CountsInv'
  <1> SUFFICES ASSUME CountsInv, [GroupsNext]_groupsVars PROVE CountsInv'
    OBVIOUS
  <1>q. /\ Fetch(groupsQ, 1) \in Queries(SUBSET Members, 0 .. 2)
        /\ Succeed(groupsQ, groupsRead) \in Queries(SUBSET Members, 0 .. 2)
        /\ Fail(groupsQ, Down) \in Queries(SUBSET Members, 0 .. 2)
        /\ [groupsQ EXCEPT !.fetch = 2] \in Queries(SUBSET Members, 0 .. 2)
    <2>1. 0 \in 0 .. 2 /\ 1 \in 0 .. 2 /\ 2 \in 0 .. 2 /\ Down \in Failures
      BY DEF Failures
    <2> QED
      BY <2>1, QueryTypes DEF CountsInv
  <1>1. ASSUME NEW m \in Members, putGroups(m) PROVE CountsInv'
    BY <1>1 DEF putGroups, CountsInv
  <1>2. CASE ReadGroups
    BY <1>2, <1>q DEF ReadGroups, fetchGroups, CountsInv
  <1>3. CASE ReceiveGroups
    BY <1>3, <1>q DEF ReceiveGroups, CountsInv
  <1>4. CASE FailGroups \/ FocusGroups
    BY <1>4, <1>q DEF FailGroups, FocusGroups, CountsInv
  <1>5. ASSUME NEW u \in Users,
               TypeUser(u) \/ Resolve(u) \/ ReadResolve(u) \/ ReceiveResolve(u) \/ FailResolve(u)
        PROVE  CountsInv'
    BY <1>5 DEF TypeUser, Resolve, ReadResolve, ReceiveResolve, FailResolve, CountsInv
  <1>6. CASE UNCHANGED groupsVars
    BY <1>6 DEF groupsVars, CountsInv
  <1> QED
    BY <1>1, <1>2, <1>3, <1>4, <1>5, <1>6 DEF GroupsNext

(* The number beside a group is the number of its members where no list    *)
(* names a group twice, and no group with a member is left out (groups.tsx,*)
(* groupCounts).                                                           *)
THEOREM CountsCountMembers == GroupsSpec => []CountsAreMembers
  <1>1. GroupsInit => CountsInv
    BY DEF GroupsInit, CountsInv, NewQuery, Queries, NoSnapshot
  <1>2. CountsInv => CountsAreMembers
    <2> SUFFICES ASSUME CountsInv PROVE CountsAreMembers
      OBVIOUS
    <2>1. \A members \in groupsQ.data : members \in Members
      BY QueryFields DEF CountsInv
    <2> QED
      BY <2>1, CountsCorrect DEF CountsAreMembers
  <1> QED
    BY <1>1, <1>2, CountsStep, PTL DEF GroupsSpec

(* The form names users, and the bounds bound.                             *)
FormInv ==
    /\ input \subseteq Users /\ rejoined \in BOOLEAN
    /\ groupSteps \in 0 .. MaxGroupSteps

LEMMA FormStep == ResolveInv /\ FormInv /\ [GroupsNext]_groupsVars => FormInv'
  <1> SUFFICES ASSUME ResolveInv, FormInv, [GroupsNext]_groupsVars PROVE FormInv'
    OBVIOUS
  <1> USE GroupsAssumption DEF FormInv, GroupStep
  <1>1. ASSUME NEW m \in Members, putGroups(m) PROVE FormInv'
    BY <1>1 DEF putGroups, resolveVars
  <1>2. CASE ReadGroups \/ ReceiveGroups \/ FailGroups
    BY <1>2 DEF ReadGroups, ReceiveGroups, FailGroups, resolveVars
  <1>3. CASE FocusGroups
    BY <1>3 DEF FocusGroups
  <1>4. ASSUME NEW u \in Users, TypeUser(u) \/ Resolve(u) PROVE FormInv'
    <2>1. rejoined' \in BOOLEAN
      BY <1>4 DEF TypeUser, Resolve
    <2>2. input' \subseteq Users /\ groupSteps' \in 0 .. MaxGroupSteps
      BY <1>4 DEF TypeUser, Resolve
    <2> QED
      BY <2>1, <2>2
  <1>5. ASSUME NEW u \in Users, ReadResolve(u) \/ ReceiveResolve(u) \/ FailResolve(u)
        PROVE  FormInv'
    BY <1>5 DEF ReadResolve, ReceiveResolve, FailResolve
  <1>6. CASE UNCHANGED groupsVars
    BY <1>6 DEF groupsVars, resolveVars
  <1> QED
    BY <1>1, <1>2, <1>3, <1>4, <1>5, <1>6 DEF GroupsNext

(* The snapshot shown is one awd had, and the form asks only for users     *)
(* (groups.tsx).                                                           *)
THEOREM GroupsTypes == GroupsSpec => []GroupsTypeOK
  <1>1. GroupsInit => ResolveInv /\ CountsInv /\ FormInv
    <2> SUFFICES ASSUME GroupsInit PROVE ResolveInv /\ CountsInv /\ FormInv
      OBVIOUS
    <2>1. NewQuery(0, 0) \in Queries(0 .. MaxChanges, 0 .. 2)
      BY GroupsAssumption DEF NewQuery, Queries
    <2>2. ResolveInv
      BY <2>1, GroupsAssumption DEF GroupsInit, ResolveInv
    <2>3. CountsInv
      BY DEF GroupsInit, CountsInv, NewQuery, Queries, NoSnapshot
    <2>4. FormInv
      <3>1. rejoined \in BOOLEAN
        BY DEF GroupsInit
      <3>2. input \subseteq Users /\ groupSteps \in 0 .. MaxGroupSteps
        BY GroupsAssumption DEF GroupsInit
      <3> QED
        BY <3>1, <3>2 DEF FormInv
    <2> QED
      BY <2>2, <2>3, <2>4
  <1>2. ResolveInv /\ CountsInv /\ FormInv => GroupsTypeOK
    <2> SUFFICES ASSUME ResolveInv, CountsInv, FormInv PROVE GroupsTypeOK
      OBVIOUS
    <2>1. moment \in 0 .. MaxChanges /\ since \in 0 .. MaxChanges
      BY GroupsAssumption DEF ResolveInv
    <2> QED
      BY <2>1 DEF ResolveInv, CountsInv, FormInv, GroupsTypeOK
  <1> QED
    BY <1>1, <1>2, ResolveStep, CountsStep, FormStep, PTL DEF GroupsSpec

(***************************************************************************)
(* Audit.  A page is an upper part of the events below its bound, and all  *)
(* of them unless it is full; so a list of pages, each read from the last  *)
(* event of the one before, has no hole.                                   *)
(***************************************************************************)
LEMMA MinOf ==
    ASSUME NEW T \in SUBSET Nat, T # {}
    PROVE  Min(T) \in T /\ \A y \in T : Min(T) <= y
  <1>1. IsWellFoundedOn(OpToRel(<, Nat), Nat)
    BY NatLessThanWellFounded
  <1> DEFINE R == {ss \in Nat \X Nat : ss[1] < ss[2]}
  <1>2. IsWellFoundedOn(R, Nat)
    BY <1>1 DEF OpToRel
  <1> HIDE DEF R
  <1>3. PICK x \in T : \A y \in T : ~(<<y, x>> \in R)
    BY <1>2, WFMin
  <1>4. \A y \in T : ~(y < x)
    BY <1>3 DEF R
  <1>5. \A y \in T : x <= y
    BY <1>4
  <1> QED
    BY <1>5 DEF Min

LEMMA MaxOf ==
    ASSUME NEW n \in Nat, NEW T \in SUBSET (0 .. n), T # {}
    PROVE  Max(T) \in T /\ \A y \in T : y <= Max(T)
  <1> DEFINE U == {n - y : y \in T}
  <1>1. U \in SUBSET Nat /\ U # {}
    <2>1. \A y \in T : y \in 0 .. n
      OBVIOUS
    <2>2. \A y \in T : n - y \in Nat
      BY <2>1
    <2>3. \A u \in U : u \in Nat
      BY <2>2
    <2> QED
      BY <2>3
  <1>2. PICK u \in U : \A v \in U : u <= v
    BY <1>1, MinOf
  <1>3. PICK x \in T : u = n - x
    BY <1>2
  <1>4. ASSUME NEW y \in T PROVE y <= x
    <2>1. n - y \in U
      BY <1>4
    <2>2. n - x <= n - y
      BY <1>2, <1>3, <2>1
    <2> QED
      BY <2>2
  <1>5. \A y \in T : x >= y
    BY <1>4
  <1> QED
    BY <1>5 DEF Max

UpperPage(B) == {e \in B : Cardinality({f \in B : f > e}) < PageSize}

LEMMA PageFacts ==
    ASSUME NEW B \in SUBSET EventIds
    PROVE  /\ \A e \in B : \A f \in UpperPage(B) : e >= f => e \in UpperPage(B)
           /\ Cardinality(UpperPage(B)) # PageSize => UpperPage(B) = B
           /\ Cardinality(UpperPage(B)) = PageSize => UpperPage(B) # {}
  <1> DEFINE page == UpperPage(B)
             above(e) == {f \in B : f > e}
  <1>0. page \subseteq B /\ B \subseteq Nat /\ B \subseteq 0 .. MaxEvent /\ MaxEvent \in Nat
    BY AuditAssumption DEF UpperPage, EventIds
  <1>1. IsFiniteSet(B)
    <2>1. IsFiniteSet(1 .. MaxEvent)
      BY <1>0, FS_Interval
    <2> QED
      BY <2>1, FS_Subset DEF EventIds
  <1>2. IsFiniteSet(page) /\ Cardinality(page) \in Nat
    BY <1>0, <1>1, FS_Subset, FS_CardinalityType
  <1>3. \A e \in B : e \in page <=> Cardinality(above(e)) < PageSize
    BY DEF UpperPage
  <1> HIDE DEF page
  <1>4. ASSUME NEW S \in SUBSET B, NEW T \in SUBSET S
        PROVE  /\ Cardinality(T) <= Cardinality(S)
               /\ Cardinality(T) \in Nat /\ Cardinality(S) \in Nat
    <2>1. IsFiniteSet(S)
      BY <1>1, FS_Subset
    <2>2. IsFiniteSet(T) /\ Cardinality(T) <= Cardinality(S)
      BY <2>1, FS_Subset
    <2> QED
      BY <2>1, <2>2, FS_CardinalityType
  <1>5. ASSUME NEW e \in B, NEW f \in page, e >= f PROVE e \in page
    <2>0. \A d \in B : d \in Nat
      BY <1>0
    <2>1. above(e) \subseteq above(f) /\ above(f) \subseteq B
      <3>1. e \in Nat /\ f \in Nat /\ e >= f
        BY <1>0, <1>5
      <3>2. ASSUME NEW d \in above(e) PROVE d \in above(f)
        <4>1. d \in B /\ d \in Nat /\ d > e
          BY <2>0, <3>2
        <4>2. d > f
          BY <3>1, <4>1
        <4> QED
          BY <4>1, <4>2
      <3> QED
        BY <3>2
    <2>2. Cardinality(above(f)) < PageSize
      BY <1>0, <1>3
    <2>3. /\ Cardinality(above(e)) <= Cardinality(above(f))
          /\ Cardinality(above(e)) \in Nat /\ Cardinality(above(f)) \in Nat
      BY <1>4, <2>1
    <2>4. Cardinality(above(e)) < PageSize
      BY <2>2, <2>3, AuditAssumption
    <2> QED
      BY <1>3, <2>4
  <1>6. ASSUME Cardinality(page) < PageSize, page # B PROVE FALSE
    <2> DEFINE rest == B \ page
    <2>1. rest \in SUBSET (0 .. MaxEvent) /\ rest # {}
      BY <1>0, <1>6
    <2>2. Max(rest) \in rest /\ \A y \in rest : y <= Max(rest)
      BY <1>0, <2>1, MaxOf
    <2>3. PICK e \in rest : \A y \in rest : y <= e
      BY <2>2
    <2>4. above(e) \subseteq page
      <3>1. ASSUME NEW d \in above(e) PROVE d \in page
        <4>1. d \in B /\ d \in Nat /\ e \in Nat /\ d > e
          BY <1>0, <3>1, <2>3
        <4>2. ~(d <= e)
          BY <4>1
        <4> QED
          BY <2>3, <4>1, <4>2
      <3> QED
        BY <3>1
    <2>5. Cardinality(above(e)) <= Cardinality(page) /\ Cardinality(above(e)) \in Nat
      BY <1>0, <1>4, <2>4
    <2>6. Cardinality(above(e)) < PageSize
      BY <1>2, <1>6, <2>5, AuditAssumption
    <2> QED
      BY <1>3, <2>3, <2>6
  <1>7. Cardinality(page) <= PageSize
    <2>1. CASE page = {}
      BY <2>1, FS_EmptySet, AuditAssumption
    <2>2. CASE page # {}
      <3>1. PICK m \in page : \A y \in page : m <= y
        BY <1>0, <2>2, MinOf
      <3>2. page \ {m} \subseteq above(m) /\ above(m) \subseteq B
        BY <1>0, <3>1
      <3>3. /\ Cardinality(page \ {m}) <= Cardinality(above(m))
            /\ Cardinality(above(m)) \in Nat
        BY <1>4, <3>2
      <3>4. Cardinality(page \ {m}) = Cardinality(page) - 1
        BY <1>2, FS_RemoveElement
      <3>5. Cardinality(above(m)) < PageSize
        BY <1>0, <1>3
      <3> QED
        BY <1>2, <3>3, <3>4, <3>5, AuditAssumption
    <2> QED
      BY <2>1, <2>2
  <1>8. Cardinality(page) # PageSize => page = B
    BY <1>2, <1>6, <1>7, AuditAssumption
  <1>9. Cardinality(page) = PageSize => page # {}
    BY FS_EmptySet, AuditAssumption
  <1> QED
    BY <1>5, <1>8, <1>9 DEF page

(* A list of pages is sound for what the log was and is.                   *)
PageLists == [ids : SUBSET EventIds, pages : Nat, next : 0 .. MaxEvent, newest : 0 .. MaxEvent]

Sound(p) ==
    /\ p \in PageLists
    /\ p.ids \subseteq log
    /\ p.newest \in p.ids \cup {0} /\ \A i \in p.ids : i <= p.newest
    /\ p.next \in p.ids \cup {0}
    /\ \A e \in log \ late : e <= p.newest /\ e >= p.next => e \in p.ids

AuditInv ==
    /\ log \subseteq EventIds
    /\ auditQ \in Queries(PageLists, 0 .. 2)
    /\ reading \in [got : PageLists, left : Nat, more : BOOLEAN]
    /\ Sound(auditQ.data) /\ Sound(reading.got)
    /\ reading.left > 0 => reading.got.next # 0 \/ reading.got.ids = {}

LEMMA AppendSound ==
    ASSUME log \subseteq EventIds, NEW got, Sound(got), got.next # 0 \/ got.ids = {}
    PROVE  Sound(AppendPage(got, AuditEvents(got.next)))
  <1>0. MaxEvent \in Nat /\ EventIds \subseteq 1 .. MaxEvent
    BY AuditAssumption DEF EventIds
  <1>l. \A e \in log : e \in Nat /\ 1 <= e /\ e <= MaxEvent
    <2> SUFFICES ASSUME NEW e \in log PROVE e \in Nat /\ 1 <= e /\ e <= MaxEvent
      OBVIOUS
    <2>1. e \in 1 .. MaxEvent
      BY <1>0
    <2> QED
      BY <1>0, <2>1
  <1>g. /\ got.ids \subseteq log /\ got.pages \in Nat
        /\ got.newest \in got.ids \cup {0} /\ \A i \in got.ids : i <= got.newest
        /\ got.next \in got.ids \cup {0}
        /\ \A e \in log \ late : e <= got.newest /\ e >= got.next => e \in got.ids
    BY DEF Sound, PageLists
  <1> DEFINE B == Below(got.next)
             page == AuditEvents(got.next)
             new == AppendPage(got, page)
             all == got.ids \cup page \cup {0}
  <1>b. B \subseteq log /\ \A e \in log : e \in B <=> (got.next = 0 \/ e < got.next)
    BY DEF Below
  <1>p. /\ page \subseteq B
        /\ \A e \in B : \A f \in page : e >= f => e \in page
        /\ Cardinality(page) # PageSize => page = B
        /\ Cardinality(page) = PageSize => page # {}
    <2>1. page = UpperPage(B)
      BY DEF AuditEvents, UpperPage
    <2>2. B \in SUBSET EventIds
      BY <1>b
    <2> QED
      BY <2>1, <2>2, PageFacts DEF UpperPage
  <1>n. /\ new.ids = got.ids \cup page /\ new.pages = got.pages + 1
        /\ new.next = getNextPageParam(page) /\ new.newest = Max(all)
        /\ new = [ids |-> new.ids, pages |-> new.pages, next |-> new.next, newest |-> new.newest]
    BY DEF AppendPage
  <1> HIDE DEF B, page, new
  <1>1. all \in SUBSET (0 .. MaxEvent) /\ all # {}
    <2>1. got.ids \subseteq log /\ page \subseteq log
      BY <1>g, <1>b, <1>p
    <2>2. log \subseteq 0 .. MaxEvent /\ 0 \in 0 .. MaxEvent
      BY <1>0, <1>l
    <2> QED
      BY <2>1, <2>2
  <1>2. new.newest \in all /\ \A y \in all : y <= new.newest
    BY <1>0, <1>1, <1>n, MaxOf
  <1>3. \/ Cardinality(page) = PageSize /\ new.next \in page /\ \A y \in page : new.next <= y
        \/ page = B /\ new.next = 0
    <2>1. CASE Cardinality(page) = PageSize
      <3>1. page \in SUBSET Nat /\ page # {}
        <4>1. log \subseteq Nat
          BY <1>l
        <4> QED
          BY <1>b, <1>p, <2>1, <4>1
      <3>2. Min(page) \in page /\ \A y \in page : Min(page) <= y
        BY <3>1, MinOf
      <3> QED
        BY <1>n, <2>1, <3>2 DEF getNextPageParam
    <2>2. CASE Cardinality(page) # PageSize
      BY <1>n, <1>p, <2>2 DEF getNextPageParam
    <2> QED
      BY <2>1, <2>2
  <1>4. new.ids \subseteq log /\ new.next \in new.ids \cup {0} /\ new.newest \in new.ids \cup {0}
    BY <1>b, <1>g, <1>p, <1>n, <1>2, <1>3
  <1>5. new \in PageLists
    <2>1. /\ new.ids \subseteq EventIds /\ new.pages \in Nat
          /\ new.next \in 0 .. MaxEvent /\ new.newest \in 0 .. MaxEvent
      BY <1>0, <1>1, <1>2, <1>4, <1>g, <1>n
    <2> QED
      BY <1>n, <2>1 DEF PageLists
  <1>6. ASSUME NEW e \in log \ late, e <= new.newest, e >= new.next
        PROVE  e \in new.ids
    <2>0. e \in 1 .. MaxEvent /\ new.newest \in 0 .. MaxEvent
      BY <1>0, <1>1, <1>2
    <2>1. CASE e \in B
      BY <1>p, <1>3, <1>n, <2>0, <2>1, <1>6
    <2>2. CASE e \notin B
      <3>0. got.next # 0 /\ ~(e < got.next) /\ got.next \in got.ids
        BY <1>b, <1>g, <2>2
      <3>1. got.next # 0 /\ e >= got.next /\ got.next \in got.ids /\ got.next \in 1 .. MaxEvent
        <4>1. got.next \in log
          BY <1>g, <3>0
        <4>2. got.next \in Nat /\ 1 <= got.next /\ got.next <= MaxEvent
          BY <1>l, <4>1
        <4> QED
          BY <1>0, <2>0, <3>0, <4>2
      <3>2. \A f \in page : f < got.next
        BY <1>b, <1>p, <3>1
      <3>3. new.newest \in got.ids
        BY <1>0, <1>2, <1>b, <1>p, <3>1, <3>2, <2>0, <1>6, <1>1
      <3>4. e <= got.newest
        <4>1. new.newest <= got.newest
          BY <1>g, <3>3
        <4>2. got.newest = 0 \/ got.newest \in log
          BY <1>g
        <4>3. got.newest \in Int
          BY <1>l, <4>2
        <4> QED
          BY <4>1, <4>3, <2>0, <1>6
      <3> QED
        BY <1>g, <1>n, <3>1, <3>4
    <2> QED
      BY <2>1, <2>2
  <1>7. \A i \in new.ids : i <= new.newest
    BY <1>2, <1>n
  <1>8. Sound(new)
    BY <1>4, <1>5, <1>6, <1>7 DEF Sound
  <1> QED
    BY <1>8 DEF new, page

LEMMA StartSound ==
    ASSUME log \subseteq EventIds
    PROVE  Sound(NoPages) /\ NoPages \in PageLists
  <1>1. NoPages \in PageLists
    BY AuditAssumption DEF NoPages, PageLists
  <1>2. \A e \in log : ~(e <= 0)
    BY AuditAssumption DEF EventIds
  <1> QED
    BY <1>1, <1>2 DEF NoPages, Sound


LEMMA AuditInvStep == AuditInv /\ [AuditNext]_auditVars => AuditInv'
  <1> SUFFICES ASSUME AuditInv, [AuditNext]_auditVars PROVE AuditInv'
    OBVIOUS
  <1> DEFINE Q == Queries(PageLists, 0 .. 2)
             R == [got : PageLists, left : Nat, more : BOOLEAN]
  <1>0. /\ MaxEvent \in Nat /\ EventIds = 1 .. MaxEvent /\ log \subseteq EventIds
        /\ auditQ \in Q /\ reading \in R
    BY AuditAssumption DEF EventIds, AuditInv
  <1>d. /\ auditQ.data \in PageLists
        /\ reading.got \in PageLists /\ reading.left \in Nat
    BY <1>0, QueryFields
  <1>q. /\ Start(auditQ, 1) \in Q /\ Start(auditQ, 1).data = auditQ.data
        /\ Fetch(auditQ, 1) \in Q /\ Fetch(auditQ, 1).data = auditQ.data
        /\ Refetch(auditQ, 1) \in Q /\ Refetch(auditQ, 1).data = auditQ.data
        /\ Fail(auditQ, Down) \in Q /\ Fail(auditQ, Down).data = auditQ.data
        /\ Succeed(auditQ, reading.got) \in Q
        /\ Succeed(auditQ, reading.got).data = reading.got
    <2>1. 0 \in 0 .. 2 /\ 1 \in 0 .. 2 /\ Down \in Failures
      BY DEF Failures
    <2>2. /\ Start(auditQ, 1) \in Q /\ Fetch(auditQ, 1) \in Q /\ Refetch(auditQ, 1) \in Q
          /\ Fail(auditQ, Down) \in Q /\ Succeed(auditQ, reading.got) \in Q
      BY <1>0, <1>d, <2>1, QueryTypes
    <2>3. Start(auditQ, 1).data = auditQ.data
      BY <1>0 DEF Start, Queries
    <2>4. QueryFacts(auditQ)
      BY <1>0, QueryFactsHold
    <2> QED
      BY <2>2, <2>3, <2>4 DEF QueryFacts
  <1>r. /\ NoReading \in R /\ NoReading.got = NoPages /\ NoReading.left = 0
        /\ OlderPage \in R /\ OlderPage.got = auditQ.data
    BY <1>0, <1>d, StartSound DEF NoReading, OlderPage
  <1>f. /\ RefetchPages \in R /\ RefetchPages.got = NoPages
        /\ NoPages.ids = {}
    <2>1. auditQ.data.pages \in Nat
      BY <1>d DEF PageLists
    <2>2. {1, auditQ.data.pages} \in SUBSET (0 .. (auditQ.data.pages + 1))
      BY <2>1
    <2>n. auditQ.data.pages + 1 \in Nat /\ {1, auditQ.data.pages} # {}
      BY <2>1
    <2>3. Max({1, auditQ.data.pages}) \in {1, auditQ.data.pages}
      BY <2>2, <2>n, MaxOf, Zenon
    <2>4. Max({1, auditQ.data.pages}) \in Nat
      BY <2>1, <2>3
    <2> QED
      BY <1>0, <2>4, StartSound DEF RefetchPages, NoPages
  <1>s. Sound(auditQ.data) /\ Sound(reading.got) /\ Sound(NoPages)
    BY <1>0, StartSound DEF AuditInv
  <1> HIDE DEF Q, R
  (* What the steps of the query may leave: the log as it was, a query and *)
  (* a reading made of sound lists.                                        *)
  <1>k. ASSUME UNCHANGED <<log, late>>, auditQ' \in Q, reading' \in R,
               Sound(auditQ'.data), Sound(reading'.got),
               reading'.left > 0 => reading'.got.next # 0 \/ reading'.got.ids = {}
        PROVE  AuditInv'
    <2>1. Sound(auditQ.data)' /\ Sound(reading.got)'
      BY <1>k DEF Sound
    <2> QED
      BY <1>0, <1>k, <2>1 DEF AuditInv, Q, R
  <1>l. reading.left > 0 => reading.got.next # 0 \/ reading.got.ids = {}
    BY DEF AuditInv
  <1>1. CASE Reserve
    BY <1>0, <1>1, <1>k, <1>l, <1>s DEF Reserve
  <1>2. ASSUME NEW e \in EventIds, RecordAudit(e) PROVE AuditInv'
    <2>1. /\ log' = log \cup {e} /\ e \notin log /\ UNCHANGED <<auditQ, reading>>
          /\ late' = IF \E f \in log : f > e THEN late \cup {e} ELSE late
      BY <1>2 DEF RecordAudit
    <2>2. ASSUME NEW p, Sound(p)
          PROVE  /\ p \in PageLists
                 /\ p.ids \subseteq log'
                 /\ p.newest \in p.ids \cup {0} /\ \A i \in p.ids : i <= p.newest
                 /\ p.next \in p.ids \cup {0}
                 /\ \A d \in log' \ late' : d <= p.newest /\ d >= p.next => d \in p.ids
      <3>1. /\ p \in PageLists /\ p.ids \subseteq log
            /\ p.newest \in p.ids \cup {0} /\ \A i \in p.ids : i <= p.newest
            /\ p.next \in p.ids \cup {0}
            /\ \A d \in log \ late : d <= p.newest /\ d >= p.next => d \in p.ids
        BY <2>2 DEF Sound
      <3>2. ASSUME NEW d \in log' \ late', d <= p.newest, d >= p.next PROVE d \in p.ids
        <4>1. CASE d \in log
          <5>1. d \notin late
            BY <2>1, <3>2
          <5> QED
            BY <3>1, <3>2, <4>1, <5>1
        <4>2. CASE d = e
          <5>1. \A f \in log : ~(f > e)
            BY <2>1, <3>2, <4>2
          <5>2. e \in Nat /\ 1 <= e /\ \A f \in log : f \in Nat
            BY <1>0
          <5>3. p.newest = 0 \/ p.newest \in log
            BY <3>1
          <5>4. p.newest \in Nat /\ e <= p.newest /\ ~(p.newest > e)
            BY <3>2, <4>2, <5>1, <5>2, <5>3
          <5>5. p.newest = e
            BY <5>2, <5>4
          <5> QED
            BY <2>1, <5>2, <5>3, <5>5
        <4> QED
          BY <2>1, <3>2, <4>1, <4>2
      <3> QED
        BY <2>1, <3>1, <3>2
    <2>3. Sound(auditQ.data)' /\ Sound(reading.got)'
      BY <1>s, <2>1, <2>2 DEF Sound
    <2>4. log' \subseteq EventIds
      BY <1>0, <2>1
    <2> QED
      BY <1>0, <1>l, <2>1, <2>3, <2>4 DEF AuditInv, Q, R
  <1>3. CASE ReadPage
    <2> DEFINE got == AppendPage(reading.got, AuditEvents(reading.got.next))
    <2>1. /\ UNCHANGED <<log, late, auditQ>> /\ reading.left > 0
          /\ reading' = [reading EXCEPT !.got = got,
                                        !.left = IF got.next = 0 THEN 0 ELSE reading.left - 1]
      BY <1>3 DEF ReadPage
    <2>2. Sound(got)
      BY <1>0, <1>l, <1>s, <2>1, AppendSound
    <2>3. got \in PageLists
      BY <2>2 DEF Sound
    <2> HIDE DEF got
    <2> DEFINE left == IF got.next = 0 THEN 0 ELSE reading.left - 1
    <2>n. left \in Nat /\ (left > 0 => got.next # 0)
      BY <1>d, <2>1
    <2>m. reading' = [reading EXCEPT !.got = got, !.left = left]
      BY <2>1
    <2> HIDE DEF left
    <2>4. reading'.got = got /\ reading'.left = left /\ reading' \in R
      BY <1>0, <2>m, <2>n, <2>3 DEF R
    <2> QED
      BY <1>0, <1>k, <1>s, <2>1, <2>2, <2>4, <2>n
  <1>4. CASE ReceivePages
    BY <1>k, <1>q, <1>r, <1>s, <1>4 DEF ReceivePages
  <1>5. CASE FailPages
    BY <1>k, <1>q, <1>r, <1>s, <1>5 DEF FailPages
  <1>6. CASE FocusAudit
    BY <1>k, <1>q, <1>f, <1>s, <1>6 DEF FocusAudit
  <1>7. CASE InvalidateAudit
    <2>1. /\ UNCHANGED <<log, late>> /\ auditQ' = Refetch(auditQ, 1)
          /\ reading' = reading \/ reading' = RefetchPages
      BY <1>7 DEF InvalidateAudit
    <2>2. reading' \in R /\ Sound(reading'.got)
          /\ (reading'.left > 0 => reading'.got.next # 0 \/ reading'.got.ids = {})
      BY <1>0, <1>f, <1>l, <1>s, <2>1
    <2> QED
      BY <1>k, <1>q, <1>s, <2>1, <2>2
  <1>8. CASE Older
    BY <1>k, <1>q, <1>r, <1>s, <1>8 DEF Older
  <1>9. CASE UNCHANGED auditVars
    BY <1>0, <1>k, <1>l, <1>s, <1>9 DEF auditVars
  <1> QED
    BY <1>1, <1>2, <1>3, <1>4, <1>5, <1>6, <1>7, <1>8, <1>9 DEF AuditNext

LEMMA AuditInvAlways == AuditSpec => []AuditInv
  <1>1. AuditInit => AuditInv
    <2> SUFFICES ASSUME AuditInit PROVE AuditInv
      OBVIOUS
    <2>1. log \subseteq EventIds
      BY DEF AuditInit
    <2>2. Sound(NoPages) /\ NoPages \in PageLists
      BY <2>1, StartSound
    <2>3. auditQ \in Queries(PageLists, 0 .. 2) /\ auditQ.data = NoPages
      BY <2>2 DEF AuditInit, NewQuery, Queries
    <2>4. /\ reading \in [got : PageLists, left : Nat, more : BOOLEAN]
          /\ reading.got = NoPages
      BY <2>2 DEF AuditInit, NoReading
    <2>5. NoPages.ids = {}
      BY DEF NoPages
    <2> QED
      BY <2>1, <2>2, <2>3, <2>4, <2>5 DEF AuditInv
  <1> QED
    BY <1>1, AuditInvStep, PTL DEF AuditSpec

(* The audit table has no holes, and its end is the end of the log, however*)
(* the pages were read between new events (audit.tsx, getNextPageParam).   *)
THEOREM AuditHasNoHoles == AuditSpec => []AuditIsComplete
  <1>1. AuditInv => AuditIsComplete
    BY DEF AuditInv, Sound, AuditIsComplete
  <1> QED
    BY <1>1, AuditInvAlways, PTL

(* Every page ends below the last one, so the pages and what is left below *)
(* them are never more than the events.                                    *)
Ends(p) == p.pages + p.next <= MaxEvent + 1

AuditEnds ==
    /\ reserved \in 0 .. MaxEvent /\ late \subseteq EventIds
    /\ auditSteps \in 0 .. MaxAuditSteps
    /\ auditQ.fetch \in 0 .. 1
    /\ Ends(auditQ.data) /\ Ends(reading.got)
    /\ reading.left <= MaxEvent + 1
    /\ reading.left > 0 => reading.got.next # 0 \/ reading.got.pages = 0

LEMMA NextDescends ==
    ASSUME log \subseteq EventIds, NEW b
    PROVE  LET n == getNextPageParam(AuditEvents(b))
           IN  n = 0 \/ (n \in log /\ (b = 0 \/ n < b))
  <1> DEFINE page == AuditEvents(b)
  <1>1. page = UpperPage(Below(b)) /\ Below(b) \in SUBSET EventIds
    BY DEF AuditEvents, UpperPage, Below
  <1>2. page \subseteq Below(b) /\ (Cardinality(page) = PageSize => page # {})
    BY <1>1, PageFacts DEF UpperPage
  <1>3. Below(b) \subseteq log /\ \A e \in Below(b) : b = 0 \/ e < b
    BY DEF Below
  <1> HIDE DEF page
  <1>4. page \subseteq Nat
    <2>1. page \subseteq EventIds
      BY <1>2, <1>3
    <2>2. EventIds \subseteq Nat
      BY DEF EventIds
    <2> QED
      BY <2>1, <2>2
  <1>5. CASE Cardinality(page) = PageSize
    <2>1. Min(page) \in page
      BY <1>2, <1>4, <1>5, MinOf
    <2>2. getNextPageParam(page) = Min(page)
      BY <1>5 DEF getNextPageParam
    <2> QED
      BY <1>2, <1>3, <2>1, <2>2 DEF page
  <1>6. CASE Cardinality(page) # PageSize
    <2>1. getNextPageParam(page) = 0
      BY <1>6 DEF getNextPageParam
    <2>2. getNextPageParam(AuditEvents(b)) = 0
      BY <2>1 DEF page
    <2> QED
      BY <2>2
  <1> QED
    BY <1>5, <1>6

LEMMA AppendEnds ==
    ASSUME log \subseteq EventIds, NEW got \in PageLists, Ends(got),
           got.next # 0 \/ got.pages = 0
    PROVE  Ends(AppendPage(got, AuditEvents(got.next)))
  <1> DEFINE n == getNextPageParam(AuditEvents(got.next))
             new == AppendPage(got, AuditEvents(got.next))
  <1>1. n = 0 \/ (n \in log /\ (got.next = 0 \/ n < got.next))
    BY NextDescends
  <1>2. new.pages = got.pages + 1 /\ new.next = n
    BY DEF AppendPage
  <1>3. got.pages \in Nat /\ got.next \in 0 .. MaxEvent /\ MaxEvent \in Nat
    BY AuditAssumption DEF PageLists
  <1>4. n = 0 \/ n \in 1 .. MaxEvent
    BY <1>1 DEF EventIds
  <1> HIDE DEF n, new
  <1>5. Ends(new)
    BY <1>1, <1>2, <1>3, <1>4 DEF Ends
  <1> QED
    BY <1>5 DEF new

LEMMA AuditEndsStep ==
    AuditInv /\ AuditEnds /\ [AuditNext]_auditVars => AuditEnds'
  <1> SUFFICES ASSUME AuditInv, AuditEnds, [AuditNext]_auditVars PROVE AuditEnds'
    OBVIOUS
  <1>0. /\ MaxEvent \in Nat /\ MaxAuditSteps \in Nat /\ log \subseteq EventIds
        /\ auditQ \in Queries(PageLists, 0 .. 2)
        /\ reading \in [got : PageLists, left : Nat, more : BOOLEAN]
    BY AuditAssumption DEF AuditInv
  <1>d. /\ auditQ.data \in PageLists /\ auditQ.data.pages \in Nat
        /\ auditQ.data.next \in 0 .. MaxEvent
        /\ reading.got \in PageLists /\ reading.left \in Nat
    <2>1. auditQ.data \in PageLists /\ reading.got \in PageLists /\ reading.left \in Nat
      BY <1>0, QueryFields
    <2> QED
      BY <2>1 DEF PageLists
  (* The fields of the query after each of its operations.                 *)
  <1>q. ASSUME NEW q \in {Start(auditQ, 1), Fetch(auditQ, 1), Refetch(auditQ, 1),
                          Fail(auditQ, Down)}
        PROVE  q.data = auditQ.data /\ q.fetch \in 0 .. 1
    <2>1. auditQ \in Queries(PageLists, 0 .. 1)
      BY <1>0 DEF AuditEnds, Queries
    <2>2. Start(auditQ, 1).data = auditQ.data /\ Start(auditQ, 1).fetch = 1
      BY <2>1 DEF Start, Queries
    <2>3. Fail(auditQ, Down).data = auditQ.data /\ Fail(auditQ, Down).fetch = 0
      BY <2>1 DEF Fail, Queries
    <2>4. /\ Fetch(auditQ, 1) \in {auditQ, Start(auditQ, 1)}
          /\ Refetch(auditQ, 1) \in {auditQ, Start(auditQ, 1)}
      BY DEF Fetch, Refetch
    <2>5. auditQ.fetch \in 0 .. 1
      BY <2>1, QueryFields
    <2> QED
      BY <1>q, <2>2, <2>3, <2>4, <2>5
  <1>s. /\ Succeed(auditQ, reading.got).data = reading.got
        /\ Succeed(auditQ, reading.got).fetch = 0
    BY DEF Succeed
  (* The readings a step may begin with.                                   *)
  <1>r. /\ NoReading.got = NoPages /\ NoReading.left = 0
        /\ OlderPage.got = auditQ.data /\ OlderPage.left = 1
        /\ RefetchPages.got = NoPages
        /\ NoPages.pages = 0 /\ NoPages.next = 0 /\ Ends(NoPages)
    BY <1>0 DEF NoReading, OlderPage, RefetchPages, NoPages, Ends
  <1>m. RefetchPages.left <= MaxEvent + 1
    <2>1. auditQ.data.pages <= MaxEvent + 1
      BY <1>0, <1>d DEF AuditEnds, Ends
    <2>2. /\ MaxEvent + 1 \in Nat /\ {1, auditQ.data.pages} # {}
          /\ {1, auditQ.data.pages} \in SUBSET (0 .. (MaxEvent + 1))
      BY <1>0, <1>d, <2>1
    <2>3. Max({1, auditQ.data.pages}) \in {1, auditQ.data.pages}
      BY <2>2, MaxOf, Zenon
    <2>4. Max({1, auditQ.data.pages}) <= MaxEvent + 1
      BY <1>0, <2>1, <2>3
    <2> QED
      BY <2>4 DEF RefetchPages
  <1>t. AuditStep => auditSteps' \in 0 .. MaxAuditSteps
    BY <1>0 DEF AuditStep, AuditEnds
  (* What the steps of the query may leave.                                *)
  <1>k. ASSUME UNCHANGED <<reserved, late>>, auditSteps' \in 0 .. MaxAuditSteps,
               auditQ'.fetch \in 0 .. 1, Ends(auditQ'.data), Ends(reading'.got),
               reading'.left <= MaxEvent + 1,
               reading'.left > 0 => reading'.got.next # 0 \/ reading'.got.pages = 0
        PROVE  AuditEnds'
    BY <1>k DEF AuditEnds, Ends
  <1>e. /\ auditSteps \in 0 .. MaxAuditSteps /\ auditQ.fetch \in 0 .. 1
        /\ Ends(auditQ.data) /\ Ends(reading.got) /\ reading.left <= MaxEvent + 1
        /\ reading.left > 0 => reading.got.next # 0 \/ reading.got.pages = 0
    BY DEF AuditEnds
  <1>1. CASE Reserve
    BY <1>0, <1>1 DEF Reserve, AuditEnds, Ends
  <1>2. ASSUME NEW e \in EventIds, RecordAudit(e) PROVE AuditEnds'
    BY <1>0, <1>2 DEF RecordAudit, AuditEnds, Ends
  <1>3. CASE ReadPage
    <2> DEFINE got == AppendPage(reading.got, AuditEvents(reading.got.next))
               left == IF got.next = 0 THEN 0 ELSE reading.left - 1
    <2>1. /\ UNCHANGED <<log, late, reserved, auditQ, auditSteps>> /\ reading.left > 0
          /\ reading' = [reading EXCEPT !.got = got, !.left = left]
      BY <1>3 DEF ReadPage
    <2>2. Ends(got)
      BY <1>0, <1>d, <1>e, <2>1, AppendEnds
    <2> HIDE DEF got
    <2>3. left <= MaxEvent + 1 /\ (left > 0 => got.next # 0)
      BY <1>0, <1>d, <1>e
    <2> HIDE DEF left
    <2>4. reading'.got = got /\ reading'.left = left
      BY <1>0, <2>1
    <2> QED
      BY <1>k, <1>e, <2>1, <2>2, <2>3, <2>4
  <1>4. CASE ReceivePages
    BY <1>0, <1>k, <1>e, <1>s, <1>r, <1>4 DEF ReceivePages
  <1>5. CASE FailPages
    BY <1>0, <1>k, <1>e, <1>q, <1>r, <1>t, <1>5 DEF FailPages
  <1>6. CASE FocusAudit
    BY <1>k, <1>e, <1>q, <1>r, <1>m, <1>t, <1>6 DEF FocusAudit
  <1>7. CASE InvalidateAudit
    <2>1. /\ UNCHANGED <<late, reserved>> /\ auditQ' = Refetch(auditQ, 1) /\ AuditStep
          /\ reading' = reading \/ reading' = RefetchPages
      BY <1>7 DEF InvalidateAudit
    <2>2. /\ Ends(reading'.got) /\ reading'.left <= MaxEvent + 1
          /\ reading'.left > 0 => reading'.got.next # 0 \/ reading'.got.pages = 0
      BY <1>e, <1>r, <1>m, <2>1
    <2> QED
      BY <1>k, <1>e, <1>q, <1>t, <2>1, <2>2
  <1>8. CASE Older
    <2>1. /\ UNCHANGED <<late, reserved>> /\ auditQ' = Start(auditQ, 1) /\ AuditStep
          /\ reading' = OlderPage /\ auditQ.data.next # 0
      BY <1>8 DEF Older
    <2> QED
      BY <1>0, <1>k, <1>e, <1>q, <1>r, <1>t, <2>1
  <1>9. CASE UNCHANGED auditVars
    BY <1>9 DEF auditVars, AuditEnds, Ends
  <1> QED
    BY <1>1, <1>2, <1>3, <1>4, <1>5, <1>6, <1>7, <1>8, <1>9 DEF AuditNext

(* However many events arrive between the pages, reading them ends: there  *)
(* are no more pages than events, and one (audit.tsx, getNextPageParam).   *)
THEOREM AuditTypes == AuditSpec => []AuditTypeOK
  <1>1. AuditInit => AuditEnds
    <2> SUFFICES ASSUME AuditInit PROVE AuditEnds
      OBVIOUS
    <2>1. /\ auditQ.data = NoPages /\ auditQ.fetch = 1
          /\ reading.got = NoPages /\ reading.left = 1
      BY DEF AuditInit, NewQuery, NoReading
    <2>2. NoPages.pages = 0 /\ NoPages.next = 0
      BY DEF NoPages
    <2> QED
      BY <2>1, <2>2, AuditAssumption DEF AuditInit, AuditEnds, Ends
  <1>2. ASSUME AuditInv, AuditEnds PROVE AuditTypeOK
    <2>1. ASSUME NEW p \in PageLists, Ends(p) PROVE p \in Pages
      BY <2>1, AuditAssumption DEF PageLists, Pages, Ends
    <2>2. auditQ.data \in Pages /\ reading.got \in Pages
      BY <1>2, <2>1 DEF AuditInv, Sound, AuditEnds
    <2>3. auditQ \in Queries(Pages, 0 .. 1)
      BY <1>2, <2>2 DEF AuditInv, AuditEnds, Queries
    <2>4. reading \in [got : Pages, left : 0 .. MaxEvent + 1, more : BOOLEAN]
      BY <1>2, <2>2, AuditAssumption DEF AuditInv, AuditEnds
    <2> QED
      BY <1>2, <2>3, <2>4 DEF AuditInv, AuditEnds, AuditTypeOK
  <1> QED
    BY <1>1, <1>2, AuditInvAlways, AuditEndsStep, PTL DEF AuditSpec

(***************************************************************************)
(* Policy.  Three arguments, one per property: the text typed last is what *)
(* every later commit renders, so no effect has anything to put in its     *)
(* place; the version reviewed is the one in the POST until it is reviewed *)
(* again; and the list is asked for again after awd accepted the version.  *)
(***************************************************************************)
WorkInv ==
    /\ ~creating => ~view /\ ~typed
    /\ typed /\ ~raced => /\ touched /\ doc = work /\ draft = work
                          /\ due # {} => shown.value = work

ApplyInv ==
    /\ post.mine => post.phase # "none"
    /\ post.mine /\ ~rereviewed => reviewValue = post.value
    /\ post.phase = "answered" /\ post.answer = 200 => post.value \in accepted
    /\ AppliedNamesAccepted

ShownInv ==
    /\ status # Template /\ ~rereviewed /\ ~joined /\ revisions.fetch = 2
         => status \in snapshot.all
    /\ ListShowsApplied

PolicyInv == PolicyTypeOK /\ WorkInv /\ ApplyInv /\ ShownInv

LEMMA TextTypes ==
    /\ \A v \in RuleSets : toYaml(v) \in Texts
    /\ Template \in RuleSets /\ NoList \in Lists /\ NoPost \in Posts
  BY DEF toYaml, Texts, RuleSets, Template, NoList, Lists, NoPost, Posts

LEMMA PostTypes ==
    ASSUME NEW p \in Posts, NEW a \in {200} \cup Failures, NEW v \in RuleSets
    PROVE  /\ [p EXCEPT !.phase = "answered", !.answer = a] \in Posts
           /\ [p EXCEPT !.mine = FALSE] \in Posts
           /\ [phase |-> "sent", value |-> v, answer |-> 0, mine |-> TRUE] \in Posts
  <1>1. [p EXCEPT !.phase = "answered", !.answer = a] \in Posts
    BY DEF Posts
  <1>2. [p EXCEPT !.mine = FALSE] \in Posts
    BY DEF Posts
  <1>3. [phase |-> "sent", value |-> v, answer |-> 0, mine |-> TRUE] \in Posts
    BY DEF Posts
  <1> QED
    BY <1>1, <1>2, <1>3

LEMMA RevisionsQueryTypes ==
    ASSUME NEW q \in Queries(Lists, 0 .. 2), NEW d \in Lists
    PROVE  /\ Fetch(q, 1) \in Queries(Lists, 0 .. 2)
           /\ Refetch(q, 1) \in Queries(Lists, 0 .. 2)
           /\ Succeed(q, d) \in Queries(Lists, 0 .. 2)
           /\ Fail(q, Down) \in Queries(Lists, 0 .. 2)
           /\ [q EXCEPT !.fetch = 2] \in Queries(Lists, 0 .. 2)
  <1>1. 0 \in 0 .. 2 /\ 1 \in 0 .. 2 /\ 2 \in 0 .. 2 /\ Down \in Failures
    BY DEF Failures
  <1> QED
    BY <1>1, QueryTypes

(* What NewRevision starts with and what a commit renders are texts.       *)
Renderings == [value : Texts, yaml : Texts, loaded : BOOLEAN]

LEMMA PageTypes ==
    ASSUME PolicyTypeOK
    PROVE  /\ currentYaml \in Texts /\ currentLoaded \in BOOLEAN
           /\ Rendered \in Renderings
           /\ [value |-> currentYaml, yaml |-> currentYaml, loaded |-> currentLoaded] \in Renderings
           /\ [value |-> toYaml(Template), yaml |-> toYaml(Template), loaded |-> FALSE] \in Renderings
           /\ shown.value \in Texts /\ shown.yaml \in Texts /\ shown.value.value \in RuleSets
  <1>1. revisions.data \in Lists /\ revisions.got \in BOOLEAN
    BY QueryFields DEF PolicyTypeOK
  <1>2. revisions.data.newest \in RuleSets
    BY <1>1 DEF Lists
  <1>3. currentYaml \in Texts
    BY <1>2, TextTypes DEF currentYaml
  <1>4. currentLoaded \in BOOLEAN
    BY <1>1 DEF currentLoaded, isSuccess
  <1>5. shown \in Renderings /\ draft \in Texts
    BY DEF PolicyTypeOK, Renderings
  <1>6. shown.value \in Texts /\ shown.yaml \in Texts
    BY <1>5 DEF Renderings
  <1>7. shown.value.value \in RuleSets
    BY <1>6 DEF Texts
  <1>8. /\ Rendered \in Renderings
        /\ [value |-> currentYaml, yaml |-> currentYaml, loaded |-> currentLoaded] \in Renderings
        /\ [value |-> toYaml(Template), yaml |-> toYaml(Template), loaded |-> FALSE] \in Renderings
    BY <1>3, <1>4, <1>5, TextTypes DEF Renderings, Rendered
  <1> QED
    BY <1>3, <1>4, <1>6, <1>7, <1>8

(* The state of a form that is gone.                                       *)
LEMMA UnmountedTypes ==
    ASSUME PolicyTypeOK, Unmounted
    PROVE  /\ creating' = FALSE /\ typed' = FALSE /\ raced' = FALSE
           /\ draft' \in Texts /\ touched' = FALSE /\ error' = "none"
           /\ reviewValue' \in RuleSets /\ dialogOpen' = FALSE /\ view' = FALSE
           /\ doc' \in Texts /\ shown' \in Renderings /\ due' = {} /\ work' \in Texts
  BY PageTypes, TextTypes DEF Unmounted

LEMMA PolicyTypeStep ==
    ASSUME PolicyTypeOK, [PolicyNext]_policyVars
    PROVE  PolicyTypeOK'
  <1> DEFINE T == Queries(Lists, 0 .. 2)
  <1>q. /\ Fetch(revisions, 1) \in T /\ Refetch(revisions, 1) \in T
        /\ Succeed(revisions, snapshot) \in T /\ Fail(revisions, Down) \in T
        /\ [revisions EXCEPT !.fetch = 2] \in T
    BY RevisionsQueryTypes DEF PolicyTypeOK
  <1>s. PolicyStep => policySteps' \in 0 .. MaxPolicySteps
    BY PolicyAssumption DEF PolicyStep, PolicyTypeOK
  <1>p. shown \in Renderings
    BY DEF PolicyTypeOK, Renderings
  <1>l. [all |-> accepted, newest |-> latest] \in Lists
    BY DEF PolicyTypeOK, Lists
  <1> HIDE DEF T
  <1> USE DEF awd, policyPage, policyForm, policyHistory
  <1>1. CASE ReadRevisions
    BY <1>1, <1>q, <1>l DEF ReadRevisions, PolicyTypeOK, T
  <1>2. CASE ReceiveRevisions \/ FailRevisions \/ FocusPolicy
    BY <1>2, <1>q, <1>s DEF ReceiveRevisions, FailRevisions, FocusPolicy, PolicyTypeOK, T
  <1>3. CASE Commit
    BY <1>3, PageTypes DEF Commit, PolicyTypeOK, Renderings
  <1>4. CASE Effects
    <2>1. draft' \in Texts /\ doc' \in Texts
      BY <1>4, PageTypes DEF Effects, PolicyTypeOK
    <2>2. touched' \in BOOLEAN /\ due' = {}
      BY <1>4 DEF Effects, PolicyTypeOK
    <2> QED
      BY <1>4, <2>1, <2>2 DEF Effects, PolicyTypeOK
  <1>5. CASE LoadEditor
    BY <1>5, PageTypes DEF LoadEditor, PolicyTypeOK
  <1>6. CASE NewRevision
    BY <1>6, <1>s, PageTypes DEF NewRevision, PolicyTypeOK, Renderings
  <1>7. ASSUME NEW t \in Texts, Type(t) PROVE PolicyTypeOK'
    BY <1>7, <1>s DEF Type, PolicyTypeOK
  <1>8. CASE review
    BY <1>8, <1>s, PageTypes DEF review, PolicyTypeOK
  <1>9. CASE CloseDialog
    BY <1>9, <1>s DEF CloseDialog, PolicyTypeOK
  <1>10. CASE Apply
    <2>1. post' \in Posts
      BY <1>10, PostTypes, ZenonT(30) DEF Apply, PolicyTypeOK
    <2> QED
      BY <1>10, <2>1, <1>s DEF Apply, PolicyTypeOK
  <1>11. CASE LeaveAndReturn
    <2>1. post' \in Posts /\ Unmounted
      BY <1>11, PostTypes, ZenonT(30) DEF LeaveAndReturn, PolicyTypeOK
    <2>2. status' \in RuleSets /\ revisions' \in T /\ rereviewed' = FALSE /\ joined' = FALSE
      BY <1>11, <1>q, TextTypes DEF LeaveAndReturn
    <2> QED
      BY <1>11, <2>1, <2>2, <1>s, UnmountedTypes DEF LeaveAndReturn, PolicyTypeOK, T, Renderings
  <1>12. CASE ServePost
    <2>1. postRevision(post.value) \in {200} \cup Failures /\ post.value \in RuleSets
      BY DEF postRevision, Failures, PolicyTypeOK, Posts
    <2>2. post' \in Posts
      BY <1>12, <2>1, PostTypes DEF ServePost, PolicyTypeOK
    <2>3. accepted' \subseteq Versions /\ latest' \in RuleSets
      BY <1>12, <2>1 DEF ServePost, PolicyTypeOK, postRevision, RuleSets
    <2> QED
      BY <1>12, <2>2, <2>3 DEF ServePost, PolicyTypeOK
  <1>13. CASE LosePost
    <2>0. Down \in {200} \cup Failures /\ post \in Posts /\ Template \in RuleSets
      BY DEF Failures, PolicyTypeOK, RuleSets
    <2>1. post' \in Posts
      BY <1>13, <2>0, PostTypes DEF LosePost
    <2> QED
      BY <1>13, <2>1, <1>s DEF LosePost, PolicyTypeOK
  <1>14. ASSUME NEW v \in Versions, AppliedElsewhere(v) PROVE PolicyTypeOK'
    BY <1>14, <1>s DEF AppliedElsewhere, PolicyTypeOK, RuleSets
  <1>15. CASE onSuccess
    <2>1. post' \in Posts /\ revisions' \in T
      BY <1>15, <1>q, TextTypes DEF onSuccess
    <2>2. CASE post.mine
      <3>1. Unmounted /\ status' \in RuleSets
        BY <1>15, <2>2 DEF onSuccess, PolicyTypeOK
      <3>2. joined' \in BOOLEAN
        BY <1>15, <2>2 DEF onSuccess, PolicyTypeOK
      <3> QED
        BY <1>15, <2>1, <3>1, <3>2, UnmountedTypes DEF onSuccess, PolicyTypeOK, T, Renderings
    <2>3. CASE ~post.mine
      <3>1. UNCHANGED <<awd, snapshot, policySteps, policyPage, policyForm, policyHistory>>
        BY <1>15, <2>3 DEF onSuccess
      <3> QED
        BY <2>1, <3>1 DEF PolicyTypeOK, T
    <2> QED
      BY <2>2, <2>3
  <1>16. CASE onError
    BY <1>16, TextTypes DEF onError, PolicyTypeOK
  <1>17. CASE UNCHANGED policyVars
    BY <1>17 DEF policyVars, PolicyTypeOK
  <1> QED
    BY <1>1, <1>2, <1>3, <1>4, <1>5, <1>6, <1>7, <1>8, <1>9, <1>10, <1>11, <1>12, <1>13,
       <1>14, <1>15, <1>16, <1>17 DEF PolicyNext

LEMMA WorkStep ==
    ASSUME PolicyTypeOK, WorkInv, [PolicyNext]_policyVars
    PROVE  WorkInv'
  <1> USE DEF WorkInv, awd, policyPage, policyForm, policyHistory
  <1>1. CASE ReadRevisions \/ ReceiveRevisions \/ FailRevisions \/ FocusPolicy
    BY <1>1 DEF ReadRevisions, ReceiveRevisions, FailRevisions, FocusPolicy
  <1>2. CASE Commit
    BY <1>2 DEF Commit, Rendered
  <1>3. CASE Effects
    BY <1>3 DEF Effects, Dispatches, Seeds
  <1>4. CASE LoadEditor
    BY <1>4 DEF LoadEditor, Settled, Rendered
  <1>5. CASE NewRevision
    BY <1>5 DEF NewRevision
  <1>6. ASSUME NEW t \in Texts, Type(t) PROVE WorkInv'
    BY <1>6 DEF Type
  <1>7. CASE review \/ CloseDialog \/ Apply
    BY <1>7 DEF review, CloseDialog, Apply
  <1>8. CASE LeaveAndReturn
    BY <1>8 DEF LeaveAndReturn, Unmounted
  <1>9. CASE ServePost \/ LosePost \/ onError
    BY <1>9 DEF ServePost, LosePost, onError
  <1>10. ASSUME NEW v \in Versions, AppliedElsewhere(v) PROVE WorkInv'
    BY <1>10 DEF AppliedElsewhere
  <1>11. CASE onSuccess
    BY <1>11 DEF onSuccess, Unmounted
  <1>12. CASE UNCHANGED policyVars
    BY <1>12 DEF policyVars
  <1> QED
    BY <1>1, <1>2, <1>3, <1>4, <1>5, <1>6, <1>7, <1>8, <1>9, <1>10, <1>11, <1>12
    DEF PolicyNext

LEMMA ApplyStep ==
    ASSUME PolicyTypeOK, ApplyInv, [PolicyNext]_policyVars
    PROVE  ApplyInv'
  <1> USE DEF ApplyInv, AppliedNamesAccepted, awd, policyPage, policyForm, policyHistory
  <1>p. post \in Posts
    BY DEF PolicyTypeOK
  <1>1. CASE ReadRevisions \/ ReceiveRevisions \/ FailRevisions \/ FocusPolicy
    BY <1>1 DEF ReadRevisions, ReceiveRevisions, FailRevisions, FocusPolicy
  <1>2. CASE Commit \/ Effects \/ LoadEditor
    BY <1>2 DEF Commit, Effects, LoadEditor
  <1>3. CASE NewRevision
    BY <1>3 DEF NewRevision
  <1>4. ASSUME NEW t \in Texts, Type(t) PROVE ApplyInv'
    BY <1>4 DEF Type
  <1>5. CASE review
    BY <1>5 DEF review
  <1>6. CASE CloseDialog
    BY <1>6 DEF CloseDialog
  <1>7. CASE Apply
    BY <1>7 DEF Apply
  <1>8. CASE LeaveAndReturn
    BY <1>p, <1>8 DEF LeaveAndReturn, Unmounted, Posts
  <1>9. CASE ServePost
    <2>1. /\ post'.phase = "answered" /\ post'.mine = post.mine /\ post'.value = post.value
          /\ post'.answer = postRevision(post.value) /\ post.phase = "sent"
      BY <1>p, <1>9 DEF ServePost, Posts
    <2>2. postRevision(post.value) = 200 => post.value \in accepted'
      BY <1>9 DEF ServePost
    <2>3. accepted \subseteq accepted'
      BY <1>9 DEF ServePost
    <2>4. UNCHANGED <<reviewValue, status, rereviewed>>
      BY <1>9 DEF ServePost
    <2> QED
      BY <2>1, <2>2, <2>3, <2>4
  <1>10. CASE LosePost
    BY <1>p, <1>10 DEF LosePost, Posts, Down
  <1>11. ASSUME NEW v \in Versions, AppliedElsewhere(v) PROVE ApplyInv'
    BY <1>11 DEF AppliedElsewhere
  <1>12. CASE onSuccess
    BY <1>12 DEF onSuccess, NoPost
  <1>13. CASE onError
    BY <1>13 DEF onError, NoPost
  <1>14. CASE UNCHANGED policyVars
    BY <1>14 DEF policyVars
  <1> QED
    BY <1>1, <1>2, <1>3, <1>4, <1>5, <1>6, <1>7, <1>8, <1>9, <1>10, <1>11, <1>12, <1>13,
       <1>14 DEF PolicyNext

LEMMA ShownStep ==
    ASSUME PolicyTypeOK, ApplyInv, ShownInv, [PolicyNext]_policyVars
    PROVE  ShownInv'
  <1> USE DEF ShownInv, ListShowsApplied, awd, policyPage, policyForm, policyHistory
  <1>q. QueryFacts(revisions)
    BY QueryFactsHold DEF PolicyTypeOK
  <1>1. CASE ReadRevisions
    BY <1>q, <1>1 DEF ReadRevisions, QueryFacts, ApplyInv, AppliedNamesAccepted
  <1>2. CASE ReceiveRevisions
    BY <1>q, <1>2 DEF ReceiveRevisions, QueryFacts
  <1>3. CASE FailRevisions
    BY <1>q, <1>3 DEF FailRevisions, QueryFacts
  <1>4. CASE FocusPolicy
    BY <1>q, <1>4 DEF FocusPolicy, QueryFacts
  <1>5. CASE Commit \/ Effects \/ LoadEditor
    BY <1>5 DEF Commit, Effects, LoadEditor
  <1>6. CASE NewRevision
    BY <1>6 DEF NewRevision
  <1>7. ASSUME NEW t \in Texts, Type(t) PROVE ShownInv'
    BY <1>7 DEF Type
  <1>8. CASE review
    BY <1>8 DEF review
  <1>9. CASE CloseDialog \/ Apply
    BY <1>9 DEF CloseDialog, Apply
  <1>10. CASE LeaveAndReturn
    BY <1>10 DEF LeaveAndReturn
  <1>11. CASE ServePost \/ LosePost \/ onError
    BY <1>11 DEF ServePost, LosePost, onError
  <1>12. ASSUME NEW v \in Versions, AppliedElsewhere(v) PROVE ShownInv'
    BY <1>12 DEF AppliedElsewhere
  <1>13. CASE onSuccess
    <2>1. /\ revisions' = Refetch(revisions, 1) /\ UNCHANGED <<snapshot, rereviewed>>
      BY <1>13 DEF onSuccess
    <2>2. CASE post.mine
      <3>1. joined' = (joined \/ (revisions.fetch # 0 /\ ~revisions.got))
        BY <1>13, <2>2 DEF onSuccess, Joins
      <3>2. ~joined' => ~(revisions.fetch # 0 /\ ~revisions.got)
        BY <3>1
      <3>3. ~joined' => revisions'.fetch = 1
        BY <1>q, <2>1, <3>2 DEF QueryFacts
      <3> QED
        BY <3>3
    <2>3. CASE ~post.mine
      <3>1. UNCHANGED <<status, joined>>
        BY <1>13, <2>3 DEF onSuccess
      <3>2. revisions'.fetch # 0
            /\ (revisions'.fetch = 2 => revisions.fetch = 2)
        BY <1>q, <2>1 DEF QueryFacts
      <3> QED
        BY <2>1, <3>1, <3>2
    <2> QED
      BY <2>2, <2>3
  <1>14. CASE UNCHANGED policyVars
    BY <1>14 DEF policyVars
  <1> QED
    BY <1>1, <1>2, <1>3, <1>4, <1>5, <1>6, <1>7, <1>8, <1>9, <1>10, <1>11, <1>12, <1>13,
       <1>14 DEF PolicyNext

LEMMA PolicyInvAlways == PolicySpec => []PolicyInv
  <1>1. PolicyInit => PolicyInv
    <2> SUFFICES ASSUME PolicyInit PROVE PolicyInv
      OBVIOUS
    <2>1. revisions \in Queries(Lists, 0 .. 2)
      BY TextTypes DEF PolicyInit, Queries, NewQuery
    <2>2. PolicyTypeOK
      <3>1. accepted \subseteq Versions /\ latest \in RuleSets
        BY PolicyAssumption DEF PolicyInit, Versions, RuleSets
      <3>2. shown \in Renderings
        BY TextTypes DEF PolicyInit, Renderings
      <3>3. policySteps \in 0 .. MaxPolicySteps
        BY PolicyAssumption DEF PolicyInit
      <3> QED
        BY <2>1, <3>1, <3>2, <3>3, TextTypes DEF PolicyInit, PolicyTypeOK, Renderings
    <2> QED
      BY <2>2 DEF PolicyInit, PolicyInv, WorkInv, ApplyInv, ShownInv, AppliedNamesAccepted,
                  ListShowsApplied, NoPost, Template
  <1>2. PolicyInv /\ [PolicyNext]_policyVars => PolicyInv'
    BY PolicyTypeStep, WorkStep, ApplyStep, ShownStep DEF PolicyInv
  <1> QED
    BY <1>1, <1>2, PTL DEF PolicySpec

(* The revisions, the editor and the apply dialog keep their types         *)
(* (policy.tsx).                                                           *)
THEOREM PolicyTypes == PolicySpec => []PolicyTypeOK
  <1>1. PolicyInv => PolicyTypeOK
    BY DEF PolicyInv
  <1> QED
    BY <1>1, PolicyInvAlways, PTL

(* What the operator typed survives every revision that arrives while the  *)
(* editor is open (policy.tsx, NewRevision and YamlEditor).                *)
THEOREM WorkIsKept == PolicySpec => []KeepsWork
  <1>1. PolicyInv => KeepsWork
    BY DEF PolicyInv, WorkInv, KeepsWork
  <1> QED
    BY <1>1, PolicyInvAlways, PTL

(* "Applied v" names a version awd accepted (policy.tsx, onSuccess).       *)
THEOREM AppliedIsAccepted == PolicySpec => []AppliedNamesAccepted
  <1>1. PolicyInv => AppliedNamesAccepted
    BY DEF PolicyInv, ApplyInv
  <1> QED
    BY <1>1, PolicyInvAlways, PTL

(* The list that settles after an apply has the version (policy.tsx).      *)
THEOREM AppliedIsListed == PolicySpec => []ListShowsApplied
  <1>1. PolicyInv => ListShowsApplied
    BY DEF PolicyInv, ShownInv
  <1> QED
    BY <1>1, PolicyInvAlways, PTL
=============================================================================
