---------------------------- MODULE GroupsScreen ----------------------------
(***************************************************************************)
(* The console's Groups screen: the group snapshot with its counts, and    *)
(* the form that resolves one user's groups.                               *)
(***************************************************************************)
EXTENDS QueryCache, FiniteSets, SequencesExt

CONSTANTS
    Users, GroupNames,
    MaxListed,      \* groups a snapshot lists for a user
    MaxChanges,     \* changes of the group data in a behaviour
    MaxGroupSteps   \* what operators do, and faults, in a behaviour

ASSUME GroupsAssumption ==
    /\ IsFiniteSet(Users)
    /\ MaxListed \in Nat /\ MaxChanges \in Nat /\ MaxGroupSteps \in Nat

VARIABLES
    snapshotNow,    \* awd: the snapshot's members, as posted; {} stands for none
    moment,         \* awd: changes of the group data so far
    groupsQ, groupsRead,     \* the query ["groups"], and what awd read for it
    resolveQ, resolveRead,   \* the queries ["resolve", user]: data is a moment
    input, user,    \* ResolveForm: the field, and whom it resolves ({} for nobody)
    groupSteps,     \* what is left of MaxGroupSteps
    since,          \* history: the moment the form switched to the user
    rejoined        \* history: that switch joined an older fetch

resolveVars == <<resolveQ, resolveRead, input, user, since, rejoined>>
groupsVars == <<snapshotNow, moment, groupsQ, groupsRead, resolveVars, groupSteps>>

GroupLists(n) == UNION {[1 .. k -> GroupNames] : k \in 0 .. n}
Members == [Users -> GroupLists(MaxListed)]
NoSnapshot == {}

GroupStep == groupSteps > 0 /\ groupSteps' = groupSteps - 1

(***************************************************************************)
(* groupCounts: one more for every mention of a group in a user's list.    *)
(* Validate refuses empty names, not a name listed twice.                  *)
(***************************************************************************)
MutGroupCounts(members) ==
    LET mentions(g) == {m \in (DOMAIN members) \X (1 .. MaxListed) :
                           m[2] \in DOMAIN members[m[1]] /\ members[m[1]][m[2]] = g}
    IN  [g \in {h \in GroupNames : mentions(h) # {}} |-> Cardinality(mentions(g)) - 1]
groupCounts(members) ==
    LET mentions(g) == {m \in (DOMAIN members) \X (1 .. MaxListed) :
                           m[2] \in DOMAIN members[m[1]] /\ members[m[1]][m[2]] = g}
    IN  [g \in {h \in GroupNames : mentions(h) # {}} |-> Cardinality(mentions(g))]

(* fetchGroups: awd's 404 (no snapshot) is an answer, null; not an error.  *)
fetchGroups == snapshotNow

GroupsInit ==
    /\ snapshotNow = NoSnapshot /\ moment = 0
    /\ groupsQ = NewQuery(NoSnapshot, 1) /\ groupsRead = NoSnapshot
    /\ resolveQ = [u \in Users |-> NewQuery(0, 0)]
    /\ resolveRead = [u \in Users |-> 0]
    /\ input = {} /\ user = {}
    /\ groupSteps = MaxGroupSteps
    /\ since = 0 /\ rejoined = FALSE

(* awd groups apply, or a SCIM change.                                     *)
putGroups(members) ==
    /\ moment < MaxChanges
    /\ moment' = moment + 1
    /\ snapshotNow' = {members}
    /\ UNCHANGED <<groupsQ, groupsRead, resolveVars, groupSteps>>

ReadGroups ==
    /\ groupsQ.fetch = 1
    /\ groupsQ' = [groupsQ EXCEPT !.fetch = 2]
    /\ groupsRead' = fetchGroups
    /\ UNCHANGED <<snapshotNow, moment, resolveVars, groupSteps>>

ReceiveGroups ==
    /\ groupsQ.fetch = 2
    /\ groupsQ' = Succeed(groupsQ, groupsRead)
    /\ UNCHANGED <<snapshotNow, moment, groupsRead, resolveVars, groupSteps>>

FailGroups ==
    /\ GroupStep /\ groupsQ.fetch # 0
    /\ groupsQ' = Fail(groupsQ, Down)
    /\ UNCHANGED <<snapshotNow, moment, groupsRead, resolveVars>>

FocusGroups ==
    /\ GroupStep
    /\ groupsQ' = Fetch(groupsQ, 1)
    /\ resolveQ' = [u \in Users |-> IF u \in user THEN Fetch(resolveQ[u], 1) ELSE resolveQ[u]]
    /\ <<groupsQ, resolveQ>>' # <<groupsQ, resolveQ>>
    /\ UNCHANGED <<snapshotNow, moment, groupsRead, resolveRead, input, user, since,
                   rejoined>>

(***************************************************************************)
(* The form. Pressing Resolve sets the user; only a change of user changes *)
(* the query the form shows, and mounts it.                                *)
(***************************************************************************)
TypeUser(u) ==
    /\ input # {u}
    /\ input' = {u}
    /\ UNCHANGED <<snapshotNow, moment, groupsQ, groupsRead, resolveQ, resolveRead, user,
                   groupSteps, since, rejoined>>

MutFetchOnSwitch(q) == IF q.got THEN q ELSE Fetch(q, 1)
FetchOnSwitch(q) == Fetch(q, 1)

Resolve(u) ==
    /\ GroupStep /\ input = {u} /\ user # {u}
    /\ user' = {u}
    /\ resolveQ' = [resolveQ EXCEPT ![u] = FetchOnSwitch(@)]
    /\ since' = moment
    /\ rejoined' = (resolveQ[u].fetch # 0)
    /\ UNCHANGED <<snapshotNow, moment, groupsQ, groupsRead, resolveRead, input>>

ReadResolve(u) ==
    /\ resolveQ[u].fetch = 1
    /\ resolveQ' = [resolveQ EXCEPT ![u].fetch = 2]
    /\ resolveRead' = [resolveRead EXCEPT ![u] = moment]
    /\ UNCHANGED <<snapshotNow, moment, groupsQ, groupsRead, input, user, groupSteps, since,
                   rejoined>>

ReceiveResolve(u) ==
    /\ resolveQ[u].fetch = 2
    /\ resolveQ' = [resolveQ EXCEPT ![u] = Succeed(@, resolveRead[u])]
    /\ UNCHANGED <<snapshotNow, moment, groupsQ, groupsRead, resolveRead, input, user,
                   groupSteps, since, rejoined>>

FailResolve(u) ==
    /\ GroupStep /\ resolveQ[u].fetch # 0
    /\ resolveQ' = [resolveQ EXCEPT ![u] = Fail(@, Down)]
    /\ UNCHANGED <<snapshotNow, moment, groupsQ, groupsRead, resolveRead, input, user, since,
                   rejoined>>

GroupsNext ==
    \/ \E m \in Members : putGroups(m)
    \/ ReadGroups \/ ReceiveGroups \/ FailGroups \/ FocusGroups
    \/ \E u \in Users : \/ TypeUser(u) \/ Resolve(u)
                        \/ ReadResolve(u) \/ ReceiveResolve(u) \/ FailResolve(u)

GroupsSpec == GroupsInit /\ [][GroupsNext]_groupsVars

-----------------------------------------------------------------------------
GroupsTypeOK ==
    /\ snapshotNow \subseteq Members /\ moment \in 0 .. MaxChanges
    /\ groupsQ \in Queries(SUBSET Members, 0 .. 2) /\ groupsRead \subseteq Members
    /\ resolveQ \in [Users -> Queries(0 .. MaxChanges, 0 .. 2)]
    /\ resolveRead \in [Users -> 0 .. MaxChanges]
    /\ input \subseteq Users /\ user \subseteq Users
    /\ groupSteps \in 0 .. MaxGroupSteps
    /\ since \in 0 .. MaxChanges /\ rejoined \in BOOLEAN

(* The column "Members" has the number of users in each group, and lists   *)
(* every group that has one, except where a snapshot names a group twice   *)
(* for one user: that user is counted twice.                               *)
CountsAreMembers ==
    \A members \in groupsQ.data :
        LET counts == groupCounts(members)
            of(g) == {u \in DOMAIN members : Contains(members[u], g)}
            repeats(u) == \E i, j \in DOMAIN members[u] :
                             i # j /\ members[u][i] = members[u][j]
        IN  /\ DOMAIN counts = {g \in GroupNames : of(g) # {}}
            /\ (\A u \in DOMAIN members : ~repeats(u)) =>
                   \A g \in DOMAIN counts : counts[g] = Cardinality(of(g))

(* The form shows what is cached for a user while it asks anew, and beside *)
(* the error of a fetch that failed. Groups read before the form switched  *)
(* to the user stand there only then: once a fetch has been answered they  *)
(* are gone, and no answer on its way is as old. Only a switch that joined *)
(* a fetch left over from an earlier one may settle with older groups.     *)
(* (Pressing Resolve again for the same user reads nothing.)               *)
OlderGroupsGiveWay ==
    \A u \in user : ~rejoined =>
        /\ resolveQ[u].got /\ resolveQ[u].data < since
             => resolveQ[u].fetch # 0 \/ isError(resolveQ[u])
        /\ resolveQ[u].fetch = 2 => resolveRead[u] >= since
=============================================================================
