---------------------------- MODULE PolicyScreen ----------------------------
(***************************************************************************)
(* The console's Policy screen: the query of the revisions, the editor of  *)
(* a new revision and its two-step apply, beside what awd does with the    *)
(* POST and what other operators apply meanwhile.                          *)
(*                                                                         *)
(* The screen is React: a handler or an effect sets state, the next commit *)
(* renders the state and decides which effects are due, and the effects    *)
(* run after the paint, the editor's before its parent's.  What an         *)
(* operator does can fall between any two of these.                        *)
(*                                                                         *)
(* A rule set is its version; version 0 is the empty template.  A text is  *)
(* a rule set with the form it is written in: toYaml's own, one with       *)
(* comments or another layout, or one that does not parse.                 *)
(***************************************************************************)
EXTENDS QueryCache

CONSTANTS
    MaxVersion,  \* versions are 1 .. MaxVersion
    MaxPolicySteps     \* what operators do, and faults, in a behaviour

ASSUME PolicyAssumption == MaxVersion \in Nat \ {0} /\ MaxPolicySteps \in Nat

Template == 0
Versions == 1 .. MaxVersion
RuleSets == {Template} \cup Versions
Texts == [value : RuleSets, form : {"yaml", "own", "broken"}]

toYaml(v) == [value |-> v, form |-> "yaml"]
parses(t) == t.form # "broken"

VARIABLES
    accepted, latest, \* awd: the versions accepted, and the last one
    revisions,        \* the query ["revisions"]: every version, and the newest
    snapshot,         \* what awd read for the fetch in flight
    creating,         \* Policy: NewRevision is on screen
    status,           \* Policy: the version of "Applied ...", Template for none
    draft, touched,   \* NewRevision: the draft and the ref
    error,            \* NewRevision: "none", "line" (with its line marked) or "server"
    reviewValue,      \* NewRevision: what the dialog shows
    dialogOpen,
    view, doc,        \* YamlEditor: CodeMirror is mounted, and its document
    shown,            \* the values the last commit rendered
    due,              \* the effects that commit left to run
    post,             \* the POST of a revision
    policySteps,            \* what is left of MaxPolicySteps
    work, typed,      \* history: the last text the operator typed, if any
    raced,            \* history: typed between a commit and its effects
    rereviewed,       \* history: reviewed again while a POST was out
    joined            \* history: the invalidation after an apply joined an older fetch

policyHistory == <<work, typed, raced, rereviewed, joined>>
policyPage == <<creating, status>>
policyForm == <<draft, touched, error, reviewValue, dialogOpen, view, doc, shown, due>>
awd == <<accepted, latest>>
policyVars == <<awd, revisions, snapshot, policyPage, policyForm, post, policySteps,
                policyHistory>>

Lists == [all : SUBSET Versions, newest : RuleSets]
NoList == [all |-> {}, newest |-> Template]
NoPost == [phase |-> "none", value |-> Template, answer |-> 0, mine |-> FALSE]
Posts == [phase : {"none", "sent", "answered"}, value : RuleSets,
          answer : {0, 200} \cup Failures, mine : BOOLEAN]

PolicyStep == policySteps > 0 /\ policySteps' = policySteps - 1

(* What NewRevision is rendered with: current = revisions[0], and          *)
(* query.data ?? [] keeps the list through a failed refetch.               *)
currentYaml   == toYaml(IF revisions.got THEN revisions.data.newest ELSE Template)
currentLoaded == isSuccess(revisions)
Rendered == [value |-> draft, yaml |-> currentYaml, loaded |-> currentLoaded]
Settled == due = {} /\ shown = Rendered

(* NewRevision unmounts: its state is gone.                                *)
Unmounted ==
    /\ creating' = FALSE
    /\ draft' = toYaml(Template) /\ touched' = FALSE /\ error' = "none"
    /\ reviewValue' = Template /\ dialogOpen' = FALSE
    /\ view' = FALSE /\ doc' = toYaml(Template)
    /\ shown' = [value |-> toYaml(Template), yaml |-> toYaml(Template), loaded |-> FALSE]
    /\ due' = {}
    /\ work' = toYaml(Template) /\ typed' = FALSE /\ raced' = FALSE

PolicyInit ==
    /\ \/ accepted = {} /\ latest = Template
       \/ accepted = {1} /\ latest = 1
    /\ revisions = NewQuery(NoList, 1)
    /\ snapshot = NoList
    /\ creating = FALSE /\ status = Template
    /\ draft = toYaml(Template) /\ touched = FALSE /\ error = "none"
    /\ reviewValue = Template /\ dialogOpen = FALSE
    /\ view = FALSE /\ doc = toYaml(Template)
    /\ shown = [value |-> toYaml(Template), yaml |-> toYaml(Template), loaded |-> FALSE]
    /\ due = {}
    /\ post = NoPost
    /\ policySteps = MaxPolicySteps
    /\ work = toYaml(Template) /\ typed = FALSE /\ raced = FALSE
    /\ rereviewed = FALSE /\ joined = FALSE

(***************************************************************************)
(* The query ["revisions"].  fetch 1: asked; fetch 2: awd has read.        *)
(* (awd lists the newest 50; a behaviour has fewer.)                       *)
(***************************************************************************)
ReadRevisions ==
    /\ revisions.fetch = 1
    /\ revisions' = [revisions EXCEPT !.fetch = 2]
    /\ snapshot' = [all |-> accepted, newest |-> latest]
    /\ UNCHANGED <<awd, policyPage, policyForm, post, policySteps, policyHistory>>

ReceiveRevisions ==
    /\ revisions.fetch = 2
    /\ revisions' = Succeed(revisions, snapshot)
    /\ UNCHANGED <<awd, snapshot, policyPage, policyForm, post, policySteps, policyHistory>>

FailRevisions ==
    /\ PolicyStep /\ revisions.fetch # 0
    /\ revisions' = Fail(revisions, Down)
    /\ UNCHANGED <<awd, snapshot, policyPage, policyForm, post, policyHistory>>

FocusPolicy ==
    /\ PolicyStep /\ revisions.fetch = 0
    /\ revisions' = Fetch(revisions, 1)
    /\ UNCHANGED <<awd, snapshot, policyPage, policyForm, post, policyHistory>>

(***************************************************************************)
(* React.                                                                  *)
(***************************************************************************)
Commit ==
    /\ creating /\ due = {} /\ shown # Rendered
    /\ shown' = Rendered
    /\ due' = (IF view /\ shown.value # draft THEN {"editor"} ELSE {})
                \cup (IF <<shown.yaml, shown.loaded>> # <<currentYaml, currentLoaded>>
                      THEN {"seed"} ELSE {})
    /\ UNCHANGED <<awd, revisions, snapshot, policyPage, draft, touched, error, reviewValue,
                   dialogOpen, view, doc, post, policySteps, policyHistory>>

(* YamlEditor's effect puts a value it does not show into the document,    *)
(* and the document's listener reports that change as any other: it calls  *)
(* editDraft.                                                              *)
Dispatches == "editor" \in due /\ doc # shown.value

(* NewRevision's effect, which runs after the editor's.                    *)
MutSeeds == "seed" \in due /\ shown.loaded
Seeds == "seed" \in due /\ shown.loaded /\ ~touched'

Effects ==
    /\ due # {}
    /\ due' = {}
    /\ doc' = IF Dispatches THEN shown.value ELSE doc
    /\ touched' = (touched \/ Dispatches)
    /\ draft' = IF Seeds THEN shown.yaml
                ELSE IF Dispatches THEN shown.value ELSE draft
    /\ UNCHANGED <<awd, revisions, snapshot, policyPage, error, reviewValue, dialogOpen, view,
                   shown, post, policySteps, policyHistory>>

(* The editor's chunk arrives: the view is made with the value rendered.   *)
LoadEditor ==
    /\ creating /\ ~view /\ Settled
    /\ view' = TRUE /\ doc' = shown.value
    /\ UNCHANGED <<awd, revisions, snapshot, policyPage, draft, touched, error, reviewValue,
                   dialogOpen, shown, due, post, policySteps, policyHistory>>

(***************************************************************************)
(* The operator.                                                           *)
(***************************************************************************)
NewRevision ==
    /\ PolicyStep /\ ~creating
    /\ creating' = TRUE
    /\ draft' = currentYaml
    /\ shown' = [value |-> currentYaml, yaml |-> currentYaml, loaded |-> currentLoaded]
    /\ due' = {"seed"}
    /\ UNCHANGED <<awd, revisions, snapshot, status, touched, error, reviewValue,
                   dialogOpen, view, doc, post, policyHistory>>

(* The dialog is modal: the editor and Review are out of reach behind it.  *)
Type(t) ==
    /\ PolicyStep /\ view /\ ~dialogOpen /\ t # doc
    /\ doc' = t /\ draft' = t /\ touched' = TRUE
    /\ work' = t /\ typed' = TRUE
    /\ raced' = (raced \/ due # {})
    /\ UNCHANGED <<awd, revisions, snapshot, policyPage, error, reviewValue, dialogOpen, view,
                   shown, due, post, rereviewed, joined>>

(* The handler is the last commit's: it reads the draft that was rendered. *)
review ==
    /\ PolicyStep /\ creating /\ ~dialogOpen
    /\ IF parses(shown.value)
       THEN /\ reviewValue' = shown.value.value
            /\ dialogOpen' = TRUE /\ error' = "none"
       ELSE /\ error' = "line"
            /\ UNCHANGED <<reviewValue, dialogOpen>>
    /\ rereviewed' = (rereviewed \/ post.mine)
    /\ UNCHANGED <<awd, revisions, snapshot, policyPage, draft, touched, view, doc, shown, due,
                   post, work, typed, raced, joined>>

CloseDialog ==
    /\ PolicyStep /\ dialogOpen
    /\ dialogOpen' = FALSE
    /\ UNCHANGED <<awd, revisions, snapshot, policyPage, draft, touched, error, reviewValue,
                   view, doc, shown, due, post, policyHistory>>

(* The button is disabled while this NewRevision's POST is out; one POST   *)
(* at a time is also the model's bound.                                    *)
Apply ==
    /\ PolicyStep /\ dialogOpen /\ post.phase = "none"
    /\ post' = [phase |-> "sent", value |-> reviewValue, answer |-> 0, mine |-> TRUE]
    /\ UNCHANGED <<awd, revisions, snapshot, policyPage, policyForm, policyHistory>>

(* Another screen and back: everything but the caches is made anew.        *)
LeaveAndReturn ==
    /\ PolicyStep
    /\ Unmounted
    /\ status' = Template
    /\ revisions' = Fetch(revisions, 1)
    /\ post' = [post EXCEPT !.mine = FALSE]
    /\ rereviewed' = FALSE /\ joined' = FALSE
    /\ UNCHANGED <<awd, snapshot>>

(***************************************************************************)
(* awd: a version is required, and is accepted once.                       *)
(***************************************************************************)
postRevision(v) ==
    CASE v = Template -> 422
      [] v \in accepted -> 409
      [] OTHER -> 200

ServePost ==
    /\ post.phase = "sent"
    /\ post' = [post EXCEPT !.phase = "answered", !.answer = postRevision(post.value)]
    /\ IF postRevision(post.value) = 200
       THEN accepted' = accepted \cup {post.value} /\ latest' = post.value
       ELSE UNCHANGED awd
    /\ UNCHANGED <<revisions, snapshot, policyPage, policyForm, policySteps, policyHistory>>

LosePost ==
    /\ PolicyStep /\ post.phase # "none" /\ post.answer # Down
    /\ post' = [post EXCEPT !.phase = "answered", !.answer = Down]
    /\ UNCHANGED <<awd, revisions, snapshot, policyPage, policyForm, policyHistory>>

(* The command line or another operator's console.                         *)
AppliedElsewhere(v) ==
    /\ PolicyStep /\ v \notin accepted
    /\ accepted' = accepted \cup {v} /\ latest' = v
    /\ UNCHANGED <<revisions, snapshot, policyPage, policyForm, post, policyHistory>>

(***************************************************************************)
(* The POST's answer.  A pending mutation runs the callbacks of the last   *)
(* render, so the message takes its version from the reviewValue of now;   *)
(* the callbacks run also when the screen was left, and then set nothing.  *)
(***************************************************************************)
MutOnSuccessAny ==
    /\ post.phase = "answered"
    /\ post' = NoPost
    /\ revisions' = Refetch(revisions, 1)
    /\ IF post.mine
       THEN /\ Unmounted
            /\ status' = reviewValue
            /\ joined' = (joined \/ Joins(revisions))
       ELSE UNCHANGED <<policyPage, policyForm, work, typed, raced, joined>>
    /\ UNCHANGED <<awd, snapshot, policySteps, rereviewed>>
MutOnSuccessNoFetch ==
    /\ post.phase = "answered" /\ post.answer = 200
    /\ post' = NoPost
    /\ UNCHANGED revisions
    /\ IF post.mine
       THEN /\ Unmounted
            /\ status' = reviewValue
            /\ joined' = (joined \/ Joins(revisions))
       ELSE UNCHANGED <<policyPage, policyForm, work, typed, raced, joined>>
    /\ UNCHANGED <<awd, snapshot, policySteps, rereviewed>>
onSuccess ==
    /\ post.phase = "answered" /\ post.answer = 200
    /\ post' = NoPost
    /\ revisions' = Refetch(revisions, 1)
    /\ IF post.mine
       THEN /\ Unmounted
            /\ status' = reviewValue
            /\ joined' = (joined \/ Joins(revisions))
       ELSE UNCHANGED <<policyPage, policyForm, work, typed, raced, joined>>
    /\ UNCHANGED <<awd, snapshot, policySteps, rereviewed>>

onError ==
    /\ post.phase = "answered" /\ post.answer # 200
    /\ post' = NoPost
    /\ IF post.mine
       THEN dialogOpen' = FALSE /\ error' = "server"
       ELSE UNCHANGED <<dialogOpen, error>>
    /\ UNCHANGED <<awd, revisions, snapshot, policyPage, draft, touched, reviewValue, view, doc,
                   shown, due, policySteps, policyHistory>>

PolicyNext ==
    \/ ReadRevisions \/ ReceiveRevisions \/ FailRevisions \/ FocusPolicy
    \/ Commit \/ Effects \/ LoadEditor
    \/ NewRevision \/ (\E t \in Texts : Type(t)) \/ review \/ CloseDialog \/ Apply
    \/ LeaveAndReturn
    \/ ServePost \/ LosePost \/ (\E v \in Versions : AppliedElsewhere(v))
    \/ onSuccess \/ onError

PolicySpec == PolicyInit /\ [][PolicyNext]_policyVars

-----------------------------------------------------------------------------
PolicyTypeOK ==
    /\ accepted \subseteq Versions /\ latest \in RuleSets
    /\ revisions \in Queries(Lists, 0 .. 2) /\ snapshot \in Lists
    /\ creating \in BOOLEAN /\ status \in RuleSets
    /\ draft \in Texts /\ touched \in BOOLEAN /\ error \in {"none", "line", "server"}
    /\ reviewValue \in RuleSets /\ dialogOpen \in BOOLEAN
    /\ view \in BOOLEAN /\ doc \in Texts
    /\ shown \in [value : Texts, yaml : Texts, loaded : BOOLEAN]
    /\ due \subseteq {"editor", "seed"}
    /\ post \in Posts
    /\ policySteps \in 0 .. MaxPolicySteps
    /\ work \in Texts
    /\ {typed, raced, rereviewed, joined} \subseteq BOOLEAN

(* "so their work is never clobbered": what the operator typed last is     *)
(* what the editor holds and what Review will parse, whatever revisions    *)
(* arrive, unless it was typed between a commit and its effects.           *)
KeepsWork ==
    creating /\ typed /\ ~raced /\ Settled => doc = work /\ draft = work

(* "Applied v" is said only of a version awd holds, unless the operator    *)
(* reviewed another text while the POST was out.                           *)
AppliedNamesAccepted ==
    status # Template /\ ~rereviewed => status \in accepted

(* Once the list has settled after an apply, it has the revision that was  *)
(* applied, unless the invalidation joined a first fetch still in flight.  *)
ListShowsApplied ==
    /\ status # Template /\ ~rereviewed /\ ~joined
    /\ isSuccess(revisions) /\ revisions.fetch = 0
    => status \in revisions.data.all

(* The comment on NewRevision's effect: the draft is re-seeded from the    *)
(* current revision while the operator has not typed anything.             *)
UntouchedFollowsCurrent ==
    creating /\ view /\ ~typed /\ Settled /\ currentLoaded /\ ~dialogOpen
    => doc = currentYaml
=============================================================================
