# A TLA+ model of agent-wrapper

agent-wrapper distributes one organization's policy for coding agents. A
control plane, `awd`, keeps the policy and cuts a *bundle* out of it for each
user; on every machine `aw-sync` fetches the bundle on a timer and renders it
into the agents' own configuration files; and at every launch of Claude Code
the helper `aw-policy` compiles the bundle that lies on disk. This directory
models that path and says when a machine really runs the policy it reports.
It also models the two front ends: the administrators' console, a single-page
application that `awd` serves, and the public web site with its demo form and
documentation.

## Inventory

| part | state | operations | interacts with |
|---|---|---|---|
| aw-sync cycle (`internal/sync`) | `machine.json` (pin, agents), `state.json` (etag, revision time, recorded files), rendered files, bundle, signature, trust file | `Run`: drift, fetch, render, write, repin, prune, save | GET /v1/bundle; files read by aw-policy and by `status` |
| aw-sync commands (`cmd/aw-sync`) | the lock file, the timer unit | `enroll`, `once`, `status`, `install-timer` | POST /v1/machines/enroll; each other, through the lock |
| bundle protocol (`sync/client.go`, `handler/bundle.go`) | none | conditional fetch, signature check, rollover check | signer, store, machine |
| signing (`internal/signing`, `handler/sigcache.go`) | current and previous key; a cache of signatures | sign, verify, roll over | awd's environment; a remote KMS |
| aw-policy (`internal/policyhelper`) | none but a log | one launch: verify, load, compile, exit code | the files aw-sync writes, without a lock |
| enrollment (`handler/enroll.go`) | tokens, machines | mint, exchange, revoke | store, aw-sync enroll |
| store (`internal/store`, memory and Postgres) | revisions, tokens, machines, snapshots, SCIM, sessions, audit | one transaction per call | every handler |
| SCIM (`internal/scim`, `handler/scim.go`) | users, groups, members | create, replace, patch, delete, list | the identity provider; group resolution |
| group resolution (`handler/resolve.go`) | none | union of authored, snapshot and SCIM groups | three store reads per bundle |
| limiter (`handler/limit.go`) | token buckets, an LRU list | check before, take after a request | every route |
| console sessions (`handler/console*.go`) | sessions | login by OIDC, logout, authorize | identity provider, store, the console's gate |
| console shell (`console/src/app.tsx`, `router.tsx`, `theme.ts`) | the query `["me"]`, the route, `signingOut`, the theme in `localStorage` | gate, sign in and out, navigate, re-ask `["me"]` on a refusal | awd by cookie; every screen's queries; other tabs |
| console screens (`console/src/screens`, `policy`) | cached queries, dialogs, the draft of a revision, a token shown once | list, revoke, page through the audit log, review and apply a revision, mint and copy a token, resolve a user | awd's admin routes; each other through the query cache |
| web site, demo form (`web/components/demo`, `web/lib/demo`, `web/app/demo`) | the form, the action's state | submit, check, drop as spam, mail | the deployment's environment, the mail service |
| web site, documentation (`web/lib/docs.ts`, `web/app/docs`) | pages parsed at build time, a counter of headings | build, list, find, render | the markdown under `docs/site` |
| policy compilation (`internal/policy`, `merge`, `decide`, `glob`) | none | slice, compile, merge, validate | awd, aw-sync's renderers, aw-policy |
| adapters (`internal/agent`) | none | render, inspect | aw-sync, `aw` |
| timer (`sync/timer`) | a systemd, launchd or Windows unit | install, uninstall | the operating system |

What is hard here. Nothing in the cycle is transactional: bundle, signature,
trust file, each agent's files, `machine.json` and `state.json` are replaced
one rename at a time, and a crash, a full disk, an edit by hand, a change on
the control plane or a launch can fall between any two. The etag makes an
unchanged answer mean "nothing to do", so everything that could make it wrong
(an edit, a dropped agent, a failed agent, leftover signing files) has to be
noticed before the request goes out. The pin moves by a signed statement that
rides on ordinary answers. Answers can be late, and awd's clock can be set
back. In the console, an answer can be older than what is on screen, a fetch
that was given up is still served and still sets cookies, a screen can be left
while its request is out, and React's effects run after the paint, with room
for a keystroke in between. `PROJECT.json` lists the hazards line by line.

What correct means, by part: a recorded etag is the truth about the disk; the
trust chain is unbroken from enrollment on; an older policy does not come
back; nothing is deleted but what aw-sync wrote and no agent needs; every
machine that can be served converges; a launch uses only what it verified and
a pinned one does not fail open. The console leaves when awd no longer admits
its user and does not come back by itself; what it says happened did happen,
and the list beside the message agrees; an operator's work is not overwritten.
The demo form thanks only for a request that went out, or that it took for
spam, and gives a form it refuses back as it was submitted.

## Modules

- `BundleProtocol` — what a bundle, a signature and an answer are, and the
  checks of `Fetch`, `rolloverFrom` and `VerifyFiles`. No state.
- `AwSync` (extends it) — one machine, its cycle, `enroll`, and the parts of
  awd that decide what it is served: `postRevision`, group changes, key
  configuration.
- `PolicyDelivery` — what a cycle promises, without files, keys and failures;
  `AwSync` is shown to implement it.
- `AwPolicy` (extends `AwSync`) — a launch, composed with every step of
  `AwSync`.
- `Membership` — what enrollment promises, without commands, requests, locks
  and configuration; `Enrollment` is shown to implement it.
- `Enrollment` — several hosts and commands: tokens, machines and revocation
  at awd, `enroll` and `once` on each host, the lock between them, and who
  writes `machine.json`. Independent of `AwSync`, which takes one machine and
  lets `enroll` and cycles exclude each other.
- `QueryCache` — one cached query of TanStack Query (external), as far as the
  console uses it: mount, focus, invalidation, answer. No state.
- `ConsoleGate` (extends it) — the console's shell with awd's sessions behind
  it: cookies, requests in flight, sign-in and sign-out, the gate.
- `PolicyScreen`, `MachinesScreen`, `AuditScreen`, `GroupsScreen` (all extend
  `QueryCache`), `EnrollmentScreen`, `ConsoleTheme` — one per screen, each with
  the part of awd it talks to. `MCConsoleScreens` puts them side by side.
- `DemoRequest` — what the demo form promises; `DemoForm` — the form, its
  action and environment, shown to implement it; `DocsSite` — the
  documentation. `MCWebSite` puts them side by side.
- `MCConsoleGate`, `MCPolicyScreen` — the gate and one screen for TLC.
- `MCAwSync`, `MCAwPolicy` — the adapters' files and renderings, for TLC;
  `MCEnrollment` — its symmetry.
- `AwSyncClaims` — sentences of the repository that the code does not keep.
- `AwSyncProofs`, `AwSyncSafety`, `AwPolicyProofs`, `EnrollmentProofs`,
  `QueryCacheProofs`, `ConsoleGateProofs`, `ConsoleScreensProofs`,
  `WebSiteProofs` — the theorems.

### How AwSync corresponds to the code

`machine`, `state` and `disk` are `machine.json`, `state.json` and the files.
A recorded hash is represented by the content it is the hash of, and an etag
by the bundle it is the hash of: both are collision-free by assumption.
`cyc` is the running `Run`: `ask` is the etag variable after the three tests
that empty it, `stale` the planned removals, `got` the answer, `failed` the
map of failed agents, `todo` the agent files still to write, `wrote` the map
`files`.

| action | code |
|---|---|
| `BeginCycle` | `Run` to the fetch: load, drift, orphans, stale signing files |
| `FetchFails` | any error of `Fetch` but the two below, 401 and 503 included |
| `FetchRefused` | `rolloverFrom` and the signature check of `Fetch` |
| `FetchUnchanged` | the 304 branch: repin, clear the error, save |
| `FetchOlder` | the replay guard: repin, fail |
| `FetchBundle` | rendering of all agents, before anything is written |
| `WriteAgentFile`, `AgentWriteFails` | the write loop for agents' files and `.aw-revision` siblings |
| `WriteBundle`, `BundleSiblingFails`, `RemoveStale`, `WriteSignature`, `WriteTrust`, `StateWriteFails` | the write loop for the state directory, in plan order |
| `FinishCycle` | repin, prune, carry-over of records, the new state, its save |
| `Crash` | the process dies; the kernel drops the lock |
| `Enroll`, `EnrollInterrupted` | `enroll`, whole or cut between its two saves |
| `Edit`, `LoseState` | a root user; a missing or unreadable `state.json` |
| `postRevision`, `ChangeGroups`, `StartSigning`, `RotateKey`, `RetireKey`, `StopSigning` | awd |

Abstractions. The `.aw-revision` sibling is only a place where a write can
fail after its file has landed. Agents' files are written in any order (the
code uses the enrolled order). Repin, prune and the save of the state are one
step whose parts fail independently: a crash between them leaves what a
failure of the later ones leaves. A request and its answer are one step, so
the three store reads behind an answer are taken together; with `Replay` an
answer can arrive later, too. Each agent renders a fixed set of files. Left
out: `--root` overrides and the pruning they suppress, agents without a known
directory or no longer supported, the audit log, a malformed pin in
`machine.json` and plain-http refusals (each ends the cycle before it fetches).

`torn`, `excused` and `announced` are history. `torn` holds when `state.json`
was last saved by `fail` after a partial write, or when an enrollment replaced
`machine.json` and not `state.json`: then the etag speaks of another policy
than the files. `excused` holds once an edit, a crash or a lost save has made
the record and the disk disagree.

### How AwSync implements PolicyDelivery

The mapping: `served` is the bundle of the current revision and group,
`late` the bundles of answers that may still arrive, `pinned` a pin in
`machine.json`; `fetched` is the bundle of a cycle past the fetch, `recorded`
and `floor` the etag and the revision time of `state.json`; `held` is the
bundle the disk holds whole, if it does, and `clean` what `status` says
outside a torn record. `Honest` ties the last two to the record.

| steps of AwSync | step of PolicyDelivery |
|---|---|
| `postRevision`, `ChangeGroups` | `Publish` |
| `FetchBundle` | `Take` |
| `FetchFails`, `FetchRefused`, `FetchUnchanged`, `FetchOlder` | `Linger` when the answer may come again, else a stutter: which key is pinned does not matter here |
| `WriteAgentFile`, `WriteBundle`, `WriteSignature`, `WriteTrust`, `RemoveStale`, `Edit` | `Touch` |
| `AgentWriteFails` | `Touch`: the cycle goes on |
| `FinishCycle` | `Finish`; `GiveUp` when the save is lost |
| `BundleSiblingFails`, `StateWriteFails`, `Crash` | `GiveUp`; a crash before the fetch changes nothing |
| `Enroll`, `EnrollInterrupted`, `LoseState` | `Reenroll` |
| `BeginCycle`, the key configuration | a stutter |

### How AwPolicy corresponds to the code

One step per file: `ReadTrust`, `ReadBundle`, `ReadSignature` are
`signing.VerifyFiles`, `ReadFallback` is `loadBundle` on an unsigned machine,
`Exit` is `isPinned`, a second look at the trust file, and `exitCode`. Whether
the bytes parse, compile, pass the schema and fit is a free choice, `usable`
(a recovered panic is one way not to be usable). `requireBundle` is chosen at
`Exit`: `loadConfig` reads it earlier and nothing else uses it.

### How Enrollment corresponds to the code

`tokens` and `machines` are the tables, `file`, `dir` and `lock` a host's
`machine.json`, state directory and `aw-sync.lock`. `proc` holds the running
commands, each with the request it has at awd: one step per call to the store,
file or use of the lock.

| action | code |
|---|---|
| `postEnrollmentToken`, `Expire`, `deleteMachine` | minting, the passing of a token's time, `awd revoke` |
| `StartSigning`, `RotateKey`, `RetireKey`, `StopSigning` | awd's environment, across restarts |
| `StartEnroll`, `EnrollLocks`, `EnrollRefused` | `enroll` up to the check for an enrollment, under the lock |
| `PostConsumes`, `PostRefused`, `PutMachine` | `postEnroll`: `ConsumeEnrollmentToken`, then `PutMachine` and the answer |
| `EnrollSaves`, `EnrollMismatch` | the key check of `Client.Enroll` and `SaveMachine` |
| `StartOnce`, `LoadMachine`, `NotEnrolled` | `once` and the start of `Run`; without a state directory there is no lock to take |
| `Admitted`, `Unauthorized`, `getBundle` | `requireMachine`, then `TouchMachine` and the answer |
| `Repin`, `CycleEnds` | `repin`, which writes back all of what was loaded; a cycle without one |
| `Abort` | any failure or crash that ends command and request |
| `Vanish` | the command dies or times out and awd serves its request to the end |

Abstractions. An id and its credential are one value and never repeat; a hash
is what it is the hash of; a token's user and the audit events play no part.
`RotateKey` goes to a key that was never configured (`awd keygen`, step 1 of
"Rotating the signing key"). A request may see awd under another key than the
request before it, and one may be served across a restart, as behind a rolling
restart; the memory store's loss of everything in a restart is left out.
`Provisioned` says whether the state directory exists before the first
command. What enroll leaves in `state.json` is AwSync's. An unreadable
`machine.json` is left out.

`issued`, `revoked` and `heirs` are history; `<<a, b>>` is in `heirs` when
trust in key a has passed to b by handovers awd announced.

### How Enrollment implements Membership

`passed` is `heirs`, `owner` is `issued`, `enrolled` is `file`, and `Locked`
is `Provisioned`. A token is `minted` once it is no longer unused in the
table, `named` is the key in it, `members` the ids with a row, and an offer is
an id that an enroll has been answered with and not yet saved.

| steps of Enrollment | step of Membership |
|---|---|
| `StartSigning`, `RotateKey` | `Begin`, `HandOver` |
| `postEnrollmentToken` | `Mint` |
| `PutMachine` | `Register`; without an offer when the command has vanished |
| `deleteMachine` | `Revoke` |
| `EnrollSaves` | `Adopt` |
| `EnrollMismatch`, `Abort` with an answer in hand | `Drop` |
| `Repin` | `Follow`; `Restore` where commands may run without the lock |
| everything else | a stutter |

### How ConsoleGate corresponds to the code

`me` and `screens` are the cached queries, `net` the requests in flight, each
with the cookie it was sent with, its answer and the Set-Cookie on it. `Gate`
is what `Gate` of app.tsx renders.

| action | code |
|---|---|
| `ServeRead`, `ServeUnavailable` | `consoleUser`: 401, 503, 403 (which deletes the user's sessions), 200; a failing store |
| `consoleLogout` | the handler of POST /console/logout, whole or failing |
| `ReceiveMe`, `Mount` | an answer to `["me"]`; the layout and the route's screen mount |
| `ReceiveScreen`, `OnQueryError`, `InvalidateMe` | an answer to a screen's query and `QueryCache.onError` |
| `ReceiveQuiet`, `Vanish` | an answer nobody in the gate waits for; one to a page that is gone |
| `signOut`, `ReceiveLogout` | `signOut` and its `finally` |
| `Navigate`, `Focus`, `Reload`, `Mutate` | the operator and the browser |
| `SignIn`, `SignInElsewhere` | login and callback, in this tab or another one |
| `Expire`, `ChangeGroups`, `Lose` | timeouts, group data, the network |

Abstractions. A route has one query. The OIDC exchange is one step. The idle
and the absolute timeout are one event. What a query of a screen holds is that
screen's module.

### How the screens correspond to the code

`PolicyScreen` follows React: handlers set state, `Commit` renders it and
decides which effects are due, `Effects` runs them, child before parent, and
an operator's `Type` or `review` can fall in between. A rule set is its
version; a text is a rule set in some form (`toYaml`'s own, another layout, or
one that does not parse). `Apply`, `ServePost`, `LosePost`, `onSuccess` and
`onError` are the POST; `AppliedElsewhere` is another operator. awd lists the
newest 50 revisions; a behaviour has fewer.

`MachinesScreen` has the row's dialog (`OpenDialog`, `TypeLabel`,
`DismissDialog`, `RevokeMachine`), the DELETE (`ServeDelete`, `LoseDelete`,
`Resolved`, `NotResolved`) and the queries of Machines and Overview. The
query of recent activity holds the log as it was when awd read it; the card
shows its last five events.

`AuditScreen` keeps the pages of the infinite query as one set with its
continuation. A refetch reads page after page while events are recorded, and
with PostgreSQL an event can become visible after one with a higher id.

`EnrollmentScreen` has the POST, the token shown once and the asynchronous
clipboard. `GroupsScreen` has `groupCounts` over what a snapshot can hold, a
name listed twice included, and the form that resolves a user; the data of
such a query is the moment awd read. `ConsoleTheme` has the class on the page,
the stored choice, a `localStorage` that may throw, and other tabs.

A tab shows one screen at a time, so `MCConsoleScreens` follows one screen per
behaviour and leaves the others as they started; how screens disturb each
other is in the modules (`InvalidateAudit`, `LeaveAndReturn`, `OpenScreen`).

### How DemoForm and DocsSite correspond to the code

`Submit` to `Respond` is one call of `submitDemoAction`: `DropAsSpam`,
`RefuseForm`, `NotConfigured` and `SendMail` are the exits of `submitDemo` in
their order, `SendFails` and `SendSucceeds` the mail service's answer, which
may be an error after the mail went out. A field is blank, good or bad (too
long, or not an address); `parsePlan` and `demoSchema` say which of these
are errors. Time is two facts: three seconds since the page was stamped, and
since it was opened. Without JavaScript every answer is a new page with a new
stamp, and nothing disables the button: `Submit` may come while a request is
out, and the browser then waits for the new one. The action goes on with the
abandoned one, which is not followed: both may be mailed.

`DocsSite` parses, lists and finds the pages and renders their headings one by
one with the module-level counter. A slug is a sequence, so that numbering a
repetition is what the template string does and two different headings can
meet in one id.

## Runs

| run | question | instance | distinct states |
|---|---|---|---|
| `agents` | is a clean status true, is pruning safe, does a servable machine converge? | codex and agy, two slices, one revision, one key, two disturbances, fairness | 702k |
| `signing` | does the pin follow handovers, does the trust file stay, are own writes trusted? | codex, two keys (symmetric), one revision, two disturbances | 815k |
| `replay` | does the replay guard hold, does the cycle implement `PolicyDelivery`? | codex, one key, two revisions at times 1..2, replayed answers, two disturbances | 2.2M |
| `launch` | is a launch safe at every moment of a cycle? | claude, one key, one revision, two disturbances | 2.0M |
| `enrollment` | single use, revocation, the lock, the trust chain, the listing; does all of it implement `Membership`? | two hosts, commands, tokens, ids and keys (all symmetric) | 1.7M |
| `console_gate` | does a refused or signed-out user leave the console and stay out, do requests end? | two routes, three requests in flight, two sessions, three events, fairness | 225k |
| `console_screens` | is what a screen says true, and is typed work kept? | two versions, machines, users and groups (lists of two); five events in pages of two; three tokens | 1.0M |
| `web_site` | does the form keep its promise, is a form given back, do links work? | a required field and the plan, three edits, two submissions; two files, four bodies | 584k |

Bounds. `MaxBudget` counts disturbances: a failed or crashed cycle, a lost
save, an edit, a re-enrollment, a group change, a late answer. Two are enough
for one to break the files and another to hit the repair; cycles themselves,
key changes and launches are not counted. Two revision times are enough for
a clock set back; two keys for a rotation and its reversal; two slices to
leave a bundle and come back to it. agy's file depends on the rules alone and
codex's names the revision, so two revisions can render one file alike and
another differently. Keys are interchangeable, which is why symmetry over
them is sound in `signing`; `agents`, which checks liveness, uses none. In
`enrollment` only the sets bound anything: two commands race for a lock or a
token, two tokens allow a re-enrollment, two keys a rotation; commands start
and fail without limit.

In the front ends `MaxEvents` and the `Max...Steps` count what people do and
what fails; serving and receiving are free. Three events of the gate are a
sign-out, a lost answer and a second user action, over three requests that
can be answered in any order. Six steps of the policy screen are enough to
open the editor, type, review, apply, lose an answer and have another operator
apply. Five events and pages of two make a refetch of three pages during
which two events arrive. Two submissions are a refused form and its
correction, or, without JavaScript, two at once.

Fairness. `FairSpec` asks that steps of `aw-sync once` go on being taken: the
timer starts it every few minutes for ever, and a cycle has a timeout of a
minute. Nothing is asked of the environment. `CHECK_DEADLOCK FALSE`: before
it is enrolled, and with its budget spent, a machine may have nothing to do;
a host on which no command is started may stay as it is.
`console_gate` assumes that awd serves what it is sent and that answers arrive
or fail (`WF` of `Network` for each request: `fetch` rejects when a connection
breaks, and awd's server has timeouts); nothing is asked of people, of awd's
data or of losses. `web_site` assumes none and claims no liveness: the action
awaits the mail service without a timeout of its own (submit.ts:71,
sender.ts:34), so nothing in this code bounds how long a visitor waits. In
both, deadlock checking is off because a user may stop.

Mutants. Each property is also run against a plausible mistake in the code
(`PROJECT.json`, `mutants`; the operators stand beside the definitions they
replace), and each is then violated.

## Where the repository says otherwise

Four runs end in a counterexample, on purpose; each checks one sentence.

1. `claim_rotation`. "Keys can be rotated without re-enrolling your machines
   [...] and machines follow on their next sync" (docs/site/trust.md:61). A
   machine repins on the first answer of a rotation. The next answer carries
   the same rollover, signed by the previous key, which is no longer the pin:
   `rolloverFrom` fails the fetch, on a 304 as well, until the operator
   retires the previous key. Machines that enroll during a rotation meet it
   on their first cycle.
2. `claim_never_back`. "A pinned machine never goes back to an older policy"
   (sync.go:235). After a cycle that wrote the bundle and failed on the
   signature, the recorded revision time is still the old one, and a replayed
   answer from in between is accepted.
3. `claim_untouched_draft`. The comment on `NewRevision`'s effect: "Re-seed it
   from the real current revision once it arrives — but only while the
   operator hasn't typed anything" (console/src/screens/policy.tsx:122-125). When the editor is already
   mounted, the re-seeded draft is put into CodeMirror by `YamlEditor`'s own
   effect, whose listener reports that change as an edit: `editDraft` sets
   `touched`, though nobody typed, and the draft follows no later revision.
4. `claim_reenroll`. "Re-enrolling without agy leaves
   `/etc/antigravity/admin_settings.json` in place. aw-sync stops updating it,
   and agy keeps reading it. Remove the file by hand."
   (deploy/aw-sync/README.md:58). `enroll` keeps the record of the files
   (main.go, "so the first cycle can remove those of an agent this enrollment
   drops"); the file is then an orphan, which forces a full cycle
   (sync.go:152-174), and that cycle prunes it if it is still as recorded
   (sync.go:354). Only a file that was edited, or that is no longer recorded,
   stays. `PruneSparesOthers` permits exactly this deletion.

Further sentences the code does not keep, met while modelling and visible in
the models' definitions, without a run of their own:

- "what landed is whole; the next cycle rewrites the rest" (sync.go:309). A
  cycle under a new slice fails in the state directory; the group change is
  undone; the old etag, which `fail` kept, earns a 304; the error is cleared
  with the files of the new slice on disk, and nothing drifts because `fail`
  recorded them. This is what `torn` is about.
- "A refused older bundle that carries a rollover does not move the pin"
  (docs/site/threat-model.md:53). It does, deliberately (sync.go:239, with a
  test): `FetchOlder` repins.
- "Rendered files are never deleted when a sync fails"
  (docs/site/removing.md:59). A cycle in which one agent fails, and which
  reports that, still prunes the files of an agent that is no longer enrolled:
  `FinishCycle` with `cyc.failed` not empty.
- "stamping the actual render time here is required so the spam timer works
  without JavaScript" (web/app/demo/page.tsx:13-14). It also makes the timer
  start again with the page that asks for a correction: a person who corrects
  a field within three seconds is thanked and the request dropped
  (submit.ts:45). `ThanksAreEarned` names the case (`restamped`).
- "writes them all or none" (sync/paths.go:1-5). One agent's failure leaves
  the others on the new bundle: `AgentWriteFails`.
- "Only one cycle runs at a time" (deploy/aw-sync/README.md:133). A `once`
  that finds no state directory goes on without a lock. If an `enroll` creates
  the directory and finishes before that `once` reads `machine.json`, it runs
  a whole cycle unlocked, beside one that does hold the lock. It is why
  `EnrollmentKept` and `RetirementIsSafe` speak of provisioned hosts;
  what is left without the lock is `KeepsMembership` with `Restore`.
- A 403 of awd deletes the user's sessions, so the `["me"]` that the console
  asks next is answered 401 unless that deletion failed: the operator sees the
  sign-in screen, where app.test.tsx:51 expects "a 403 from any request other
  than me returns to the not-admin screen" (its mock goes on answering 403).

A torn `state.json` is why `StatusIsTrue` and `Converges` make an exception,
and 1 is why `Servable` asks that no rotation be under way. The exceptions in
the console's properties are of the same kind, each a history variable with a
comment: `joined`, `missed` and `rejoined` (an invalidation or a mount joins a
first fetch that was already out, and an answer older than the change is
shown), `rereviewed` (the message after an apply takes its version from the
dialog of now), `raced` (a key typed between a commit and its effects is
overwritten), `overtaken` (a copy that settles after the next token arrived
marks that one as copied) and `late` (an event visible out of order). What
`rereviewed` and `overtaken` stand for happens: the code has no guard there,
and no property catches it. `OlderGroupsGiveWay` says what the Groups form
shows after a switch: groups cached before it stay on screen, unmarked, while
the new fetch is out and beside the error if it fails (groups.tsx:51-56), and
are gone once it is answered. In the demo form what is typed while a request
is out is lost: `NothingRetyped` is about what was submitted.

## Proofs

The theorems hold for every value of the constants. Those about aw-sync are
under the assumptions `BoundsAssumption`, `NoneAssumption`, `FilesAssumption` and
`FallbackAssumption`: any set of keys, slices, agents and files, any
rendering that is not "no file", any number of revisions and disturbances.

- `AwSyncProofs.TypeCorrect`: `Spec => []TypeOK`. The invariant proved is
  `TypeInv`, which adds `Handovers` (every configured or answered pair of
  previous and current key was announced) and `CycleShape` (an answer is in
  hand exactly in the writing stages, nothing has been written before them,
  removals are planned only without a pin).
- `AwSyncSafety`: `ReplayGuard`, `PinIsHandedOver`, `TrustFileStays` and
  `PruningSparesOthers` are action properties that follow from `TypeInv` and
  `NotOlder` (a bundle being written is not below the recorded time).
  `StatusCanBeBelieved` needs two more conjuncts: `Written` (what a running
  cycle has written so far is what it should write) and `RecordedIsWhole`
  (when an etag is recorded and the record is not torn, the *record* is that
  of the whole bundle, signature and agents included); without drift the disk
  equals the record. `OwnWritesTrusted` rests on `DiskFollows`: without an
  excuse, every recorded file is on disk as recorded or as the running cycle
  wrote it, or is gone.
  `FullCyclePutsInForce`: a cycle of the served bundle that runs undisturbed
  to its end, with no agent failing and no save lost, leaves the machine in
  force, from whatever state it began. That is the half of `Converges` that
  is not about time; it needs that a cycle writes every file of the enrolled
  agents and no other (`WroteOwned`). `CycleDeliversPolicy` is the
  refinement of the table above, one lemma per kind of step; `Honest` is
  `RecordedIsWhole` read through the mapping.
- `AwPolicyProofs`: `LaunchOnlyReads`, that the composition behaves as
  `AwSync`, so everything proved of `AwSync` holds of it
  (`LaunchKeepsDelivery`); and `LaunchEmitsVerified`, `LaunchFailsClosed`,
  `LaunchMatchesStatus`, over the composition. `LaunchInv` conjoins the
  machine's invariants with the order of the reads (`ReadsInOrder`), what
  `guarded` buys (`Guarded`: while the machine stays pinned and nobody edits
  it the trust file is there, by `TrustStays`) and what `quiet` buys
  (`Quiet`: what was read is what is on disk).
- `EnrollmentProofs`, from `EnrollmentAssumption` and `NoneIsNoRecord`:
  `EnrollmentTypeCorrect`, `OneMachinePerToken`, `RevocationIsFinal`,
  `TrustChainsToToken`, `ListingCanBeTrusted`, `LockProtectsEnrollment`. One
  inductive invariant, `EnrollmentInv`. `TokensSpent`: a token is used before
  a row exists for it and one request at a time is in between. `RowsIssued`:
  only issued ids have rows. `Held`: a command past its lock holds it, so
  `machine.json` is as that command last saw it. `Lineage`: `heirs` is
  transitive, all keys in use are in it, and during a rotation the current
  key has no heir but itself. `Trusted`: what is in a file or in hand chains
  back to its token. `Fresh`: an enrollment about to be saved is known to
  nobody else. `Reported`: a key a machine has reported, or is reporting by a
  request that may have outlived its cycle, leads to its pin; with the last
  part of `Lineage` that makes the listing safe to act on.
  `EnrollmentKeepsMembership` is the refinement of the table above. It needs
  `Held` (nobody else saves what is in hand), `Fresh` (two offers are never
  the same) and `Trusted` (what a cycle writes back descends from its token),
  and holds with and without `Provisioned`.
- `ConsoleGateProofs`, from `GateAssumption`: `GateTypes`, `GateOneWaiter`,
  `SignOutHolds`. The invariant `GateInv` has three parts beside the types.
  `OneWaiter`: no answer settles a query but the one of the fetch it waits
  for, in both directions. `AnswerInv`: a request for data is not answered as
  a sign-out is. `SignInv`: once a sign-out was answered, every fetch of
  `["me"]` goes out without a cookie; it holds because a sign-out can only be
  answered to a page whose `["me"]` has data, so the invalidation gives an
  older fetch up and does not join it. That is the case a test would miss.
- `ConsoleScreensProofs`, over the lemmas of `QueryCacheProofs`, has all
  properties of `console_screens`, for the screen's own specification.
  `MachinesInv`: what a message called revoked is revoked for good
  (`RevocationInv`), and an answer in hand was read after it (`ListInv`,
  `RecentInv`). `AuditInv`: pages read so far have no hole down to their
  continuation, and the pages stored have none. `PolicyInv`: what was typed is
  what every later commit renders (`WorkInv`); the version reviewed is the one
  in the POST (`ApplyInv`); the list is asked for again after awd accepted it
  (`ShownInv`). `CountsCountMembers` is a bijection between mentions and users.
  `ResolveInv`, `EnrollScreenInv` and `ThemeInv` are short. `ThemeTypes`,
  `TokensArePosted`, `MachinesTypes`, `AuditTypes`, `PolicyTypes` and
  `GroupsTypes` are the screens' types, with what they say about the data: a token shown, copied or
  in the clipboard is one awd created, a snapshot shown is one it had, and reading the pages
  of the log ends, because each ends below the one before (`AuditEnds`).
- `WebSiteProofs`, from `DemoAssumption`: `DemoTypes`, `DemoThanks`,
  `DemoErrors`, `DemoProduction`, `DemoNothingRetyped` and the refinement
  `DemoKeepsPromise`, step by step: a request is `AskDemo`, handing it to the
  mail service `Mail`, dropping it `TakeForSpam`, showing an answer or losing
  the connection `Tell`, opening the page `Reopen`, everything else a stutter.
  `DemoInv` ties a request to what became of it (`RequestInv`) and the timer
  to the visitor (`PatienceInv`: a form not sent in a hurry is not too fast
  when it is served, unless its page was stamped anew, which with JavaScript
  it never is). From `DocsAssumption`, for any set of files
  and any bodies: `DocsTypes`; `DocsAnchors`, because while a page is
  rendered the counter is the number of equal headings of that page so far
  (`DocsInv`); two different headings may still meet in one id.
  `DocsNavigation`, because a page that parsed has one section of the four
  and a slug leads back to its file.

Only model-checked: `Converges`, `RefusedLeavesConsole` and `Quiesces`,
because liveness under fairness is out of the prover's reach. Everything else a passing run checks is a theorem. The claims are
refuted by TLC.

## Plan

Done: `BundleProtocol`, `AwSync`, `AwPolicy`, `Enrollment`, the console's
gate and screens, the demo form and the documentation, `PolicyDelivery`,
`Membership` and the promises of the demo form as abstract specifications,
the runs and the proofs.

Next, in this order:

1. `Resolve` and `Scim`: the three group sources, their reads one by one,
   ordered PATCH operations on members, deletion of users and groups; an
   abstract specification of membership that the store implements.
2. `Limiter` and `SigCache`: the bound on failures let through by requests in
   flight, eviction; list and maps in step under concurrent misses.
3. Behind the console: the OIDC exchange and its state cookie, the two session
   timeouts and the sweep, audit before effect.
4. `Compile`, `Merge`, `Glob`, `Decide`: pure functions against reference
   definitions.
5. `Timer`: install over an older unit, failure half way.

### Not modelled

The KMS client, the `aw` wrapper, deployment files and repository detection
are pure I/O or text parsing. Of the front ends: the UI kit (styled wrappers;
that a dialog is modal is used), comparing two revisions and the line diff,
expanding a row, the audit filters, dates and badges, which only display what
a query holds; the form's hint about webmail addresses and its focus
management; link and asset rewriting, the order within a section and copy
buttons of the documentation; the marketing pages. In `Prune` the window
between hashing a file and removing it by name (sync.go:549) is one step.
