----------------------------- MODULE Enrollment -----------------------------
(***************************************************************************)
(* How machines come to be enrolled, and by whom machine.json is written:  *)
(* awd's tokens and machines (internal/handler/enroll.go, internal/store), *)
(* and on each host the commands `aw-sync enroll' and `aw-sync once' with  *)
(* the state directory's lock between them (cmd/aw-sync, internal/sync).   *)
(*                                                                         *)
(* Several commands may run on a host at a time, started by a timer, an    *)
(* installer and an operator.  A step is one call to the store, one file   *)
(* or one use of the lock.  A request runs on at awd when the command that *)
(* sent it is killed or times out: the command's host is then None.  Of a  *)
(* cycle only what concerns machine.json is kept, the rest is AwSync's;    *)
(* state.json, which enroll saves last, is AwSync's too.                   *)
(*                                                                         *)
(* An id and a credential are random and issued together: the id stands    *)
(* for both, and a hash for what it is the hash of.  A token stands for    *)
(* the user it was minted for.                                             *)
(*                                                                         *)
(* The operators LockIgnoresHolder, ConsumeTwice, AcceptsAnyKey,           *)
(* TouchesUnknown, ServedKey and VanishReturnsToken are plausible mistakes *)
(* in the code and used by nothing (see AwSync).                           *)
(***************************************************************************)
CONSTANTS
  Hosts,        \* machines that may enroll
  Procs,        \* aw-sync commands that may run at the same time
  Tokens,       \* the enrollment tokens ever minted
  Ids,          \* the machine ids ever issued
  Keys,         \* the signing keys an operator generates
  None,         \* nothing: no key, no file, no row, no holder
  Provisioned   \* the state directory exists before the first command runs

ASSUME EnrollmentAssumption ==
  /\ None \notin Hosts \cup Procs \cup Tokens \cup Ids \cup Keys
  /\ Provisioned \in BOOLEAN

VARIABLES
  (* awd *)
  signer,    \* AWD_SIGNING_KEY and AWD_SIGNING_KEY_PREVIOUS
  tokens,    \* enrollment_tokens
  machines,  \* machines: a row for every machine that is not revoked
  (* the hosts *)
  dir,       \* the state directory exists
  file,      \* machine.json: the id and the pinned key
  lock,      \* the command that holds aw-sync.lock
  proc,      \* the running commands
  (* history *)
  issued,    \* the token each id was issued for
  revoked,   \* the ids an administrator has revoked
  heirs      \* <<a, b>>: b is a, or was handed over to from a, step by step

planeVars == <<signer, heirs>>
storeVars == <<tokens, machines, issued, revoked>>
hostVars  == <<dir, file, lock>>
vars == <<signer, tokens, machines, dir, file, lock, proc, issued, revoked, heirs>>

NoKey == None
KeyOrNone == Keys \cup {NoKey}

Token == [status: {"unminted", "fresh", "expired", "used"}, key: KeyOrNone]
Row   == [lastKey: KeyOrNone]
Machine == [id: Ids, pin: KeyOrNone]
Offer == [key: KeyOrNone, by: KeyOrNone]

ASSUME NoneIsNoRecord == None \notin Machine /\ None \notin Row

EnrollStages == {"lock", "post", "store", "save"}
OnceStages   == {"load", "fetch", "touch", "apply"}
AtAwd        == {"post", "store", "fetch", "touch"}

Command == [pc: {"idle"} \cup EnrollStages \cup OnceStages,
            host: Hosts \cup {None}, token: Tokens \cup {None}, force: BOOLEAN,
            mine: Machine \cup {None}, offer: Offer \cup {None}]

NoCommand == [pc |-> "idle", host |-> None, token |-> None, force |-> FALSE,
              mine |-> None, offer |-> None]

TypeOK ==
  /\ signer \in [current: KeyOrNone, previous: KeyOrNone]
  /\ tokens \in [Tokens -> Token]
  /\ machines \in [Ids -> Row \cup {None}]
  /\ dir \in [Hosts -> BOOLEAN]
  /\ file \in [Hosts -> Machine \cup {None}]
  /\ lock \in [Hosts -> Procs \cup {None}]
  /\ proc \in [Procs -> Command]
  /\ issued \in [Ids -> Tokens \cup {None}]
  /\ revoked \subseteq Ids
  /\ heirs \subseteq Keys \X Keys

Init ==
  /\ signer = [current |-> NoKey, previous |-> NoKey]
  /\ tokens = [t \in Tokens |-> [status |-> "unminted", key |-> NoKey]]
  /\ machines = [id \in Ids |-> None]
  /\ dir = [h \in Hosts |-> Provisioned]
  /\ file = [h \in Hosts |-> None]
  /\ lock = [h \in Hosts |-> None]
  /\ proc = [p \in Procs |-> NoCommand]
  /\ issued = [id \in Ids |-> None]
  /\ revoked = {}
  /\ heirs = {}

-----------------------------------------------------------------------------
(***************************************************************************)
(* The operator.  A rotation is to a key generated for it; awd vouches for *)
(* it with the key it replaces.                                            *)
(***************************************************************************)
StartSigning(k) ==
  /\ signer.current = NoKey
  /\ signer' = [current |-> k, previous |-> NoKey]
  /\ heirs' = heirs \cup {<<k, k>>}
  /\ UNCHANGED <<storeVars, hostVars, proc>>

\* The keys whose trust has passed to k.
Before(k) == {a \in Keys : <<a, k>> \in heirs}

RotateKey(k) ==
  /\ signer.current # NoKey
  /\ <<k, k>> \notin heirs
  /\ signer' = [current |-> k, previous |-> signer.current]
  /\ heirs' = heirs \cup {<<a, k>> : a \in Before(signer.current) \cup {k}}
  /\ UNCHANGED <<storeVars, hostVars, proc>>

RetireKey ==
  /\ signer.previous # NoKey
  /\ signer' = [signer EXCEPT !.previous = NoKey]
  /\ UNCHANGED <<heirs, storeVars, hostVars, proc>>

StopSigning ==
  /\ signer.current # NoKey
  /\ signer' = [current |-> NoKey, previous |-> NoKey]
  /\ UNCHANGED <<heirs, storeVars, hostVars, proc>>

\* A token minted by a signing control plane names its key.
postEnrollmentToken(t) ==
  /\ tokens[t].status = "unminted"
  /\ tokens' = [tokens EXCEPT ![t] = [status |-> "fresh", key |-> signer.current]]
  /\ UNCHANGED <<planeVars, machines, issued, revoked, hostVars, proc>>

\* Its time to live has passed.
Expire(t) ==
  /\ tokens[t].status = "fresh"
  /\ tokens' = [tokens EXCEPT ![t].status = "expired"]
  /\ UNCHANGED <<planeVars, machines, issued, revoked, hostVars, proc>>

deleteMachine(id) ==
  /\ machines[id] # None
  /\ machines' = [machines EXCEPT ![id] = None]
  /\ revoked' = revoked \cup {id}
  /\ UNCHANGED <<planeVars, tokens, issued, hostVars, proc>>

-----------------------------------------------------------------------------
(***************************************************************************)
(* Lock: an flock, taken without waiting, that goes with the process.      *)
(***************************************************************************)
LockIgnoresHolder(h) == TRUE
Free(h) == lock[h] = None

Released(p) == [h \in Hosts |-> IF lock[h] = p THEN None ELSE lock[h]]
End(p) ==
  /\ proc' = [proc EXCEPT ![p] = NoCommand]
  /\ lock' = Released(p)

\* The process is killed, an answer is lost, a call times out, a file or a
\* row cannot be written: the command gives up where it is.
Abort(p) ==
  /\ proc[p].pc # "idle"
  /\ End(p)
  /\ UNCHANGED <<planeVars, storeVars, dir, file>>

\* The same with a request under way, which awd goes on to serve.
VanishReturnsToken(p) ==
  /\ proc[p].pc \in AtAwd
  /\ proc[p].host # None
  /\ proc' = [proc EXCEPT ![p].host = None]
  /\ lock' = Released(p)
  /\ tokens' = IF proc[p].pc # "store" THEN tokens
               ELSE [tokens EXCEPT ![proc[p].token].status = "fresh"]
  /\ UNCHANGED <<planeVars, machines, issued, revoked, dir, file>>
Vanish(p) ==
  /\ proc[p].pc \in AtAwd
  /\ proc[p].host # None
  /\ proc' = [proc EXCEPT ![p].host = None]
  /\ lock' = Released(p)
  /\ UNCHANGED <<planeVars, storeVars, dir, file>>

(***************************************************************************)
(* aw-sync enroll: the state directory first, then the lock, the check for *)
(* an enrollment and only then the token.                                  *)
(***************************************************************************)
StartEnroll(p, h, t, force) ==
  /\ proc[p].pc = "idle"
  /\ tokens[t].status # "unminted"
  /\ dir' = [dir EXCEPT ![h] = TRUE]
  /\ proc' = [proc EXCEPT ![p] = [NoCommand EXCEPT !.pc = "lock", !.host = h,
                                                   !.token = t, !.force = force]]
  /\ UNCHANGED <<planeVars, storeVars, file, lock>>

MayEnroll(p) ==
  /\ Free(proc[p].host)
  /\ file[proc[p].host] = None \/ proc[p].force

EnrollRefused(p) ==
  /\ proc[p].pc = "lock"
  /\ ~MayEnroll(p)
  /\ End(p)
  /\ UNCHANGED <<planeVars, storeVars, dir, file>>

EnrollLocks(p) ==
  /\ proc[p].pc = "lock"
  /\ MayEnroll(p)
  /\ lock' = [lock EXCEPT ![proc[p].host] = p]
  /\ proc' = [proc EXCEPT ![p].pc = "post"]
  /\ UNCHANGED <<planeVars, storeVars, dir, file>>

\* postEnroll: ConsumeEnrollmentToken tests and marks in one statement.
ConsumeTwice(t) ==
  /\ tokens[t].status \in {"fresh", "used"}
  /\ tokens' = [tokens EXCEPT ![t].status = "used"]
Consume(t) ==
  /\ tokens[t].status = "fresh"
  /\ tokens' = [tokens EXCEPT ![t].status = "used"]

PostConsumes(p) ==
  /\ proc[p].pc = "post"
  /\ Consume(proc[p].token)
  /\ proc' = [proc EXCEPT ![p].pc = "store"]
  /\ UNCHANGED <<planeVars, machines, issued, revoked, hostVars>>

PostRefused(p) ==
  /\ proc[p].pc = "post"
  /\ tokens[proc[p].token].status # "fresh"
  /\ End(p)
  /\ UNCHANGED <<planeVars, storeVars, dir, file>>

\* The answer reaches the command, if it is still there.
Answered(p, command) == IF proc[p].host = None THEN NoCommand ELSE command

\* postEnroll: PutMachine under a new id, and the answer with awd's key.
PutMachine(p, id) ==
  /\ proc[p].pc = "store"
  /\ issued[id] = None
  /\ machines' = [machines EXCEPT ![id] = [lastKey |-> NoKey]]
  /\ issued' = [issued EXCEPT ![id] = proc[p].token]
  /\ proc' = [proc EXCEPT ![p] = Answered(p,
                [@ EXCEPT !.pc = "save", !.mine = [id |-> id, pin |-> signer.current]])]
  /\ UNCHANGED <<planeVars, tokens, revoked, hostVars>>

\* Client.Enroll: the token decides which key is trusted, not the answer.
AcceptsAnyKey(token, m) == TRUE
Accepts(token, m) == token.key = NoKey \/ m.pin = token.key

EnrollSaves(p) ==
  /\ proc[p].pc = "save"
  /\ Accepts(tokens[proc[p].token], proc[p].mine)
  /\ file' = [file EXCEPT ![proc[p].host] = proc[p].mine]
  /\ End(p)
  /\ UNCHANGED <<planeVars, storeVars, dir>>

\* The token is spent and the row stays until an administrator revokes it.
EnrollMismatch(p) ==
  /\ proc[p].pc = "save"
  /\ ~Accepts(tokens[proc[p].token], proc[p].mine)
  /\ End(p)
  /\ UNCHANGED <<planeVars, storeVars, dir, file>>

-----------------------------------------------------------------------------
(***************************************************************************)
(* aw-sync once.  A held lock skips the run.  No state directory means no  *)
(* lock to take, and the run goes on without it.                           *)
(***************************************************************************)
StartOnce(p, h) ==
  /\ proc[p].pc = "idle"
  /\ dir[h] => Free(h)
  /\ lock' = IF dir[h] THEN [lock EXCEPT ![h] = p] ELSE lock
  /\ proc' = [proc EXCEPT ![p] = [NoCommand EXCEPT !.pc = "load", !.host = h]]
  /\ UNCHANGED <<planeVars, storeVars, dir, file>>

LoadMachine(p) ==
  /\ proc[p].pc = "load"
  /\ file[proc[p].host] # None
  /\ proc' = [proc EXCEPT ![p].pc = "fetch", ![p].mine = file[proc[p].host]]
  /\ UNCHANGED <<planeVars, storeVars, hostVars>>

NotEnrolled(p) ==
  /\ proc[p].pc = "load"
  /\ file[proc[p].host] = None
  /\ End(p)
  /\ UNCHANGED <<planeVars, storeVars, dir, file>>

\* requireMachine: the row is looked up by the credential, once per request.
Admitted(p) ==
  /\ proc[p].pc = "fetch"
  /\ machines[proc[p].mine.id] # None
  /\ proc' = [proc EXCEPT ![p].pc = "touch"]
  /\ UNCHANGED <<planeVars, storeVars, hostVars>>

Unauthorized(p) ==
  /\ proc[p].pc = "fetch"
  /\ machines[proc[p].mine.id] = None
  /\ End(p)
  /\ UNCHANGED <<planeVars, storeVars, dir, file>>

\* TouchMachine: a row that is gone stays gone.
TouchesUnknown(m, key) == [machines EXCEPT ![m.id] = [lastKey |-> key]]
Touched(m, key) ==
  IF machines[m.id] = None THEN machines
  ELSE [machines EXCEPT ![m.id] = [lastKey |-> key]]

\* The key the machine presents, X-AW-Key-Id.
ServedKey(m) == signer.current
PresentedKey(m) == m.pin

\* getBundle: bookkeeping, which may fail, and then the answer, with the
\* rollover if there is one.
getBundle(p) ==
  /\ proc[p].pc = "touch"
  /\ machines' \in {machines, Touched(proc[p].mine, PresentedKey(proc[p].mine))}
  /\ proc' = [proc EXCEPT ![p] = Answered(p,
                [@ EXCEPT !.pc = "apply",
                          !.offer = [key |-> signer.current, by |-> signer.previous]])]
  /\ UNCHANGED <<planeVars, tokens, issued, revoked, hostVars>>

\* The pinned key signed the rollover: repin writes back the whole of what
\* was loaded, with the new key.
Repin(p) ==
  /\ proc[p].pc = "apply"
  /\ proc[p].mine.pin # NoKey
  /\ proc[p].offer.by = proc[p].mine.pin
  /\ file' = [file EXCEPT ![proc[p].host] =
                [proc[p].mine EXCEPT !.pin = proc[p].offer.key]]
  /\ End(p)
  /\ UNCHANGED <<planeVars, storeVars, dir>>

\* No rollover, or one that another key signed, which fails the fetch.
CycleEnds(p) ==
  /\ proc[p].pc = "apply"
  /\ proc[p].mine.pin = NoKey \/ proc[p].offer.by # proc[p].mine.pin
  /\ End(p)
  /\ UNCHANGED <<planeVars, storeVars, dir, file>>

-----------------------------------------------------------------------------
Operator ==
  \/ \E k \in Keys : StartSigning(k) \/ RotateKey(k)
  \/ RetireKey
  \/ StopSigning
  \/ \E t \in Tokens : postEnrollmentToken(t) \/ Expire(t)
  \/ \E id \in Ids : deleteMachine(id)

Start(p) ==
  \/ \E h \in Hosts, t \in Tokens, force \in BOOLEAN : StartEnroll(p, h, t, force)
  \/ \E h \in Hosts : StartOnce(p, h)

\* The steps of a command that has started.
Continue(p) ==
  \/ EnrollRefused(p) \/ EnrollLocks(p)
  \/ PostConsumes(p) \/ PostRefused(p)
  \/ \E id \in Ids : PutMachine(p, id)
  \/ EnrollSaves(p) \/ EnrollMismatch(p)
  \/ LoadMachine(p) \/ NotEnrolled(p)
  \/ Admitted(p) \/ Unauthorized(p)
  \/ getBundle(p)
  \/ Repin(p) \/ CycleEnds(p)

Next ==
  \/ Operator
  \/ \E p \in Procs : Start(p) \/ Continue(p) \/ Abort(p) \/ Vanish(p)

Spec == Init /\ [][Next]_vars

-----------------------------------------------------------------------------
(***************************************************************************)
(* Properties                                                              *)
(***************************************************************************)

\* A token enrolls one machine, however many hosts present it at once and
\* wherever one of them gives up (enroll.go, postEnroll; store.go,
\* ConsumeEnrollmentToken).
TokenEnrollsOnce ==
  \A a, b \in Ids : issued[a] # None /\ issued[a] = issued[b] => a = b

\* A revoked machine is not admitted again, also when it was revoked between
\* the look-up and the bookkeeping of a fetch in flight (auth.go,
\* requireMachine; memory.go and postgres.go, TouchMachine, DeleteMachine).
RevokedStaysOut == \A id \in revoked : machines[id] = None

\* Where the state directory was there from the start, an enrollment is
\* replaced by another one only by `enroll --force': not by a second enroll
\* that started before the first had finished, and not by a cycle that saves
\* the enrollment it had loaded (main.go, enroll and once: the lock).
EnrollmentKept ==
  [][\A h \in Hosts :
       Provisioned /\ file[h] # None /\ file'[h] # file[h] =>
         \/ file'[h] # None /\ file'[h].id = file[h].id
         \/ \E p \in Procs : proc[p].pc = "save" /\ proc[p].host = h /\ proc[p].force]_vars

\* The trust a machine has chains back to the token it was enrolled with: its
\* pin is the key the token named or a key handed over to from it, whatever
\* keys awd was configured with in between (client.go, Enroll and
\* rolloverFrom).
PinDescendsFromToken ==
  \A h \in Hosts : file[h] # None =>
    LET named == tokens[issued[file[h].id]].key
    IN  named # NoKey => <<named, file[h].pin>> \in heirs

\* deploy/aw-sync/README.md, "Rotating the signing key": once every row of
\* `awd machines' shows the new key, the old one can be dropped without
\* cutting a machine off.
RetirementIsSafe ==
  Provisioned /\ signer.previous # NoKey
  /\ (\A id \in Ids : machines[id] # None => machines[id].lastKey = signer.current)
  => \A h \in Hosts :
       file[h] # None /\ machines[file[h].id] # None => file[h].pin = signer.current

\* What there is of Membership: an enrollment that awd answered and the
\* command has yet to save is an offer.
Minted == {t \in Tokens : tokens[t].status # "unminted"}
Named == [t \in Tokens |-> tokens[t].key]
Members == {id \in Ids : machines[id] # None}
OfferOf(p) == [to |-> proc[p].host, mine |-> proc[p].mine, force |-> proc[p].force]
Offers == {OfferOf(p) : p \in {q \in Procs : proc[q].pc = "save"}}

Issue == INSTANCE Membership WITH
  Locked <- Provisioned, passed <- heirs, minted <- Minted, named <- Named,
  owner <- issued, members <- Members, offers <- Offers, enrolled <- file

\* The commands, the store and the files keep the promise of Membership: a
\* token buys one membership, taken once and under the key the token names,
\* kept by its host and followed from key to key, also when commands race, a
\* request outlives its command or one of them is cut short (enroll.go,
\* postEnroll; main.go, enroll and once; client.go, Enroll and rolloverFrom).
KeepsMembership == Issue!MembershipSpec
=============================================================================
