-------------------------- MODULE EnrollmentProofs --------------------------
(***************************************************************************)
(* The safety properties of Enrollment, for any number of hosts, commands, *)
(* tokens, ids and keys.                                                   *)
(***************************************************************************)
EXTENDS Enrollment, TLAPS

\* What a command holds at each stage.
Shape ==
  \A p \in Procs :
    /\ proc[p].pc \in {"lock", "save", "load", "apply"} => proc[p].host \in Hosts
    /\ proc[p].pc \in {"lock", "post", "store", "save"} => proc[p].token \in Tokens
    /\ proc[p].pc \in {"save", "fetch", "touch", "apply"} => proc[p].mine \in Machine
    /\ proc[p].pc = "apply" => proc[p].offer \in Offer

TypeInv == TypeOK /\ Shape

LEMMA NoCommandType == NoCommand \in Command /\ NoCommand.pc = "idle"
BY DEF NoCommand, Command

LEMMA InitTypeInv == Init => TypeInv
<1> SUFFICES ASSUME Init PROVE TypeInv
  OBVIOUS
<1>1. TypeOK
  BY NoCommandType, EnrollmentAssumption DEF Init, TypeOK, Token, KeyOrNone, NoKey
<1>2. Shape
  BY NoCommandType DEF Init, Shape
<1> QED
  BY <1>1, <1>2 DEF TypeInv

\* A step of one command that types and shapes that command well.
LEMMA CommandTypeStep ==
  ASSUME TypeInv, NEW p \in Procs, NEW c \in Command,
         proc' = [proc EXCEPT ![p] = c],
         c.pc \in {"lock", "save", "load", "apply"} => c.host \in Hosts,
         c.pc \in {"lock", "post", "store", "save"} => c.token \in Tokens,
         c.pc \in {"save", "fetch", "touch", "apply"} => c.mine \in Machine,
         c.pc = "apply" => c.offer \in Offer
  PROVE  proc' \in [Procs -> Command] /\ Shape'
<1>1. proc \in [Procs -> Command] /\ Shape
  BY DEF TypeInv, TypeOK
<1>2. proc' \in [Procs -> Command] /\ proc'[p] = c /\ \A q \in Procs \ {p} : proc'[q] = proc[q]
  BY <1>1
<1>3. ASSUME NEW q \in Procs
      PROVE  /\ proc'[q].pc \in {"lock", "save", "load", "apply"} => proc'[q].host \in Hosts
             /\ proc'[q].pc \in {"lock", "post", "store", "save"} => proc'[q].token \in Tokens
             /\ proc'[q].pc \in {"save", "fetch", "touch", "apply"} => proc'[q].mine \in Machine
             /\ proc'[q].pc = "apply" => proc'[q].offer \in Offer
  <2>1. CASE q = p
    BY <2>1, <1>2
  <2>2. CASE q # p
    <3>1. proc'[q] = proc[q]
      BY <2>2, <1>2
    <3> QED
      BY <3>1, <1>1 DEF Shape
  <2> QED
    BY <2>1, <2>2
<1> QED
  BY <1>2, <1>3 DEF Shape

LEMMA EndType ==
  ASSUME TypeInv, NEW p \in Procs, End(p)
  PROVE  /\ proc' \in [Procs -> Command]
         /\ lock' \in [Hosts -> Procs \cup {None}]
         /\ Shape'
<1>1. proc' \in [Procs -> Command] /\ Shape'
  BY CommandTypeStep, NoCommandType DEF End
<1>2. lock' \in [Hosts -> Procs \cup {None}]
  BY DEF End, Released, TypeInv, TypeOK
<1> QED
  BY <1>1, <1>2

LEMMA OperatorTypeStep == ASSUME TypeInv, Operator PROVE TypeInv'
<1> USE DEF TypeInv, TypeOK
<1>1. CASE \E k \in Keys : StartSigning(k)
  BY <1>1, EnrollmentAssumption DEF StartSigning, storeVars, hostVars, KeyOrNone, NoKey, Shape
<1>2. CASE \E k \in Keys : RotateKey(k)
  <2> PICK k \in Keys : RotateKey(k)
    BY <1>2
  <2>1. heirs' \subseteq Keys \X Keys
    <3> DEFINE S == Before(signer.current) \cup {k}
    <3>1. S \subseteq Keys
      BY DEF Before
    <3>2. heirs' = heirs \cup {<<a, k>> : a \in S}
      BY DEF RotateKey
    <3> HIDE DEF S
    <3> QED
      BY <3>1, <3>2
  <2>2. signer' \in [current: KeyOrNone, previous: KeyOrNone]
    BY DEF RotateKey, KeyOrNone
  <2> QED
    BY <2>1, <2>2 DEF RotateKey, storeVars, hostVars, Shape
<1>3. CASE RetireKey
  BY <1>3 DEF RetireKey, storeVars, hostVars, KeyOrNone, NoKey, Shape
<1>4. CASE StopSigning
  BY <1>4 DEF StopSigning, storeVars, hostVars, KeyOrNone, NoKey, Shape
<1>5. CASE \E t \in Tokens : postEnrollmentToken(t)
  BY <1>5 DEF postEnrollmentToken, planeVars, hostVars, Token, Shape
<1>6. CASE \E t \in Tokens : Expire(t)
  BY <1>6 DEF Expire, planeVars, hostVars, Token, Shape
<1>7. CASE \E id \in Ids : deleteMachine(id)
  BY <1>7 DEF deleteMachine, planeVars, hostVars, Shape
<1> QED
  BY <1>1, <1>2, <1>3, <1>4, <1>5, <1>6, <1>7 DEF Operator

LEMMA ProcTypeStep ==
  ASSUME TypeInv, NEW p \in Procs, Start(p) \/ Continue(p) \/ Abort(p) \/ Vanish(p)
  PROVE  TypeInv'
<1> USE DEF TypeInv
<1>0. proc[p] \in Command /\ Shape
  BY DEF TypeOK
<1>1. ASSUME NEW h \in Hosts, NEW t \in Tokens, NEW force \in BOOLEAN, StartEnroll(p, h, t, force)
      PROVE  TypeInv'
  <2> DEFINE c == [NoCommand EXCEPT !.pc = "lock", !.host = h, !.token = t, !.force = force]
  <2>1. c \in Command /\ c.pc = "lock" /\ c.host = h /\ c.token = t
    BY DEF NoCommand, Command, EnrollStages
  <2>2. proc' = [proc EXCEPT ![p] = c]
    BY <1>1 DEF StartEnroll
  <2> HIDE DEF c
  <2>3. proc' \in [Procs -> Command] /\ Shape'
    BY <2>1, <2>2, CommandTypeStep
  <2> QED
    BY <2>3, <1>1 DEF TypeOK, StartEnroll, planeVars, storeVars
<1>2. ASSUME NEW h \in Hosts, StartOnce(p, h)
      PROVE  TypeInv'
  <2> DEFINE c == [NoCommand EXCEPT !.pc = "load", !.host = h]
  <2>1. c \in Command /\ c.pc = "load" /\ c.host = h
    BY DEF NoCommand, Command, OnceStages
  <2>2. proc' = [proc EXCEPT ![p] = c]
    BY <1>2 DEF StartOnce
  <2> HIDE DEF c
  <2>3. proc' \in [Procs -> Command] /\ Shape'
    BY <2>1, <2>2, CommandTypeStep
  <2> QED
    BY <2>3, <1>2 DEF TypeOK, StartOnce, planeVars, storeVars
<1>3. CASE EnrollLocks(p)
  <2> DEFINE c == [proc[p] EXCEPT !.pc = "post"]
  <2>1. c \in Command /\ c.pc = "post" /\ c.token \in Tokens /\ proc[p].host \in Hosts
    BY <1>0, <1>3 DEF Command, EnrollStages, Shape, EnrollLocks
  <2>2. proc' = [proc EXCEPT ![p] = c]
    BY <1>3 DEF EnrollLocks
  <2> HIDE DEF c
  <2>3. proc' \in [Procs -> Command] /\ Shape'
    BY <2>1, <2>2, CommandTypeStep
  <2> QED
    BY <2>1, <2>3, <1>3 DEF TypeOK, EnrollLocks, planeVars, storeVars
<1>4. CASE PostConsumes(p)
  <2> DEFINE c == [proc[p] EXCEPT !.pc = "store"]
  <2>1. c \in Command /\ c.pc = "store" /\ c.token \in Tokens /\ proc[p].token \in Tokens
    BY <1>0, <1>4 DEF Command, EnrollStages, Shape, PostConsumes
  <2>2. proc' = [proc EXCEPT ![p] = c]
    BY <1>4 DEF PostConsumes
  <2> HIDE DEF c
  <2>3. proc' \in [Procs -> Command] /\ Shape'
    BY <2>1, <2>2, CommandTypeStep
  <2>4. tokens' \in [Tokens -> Token]
    BY <2>1, <1>4 DEF TypeOK, PostConsumes, Consume, Token
  <2> QED
    BY <2>3, <2>4, <1>4 DEF TypeOK, PostConsumes, planeVars, hostVars
<1>5. ASSUME NEW id \in Ids, PutMachine(p, id)
      PROVE  TypeInv'
  <2> DEFINE saved == [proc[p] EXCEPT !.pc = "save", !.mine = [id |-> id, pin |-> signer.current]]
             c == Answered(p, saved)
  <2>1. saved \in Command /\ saved.pc = "save" /\ saved.token \in Tokens
          /\ saved.mine \in Machine /\ saved.host = proc[p].host
    BY <1>0, <1>5 DEF Command, EnrollStages, Shape, PutMachine, TypeOK, Machine
  <2>2. proc' = [proc EXCEPT ![p] = c]
    BY <1>5 DEF PutMachine
  <2>3. proc[p].host \in Hosts \cup {None}
    BY <1>0 DEF Command
  <2> HIDE DEF saved
  <2>4. c = NoCommand \/ (c = saved /\ saved.host \in Hosts)
    BY <2>1, <2>3 DEF Answered
  <2> HIDE DEF c
  <2>5. proc' \in [Procs -> Command] /\ Shape'
    BY <2>1, <2>2, <2>4, CommandTypeStep, NoCommandType
  <2>6. machines' \in [Ids -> Row \cup {None}] /\ issued' \in [Ids -> Tokens \cup {None}]
    BY <1>0, <1>5 DEF TypeOK, PutMachine, Row, KeyOrNone, Shape
  <2> QED
    BY <2>5, <2>6, <1>5 DEF TypeOK, PutMachine, planeVars, hostVars
<1>6. CASE EnrollSaves(p)
  <2>1. file' \in [Hosts -> Machine \cup {None}]
    BY <1>0, <1>6 DEF TypeOK, EnrollSaves, Shape
  <2> QED
    BY <2>1, <1>6, EndType DEF TypeOK, EnrollSaves, planeVars, storeVars
<1>7. CASE LoadMachine(p)
  <2> DEFINE c == [proc[p] EXCEPT !.pc = "fetch", !.mine = file[proc[p].host]]
  <2>1. file[proc[p].host] \in Machine
    BY <1>0, <1>7 DEF TypeOK, LoadMachine, Shape
  <2>2. c \in Command /\ c.pc = "fetch" /\ c.mine \in Machine
    BY <1>0, <2>1 DEF Command, OnceStages
  <2>3. proc' = [proc EXCEPT ![p] = c]
    BY <1>7 DEF LoadMachine
  <2> HIDE DEF c
  <2>4. proc' \in [Procs -> Command] /\ Shape'
    BY <2>2, <2>3, CommandTypeStep
  <2> QED
    BY <2>4, <1>7 DEF TypeOK, LoadMachine, planeVars, storeVars, hostVars
<1>8. CASE Admitted(p)
  <2> DEFINE c == [proc[p] EXCEPT !.pc = "touch"]
  <2>1. c \in Command /\ c.pc = "touch" /\ c.mine \in Machine
    BY <1>0, <1>8 DEF Command, OnceStages, Shape, Admitted
  <2>2. proc' = [proc EXCEPT ![p] = c]
    BY <1>8 DEF Admitted
  <2> HIDE DEF c
  <2>3. proc' \in [Procs -> Command] /\ Shape'
    BY <2>1, <2>2, CommandTypeStep
  <2> QED
    BY <2>3, <1>8 DEF TypeOK, Admitted, planeVars, storeVars, hostVars
<1>9. CASE getBundle(p)
  <2> DEFINE offered == [proc[p] EXCEPT !.pc = "apply",
                 !.offer = [key |-> signer.current, by |-> signer.previous]]
             c == Answered(p, offered)
  <2>1. offered \in Command /\ offered.pc = "apply" /\ offered.mine \in Machine
          /\ offered.offer \in Offer /\ offered.host = proc[p].host
    BY <1>0, <1>9 DEF Command, OnceStages, Shape, getBundle, TypeOK, Offer
  <2>2. proc' = [proc EXCEPT ![p] = c]
    BY <1>9 DEF getBundle
  <2>3. proc[p].host \in Hosts \cup {None}
    BY <1>0 DEF Command
  <2> HIDE DEF offered
  <2>4. c = NoCommand \/ (c = offered /\ offered.host \in Hosts)
    BY <2>1, <2>3 DEF Answered
  <2> HIDE DEF c
  <2>5. proc' \in [Procs -> Command] /\ Shape'
    BY <2>1, <2>2, <2>4, CommandTypeStep, NoCommandType
  <2>6. proc[p].mine \in Machine
    BY <1>0, <1>9 DEF Shape, getBundle
  <2>7. machines' \in [Ids -> Row \cup {None}]
    BY <2>6, <1>9 DEF TypeOK, getBundle, Touched, PresentedKey, Row, Machine
  <2> QED
    BY <2>5, <2>7, <1>9 DEF TypeOK, getBundle, planeVars, hostVars
<1>10. CASE Repin(p)
  <2>1. file' \in [Hosts -> Machine \cup {None}]
    BY <1>0, <1>10 DEF TypeOK, Repin, Shape, Machine, Offer
  <2> QED
    BY <2>1, <1>10, EndType DEF TypeOK, Repin, planeVars, storeVars
<1>11. CASE Vanish(p)
  <2> DEFINE c == [proc[p] EXCEPT !.host = None]
  <2>1. /\ c \in Command /\ c.pc \in AtAwd /\ c.pc = proc[p].pc
        /\ c.token = proc[p].token /\ c.mine = proc[p].mine
    BY <1>0, <1>11 DEF Command, Vanish
  <2>2. proc' = [proc EXCEPT ![p] = c]
    BY <1>11 DEF Vanish
  <2> HIDE DEF c
  <2>3. proc' \in [Procs -> Command] /\ Shape'
    BY <2>1, <2>2, <1>0, CommandTypeStep DEF AtAwd, Shape
  <2>4. lock' \in [Hosts -> Procs \cup {None}]
    BY <1>11 DEF Vanish, Released, TypeOK
  <2> QED
    BY <2>3, <2>4, <1>11 DEF TypeOK, Vanish, planeVars, storeVars
<1>12. CASE /\ End(p)
            /\ UNCHANGED <<planeVars, storeVars, dir, file>>
  BY <1>12, EndType DEF TypeOK, planeVars, storeVars
<1> QED
  BY <1>1, <1>2, <1>3, <1>4, <1>5, <1>6, <1>7, <1>8, <1>9, <1>10, <1>11, <1>12
  DEF Start, Continue, Abort, EnrollRefused, PostRefused, EnrollMismatch,
      NotEnrolled, Unauthorized, CycleEnds

LEMMA NextTypeInv == ASSUME TypeInv, [Next]_vars PROVE TypeInv'
<1>1. CASE Next
  BY <1>1, OperatorTypeStep, ProcTypeStep DEF Next
<1>2. CASE UNCHANGED vars
  BY <1>2 DEF vars, TypeInv, TypeOK, Shape
<1> QED
  BY <1>1, <1>2

\* Every variable keeps its type, and a command at a stage has what that stage
\* uses: a token to present, an enrollment to save or to fetch with, a host to
\* write to (cmd/aw-sync/main.go, enroll and once).
THEOREM EnrollmentTypeCorrect == Spec => []TypeOK
<1>1. Spec => []TypeInv
  BY InitTypeInv, NextTypeInv, PTL DEF Spec
<1> QED
  BY <1>1, PTL DEF TypeInv

-----------------------------------------------------------------------------
Fetching == {"fetch", "touch", "apply"}

\* A token is used before a machine is stored for it, and one request at a
\* time is between the two.
TokensSpent ==
  /\ \A id \in Ids : issued[id] # None => tokens[issued[id]].status = "used"
  /\ \A p \in Procs : proc[p].pc = "store" =>
       /\ tokens[proc[p].token].status = "used"
       /\ \A id \in Ids : issued[id] # proc[p].token
       /\ \A q \in Procs : q # p /\ proc[q].pc = "store" => proc[q].token # proc[p].token
  /\ TokenEnrollsOnce

\* A row, present or revoked, was issued.
RowsIssued ==
  /\ \A id \in Ids : machines[id] # None => issued[id] # None
  /\ \A id \in revoked : issued[id] # None
  /\ RevokedStaysOut

\* A command past its lock holds it, and machine.json is as it last saw it.
HeldBy(p) ==
  proc[p].host # None =>
    /\ proc[p].pc \notin {"idle", "lock"} => lock[proc[p].host] = p
    /\ proc[p].pc \in Fetching => file[proc[p].host] = proc[p].mine
    /\ proc[p].pc \in {"post", "store", "save"} /\ ~proc[p].force
         => file[proc[p].host] = None

Held == Provisioned => (\A h \in Hosts : dir[h]) /\ (\A p \in Procs : HeldBy(p))

\* Trust passes on from key to key, and all keys in use are known.
Lineage ==
  /\ \A a, b \in Keys : <<a, b>> \in heirs => <<a, a>> \in heirs /\ <<b, b>> \in heirs
  /\ \A a, b, c \in Keys : <<a, b>> \in heirs /\ <<b, c>> \in heirs => <<a, c>> \in heirs
  /\ signer.current # NoKey => <<signer.current, signer.current>> \in heirs
  /\ signer.previous # NoKey => /\ <<signer.previous, signer.current>> \in heirs
                                /\ \A b \in Keys : <<signer.current, b>> \in heirs
                                                    => b = signer.current
  /\ \A t \in Tokens : tokens[t].key # NoKey => <<tokens[t].key, tokens[t].key>> \in heirs
  /\ \A p \in Procs : proc[p].pc = "apply" /\ proc[p].offer.by # NoKey
                         => <<proc[p].offer.by, proc[p].offer.key>> \in heirs

\* An enrollment in a file or in hand chains back to its token.
Chained(m) ==
  /\ issued[m.id] # None
  /\ tokens[issued[m.id]].key # NoKey => <<tokens[issued[m.id]].key, m.pin>> \in heirs
  /\ m.pin # NoKey => <<m.pin, m.pin>> \in heirs

Trusted ==
  /\ \A h \in Hosts : file[h] # None => Chained(file[h])
  /\ \A p \in Procs : proc[p].pc \in Fetching => Chained(proc[p].mine)
  /\ \A p \in Procs : proc[p].pc = "save" =>
       /\ issued[proc[p].mine.id] = proc[p].token
       /\ proc[p].mine.pin # NoKey => <<proc[p].mine.pin, proc[p].mine.pin>> \in heirs

\* An enrollment about to be saved is known to nobody else.
Fresh ==
  \A p \in Procs : proc[p].pc = "save" =>
    /\ \A h \in Hosts : file[h] # None => file[h].id # proc[p].mine.id
    /\ \A q \in Procs : q # p /\ proc[q].pc \in Fetching \cup {"save"}
                           => proc[q].mine.id # proc[p].mine.id
    /\ machines[proc[p].mine.id] # None => machines[proc[p].mine.id].lastKey = NoKey

\* A key that a machine has reported, or is reporting, led to its pin.
Reported ==
  Provisioned =>
    /\ \A g, h \in Hosts : file[g] # None /\ file[h] # None /\ file[g].id = file[h].id => g = h
    /\ \A id \in Ids, h \in Hosts :
         /\ machines[id] # None /\ machines[id].lastKey # NoKey
         /\ file[h] # None /\ file[h].id = id
         => <<machines[id].lastKey, file[h].pin>> \in heirs
    /\ \A p \in Procs, h \in Hosts :
         /\ proc[p].pc \in Fetching /\ proc[p].mine.pin # NoKey
         /\ file[h] # None /\ file[h].id = proc[p].mine.id
         => <<proc[p].mine.pin, file[h].pin>> \in heirs

EnrollmentInv ==
  TypeInv /\ TokensSpent /\ RowsIssued /\ Held /\ Lineage /\ Trusted /\ Fresh /\ Reported

-----------------------------------------------------------------------------
(***************************************************************************)
(* What the steps of a command do to it, field by field.                   *)
(***************************************************************************)
Step(p) == Start(p) \/ Continue(p) \/ Abort(p) \/ Vanish(p)

LEMMA OnlyOneMoves ==
  ASSUME TypeInv, NEW p \in Procs, Step(p)
  PROVE  \A q \in Procs \ {p} : proc'[q] = proc[q]
<1>1. proc \in [Procs -> Command]
  BY DEF TypeInv, TypeOK
<1>2. End(p) => \A q \in Procs \ {p} : proc'[q] = proc[q]
  BY <1>1 DEF End
<1>3. Start(p) => \A q \in Procs \ {p} : proc'[q] = proc[q]
  BY <1>1 DEF Start, StartEnroll, StartOnce
<1>4. Vanish(p) => \A q \in Procs \ {p} : proc'[q] = proc[q]
  BY <1>1 DEF Vanish
<1>5. Continue(p) => \A q \in Procs \ {p} : proc'[q] = proc[q]
  BY <1>1, <1>2 DEF Continue, EnrollRefused, EnrollLocks, PostConsumes, PostRefused,
       PutMachine, EnrollSaves, EnrollMismatch, LoadMachine, NotEnrolled, Admitted,
       Unauthorized, getBundle, Repin, CycleEnds
<1> QED
  BY <1>2, <1>3, <1>4, <1>5 DEF Step, Abort

LEMMA StartEnrollEffect ==
  ASSUME TypeInv, NEW p \in Procs, NEW h \in Hosts, NEW t \in Tokens, NEW force \in BOOLEAN,
         StartEnroll(p, h, t, force)
  PROVE  proc'[p].pc = "lock" /\ proc'[p].host = h
BY DEF TypeInv, TypeOK, StartEnroll, NoCommand

LEMMA StartOnceEffect ==
  ASSUME TypeInv, NEW p \in Procs, NEW h \in Hosts, StartOnce(p, h)
  PROVE  proc'[p].pc = "load" /\ proc'[p].host = h
BY DEF TypeInv, TypeOK, StartOnce, NoCommand

LEMMA EnrollLocksEffect ==
  ASSUME TypeInv, NEW p \in Procs, EnrollLocks(p)
  PROVE  /\ proc'[p].pc = "post"
         /\ proc'[p].host = proc[p].host
         /\ proc'[p].force = proc[p].force
<1>1. proc \in [Procs -> Command] /\ proc[p] \in Command
  BY DEF TypeInv, TypeOK
<1> QED
  BY <1>1 DEF EnrollLocks, Command

LEMMA PostConsumesEffect ==
  ASSUME TypeInv, NEW p \in Procs, PostConsumes(p)
  PROVE  /\ proc'[p].pc = "store"
         /\ proc'[p].host = proc[p].host
         /\ proc'[p].token = proc[p].token
         /\ proc'[p].force = proc[p].force
<1>1. proc \in [Procs -> Command] /\ proc[p] \in Command
  BY DEF TypeInv, TypeOK
<1> QED
  BY <1>1 DEF PostConsumes, Command

LEMMA PutMachineEffect ==
  ASSUME TypeInv, NEW p \in Procs, NEW id \in Ids, PutMachine(p, id)
  PROVE  \/ proc'[p] = NoCommand
         \/ /\ proc'[p].pc = "save"
            /\ proc'[p].host = proc[p].host
            /\ proc'[p].token = proc[p].token
            /\ proc'[p].force = proc[p].force
            /\ proc'[p].mine = [id |-> id, pin |-> signer.current]
<1>1. proc \in [Procs -> Command] /\ proc[p] \in Command
  BY DEF TypeInv, TypeOK
<1>2. proc'[p] = Answered(p, [proc[p] EXCEPT !.pc = "save",
                                !.mine = [id |-> id, pin |-> signer.current]])
  BY <1>1 DEF PutMachine
<1> QED
  BY <1>1, <1>2 DEF Answered, Command

LEMMA LoadMachineEffect ==
  ASSUME TypeInv, NEW p \in Procs, LoadMachine(p)
  PROVE  /\ proc'[p].pc = "fetch"
         /\ proc'[p].host = proc[p].host
         /\ proc'[p].mine = file[proc[p].host]
<1>1. proc \in [Procs -> Command] /\ proc[p] \in Command
  BY DEF TypeInv, TypeOK
<1> QED
  BY <1>1 DEF LoadMachine, Command

LEMMA AdmittedEffect ==
  ASSUME TypeInv, NEW p \in Procs, Admitted(p)
  PROVE  /\ proc'[p].pc = "touch"
         /\ proc'[p].host = proc[p].host
         /\ proc'[p].mine = proc[p].mine
<1>1. proc \in [Procs -> Command] /\ proc[p] \in Command
  BY DEF TypeInv, TypeOK
<1> QED
  BY <1>1 DEF Admitted, Command

LEMMA getBundleEffect ==
  ASSUME TypeInv, NEW p \in Procs, getBundle(p)
  PROVE  \/ proc'[p] = NoCommand
         \/ /\ proc'[p].pc = "apply"
            /\ proc'[p].host = proc[p].host
            /\ proc'[p].mine = proc[p].mine
            /\ proc'[p].offer = [key |-> signer.current, by |-> signer.previous]
<1>1. proc \in [Procs -> Command] /\ proc[p] \in Command
  BY DEF TypeInv, TypeOK
<1>2. proc'[p] = Answered(p, [proc[p] EXCEPT !.pc = "apply",
                                !.offer = [key |-> signer.current, by |-> signer.previous]])
  BY <1>1 DEF getBundle
<1> QED
  BY <1>1, <1>2 DEF Answered, Command

LEMMA VanishEffect ==
  ASSUME TypeInv, NEW p \in Procs, Vanish(p)
  PROVE  /\ proc'[p].host = None
         /\ proc'[p].pc = proc[p].pc /\ proc[p].pc \in AtAwd
         /\ proc'[p].token = proc[p].token
         /\ proc'[p].mine = proc[p].mine
<1>1. proc \in [Procs -> Command] /\ proc[p] \in Command
  BY DEF TypeInv, TypeOK
<1> QED
  BY <1>1 DEF Vanish, Command

LEMMA EndEffect ==
  ASSUME TypeInv, NEW p \in Procs, End(p)
  PROVE  /\ proc'[p] = NoCommand /\ proc'[p].pc = "idle" /\ proc'[p].host = None
         /\ \A h \in Hosts : lock'[h] = IF lock[h] = p THEN None ELSE lock[h]
BY DEF TypeInv, TypeOK, End, Released, NoCommand

\* A step of a command is one of these.
LEMMA StepCases ==
  ASSUME NEW p \in Procs, Step(p)
  PROVE  \/ \E h \in Hosts, t \in Tokens, force \in BOOLEAN : StartEnroll(p, h, t, force)
         \/ \E h \in Hosts : StartOnce(p, h)
         \/ EnrollLocks(p) \/ PostConsumes(p)
         \/ \E id \in Ids : PutMachine(p, id)
         \/ EnrollSaves(p) \/ LoadMachine(p) \/ Admitted(p) \/ getBundle(p) \/ Repin(p)
         \/ Vanish(p)
         \/ End(p) /\ UNCHANGED <<planeVars, storeVars, dir, file>>
BY DEF Step, Start, Continue, Abort, EnrollRefused, PostRefused, EnrollMismatch,
       NotEnrolled, Unauthorized, CycleEnds

-----------------------------------------------------------------------------
(***************************************************************************)
(* Tokens and rows                                                         *)
(***************************************************************************)
LEMMA TokensSpentQuiet ==
  ASSUME TokensSpent, tokens' = tokens, issued' = issued,
         \A q \in Procs : proc'[q].pc = "store" =>
           proc[q].pc = "store" /\ proc'[q].token = proc[q].token
  PROVE  TokensSpent'
BY DEF TokensSpent, TokenEnrollsOnce

LEMMA TokensSpentStep == ASSUME TypeInv, TokensSpent, [Next]_vars PROVE TokensSpent'
<1>1. ASSUME NEW t \in Tokens, postEnrollmentToken(t) \/ Expire(t)
      PROVE  TokensSpent'
  <2>1. /\ proc' = proc /\ issued' = issued
        /\ tokens[t].status \in {"unminted", "fresh"}
        /\ \A u \in Tokens \ {t} : tokens'[u] = tokens[u]
    BY <1>1 DEF postEnrollmentToken, Expire, TypeInv, TypeOK
  <2>2. \A id \in Ids : issued[id] # t
    BY <2>1, EnrollmentAssumption DEF TokensSpent, TypeInv, TypeOK
  <2>3. \A p \in Procs : proc[p].pc = "store" => proc[p].token # t /\ proc[p].token \in Tokens
    BY <2>1 DEF TokensSpent, TypeInv, Shape
  <2>4. \A id \in Ids : issued[id] \in Tokens \cup {None}
    BY DEF TypeInv, TypeOK
  <2> QED
    BY <2>1, <2>2, <2>3, <2>4 DEF TokensSpent, TokenEnrollsOnce
<1>2. CASE Operator
  <2>1. CASE proc' = proc /\ tokens' = tokens /\ issued' = issued
    BY <2>1, TokensSpentQuiet
  <2> QED
    BY <1>1, <1>2, <2>1 DEF Operator, StartSigning, RotateKey, RetireKey, StopSigning,
         deleteMachine, storeVars
<1>3. ASSUME NEW p \in Procs, PostConsumes(p)
      PROVE  TokensSpent'
  <2>1. proc[p].token \in Tokens /\ tokens[proc[p].token].status = "fresh"
    BY <1>3 DEF PostConsumes, Consume, TypeInv, Shape
  <2>2. /\ issued' = issued
        /\ tokens'[proc[p].token].status = "used"
        /\ \A u \in Tokens \ {proc[p].token} : tokens'[u] = tokens[u]
    <3>1. tokens[proc[p].token] \in Token /\ tokens \in [Tokens -> Token]
      BY <2>1 DEF TypeInv, TypeOK
    <3> QED
      BY <1>3, <2>1, <3>1 DEF PostConsumes, Consume, Token
  <2>3. \A id \in Ids : issued[id] # proc[p].token /\ issued[id] \in Tokens \cup {None}
    BY <2>1, EnrollmentAssumption DEF TokensSpent, TypeInv, TypeOK
  <2>4. \A q \in Procs : proc[q].pc = "store" =>
           proc[q].token # proc[p].token /\ proc[q].token \in Tokens
    BY <2>1 DEF TokensSpent, TypeInv, Shape
  <2>5. \A q \in Procs \ {p} : proc'[q] = proc[q]
    BY <1>3, OnlyOneMoves DEF Step, Continue
  <2>6. proc'[p].pc = "store" /\ proc'[p].token = proc[p].token
    BY <1>3, PostConsumesEffect
  <2> QED
    BY <2>1, <2>2, <2>3, <2>4, <2>5, <2>6 DEF TokensSpent, TokenEnrollsOnce
<1>4. ASSUME NEW p \in Procs, NEW id \in Ids, PutMachine(p, id)
      PROVE  TokensSpent'
  <2>1. /\ tokens' = tokens /\ proc[p].pc = "store"
        /\ issued'[id] = proc[p].token
        /\ \A i \in Ids \ {id} : issued'[i] = issued[i]
    BY <1>4 DEF PutMachine, TypeInv, TypeOK
  <2>2. \A q \in Procs \ {p} : proc'[q] = proc[q]
    BY <1>4, OnlyOneMoves DEF Step, Continue
  <2>3. proc'[p].pc # "store"
    BY <1>4, PutMachineEffect, NoCommandType
  <2> QED
    BY <2>1, <2>2, <2>3 DEF TokensSpent, TokenEnrollsOnce
<1>5. ASSUME NEW p \in Procs, Step(p)
      PROVE  TokensSpent'
  <2>1. \A q \in Procs \ {p} : proc'[q] = proc[q]
    BY <1>5, OnlyOneMoves
  <2>2. CASE /\ tokens' = tokens /\ issued' = issued
             /\ \/ proc'[p].pc # "store"
                \/ proc[p].pc = "store" /\ proc'[p].token = proc[p].token
    BY <2>1, <2>2, TokensSpentQuiet
  <2>3. CASE \E h \in Hosts, t \in Tokens, force \in BOOLEAN : StartEnroll(p, h, t, force)
    <3> PICK h \in Hosts, t \in Tokens, force \in BOOLEAN : StartEnroll(p, h, t, force)
      BY <2>3
    <3>1. proc'[p].pc = "lock"
      BY StartEnrollEffect
    <3> QED
      BY <2>2, <3>1 DEF StartEnroll, storeVars
  <2>4. CASE \E h \in Hosts : StartOnce(p, h)
    BY <2>2, <2>4, StartOnceEffect DEF StartOnce, storeVars
  <2>5. CASE EnrollLocks(p)
    BY <2>2, <2>5, EnrollLocksEffect DEF EnrollLocks, storeVars
  <2>6. CASE End(p) /\ UNCHANGED storeVars
    BY <2>2, <2>6, EndEffect DEF storeVars
  <2>7. CASE EnrollSaves(p) \/ Repin(p)
    BY <2>6, <2>7 DEF EnrollSaves, Repin, storeVars
  <2>8. CASE LoadMachine(p)
    BY <2>2, <2>8, LoadMachineEffect DEF LoadMachine, storeVars
  <2>9. CASE Admitted(p)
    BY <2>2, <2>9, AdmittedEffect DEF Admitted, storeVars
  <2>10. CASE getBundle(p)
    BY <2>2, <2>10, getBundleEffect, NoCommandType DEF getBundle
  <2>11. CASE Vanish(p)
    BY <2>2, <2>11, VanishEffect DEF Vanish, storeVars
  <2> QED
    BY <1>3, <1>4, <1>5, StepCases, <2>3, <2>4, <2>5, <2>6, <2>7, <2>8, <2>9, <2>10, <2>11
    DEF storeVars
<1>6. CASE UNCHANGED vars
  BY <1>6, TokensSpentQuiet DEF vars
<1> QED
  BY <1>2, <1>5, <1>6 DEF Next, Step

LEMMA RowsIssuedStep == ASSUME TypeInv, RowsIssued, [Next]_vars PROVE RowsIssued'
<1>1. CASE machines' = machines /\ issued' = issued /\ revoked' = revoked
  BY <1>1 DEF RowsIssued, RevokedStaysOut
<1>2. ASSUME NEW id \in Ids, deleteMachine(id)
      PROVE  RowsIssued'
  BY <1>2 DEF deleteMachine, RowsIssued, RevokedStaysOut, TypeInv, TypeOK
<1>3. CASE Operator
  BY <1>1, <1>2, <1>3 DEF Operator, StartSigning, RotateKey, RetireKey, StopSigning,
       postEnrollmentToken, Expire, storeVars
<1>4. ASSUME NEW p \in Procs, NEW id \in Ids, PutMachine(p, id)
      PROVE  RowsIssued'
  <2>1. /\ revoked' = revoked /\ issued[id] = None
        /\ \A i \in Ids \ {id} : machines'[i] = machines[i] /\ issued'[i] = issued[i]
        /\ issued'[id] = proc[p].token /\ revoked \subseteq Ids
    BY <1>4 DEF PutMachine, TypeInv, TypeOK
  <2>2. proc[p].token # None
    BY <1>4, EnrollmentAssumption DEF PutMachine, TypeInv, Shape
  <2> QED
    BY <2>1, <2>2 DEF RowsIssued, RevokedStaysOut
<1>5. ASSUME NEW p \in Procs, getBundle(p)
      PROVE  RowsIssued'
  <2>1. proc[p].mine \in Machine
    BY <1>5 DEF getBundle, TypeInv, Shape
  <2>2. /\ issued' = issued /\ revoked' = revoked
        /\ \A i \in Ids : machines[i] = None => machines'[i] = None
    BY <1>5, <2>1 DEF getBundle, Touched, TypeInv, TypeOK
  <2> QED
    BY <2>2 DEF RowsIssued, RevokedStaysOut, TypeInv, TypeOK
<1>6. ASSUME NEW p \in Procs, Step(p)
      PROVE  RowsIssued'
  BY <1>1, <1>4, <1>5, <1>6, StepCases
  DEF StartEnroll, StartOnce, EnrollLocks, PostConsumes, EnrollSaves, LoadMachine,
      Admitted, Repin, Vanish, storeVars
<1>7. CASE UNCHANGED vars
  BY <1>1, <1>7 DEF vars
<1> QED
  BY <1>3, <1>6, <1>7 DEF Next, Step

-----------------------------------------------------------------------------
(***************************************************************************)
(* The lock                                                                *)
(***************************************************************************)
\* The other commands keep what they hold when a command releases its lock
\* and leaves machine.json alone, or writes it under its lock.
LEMMA OthersHold ==
  ASSUME TypeInv, NEW p \in Procs, NEW q \in Procs, q # p, HeldBy(q), HeldBy(p),
         proc'[q] = proc[q],
         \A h \in Hosts : lock[h] # p => lock'[h] = lock[h],
         \A h \in Hosts : file'[h] = file[h] \/ (lock[h] = p /\ proc[p].host = h)
  PROVE  HeldBy(q)'
<1>1. CASE proc[q].host # None /\ proc[q].pc \notin {"idle", "lock"}
  <2>1. proc[q].host \in Hosts
    BY <1>1 DEF TypeInv, TypeOK, Command
  <2>2. lock[proc[q].host] = q
    BY <1>1 DEF HeldBy
  <2>3. lock'[proc[q].host] = q /\ file'[proc[q].host] = file[proc[q].host]
    BY <2>1, <2>2
  <2> QED
    BY <2>2, <2>3 DEF HeldBy
<1>2. CASE proc[q].host = None \/ proc[q].pc \in {"idle", "lock"}
  BY <1>2 DEF HeldBy, Fetching
<1> QED
  BY <1>1, <1>2

LEMMA HeldStep == ASSUME TypeInv, Held, [Next]_vars PROVE Held'
<1> SUFFICES ASSUME Provisioned
             PROVE  (\A h \in Hosts : dir'[h]) /\ (\A q \in Procs : HeldBy(q)')
  BY DEF Held, HeldBy
<1>0. (\A h \in Hosts : dir[h]) /\ (\A q \in Procs : HeldBy(q))
  BY DEF Held, HeldBy
<1>1. CASE UNCHANGED <<hostVars, proc>>
  BY <1>0, <1>1 DEF hostVars, HeldBy
<1>2. CASE Operator
  BY <1>1, <1>2 DEF Operator, StartSigning, RotateKey, RetireKey, StopSigning,
       postEnrollmentToken, Expire, deleteMachine
<1>3. ASSUME NEW p \in Procs, Step(p)
      PROVE  (\A h \in Hosts : dir'[h]) /\ (\A q \in Procs : HeldBy(q)')
  <2>0. \A q \in Procs \ {p} : proc'[q] = proc[q]
    BY <1>3, OnlyOneMoves
  <2>t. /\ proc[p] \in Command /\ dir \in [Hosts -> BOOLEAN]
        /\ lock \in [Hosts -> Procs \cup {None}] /\ file \in [Hosts -> Machine \cup {None}]
    BY DEF TypeInv, TypeOK
  <2>h. HeldBy(p) /\ p # None
    BY <1>0, EnrollmentAssumption
  \* What is left to show of a step that takes no lock.
  <2>1. ASSUME \A h \in Hosts : lock[h] # p => lock'[h] = lock[h],
               \A h \in Hosts : file'[h] = file[h] \/ (lock[h] = p /\ proc[p].host = h),
               dir' = dir, HeldBy(p)'
        PROVE  (\A h \in Hosts : dir'[h]) /\ (\A q \in Procs : HeldBy(q)')
    <3>1. ASSUME NEW q \in Procs, q # p PROVE HeldBy(q)'
      BY <3>1, <2>1, <2>0, <2>h, <1>0, OthersHold
    <3> QED
      BY <3>1, <2>1, <1>0
  <2>2. ASSUME NEW h \in Hosts, NEW t \in Tokens, NEW force \in BOOLEAN, StartEnroll(p, h, t, force)
        PROVE  (\A g \in Hosts : dir'[g]) /\ (\A q \in Procs : HeldBy(q)')
    <3>1. HeldBy(p)'
      BY <2>2, StartEnrollEffect DEF HeldBy, Fetching
    <3>2. lock' = lock /\ file' = file /\ \A g \in Hosts : dir'[g]
      BY <2>2, <2>t, <1>0 DEF StartEnroll
    <3>3. ASSUME NEW q \in Procs, q # p PROVE HeldBy(q)'
      BY <3>2, <3>3, <2>0, <1>0 DEF HeldBy
    <3> QED
      BY <3>1, <3>2, <3>3
  <2>3. ASSUME NEW h \in Hosts, StartOnce(p, h)
        PROVE  (\A g \in Hosts : dir'[g]) /\ (\A q \in Procs : HeldBy(q)')
    <3>1. lock[h] = None /\ lock'[h] = p /\ file' = file /\ dir' = dir
      BY <2>3, <2>t, <1>0 DEF StartOnce, Free
    <3>2. \A g \in Hosts \ {h} : lock'[g] = lock[g]
      BY <2>3, <2>t DEF StartOnce
    <3>3. HeldBy(p)'
      BY <2>3, <3>1, StartOnceEffect DEF HeldBy, Fetching
    <3>4. ASSUME NEW q \in Procs, q # p PROVE HeldBy(q)'
      <4>1. q # None /\ HeldBy(q) /\ proc'[q] = proc[q] /\ proc[q] \in Command
        BY <3>4, <2>0, <1>0, EnrollmentAssumption DEF TypeInv, TypeOK
      <4> QED
        BY <4>1, <3>1, <3>2 DEF HeldBy, Command, Fetching
    <3> QED
      BY <3>1, <3>3, <3>4, <1>0
  <2>4. CASE EnrollLocks(p)
    <3>1. /\ proc[p].host \in Hosts /\ dir' = dir /\ file' = file
          /\ lock[proc[p].host] = None /\ lock'[proc[p].host] = p
          /\ file[proc[p].host] = None \/ proc[p].force
          /\ \A g \in Hosts \ {proc[p].host} : lock'[g] = lock[g]
      BY <2>4, <2>t DEF EnrollLocks, MayEnroll, Free, TypeInv, Shape
    <3>2. HeldBy(p)'
      BY <2>4, <3>1, EnrollLocksEffect DEF HeldBy, Fetching
    <3>3. ASSUME NEW q \in Procs, q # p PROVE HeldBy(q)'
      <4>1. q # None /\ HeldBy(q) /\ proc'[q] = proc[q] /\ proc[q] \in Command
        BY <3>3, <2>0, <1>0, EnrollmentAssumption DEF TypeInv, TypeOK
      <4> QED
        BY <4>1, <3>1 DEF HeldBy, Command, Fetching
    <3> QED
      BY <3>1, <3>2, <3>3, <1>0
  <2>5. CASE PostConsumes(p)
    <3>1. HeldBy(p)'
      BY <2>5, <2>h, PostConsumesEffect DEF PostConsumes, hostVars, HeldBy, Fetching
    <3> QED
      BY <2>1, <2>5, <3>1 DEF PostConsumes, hostVars
  <2>6. ASSUME NEW id \in Ids, PutMachine(p, id)
        PROVE  (\A h \in Hosts : dir'[h]) /\ (\A q \in Procs : HeldBy(q)')
    <3>1. HeldBy(p)'
      <4>1. CASE proc'[p] = NoCommand
        BY <4>1 DEF HeldBy, NoCommand
      <4>2. CASE proc'[p] # NoCommand
        BY <4>2, <2>6, <2>h, PutMachineEffect DEF PutMachine, hostVars, HeldBy, Fetching
      <4> QED
        BY <4>1, <4>2
    <3> QED
      BY <2>1, <2>6, <3>1 DEF PutMachine, hostVars
  <2>7. CASE /\ End(p) /\ dir' = dir
             /\ \A h \in Hosts : file'[h] = file[h] \/ (lock[h] = p /\ proc[p].host = h)
    <3>1. HeldBy(p)'
      BY <2>7, EndEffect DEF HeldBy
    <3>2. \A h \in Hosts : lock[h] # p => lock'[h] = lock[h]
      BY <2>7, EndEffect
    <3> QED
      BY <2>1, <2>7, <3>1, <3>2
  <2>8. CASE EnrollSaves(p) \/ Repin(p)
    <3>1. proc[p].host \in Hosts /\ proc[p].pc \in {"save", "apply"}
      BY <2>8 DEF EnrollSaves, Repin, TypeInv, Shape
    <3>2. proc[p].host # None
      BY <3>1, EnrollmentAssumption
    <3>3. lock[proc[p].host] = p
      BY <3>1, <3>2, <2>h DEF HeldBy
    <3>4. \A h \in Hosts : file'[h] = file[h] \/ proc[p].host = h
      BY <2>8, <3>1, <2>t DEF EnrollSaves, Repin
    <3> QED
      BY <2>7, <2>8, <3>3, <3>4 DEF EnrollSaves, Repin
  <2>9. CASE LoadMachine(p)
    <3>1. HeldBy(p)'
      BY <2>9, <2>h, LoadMachineEffect DEF LoadMachine, hostVars, HeldBy, Fetching
    <3> QED
      BY <2>1, <2>9, <3>1 DEF LoadMachine, hostVars
  <2>10. CASE Admitted(p)
    <3>1. HeldBy(p)'
      BY <2>10, <2>h, AdmittedEffect DEF Admitted, hostVars, HeldBy, Fetching
    <3> QED
      BY <2>1, <2>10, <3>1 DEF Admitted, hostVars
  <2>11. CASE getBundle(p)
    <3>1. HeldBy(p)'
      <4>1. CASE proc'[p] = NoCommand
        BY <4>1 DEF HeldBy, NoCommand
      <4>2. CASE proc'[p] # NoCommand
        BY <4>2, <2>11, <2>h, getBundleEffect DEF getBundle, hostVars, HeldBy, Fetching
      <4> QED
        BY <4>1, <4>2
    <3> QED
      BY <2>1, <2>11, <3>1 DEF getBundle, hostVars
  <2>12. CASE Vanish(p)
    <3>1. HeldBy(p)'
      BY <2>12, VanishEffect DEF HeldBy
    <3>2. \A h \in Hosts : lock[h] # p => lock'[h] = lock[h]
      BY <2>12 DEF Vanish, Released
    <3> QED
      BY <2>1, <2>12, <3>1, <3>2 DEF Vanish
  <2> QED
    BY <1>3, StepCases, <2>2, <2>3, <2>4, <2>5, <2>6, <2>7, <2>8, <2>9, <2>10, <2>11, <2>12
<1>4. CASE UNCHANGED vars
  BY <1>1, <1>4 DEF vars, hostVars
<1> QED
  BY <1>2, <1>3, <1>4 DEF Next, Step

-----------------------------------------------------------------------------
(***************************************************************************)
(* The keys and the enrollments that trust them                            *)
(***************************************************************************)

\* The steps that leave the signer alone leave the lineage alone.
LEMMA StepKeepsKeys == ASSUME NEW p \in Procs, Step(p) PROVE UNCHANGED planeVars
BY StepCases DEF StartEnroll, StartOnce, EnrollLocks, PostConsumes, PutMachine, EnrollSaves,
     LoadMachine, Admitted, getBundle, Repin, Vanish, planeVars

LEMMA HeirsGrow == ASSUME TypeInv, [Next]_vars PROVE heirs \subseteq heirs'
<1>1. CASE Operator
  BY <1>1 DEF Operator, StartSigning, RotateKey, RetireKey, StopSigning, postEnrollmentToken,
       Expire, deleteMachine, planeVars
<1>2. CASE \E p \in Procs : Step(p)
  BY <1>2, StepKeepsKeys DEF planeVars
<1> QED
  BY <1>1, <1>2 DEF Next, Step, vars

\* A step of a command and the tokens: their keys never change.
LEMMA StepKeepsTokenKeys ==
  ASSUME TypeInv, NEW p \in Procs, Step(p)
  PROVE  \A t \in Tokens : tokens'[t].key = tokens[t].key
<1>1. CASE PostConsumes(p)
  <2>1. tokens \in [Tokens -> Token] /\ \A t \in Tokens : tokens[t] \in Token
    BY DEF TypeInv, TypeOK
  <2> QED
    BY <1>1, <2>1 DEF PostConsumes, Consume, Token
<1>2. CASE tokens' = tokens
  BY <1>2
<1> QED
  BY <1>1, <1>2, StepCases
  DEF StartEnroll, StartOnce, EnrollLocks, PutMachine, EnrollSaves,
      LoadMachine, Admitted, getBundle, Repin, Vanish, storeVars

LEMMA LineageStep == ASSUME TypeInv, Lineage, [Next]_vars PROVE Lineage'
<1>t. /\ heirs \subseteq Keys \X Keys
      /\ signer.current \in KeyOrNone /\ signer.previous \in KeyOrNone
      /\ NoKey \notin Keys
  BY EnrollmentAssumption DEF TypeInv, TypeOK, NoKey
<1>1. CASE /\ heirs' = heirs /\ proc' = proc
           /\ \A t \in Tokens : tokens'[t].key = tokens[t].key
           /\ \/ signer' = signer
              \/ signer'.previous = NoKey /\ signer'.current \in {NoKey, signer.current}
  BY <1>1 DEF Lineage
<1>2. ASSUME NEW k \in Keys, StartSigning(k)
      PROVE  Lineage'
  <2>1. \A a, b \in Keys : <<a, b>> \in heirs' <=> <<a, b>> \in heirs \/ (a = k /\ b = k)
    BY <1>2, <1>t DEF StartSigning
  <2>2. signer'.current = k /\ signer'.previous = NoKey /\ tokens' = tokens /\ proc' = proc
          /\ heirs \subseteq heirs'
    BY <1>2 DEF StartSigning, storeVars
  <2> QED
    BY <2>1, <2>2 DEF Lineage
<1>3. ASSUME NEW k \in Keys, RotateKey(k)
      PROVE  Lineage'
  <2> DEFINE cur == signer.current
  <2>1. cur \in Keys /\ <<k, k>> \notin heirs
    BY <1>3, <1>t DEF RotateKey, KeyOrNone
  <2>2. \A a, b \in Keys : <<a, b>> \in heirs' <=>
           \/ <<a, b>> \in heirs
           \/ b = k /\ (a = k \/ <<a, cur>> \in heirs)
    BY <1>3, <1>t DEF RotateKey, Before
  <2>3. /\ signer'.current = k /\ signer'.previous = cur /\ tokens' = tokens /\ proc' = proc
        /\ heirs \subseteq heirs'
    BY <1>3 DEF RotateKey, storeVars
  <2>4. \A a \in Keys : <<a, k>> \notin heirs /\ <<k, a>> \notin heirs
    BY <2>1 DEF Lineage
  <2>5. <<cur, cur>> \in heirs
    BY <2>1, <1>t DEF Lineage
  <2> HIDE DEF cur
  <2>6. \A a, b \in Keys : <<a, b>> \in heirs' => <<a, a>> \in heirs' /\ <<b, b>> \in heirs'
    BY <2>1, <2>2 DEF Lineage
  <2>7. \A a, b, c \in Keys : <<a, b>> \in heirs' /\ <<b, c>> \in heirs' => <<a, c>> \in heirs'
    BY <2>1, <2>2, <2>4 DEF Lineage
  <2>8. <<k, k>> \in heirs' /\ <<cur, k>> \in heirs'
    BY <2>1, <2>2, <2>5
  <2>9. \A b \in Keys : <<k, b>> \in heirs' => b = k
    BY <2>2, <2>4
  <2> QED
    BY <2>3, <2>6, <2>7, <2>8, <2>9 DEF Lineage
<1>4. ASSUME NEW t \in Tokens, postEnrollmentToken(t)
      PROVE  Lineage'
  <2>1. /\ signer' = signer /\ heirs' = heirs /\ proc' = proc
        /\ tokens'[t].key = signer.current
        /\ \A u \in Tokens \ {t} : tokens'[u] = tokens[u]
    BY <1>4 DEF postEnrollmentToken, planeVars, TypeInv, TypeOK
  <2> QED
    BY <2>1 DEF Lineage
<1>5. CASE Operator
  <2>1. CASE RetireKey \/ StopSigning
    <3>1. signer \in [current: KeyOrNone, previous: KeyOrNone]
      BY DEF TypeInv, TypeOK
    <3> QED
      BY <1>1, <2>1, <3>1 DEF RetireKey, StopSigning, storeVars
  <2>2. ASSUME NEW t \in Tokens, Expire(t)
        PROVE  Lineage'
    <3>1. tokens \in [Tokens -> Token] /\ \A u \in Tokens : tokens[u] \in Token
      BY DEF TypeInv, TypeOK
    <3>2. \A u \in Tokens : tokens'[u].key = tokens[u].key
      BY <2>2, <3>1 DEF Expire, Token
    <3> QED
      BY <1>1, <2>2, <3>2 DEF Expire, planeVars
  <2>3. ASSUME NEW id \in Ids, deleteMachine(id)
        PROVE  Lineage'
    BY <1>1, <2>3 DEF deleteMachine, planeVars
  <2> QED
    BY <1>2, <1>3, <1>4, <1>5, <2>1, <2>2, <2>3 DEF Operator
<1>6. ASSUME NEW p \in Procs, Step(p)
      PROVE  Lineage'
  <2>1. signer' = signer /\ heirs' = heirs
    BY <1>6, StepKeepsKeys DEF planeVars
  <2>2. \A t \in Tokens : tokens'[t].key = tokens[t].key
    BY <1>6, StepKeepsTokenKeys
  <2>3. \A q \in Procs \ {p} : proc'[q] = proc[q]
    BY <1>6, OnlyOneMoves
  <2>4. proc'[p].pc = "apply" /\ proc'[p].offer.by # NoKey
          => <<proc'[p].offer.by, proc'[p].offer.key>> \in heirs
    <3>1. ASSUME NEW h \in Hosts, NEW t \in Tokens, NEW force \in BOOLEAN, StartEnroll(p, h, t, force)
          PROVE  proc'[p].pc # "apply"
      BY <3>1, StartEnrollEffect
    <3>2. ASSUME NEW h \in Hosts, StartOnce(p, h) PROVE proc'[p].pc # "apply"
      BY <3>2, StartOnceEffect
    <3>3. ASSUME NEW id \in Ids, PutMachine(p, id) PROVE proc'[p].pc # "apply"
      BY <3>3, PutMachineEffect, NoCommandType
    <3>4. CASE getBundle(p)
      <4>1. CASE proc'[p] = NoCommand
        BY <4>1, NoCommandType
      <4>2. CASE proc'[p].offer = [key |-> signer.current, by |-> signer.previous]
        BY <4>2 DEF Lineage
      <4> QED
        BY <3>4, <4>1, <4>2, getBundleEffect
    <3>5. EnrollLocks(p) \/ PostConsumes(p) \/ LoadMachine(p) \/ Admitted(p) \/ Vanish(p)
            => proc'[p].pc # "apply"
      BY EnrollLocksEffect, PostConsumesEffect, LoadMachineEffect, AdmittedEffect, VanishEffect
      DEF AtAwd
    <3>6. End(p) => proc'[p].pc # "apply"
      BY EndEffect
    <3>7. EnrollSaves(p) \/ Repin(p) => End(p)
      BY DEF EnrollSaves, Repin
    <3> QED
      BY <1>6, StepCases, <3>1, <3>2, <3>3, <3>4, <3>5, <3>6, <3>7
  <2> QED
    BY <2>1, <2>2, <2>3, <2>4 DEF Lineage
<1>7. CASE UNCHANGED vars
  BY <1>1, <1>7 DEF vars
<1> QED
  BY <1>5, <1>6, <1>7 DEF Next, Step

LEMMA IssuedStays ==
  ASSUME TypeInv, TokensSpent, [Next]_vars
  PROVE  \A id \in Ids : issued[id] # None =>
           issued'[id] = issued[id] /\ tokens'[issued[id]].key = tokens[issued[id]].key
<1>t. /\ \A id \in Ids : issued[id] # None => issued[id] \in Tokens
      /\ tokens \in [Tokens -> Token] /\ \A u \in Tokens : tokens[u] \in Token
  BY DEF TypeInv, TypeOK
<1>1. CASE issued' = issued /\ tokens' = tokens
  BY <1>1
<1>2. ASSUME NEW t \in Tokens, postEnrollmentToken(t) \/ Expire(t)
      PROVE  \A id \in Ids : issued[id] # None =>
               issued'[id] = issued[id] /\ tokens'[issued[id]].key = tokens[issued[id]].key
  <2>1. \A id \in Ids : issued[id] # None => issued[id] # t
    BY <1>2, <1>t DEF TokensSpent, postEnrollmentToken, Expire
  <2>2. issued' = issued /\ \A u \in Tokens \ {t} : tokens'[u] = tokens[u]
    BY <1>2, <1>t DEF postEnrollmentToken, Expire
  <2> QED
    BY <2>1, <2>2, <1>t
<1>3. CASE Operator
  BY <1>1, <1>2, <1>3 DEF Operator, StartSigning, RotateKey, RetireKey, StopSigning,
       deleteMachine, storeVars
<1>4. ASSUME NEW p \in Procs, Step(p)
      PROVE  \A id \in Ids : issued[id] # None =>
               issued'[id] = issued[id] /\ tokens'[issued[id]].key = tokens[issued[id]].key
  <2>1. \A t \in Tokens : tokens'[t].key = tokens[t].key
    BY <1>4, StepKeepsTokenKeys
  <2>2. \A id \in Ids : issued[id] # None => issued'[id] = issued[id]
    <3>1. ASSUME NEW i \in Ids, PutMachine(p, i)
          PROVE  \A id \in Ids : issued[id] # None => issued'[id] = issued[id]
      BY <3>1 DEF PutMachine, TypeInv, TypeOK
    <3>2. issued' = issued \/ \E i \in Ids : PutMachine(p, i)
      BY <1>4, StepCases DEF StartEnroll, StartOnce, EnrollLocks, PostConsumes, EnrollSaves,
           LoadMachine, Admitted, getBundle, Repin, Vanish, storeVars
    <3> QED
      BY <3>1, <3>2
  <2> QED
    BY <2>1, <2>2, <1>t
<1>5. CASE UNCHANGED vars
  BY <1>1, <1>5 DEF vars
<1> QED
  BY <1>3, <1>4, <1>5 DEF Next, Step

\* Where the enrollment in a command's hands comes from.
LEMMA Origin ==
  ASSUME TypeInv, NEW p \in Procs, Step(p)
  PROVE  /\ proc'[p].pc \in Fetching =>
              \/ /\ proc[p].host \in Hosts /\ file[proc[p].host] # None
                 /\ proc'[p].mine = file[proc[p].host]
              \/ proc[p].pc \in Fetching /\ proc'[p].mine = proc[p].mine
         /\ proc'[p].pc = "save" =>
              \E id \in Ids : /\ PutMachine(p, id)
                              /\ proc'[p].mine = [id |-> id, pin |-> signer.current]
                              /\ proc'[p].token = proc[p].token
<1> DEFINE Other == proc'[p].pc \notin Fetching \cup {"save"}
<1>1. ASSUME NEW h \in Hosts, NEW t \in Tokens, NEW force \in BOOLEAN, StartEnroll(p, h, t, force)
      PROVE  Other
  BY <1>1, StartEnrollEffect DEF Fetching
<1>2. ASSUME NEW h \in Hosts, StartOnce(p, h) PROVE Other
  BY <1>2, StartOnceEffect DEF Fetching
<1>3. EnrollLocks(p) \/ PostConsumes(p) => Other
  BY EnrollLocksEffect, PostConsumesEffect DEF Fetching
<1>4. End(p) => Other
  BY EndEffect DEF Fetching
<1>5. EnrollSaves(p) \/ Repin(p) => End(p)
  BY DEF EnrollSaves, Repin
<1>6. ASSUME NEW id \in Ids, PutMachine(p, id)
      PROVE  \/ Other
             \/ /\ proc'[p].pc = "save"
                /\ proc'[p].mine = [id |-> id, pin |-> signer.current]
                /\ proc'[p].token = proc[p].token
  BY <1>6, PutMachineEffect, NoCommandType DEF Fetching
<1>7. CASE LoadMachine(p)
  BY <1>7, LoadMachineEffect DEF LoadMachine, TypeInv, Shape, Fetching
<1>8. CASE Admitted(p)
  BY <1>8, AdmittedEffect DEF Admitted, Fetching
<1>9. CASE getBundle(p)
  <2>1. CASE proc'[p] = NoCommand
    BY <2>1, NoCommandType DEF Fetching
  <2> QED
    BY <2>1, <1>9, getBundleEffect DEF getBundle, Fetching
<1>10. CASE Vanish(p)
  BY <1>10, VanishEffect DEF AtAwd, Fetching
<1>11. CASE Other
  BY <1>11
<1> HIDE DEF Other
<1>12. CASE \E id \in Ids : PutMachine(p, id)
  <2> PICK id \in Ids : PutMachine(p, id)
    BY <1>12
  <2>1. CASE ~Other
    <3>1. /\ proc'[p].pc = "save"
          /\ proc'[p].mine = [id |-> id, pin |-> signer.current]
          /\ proc'[p].token = proc[p].token
      BY <2>1, <1>6
    <3> QED
      BY <3>1 DEF Fetching
  <2> QED
    BY <2>1, <1>11
<1> QED
  BY StepCases, <1>1, <1>2, <1>3, <1>4, <1>5, <1>7, <1>8, <1>9, <1>10, <1>11, <1>12

LEMMA FileWrites ==
  ASSUME NEW p \in Procs, Step(p)
  PROVE  file' = file \/ EnrollSaves(p) \/ Repin(p)
BY StepCases DEF StartEnroll, StartOnce, EnrollLocks, PostConsumes, PutMachine,
     LoadMachine, Admitted, getBundle, Vanish, hostVars

LEMMA TrustedStep ==
  ASSUME TypeInv, TokensSpent, Lineage, Trusted, [Next]_vars
  PROVE  Trusted'
<1>t. /\ file \in [Hosts -> Machine \cup {None}]
      /\ \A m \in Machine : m.id \in Ids /\ m.pin \in KeyOrNone
      /\ NoKey \notin Keys /\ KeyOrNone = Keys \cup {NoKey}
  BY EnrollmentAssumption DEF TypeInv, TypeOK, Machine, KeyOrNone, NoKey
<1>g. heirs \subseteq heirs'
  BY HeirsGrow
<1>i. \A id \in Ids : issued[id] # None =>
        issued'[id] = issued[id] /\ tokens'[issued[id]].key = tokens[issued[id]].key
  BY IssuedStays
<1>c. ASSUME NEW m \in Machine, Chained(m)
      PROVE  Chained(m)'
  BY <1>c, <1>t, <1>g, <1>i DEF Chained
<1>s. \A q \in Procs : proc[q].pc \in Fetching \cup {"save"} => proc[q].mine \in Machine
  BY DEF TypeInv, Shape, Fetching
<1>k. \A q \in Procs : proc[q].pc = "save" => proc[q].token \in Tokens /\ proc[q].token # None
  BY EnrollmentAssumption DEF TypeInv, Shape
\* Nothing moves but what the cases below say.
<1>1. ASSUME NEW q \in Procs, proc'[q] = proc[q], proc[q].pc \in Fetching
      PROVE  Chained(proc[q].mine)'
  <2>1. Chained(proc[q].mine) /\ proc[q].mine \in Machine
    BY <1>1, <1>s DEF Trusted
  <2> QED
    BY <1>1, <1>c, <2>1, <1>t, <1>g, <1>i DEF Chained
<1>2. ASSUME NEW q \in Procs, proc'[q] = proc[q], proc[q].pc = "save"
      PROVE  /\ issued'[proc'[q].mine.id] = proc'[q].token
             /\ proc'[q].mine.pin # NoKey => <<proc'[q].mine.pin, proc'[q].mine.pin>> \in heirs'
  BY <1>2, <1>s, <1>t, <1>g, <1>i, <1>k, SMTT(30) DEF Trusted
<1>3. ASSUME NEW h \in Hosts, file[h] # None, file'[h] = file[h]
      PROVE  Chained(file[h])'
  <2>1. Chained(file[h]) /\ file[h] \in Machine
    BY <1>3, <1>t DEF Trusted
  <2> QED
    BY <1>3, <2>1, <1>t, <1>g, <1>i DEF Chained
<1>4. CASE file' = file /\ proc' = proc
  BY <1>1, <1>2, <1>3, <1>4 DEF Trusted
<1>5. CASE Operator
  BY <1>4, <1>5 DEF Operator, StartSigning, RotateKey, RetireKey, StopSigning,
       postEnrollmentToken, Expire, deleteMachine, hostVars
<1>6. ASSUME NEW p \in Procs, Step(p)
      PROVE  Trusted'
  <2>0. \A q \in Procs \ {p} : proc'[q] = proc[q]
    BY <1>6, OnlyOneMoves
  <2>1. ASSUME proc'[p].pc \in Fetching
        PROVE  Chained(proc[p].mine)'
    <3>1. proc'[p].mine \in Machine /\ Chained(proc'[p].mine)
      BY <2>1, <1>6, <1>s, <1>t, Origin DEF Trusted
    <3> QED
      BY <3>1, <1>t, <1>g, <1>i DEF Chained
  <2>2. ASSUME proc'[p].pc = "save"
        PROVE  /\ issued'[proc'[p].mine.id] = proc'[p].token
               /\ proc'[p].mine.pin # NoKey => <<proc'[p].mine.pin, proc'[p].mine.pin>> \in heirs'
    <3> PICK id \in Ids : /\ PutMachine(p, id)
                          /\ proc'[p].mine = [id |-> id, pin |-> signer.current]
                          /\ proc'[p].token = proc[p].token
      BY <2>2, <1>6, Origin
    <3>1. issued'[id] = proc[p].token
      BY DEF PutMachine, TypeInv, TypeOK
    <3>2. signer.current # NoKey => <<signer.current, signer.current>> \in heirs'
      BY <1>g DEF Lineage
    <3> QED
      BY <3>1, <3>2
  <2>3. ASSUME NEW h \in Hosts, file'[h] # None
        PROVE  Chained(file[h])'
    <3>1. CASE file'[h] = file[h]
      BY <2>3, <3>1, <1>3
    <3>2. CASE EnrollSaves(p) /\ file'[h] # file[h]
      <4>1. file'[h] = proc[p].mine /\ proc[p].mine \in Machine /\ proc[p].pc = "save"
        BY <3>2, <1>t, <1>s DEF EnrollSaves
      <4>2. issued[proc[p].mine.id] = proc[p].token /\ proc[p].token \in Tokens
              /\ proc[p].token # None
        BY <4>1, <1>k DEF Trusted
      <4>3. \/ tokens[proc[p].token].key = NoKey
            \/ proc[p].mine.pin = tokens[proc[p].token].key
        BY <3>2 DEF EnrollSaves, Accepts
      <4>4. Chained(proc[p].mine)
        BY <4>1, <4>2, <4>3 DEF Chained, Trusted, Lineage
      <4> QED
        BY <4>1, <4>4, <1>t, <1>g, <1>i DEF Chained
    <3>3. CASE Repin(p) /\ file'[h] # file[h]
      <4>1. /\ proc[p].pc = "apply" /\ proc[p].mine \in Machine /\ proc[p].offer \in Offer
            /\ proc[p].mine.pin # NoKey /\ proc[p].offer.by = proc[p].mine.pin
        BY <3>3, <1>s DEF Repin, Fetching, TypeInv, Shape
      <4>2. file'[h] = [proc[p].mine EXCEPT !.pin = proc[p].offer.key]
        BY <3>3, <1>t DEF Repin
      <4>3. file'[h].id = proc[p].mine.id /\ file'[h].pin = proc[p].offer.key
        BY <4>1, <4>2 DEF Machine
      <4>4. Chained(proc[p].mine)
        BY <4>1 DEF Trusted, Fetching
      <4>5. <<proc[p].mine.pin, proc[p].offer.key>> \in heirs
        BY <4>1 DEF Lineage
      <4>6. proc[p].mine.pin \in Keys /\ proc[p].offer.key \in Keys
        BY <4>5 DEF TypeInv, TypeOK
      <4>7. <<proc[p].offer.key, proc[p].offer.key>> \in heirs
        <5>1. \A a, b \in Keys : <<a, b>> \in heirs => <<b, b>> \in heirs
          BY DEF Lineage
        <5> QED
          BY <4>5, <4>6, <5>1
      <4>8. ASSUME NEW a \in KeyOrNone, <<a, proc[p].mine.pin>> \in heirs
            PROVE  <<a, proc[p].offer.key>> \in heirs
        <5>1. a \in Keys
          BY <4>8 DEF TypeInv, TypeOK
        <5> QED
          BY <4>8, <5>1, <4>5, <4>6 DEF Lineage
      <4>9. issued[proc[p].mine.id] # None /\ issued[proc[p].mine.id] \in Tokens
        BY <4>1, <4>4, <1>t DEF Chained, TypeInv, TypeOK
      <4>10. tokens[issued[proc[p].mine.id]].key \in KeyOrNone
        BY <4>9 DEF TypeInv, TypeOK, Token
      <4>11. tokens[issued[proc[p].mine.id]].key # NoKey
               => <<tokens[issued[proc[p].mine.id]].key, proc[p].offer.key>> \in heirs
        BY <4>4, <4>8, <4>10 DEF Chained
      <4> QED
        BY <4>1, <4>3, <4>7, <4>9, <4>11, <1>t, <1>g, <1>i DEF Chained
    <3> QED
      BY <1>6, FileWrites, <3>1, <3>2, <3>3
  <2>4. \A q \in Procs : proc'[q].pc \in Fetching => Chained(proc[q].mine)'
    BY <2>0, <2>1, <1>1
  <2>5. \A q \in Procs : proc'[q].pc = "save" =>
          /\ issued'[proc'[q].mine.id] = proc'[q].token
          /\ proc'[q].mine.pin # NoKey => <<proc'[q].mine.pin, proc'[q].mine.pin>> \in heirs'
    BY <2>0, <2>2, <1>2
  <2> QED
    BY <2>3, <2>4, <2>5 DEF Trusted
<1>7. CASE UNCHANGED vars
  BY <1>4, <1>7 DEF vars
<1> QED
  BY <1>5, <1>6, <1>7 DEF Next, Step

LEMMA FreshStep ==
  ASSUME TypeInv, TokensSpent, Trusted, Fresh, [Next]_vars
  PROVE  Fresh'
<1>t. /\ file \in [Hosts -> Machine \cup {None}]
      /\ machines \in [Ids -> Row \cup {None}]
      /\ \A m \in Machine : m.id \in Ids
      /\ \A q \in Procs : proc[q].pc \in Fetching \cup {"save"} => proc[q].mine \in Machine
  BY DEF TypeInv, TypeOK, Machine, Shape, Fetching
\* Every id in a file or in hand has been issued.
<1>u. /\ \A h \in Hosts : file[h] # None => issued[file[h].id] # None
      /\ \A q \in Procs : proc[q].pc \in Fetching \cup {"save"} => issued[proc[q].mine.id] # None
  BY EnrollmentAssumption DEF Trusted, Chained, TypeInv, Shape
<1>1. CASE UNCHANGED <<file, machines, proc>>
  BY <1>1 DEF Fresh
<1>2. ASSUME NEW id \in Ids, deleteMachine(id)
      PROVE  Fresh'
  <2>1. file' = file /\ proc' = proc /\ \A i \in Ids : machines'[i] \in {machines[i], None}
    BY <1>2, <1>t DEF deleteMachine, hostVars
  <2> QED
    BY <2>1, <1>t DEF Fresh, Fetching
<1>3. CASE Operator
  BY <1>1, <1>2, <1>3 DEF Operator, StartSigning, RotateKey, RetireKey, StopSigning,
       postEnrollmentToken, Expire, storeVars, hostVars
<1>4. ASSUME NEW p \in Procs, Step(p)
      PROVE  Fresh'
  <2>0. \A q \in Procs \ {p} : proc'[q] = proc[q]
    BY <1>4, OnlyOneMoves
  <2>1. ASSUME NEW id \in Ids, PutMachine(p, id)
        PROVE  Fresh'
    <3>1. /\ issued[id] = None /\ file' = file
          /\ machines'[id] = [lastKey |-> NoKey]
          /\ \A i \in Ids \ {id} : machines'[i] = machines[i]
      BY <2>1, <1>t DEF PutMachine, hostVars
    <3>2. \A h \in Hosts : file[h] # None => file[h].id # id
      BY <3>1, <1>u
    <3>3. \A q \in Procs : proc[q].pc \in Fetching \cup {"save"} => proc[q].mine.id # id
      BY <3>1, <1>u
    <3>4. \/ proc'[p].pc \notin Fetching \cup {"save"}
          \/ proc'[p].pc = "save" /\ proc'[p].mine = [id |-> id, pin |-> signer.current]
      BY <2>1, PutMachineEffect, NoCommandType DEF Fetching
    <3>5. ASSUME NEW q \in Procs, proc'[q].pc \in Fetching \cup {"save"}
          PROVE  \/ q = p /\ proc'[q].pc = "save" /\ proc'[q].mine.id = id
                 \/ /\ q # p /\ proc'[q] = proc[q] /\ proc[q].pc \in Fetching \cup {"save"}
                    /\ proc[q].mine.id # id /\ proc[q].mine.id \in Ids
      <4>1. CASE q = p
        BY <3>4, <3>5, <4>1
      <4>2. CASE q # p
        <5>1. proc'[q] = proc[q]
          BY <2>0, <4>2
        <5> QED
          BY <3>3, <3>5, <4>2, <5>1, <1>t
      <4> QED
        BY <4>1, <4>2
    <3>6. machines'[id].lastKey = NoKey
      BY <3>1
    <3> QED
      BY <3>1, <3>2, <3>5, <3>6 DEF Fresh
  \* What a command fetches with was in a file or in hand before.
  <2>2. ASSUME ~\E id \in Ids : PutMachine(p, id),
               NEW r \in Procs, proc'[r].pc = "save"
        PROVE  /\ r # p /\ proc'[r] = proc[r]
               /\ \A h \in Hosts : file'[h] # None => file'[h].id # proc[r].mine.id
               /\ \A q \in Procs : q # r /\ proc'[q].pc \in Fetching \cup {"save"}
                                   => proc'[q].mine.id # proc[r].mine.id
               /\ machines'[proc[r].mine.id] # None
                    => machines'[proc[r].mine.id].lastKey = NoKey
    <3>1. proc'[p].pc # "save"
      BY <1>4, <2>2, Origin
    <3>2. r # p /\ proc'[r] = proc[r] /\ proc[r].pc = "save"
      BY <2>2, <3>1, <2>0
    <3>3. /\ \A h \in Hosts : file[h] # None => file[h].id # proc[r].mine.id
          /\ \A q \in Procs : q # r /\ proc[q].pc \in Fetching \cup {"save"}
                              => proc[q].mine.id # proc[r].mine.id
          /\ machines[proc[r].mine.id] # None => machines[proc[r].mine.id].lastKey = NoKey
          /\ proc[r].mine.id \in Ids
      BY <3>2, <1>t DEF Fresh
    <3>4. \A h \in Hosts : file'[h] # None => file'[h].id # proc[r].mine.id
      <4>1. CASE file' = file
        BY <4>1, <3>3
      <4>2. CASE EnrollSaves(p)
        <5>1. proc[p].mine.id # proc[r].mine.id
          BY <4>2, <3>2, <3>3 DEF EnrollSaves
        <5> QED
          BY <4>2, <5>1, <3>3, <1>t DEF EnrollSaves
      <4>3. CASE Repin(p)
        <5>1. proc[p].mine.id # proc[r].mine.id /\ proc[p].mine \in Machine
          BY <4>3, <3>2, <3>3, <1>t DEF Repin, Fetching
        <5>2. [proc[p].mine EXCEPT !.pin = proc[p].offer.key].id = proc[p].mine.id
          BY <5>1 DEF Machine
        <5> QED
          BY <4>3, <5>1, <5>2, <3>3, <1>t DEF Repin
      <4> QED
        BY <1>4, FileWrites, <4>1, <4>2, <4>3
    <3>5. ASSUME NEW q \in Procs, q # r, proc'[q].pc \in Fetching \cup {"save"}
          PROVE  proc'[q].mine.id # proc[r].mine.id
      <4>1. CASE q = p
        BY <4>1, <3>1, <3>2, <3>3, <3>5, <1>4, Origin
      <4>2. CASE q # p
        BY <4>2, <3>3, <3>5, <2>0
      <4> QED
        BY <4>1, <4>2
    <3>6. machines'[proc[r].mine.id] # None => machines'[proc[r].mine.id].lastKey = NoKey
      <4>1. CASE machines' = machines
        BY <4>1, <3>3
      <4>2. CASE getBundle(p)
        <5>1. proc[p].mine.id # proc[r].mine.id
          BY <4>2, <3>2, <3>3 DEF getBundle, Fetching
        <5>2. machines'[proc[r].mine.id] = machines[proc[r].mine.id]
          BY <4>2, <5>1, <3>3, <1>t DEF getBundle, Touched
        <5> QED
          BY <5>2, <3>3
      <4>3. machines' = machines \/ getBundle(p)
        BY <1>4, <2>2, StepCases DEF StartEnroll, StartOnce, EnrollLocks, PostConsumes,
             EnrollSaves, LoadMachine, Admitted, Repin, Vanish, storeVars
      <4> QED
        BY <4>1, <4>2, <4>3
    <3> QED
      BY <3>2, <3>4, <3>5, <3>6
  <2>3. CASE ~\E id \in Ids : PutMachine(p, id)
    BY <2>2, <2>3 DEF Fresh
  <2> QED
    BY <2>1, <2>3
<1>5. CASE UNCHANGED vars
  BY <1>1, <1>5 DEF vars
<1> QED
  BY <1>3, <1>4, <1>5 DEF Next, Step

LEMMA ReportedStep ==
  ASSUME TypeInv, TokensSpent, Held, Lineage, Trusted, Fresh, Reported, [Next]_vars
  PROVE  Reported'
<1> DEFINE Unique == \A g, h \in Hosts :
             file[g] # None /\ file[h] # None /\ file[g].id = file[h].id => g = h
           Listed(id, h) ==
             /\ machines[id] # None /\ machines[id].lastKey # NoKey
             /\ file[h] # None /\ file[h].id = id
             => <<machines[id].lastKey, file[h].pin>> \in heirs
           Sent(q, h) ==
             /\ proc[q].pc \in Fetching /\ proc[q].mine.pin # NoKey
             /\ file[h] # None /\ file[h].id = proc[q].mine.id
             => <<proc[q].mine.pin, file[h].pin>> \in heirs
<1> SUFFICES ASSUME Provisioned
             PROVE  /\ Unique'
                    /\ \A id \in Ids, h \in Hosts : Listed(id, h)'
                    /\ \A q \in Procs, h \in Hosts : Sent(q, h)'
  BY DEF Reported
<1>0. /\ Unique
      /\ \A id \in Ids, h \in Hosts : Listed(id, h)
      /\ \A q \in Procs, h \in Hosts : Sent(q, h)
  BY DEF Reported
<1>t. /\ file \in [Hosts -> Machine \cup {None}]
      /\ machines \in [Ids -> Row \cup {None}]
      /\ \A m \in Machine : m.id \in Ids
      /\ \A q \in Procs : proc[q].pc \in Fetching \cup {"save"} => proc[q].mine \in Machine
  BY DEF TypeInv, TypeOK, Machine, Shape, Fetching
<1>g. heirs \subseteq heirs'
  BY HeirsGrow
<1>1. CASE file' = file /\ proc' = proc /\ \A i \in Ids : machines'[i] \in {machines[i], None}
  BY <1>0, <1>1, <1>g
<1>2. CASE Operator
  <2>1. ASSUME NEW id \in Ids, deleteMachine(id)
        PROVE  \A i \in Ids : machines'[i] \in {machines[i], None}
    BY <2>1, <1>t DEF deleteMachine
  <2>2. file' = file /\ proc' = proc
    BY <1>2 DEF Operator, StartSigning, RotateKey, RetireKey, StopSigning,
         postEnrollmentToken, Expire, deleteMachine, hostVars
  <2>3. machines' = machines \/ \E id \in Ids : deleteMachine(id)
    BY <1>2 DEF Operator, StartSigning, RotateKey, RetireKey, StopSigning,
         postEnrollmentToken, Expire, storeVars
  <2>4. \A i \in Ids : machines'[i] \in {machines[i], None}
    BY <2>1, <2>3
  <2> QED
    BY <1>1, <2>2, <2>4
<1>3. ASSUME NEW p \in Procs, Step(p)
      PROVE  /\ Unique'
             /\ \A id \in Ids, h \in Hosts : Listed(id, h)'
             /\ \A q \in Procs, h \in Hosts : Sent(q, h)'
  <2>0. \A q \in Procs \ {p} : proc'[q] = proc[q]
    BY <1>3, OnlyOneMoves
  <2>1. CASE file' = file
    <3>1. Unique'
      BY <2>1, <1>0
    <3>2. ASSUME NEW id \in Ids, NEW h \in Hosts
          PROVE  Listed(id, h)'
      <4>1. CASE machines'[id] = machines[id]
        BY <4>1, <2>1, <1>0, <1>g
      <4>2. CASE \E i \in Ids : PutMachine(p, i)
        <5>1. machines'[id] = machines[id] \/ machines'[id] = [lastKey |-> NoKey]
          BY <4>2, <1>t DEF PutMachine
        <5>2. CASE machines'[id] = [lastKey |-> NoKey]
          <6>1. machines'[id].lastKey = NoKey
            BY <5>2
          <6> QED
            BY <6>1
        <5> QED
          BY <4>1, <5>1, <5>2
      <4>3. CASE getBundle(p) /\ machines'[id] # machines[id]
        <5>1. proc[p].pc \in Fetching /\ proc[p].mine \in Machine
          BY <4>3, <1>t DEF getBundle, Fetching
        <5>2. id = proc[p].mine.id /\ machines'[id].lastKey = proc[p].mine.pin
          BY <4>3, <5>1, <1>t DEF getBundle, Touched, PresentedKey
        <5> QED
          BY <5>1, <5>2, <2>1, <1>0, <1>g
      <4>4. machines' = machines \/ getBundle(p) \/ \E i \in Ids : PutMachine(p, i)
        BY <1>3, StepCases DEF StartEnroll, StartOnce, EnrollLocks, PostConsumes,
             EnrollSaves, LoadMachine, Admitted, Repin, Vanish, storeVars
      <4> QED
        BY <4>1, <4>2, <4>3, <4>4
    <3>3. ASSUME NEW q \in Procs, NEW h \in Hosts
          PROVE  Sent(q, h)'
      <4>1. CASE q # p
        BY <4>1, <2>0, <2>1, <1>0, <1>g
      <4>2. CASE q = p /\ proc[p].pc \in Fetching /\ proc'[p].mine = proc[p].mine
        BY <4>2, <2>1, <1>0, <1>g
      <4>3. CASE /\ q = p /\ proc[p].host \in Hosts /\ file[proc[p].host] # None
                 /\ proc'[p].mine = file[proc[p].host]
        <5>1. file[proc[p].host].pin # NoKey
                => <<file[proc[p].host].pin, file[proc[p].host].pin>> \in heirs
          BY <4>3 DEF Trusted, Chained
        <5>2. file[h] # None /\ file[h].id = file[proc[p].host].id => h = proc[p].host
          BY <4>3, <1>0
        <5> QED
          BY <4>3, <5>1, <5>2, <2>1, <1>g
      <4>4. CASE q = p /\ proc'[p].pc \notin Fetching
        BY <4>4
      <4> QED
        BY <1>3, Origin, <4>1, <4>2, <4>3, <4>4
    <3> QED
      BY <3>1, <3>2, <3>3
  <2>2. CASE EnrollSaves(p)
    <3>1. /\ proc[p].pc = "save" /\ proc[p].host \in Hosts /\ machines' = machines
          /\ file'[proc[p].host] = proc[p].mine /\ proc[p].mine.id \in Ids
          /\ \A h \in Hosts \ {proc[p].host} : file'[h] = file[h]
      BY <2>2, <1>t DEF EnrollSaves, storeVars, TypeInv, Shape
    <3>2. /\ \A h \in Hosts : file[h] # None => file[h].id # proc[p].mine.id
          /\ \A q \in Procs : q # p /\ proc[q].pc \in Fetching => proc[q].mine.id # proc[p].mine.id
          /\ machines[proc[p].mine.id] # None => machines[proc[p].mine.id].lastKey = NoKey
      BY <3>1 DEF Fresh
    <3>3. proc'[p].pc \notin Fetching
      BY <2>2, EndEffect DEF EnrollSaves, Fetching
    <3>4. Unique'
      BY <3>1, <3>2, <1>0
    <3>5. \A id \in Ids, h \in Hosts : Listed(id, h)'
      BY <3>1, <3>2, <1>0, <1>g
    <3>6. ASSUME NEW q \in Procs, NEW h \in Hosts
          PROVE  Sent(q, h)'
      <4>1. CASE q = p
        BY <4>1, <3>3
      <4>2. CASE q # p
        BY <4>2, <3>1, <3>2, <2>0, <1>0, <1>g
      <4> QED
        BY <4>1, <4>2
    <3> QED
      BY <3>4, <3>5, <3>6
  <2>3. CASE Repin(p)
    <3>1. /\ proc[p].pc = "apply" /\ proc[p].host \in Hosts /\ machines' = machines
          /\ proc[p].mine \in Machine /\ proc[p].mine.pin # NoKey
          /\ proc[p].offer.by = proc[p].mine.pin
          /\ file'[proc[p].host] = [proc[p].mine EXCEPT !.pin = proc[p].offer.key]
          /\ \A h \in Hosts \ {proc[p].host} : file'[h] = file[h]
      BY <2>3, <1>t DEF Repin, storeVars, Fetching, TypeInv, Shape
    <3>2. file[proc[p].host] = proc[p].mine
      BY <3>1, EnrollmentAssumption DEF Held, HeldBy, Fetching
    <3>3. /\ file'[proc[p].host].id = proc[p].mine.id
          /\ file'[proc[p].host].pin = proc[p].offer.key
          /\ file[proc[p].host] # None
      BY <3>1, <3>2, NoneIsNoRecord DEF Machine
    <3>4. <<proc[p].mine.pin, proc[p].offer.key>> \in heirs
      BY <3>1 DEF Lineage
    <3>5. \A a \in Keys : <<a, proc[p].mine.pin>> \in heirs => <<a, proc[p].offer.key>> \in heirs
      <4>1. proc[p].mine.pin \in Keys /\ proc[p].offer.key \in Keys
        BY <3>4 DEF TypeInv, TypeOK
      <4> QED
        BY <3>4, <4>1 DEF Lineage
    <3>6. \A a : <<a, proc[p].mine.pin>> \in heirs => a \in Keys
      BY DEF TypeInv, TypeOK
    <3>7. proc'[p].pc \notin Fetching
      BY <2>3, EndEffect DEF Repin, Fetching
    <3>8. Unique'
      <4>1. ASSUME NEW h \in Hosts, file'[h] # None
            PROVE  file[h] # None /\ file'[h].id = file[h].id
        BY <4>1, <3>1, <3>2, <3>3
      <4> QED
        BY <4>1, <1>0
    <3>9. ASSUME NEW id \in Ids, NEW h \in Hosts
          PROVE  Listed(id, h)'
      <4>1. CASE h # proc[p].host
        BY <4>1, <3>1, <1>0, <1>g
      <4>2. CASE h = proc[p].host
        BY <4>2, <3>1, <3>2, <3>3, <3>5, <3>6, <1>0, <1>g, ZenonT(30)
      <4> QED
        BY <4>1, <4>2
    <3>10. ASSUME NEW q \in Procs, NEW h \in Hosts
           PROVE  Sent(q, h)'
      <4>1. CASE q = p
        BY <4>1, <3>7
      <4>2. CASE q # p /\ h # proc[p].host
        BY <4>2, <3>1, <2>0, <1>0, <1>g
      <4>3. CASE q # p /\ h = proc[p].host
        <5> SUFFICES ASSUME proc[q].pc \in Fetching, proc[q].mine.pin # NoKey,
                            file'[h].id = proc[q].mine.id
                     PROVE  <<proc[q].mine.pin, proc[p].offer.key>> \in heirs'
          BY <4>3, <3>3, <2>0
        <5>1. file[h] # None /\ file[h].id = proc[q].mine.id /\ file[h].pin = proc[p].mine.pin
          BY <4>3, <3>2, <3>3
        <5>2. <<proc[q].mine.pin, proc[p].mine.pin>> \in heirs
          BY <5>1, <1>0
        <5> QED
          BY <5>2, <3>5, <3>6, <1>g
      <4> QED
        BY <4>1, <4>2, <4>3
    <3> QED
      BY <3>8, <3>9, <3>10
  <2> QED
    BY <1>3, FileWrites, <2>1, <2>2, <2>3
<1>4. CASE UNCHANGED vars
  BY <1>1, <1>4 DEF vars
<1> QED
  BY <1>2, <1>3, <1>4 DEF Next, Step

-----------------------------------------------------------------------------
(***************************************************************************)
(* The invariant and what follows from it                                  *)
(***************************************************************************)
LEMMA EnrollmentInit == Init => EnrollmentInv
<1> SUFFICES ASSUME Init PROVE EnrollmentInv
  OBVIOUS
<1>1. \A p \in Procs : proc[p].pc = "idle" /\ proc[p].host = None
  BY DEF Init, NoCommand
<1>2. TypeInv
  BY InitTypeInv
<1>3. TokensSpent /\ RowsIssued
  BY <1>1 DEF Init, TokensSpent, TokenEnrollsOnce, RowsIssued, RevokedStaysOut
<1>4. Held /\ Fresh /\ Trusted
  BY <1>1 DEF Init, Held, HeldBy, Fresh, Trusted, Fetching
<1>5. Lineage
  BY <1>1 DEF Init, Lineage
<1>6. Reported
  BY <1>1 DEF Init, Reported
<1> QED
  BY <1>2, <1>3, <1>4, <1>5, <1>6 DEF EnrollmentInv

LEMMA EnrollmentNext == ASSUME EnrollmentInv, [Next]_vars PROVE EnrollmentInv'
BY NextTypeInv, TokensSpentStep, RowsIssuedStep, HeldStep, LineageStep, TrustedStep,
   FreshStep, ReportedStep DEF EnrollmentInv

LEMMA EnrollmentInvariant == Spec => []EnrollmentInv
BY EnrollmentInit, EnrollmentNext, PTL DEF Spec

\* However many hosts present a token at once, whichever of them crash and
\* whichever requests awd serves to the end without them, at most one machine
\* is ever stored for it (enroll.go, postEnroll).
THEOREM OneMachinePerToken == Spec => []TokenEnrollsOnce
<1>1. EnrollmentInv => TokenEnrollsOnce
  BY DEF EnrollmentInv, TokensSpent
<1> QED
  BY <1>1, EnrollmentInvariant, PTL

\* A machine that was revoked has no row again, whatever fetch was under way
\* (memory.go and postgres.go, TouchMachine and DeleteMachine).
THEOREM RevocationIsFinal == Spec => []RevokedStaysOut
<1>1. EnrollmentInv => RevokedStaysOut
  BY DEF EnrollmentInv, RowsIssued
<1> QED
  BY <1>1, EnrollmentInvariant, PTL

\* The pin of every enrolled machine descends from the key its token named
\* (client.go, Enroll and rolloverFrom).
THEOREM TrustChainsToToken == Spec => []PinDescendsFromToken
<1>1. EnrollmentInv => PinDescendsFromToken
  BY DEF EnrollmentInv, Trusted, Chained, PinDescendsFromToken
<1> QED
  BY <1>1, EnrollmentInvariant, PTL

\* Once every listed machine reports the new key the old one may be retired:
\* no enrolled machine pins it any more, although a listing is only what
\* machines said when they last fetched (client.go, X-AW-Key-Id).
THEOREM ListingCanBeTrusted == Spec => []RetirementIsSafe
<1>1. ASSUME EnrollmentInv
      PROVE  RetirementIsSafe
  <2> SUFFICES ASSUME Provisioned, signer.previous # NoKey,
                      \A id \in Ids : machines[id] # None => machines[id].lastKey = signer.current,
                      NEW h \in Hosts, file[h] # None, machines[file[h].id] # None
               PROVE  file[h].pin = signer.current
    BY DEF RetirementIsSafe
  <2>1. TypeInv /\ Lineage /\ Reported
    BY <1>1 DEF EnrollmentInv
  <2>2. file[h] \in Machine /\ file[h].id \in Ids
    BY <2>1 DEF TypeInv, TypeOK, Machine
  <2>3. machines[file[h].id].lastKey = signer.current
    BY <2>2
  <2>4. <<signer.previous, signer.current>> \in heirs
    BY <2>1 DEF Lineage
  <2>5. signer.current \in Keys /\ signer.current # NoKey
    BY <2>1, <2>4, EnrollmentAssumption DEF TypeInv, TypeOK, NoKey
  <2>6. <<signer.current, file[h].pin>> \in heirs
    BY <2>1, <2>2, <2>3, <2>5 DEF Reported
  <2>7. file[h].pin \in Keys
    BY <2>6, <2>1 DEF TypeInv, TypeOK
  <2> QED
    BY <2>1, <2>6, <2>7 DEF Lineage
<1> QED
  BY <1>1, EnrollmentInvariant, PTL

\* On a host whose state directory was there from the start only
\* `enroll --force' replaces an enrollment by another: the lock keeps a second
\* enroll and a cycle's repin from undoing one (main.go, enroll and once).
THEOREM LockProtectsEnrollment == Spec => EnrollmentKept
<1> DEFINE Kept ==
      \A h \in Hosts :
        Provisioned /\ file[h] # None /\ file'[h] # file[h] =>
          \/ file'[h] # None /\ file'[h].id = file[h].id
          \/ \E p \in Procs : proc[p].pc = "save" /\ proc[p].host = h /\ proc[p].force
<1>1. ASSUME EnrollmentInv, [Next]_vars
      PROVE  [Kept]_vars
  <2> SUFFICES ASSUME Provisioned, NEW h \in Hosts, file[h] # None, file'[h] # file[h]
               PROVE  \/ file'[h] # None /\ file'[h].id = file[h].id
                      \/ \E p \in Procs : proc[p].pc = "save" /\ proc[p].host = h /\ proc[p].force
    OBVIOUS
  <2>1. TypeInv /\ Held
    BY <1>1 DEF EnrollmentInv
  <2>2. \E p \in Procs : Step(p)
    BY <1>1 DEF Next, Step, Operator, StartSigning, RotateKey, RetireKey, StopSigning,
         postEnrollmentToken, Expire, deleteMachine, hostVars, vars
  <2> PICK p \in Procs : Step(p)
    BY <2>2
  <2>t. file \in [Hosts -> Machine \cup {None}]
    BY <2>1 DEF TypeInv, TypeOK
  <2>3. CASE EnrollSaves(p)
    <3>1. proc[p].pc = "save" /\ proc[p].host = h /\ h # None
      BY <2>3, <2>t, EnrollmentAssumption DEF EnrollSaves
    <3>2. proc[p].force
      BY <3>1, <2>1 DEF Held, HeldBy
    <3> QED
      BY <3>1, <3>2
  <2>4. CASE Repin(p)
    <3>1. /\ proc[p].pc = "apply" /\ proc[p].host = h /\ h # None
          /\ file'[h] = [proc[p].mine EXCEPT !.pin = proc[p].offer.key]
      BY <2>4, <2>t, EnrollmentAssumption DEF Repin
    <3>2. proc[p].mine = file[h]
      BY <3>1, <2>1 DEF Held, HeldBy, Fetching
    <3>3. proc[p].mine \in Machine /\ proc[p].offer \in Offer
      BY <3>1, <2>1 DEF TypeInv, Shape
    <3>4. file'[h] \in Machine /\ file'[h].id = file[h].id
      BY <3>1, <3>2, <3>3 DEF Machine, Offer
    <3> QED
      BY <3>4, NoneIsNoRecord
  <2> QED
    BY <2>3, <2>4, FileWrites
<1>2. Spec => [][Kept]_vars
  BY <1>1, EnrollmentInvariant, PTL DEF Spec
<1> QED
  BY <1>2 DEF EnrollmentKept

-----------------------------------------------------------------------------
(***************************************************************************)
(* Enrollment implements Membership                                        *)
(***************************************************************************)
\* The offers of all commands but one.
OffersOfOthers(p) == {OfferOf(q) : q \in {r \in Procs \ {p} : proc[r].pc = "save"}}

LEMMA OffersSplit ==
  ASSUME NEW p \in Procs
  PROVE  Offers = IF proc[p].pc = "save" THEN OffersOfOthers(p) \cup {OfferOf(p)}
                  ELSE OffersOfOthers(p)
BY DEF Offers, OffersOfOthers

\* A step of one command leaves the others' offers alone.
LEMMA OffersStep ==
  ASSUME TypeInv, NEW p \in Procs, Step(p)
  PROVE  Offers' = IF proc'[p].pc = "save" THEN OffersOfOthers(p) \cup {OfferOf(p)'}
                   ELSE OffersOfOthers(p)
<1>1. \A q \in Procs \ {p} : proc'[q] = proc[q]
  BY OnlyOneMoves
<1>2. OffersOfOthers(p)' = OffersOfOthers(p)
  BY <1>1 DEF OffersOfOthers, OfferOf
<1>3. Offers' = IF proc'[p].pc = "save" THEN OffersOfOthers(p)' \cup {OfferOf(p)'}
                ELSE OffersOfOthers(p)'
  BY DEF Offers, OffersOfOthers
<1> QED
  BY <1>2, <1>3

\* No two commands hold the same offer.
LEMMA OfferIsOwn ==
  ASSUME Fresh, NEW p \in Procs, proc[p].pc = "save"
  PROVE  Offers \ {OfferOf(p)} = OffersOfOthers(p)
<1>1. OfferOf(p) \notin OffersOfOthers(p)
  BY DEF OffersOfOthers, OfferOf, Fresh
<1> QED
  BY <1>1, OffersSplit

\* A command that neither had an offer nor gets one changes none.
LEMMA OffersQuiet ==
  ASSUME TypeInv, NEW p \in Procs, Step(p), proc[p].pc # "save", proc'[p].pc # "save"
  PROVE  Offers' = Offers
BY OffersSplit, OffersStep

LEMMA MembershipInitially == Init => Issue!MembershipInit
<1> SUFFICES ASSUME Init PROVE Issue!MembershipInit
  OBVIOUS
<1>1. Minted = {} /\ Members = {} /\ Named = [t \in Tokens |-> None]
  BY DEF Init, Minted, Members, Named, NoKey
<1>2. Offers = {}
  BY DEF Init, Offers, NoCommand
<1> QED
  BY <1>1, <1>2 DEF Init, Issue!MembershipInit

LEMMA MembershipOperator ==
  ASSUME EnrollmentInv, Operator
  PROVE  [Issue!MembershipNext]_(Issue!membershipVars)
<1> USE DEF Issue!membershipVars
<1>t. /\ TypeInv /\ Lineage /\ tokens \in [Tokens -> Token] /\ \A t \in Tokens : tokens[t] \in Token
      /\ signer.current \in KeyOrNone /\ machines \in [Ids -> Row \cup {None}]
  BY DEF EnrollmentInv, TypeInv, TypeOK
<1>1. ASSUME NEW k \in Keys, StartSigning(k)
      PROVE  Issue!Begin(k)
  BY <1>1 DEF StartSigning, storeVars, hostVars, Issue!Begin, Minted, Named, Members, Offers, OfferOf
<1>2. ASSUME NEW k \in Keys, RotateKey(k)
      PROVE  signer.current \in Keys /\ Issue!HandOver(signer.current, k)
  <2>1. signer.current \in Keys /\ <<signer.current, signer.current>> \in heirs
    BY <1>2, <1>t DEF RotateKey, Lineage, KeyOrNone
  <2>2. heirs' = heirs \cup {<<k, k>>} \cup {<<b, k>> : b \in {c \in Keys : <<c, signer.current>> \in heirs}}
    BY <1>2 DEF RotateKey, Before
  <2>3. UNCHANGED <<Minted, Named, issued, Members, Offers, file>>
    BY <1>2 DEF RotateKey, storeVars, hostVars, Minted, Named, Members, Offers, OfferOf
  <2> QED
    BY <1>2, <2>1, <2>2, <2>3 DEF RotateKey, Issue!HandOver
<1>3. CASE RetireKey \/ StopSigning
  BY <1>3 DEF RetireKey, StopSigning, storeVars, hostVars, Minted, Named, Members, Offers, OfferOf
<1>4. ASSUME NEW t \in Tokens, postEnrollmentToken(t)
      PROVE  signer.current \in Keys \cup {None} /\ Issue!Mint(t, signer.current)
  <2>1. tokens' = [tokens EXCEPT ![t] = [status |-> "fresh", key |-> signer.current]]
    BY <1>4 DEF postEnrollmentToken
  <2>2. t \notin Minted /\ Minted' = Minted \cup {t}
    BY <1>4, <1>t, <2>1 DEF Minted, postEnrollmentToken
  <2>3. Named' = [Named EXCEPT ![t] = signer.current]
    BY <1>t, <2>1 DEF Named
  <2>4. UNCHANGED <<heirs, issued, Members, Offers, file>>
    BY <1>4 DEF postEnrollmentToken, planeVars, hostVars, Members, Offers, OfferOf
  <2>5. signer.current \in Keys \cup {None} /\ Issue!Known(signer.current)
    BY <1>t DEF Lineage, KeyOrNone, NoKey, Issue!Known
  <2> QED
    BY <2>2, <2>3, <2>4, <2>5 DEF Issue!Mint
<1>5. ASSUME NEW t \in Tokens, Expire(t)
      PROVE  UNCHANGED Issue!membershipVars
  <2>1. tokens' = [tokens EXCEPT ![t].status = "expired"] /\ tokens[t].status = "fresh"
    BY <1>5 DEF Expire
  <2>2. \A u \in Tokens : /\ tokens'[u].key = tokens[u].key
                          /\ tokens'[u].status = "unminted" <=> tokens[u].status = "unminted"
    BY <2>1, <1>t DEF Token
  <2>3. Minted' = Minted /\ Named' = Named
    BY <2>2 DEF Minted, Named
  <2> QED
    BY <1>5, <2>3 DEF Expire, planeVars, hostVars, Members, Offers, OfferOf
<1>6. ASSUME NEW id \in Ids, deleteMachine(id)
      PROVE  Issue!Revoke(id)
  <2>1. id \in Members /\ Members' = Members \ {id}
    BY <1>6, <1>t DEF deleteMachine, Members
  <2> QED
    BY <1>6, <2>1 DEF deleteMachine, planeVars, hostVars, Issue!Revoke, Minted, Named, Offers, OfferOf
<1> QED
  BY <1>1, <1>2, <1>3, <1>4, <1>5, <1>6 DEF Operator, Issue!MembershipNext

\* Consuming a token, for its request, and the bookkeeping of a fetch are
\* nothing to a membership.
LEMMA MembershipConsume ==
  ASSUME EnrollmentInv, NEW p \in Procs, PostConsumes(p)
  PROVE  UNCHANGED Issue!membershipVars
<1>1. tokens \in [Tokens -> Token] /\ \A t \in Tokens : tokens[t] \in Token
  BY DEF EnrollmentInv, TypeInv, TypeOK
<1>2. \A u \in Tokens : /\ tokens'[u].key = tokens[u].key
                        /\ tokens'[u].status = "unminted" <=> tokens[u].status = "unminted"
  BY <1>1 DEF PostConsumes, Consume, Token
<1>3. Minted' = Minted /\ Named' = Named
  BY <1>2 DEF Minted, Named
<1>4. Offers' = Offers
  <2>1. proc[p].pc = "post" /\ proc'[p].pc = "store" /\ TypeInv /\ Step(p)
    BY PostConsumesEffect DEF EnrollmentInv, PostConsumes, Step, Continue
  <2> QED
    BY <2>1, OffersQuiet
<1> QED
  BY <1>3, <1>4 DEF PostConsumes, planeVars, hostVars, Members, Issue!membershipVars

LEMMA MembershipFetch ==
  ASSUME EnrollmentInv, NEW p \in Procs, getBundle(p)
  PROVE  UNCHANGED Issue!membershipVars
<1>1. machines \in [Ids -> Row \cup {None}] /\ None \notin Row /\ TypeInv /\ Step(p)
  BY NoneIsNoRecord DEF EnrollmentInv, TypeInv, TypeOK, Step, Continue
<1>2. proc[p].pc = "touch" /\ proc[p].mine.id \in Ids
  BY <1>1 DEF getBundle, TypeInv, Shape, Machine
<1>3. \A id \in Ids : machines'[id] = None <=> machines[id] = None
  <2>1. [lastKey |-> proc[p].mine.pin] \in Row
    BY <1>1, <1>2 DEF TypeInv, Shape, Machine, Row
  <2>2. [lastKey |-> proc[p].mine.pin] # None
    BY <2>1, NoneIsNoRecord
  <2> QED
    BY <1>1, <1>2, <2>2 DEF getBundle, Touched, PresentedKey
<1>4. Members' = Members
  BY <1>3 DEF Members
<1>5. Offers' = Offers
  BY <1>1, <1>2, getBundleEffect, NoCommandType, OffersQuiet
<1> QED
  BY <1>4, <1>5 DEF getBundle, planeVars, hostVars, Minted, Named, Issue!membershipVars

LEMMA MembershipRegister ==
  ASSUME EnrollmentInv, NEW p \in Procs, NEW id \in Ids, PutMachine(p, id)
  PROVE  Issue!Register(proc[p].token, id)
<1> DEFINE t == proc[p].token
<1>t. /\ TypeInv /\ TokensSpent /\ Lineage /\ Step(p)
      /\ machines \in [Ids -> Row \cup {None}] /\ issued \in [Ids -> Tokens \cup {None}]
      /\ signer.current \in KeyOrNone /\ proc[p] \in Command
  BY DEF EnrollmentInv, TypeInv, TypeOK, Step, Continue
<1>1. proc[p].pc = "store" /\ t \in Tokens /\ issued[id] = None
  BY <1>t DEF PutMachine, TypeInv, Shape
<1>2. t \in Minted /\ \A i \in Ids : issued[i] # t
  BY <1>1, <1>t DEF TokensSpent, Minted
<1>3. Members' = Members \cup {id}
  <2>1. machines' = [machines EXCEPT ![id] = [lastKey |-> NoKey]]
    BY DEF PutMachine
  <2>2. [lastKey |-> NoKey] # None
    BY NoneIsNoRecord DEF Row, KeyOrNone
  <2> QED
    BY <1>t, <2>1, <2>2 DEF Members
<1>4. UNCHANGED <<heirs, Minted, Named, file>> /\ issued' = [issued EXCEPT ![id] = t]
  BY DEF PutMachine, planeVars, hostVars, Minted, Named
<1>5. CASE proc'[p] = NoCommand
  <2>1. Offers' = Offers
    BY <1>5, <1>1, <1>t, OffersQuiet, NoCommandType
  <2> QED
    BY <2>1, <1>1, <1>2, <1>3, <1>4 DEF Issue!Register
<1>6. CASE proc'[p].pc = "save" /\ proc'[p].mine = [id |-> id, pin |-> signer.current]
  <2>1. Offers' = Offers \cup {OfferOf(p)'}
    BY <1>6, <1>1, <1>t, OffersStep, OffersSplit
  <2>2. OfferOf(p)' = [to |-> proc'[p].host, mine |-> [id |-> id, pin |-> signer.current],
                       force |-> proc'[p].force]
    BY <1>6 DEF OfferOf
  <2>3. proc'[p].host \in Hosts /\ proc'[p].force \in BOOLEAN
    <3>1. TypeInv'
      BY <1>t, NextTypeInv DEF Next, Step
    <3> QED
      BY <3>1, <1>6 DEF TypeInv, Shape, TypeOK, Command
  <2>4. signer.current \in Keys \cup {None} /\ Issue!Known(signer.current)
    BY <1>t DEF Lineage, KeyOrNone, NoKey, Issue!Known
  <2>5. \E h \in Hosts, k \in Keys \cup {None}, force \in BOOLEAN :
          /\ Issue!Known(k)
          /\ Offers' = Offers \cup {[to |-> h, mine |-> [id |-> id, pin |-> k], force |-> force]}
    BY <2>1, <2>2, <2>3, <2>4
  <2> QED
    BY <2>5, <1>1, <1>2, <1>3, <1>4 DEF Issue!Register
<1> QED
  BY <1>5, <1>6, <1>t, PutMachineEffect

LEMMA MembershipAdopt ==
  ASSUME EnrollmentInv, NEW p \in Procs, EnrollSaves(p)
  PROVE  OfferOf(p) \in Offers /\ Issue!Adopt(OfferOf(p))
<1> DEFINE o == OfferOf(p)
<1>t. /\ TypeInv /\ Held /\ Trusted /\ Fresh /\ Step(p)
      /\ proc[p].pc = "save" /\ proc[p].host \in Hosts /\ proc[p].token \in Tokens
      /\ proc[p].mine \in Machine
  BY DEF EnrollmentInv, TypeInv, Shape, Step, Continue, EnrollSaves
<1>1. o.to = proc[p].host /\ o.mine = proc[p].mine /\ o.force = proc[p].force
  BY DEF OfferOf
<1>2. o \in Offers /\ Offers' = Offers \ {o}
  <2>1. proc'[p].pc = "idle"
    BY <1>t, EndEffect DEF EnrollSaves
  <2> QED
    BY <2>1, <1>t, OffersStep, OffersSplit, OfferIsOwn
<1>3. Named[issued[o.mine.id]] \in {None, o.mine.pin}
  BY <1>t, <1>1 DEF EnrollSaves, Accepts, Trusted, Named, NoKey
<1>4. Provisioned => file[o.to] = None \/ o.force
  BY <1>t, <1>1, EnrollmentAssumption DEF Held, HeldBy
<1>5. file' = [file EXCEPT ![o.to] = o.mine]
  BY <1>1 DEF EnrollSaves
<1>6. UNCHANGED <<heirs, Minted, Named, issued, Members>>
  BY DEF EnrollSaves, planeVars, storeVars, Minted, Named, Members
<1> HIDE DEF o
<1>7. Issue!Adopt(o)
  BY <1>2, <1>3, <1>4, <1>5, <1>6 DEF Issue!Adopt
<1> QED
  BY <1>2, <1>7 DEF o

\* Following a rollover: under the lock on what the host has, without it on
\* what the command had loaded.
LEMMA MembershipFollow ==
  ASSUME EnrollmentInv, NEW p \in Procs, Repin(p)
  PROVE  Issue!MembershipNext
<1> DEFINE h == proc[p].host
           m == proc[p].mine
           k == proc[p].offer.key
<1>t. /\ TypeInv /\ Held /\ Trusted /\ Lineage /\ Step(p)
      /\ proc[p].pc = "apply" /\ h \in Hosts /\ m \in Machine /\ proc[p].offer \in Offer
      /\ heirs \subseteq Keys \X Keys /\ file \in [Hosts -> Machine \cup {None}]
  BY DEF EnrollmentInv, TypeInv, TypeOK, Shape, Step, Continue, Repin
<1>1. <<m.pin, k>> \in heirs /\ m.pin \in Keys /\ k \in Keys
  BY <1>t DEF Repin, Lineage
<1>2. file' = [file EXCEPT ![h] = [m EXCEPT !.pin = k]]
  BY DEF Repin
<1>3. UNCHANGED <<heirs, Minted, Named, issued, Members, Offers>>
  <2>1. proc'[p].pc = "idle"
    BY <1>t, EndEffect DEF Repin
  <2>2. Offers' = Offers
    BY <2>1, <1>t, OffersQuiet
  <2> QED
    BY <2>2 DEF Repin, planeVars, storeVars, Minted, Named, Members
<1>4. CASE Provisioned
  <2>1. file[h] = m /\ m # None
    BY <1>4, <1>t, EnrollmentAssumption, NoneIsNoRecord DEF Held, HeldBy, Fetching
  <2>2. file' = [file EXCEPT ![h].pin = k]
    BY <2>1, <1>2, <1>t
  <2> HIDE DEF h, m, k
  <2>3. Issue!Follow(h, k)
    BY <2>1, <2>2, <1>1, <1>3 DEF Issue!Follow
  <2> QED
    BY <2>3, <1>1, <1>t DEF Issue!MembershipNext
<1>5. CASE ~Provisioned
  <2> DEFINE n == [m EXCEPT !.pin = k]
  <2>1. n \in [id : Ids, pin : Keys \cup {None}] /\ n.id = m.id /\ n.pin = k
    BY <1>t, <1>1 DEF Machine
  <2>2. Chained(m) /\ m.id \in Ids
    BY <1>t DEF Trusted, Fetching, Machine
  <2>3. issued[m.id] \in Tokens
    BY <2>2 DEF Chained, EnrollmentInv, TypeInv, TypeOK
  <2>4. Issue!Descends(n)
    BY <2>1, <2>2, <2>3, <1>1, <1>t, EnrollmentAssumption DEF Chained, Lineage, Issue!Descends, Named, NoKey
  <2>5. file' = [file EXCEPT ![h] = n]
    BY <1>2
  <2> HIDE DEF h, m, k, n
  <2>6. Issue!Restore(h, n)
    BY <2>4, <2>5, <1>3, <1>5 DEF Issue!Restore
  <2> QED
    BY <2>1, <2>6, <1>t DEF Issue!MembershipNext
<1> QED
  BY <1>4, <1>5

LEMMA MembershipQuiet ==
  ASSUME EnrollmentInv, NEW p \in Procs, Step(p),
         \/ \E h \in Hosts, t \in Tokens, force \in BOOLEAN : StartEnroll(p, h, t, force)
         \/ \E h \in Hosts : StartOnce(p, h)
         \/ EnrollLocks(p) \/ LoadMachine(p) \/ Admitted(p) \/ Vanish(p)
  PROVE  UNCHANGED Issue!membershipVars
<1>1. UNCHANGED <<heirs, tokens, machines, issued, file>>
  BY DEF StartEnroll, StartOnce, EnrollLocks, LoadMachine, Admitted, Vanish,
         planeVars, storeVars, hostVars
<1>2. TypeInv
  BY DEF EnrollmentInv
<1>3. proc[p].pc # "save"
  BY DEF StartEnroll, StartOnce, EnrollLocks, LoadMachine, Admitted, Vanish, AtAwd
<1>4. proc'[p].pc # "save"
  BY <1>2, <1>3, StartEnrollEffect, StartOnceEffect, EnrollLocksEffect, LoadMachineEffect,
     AdmittedEffect, VanishEffect
<1>5. Offers' = Offers
  BY <1>2, <1>3, <1>4, OffersQuiet
<1> QED
  BY <1>1, <1>5 DEF Minted, Named, Members, Issue!membershipVars

\* A command that ends with an offer in its hands drops it.
LEMMA MembershipEnd ==
  ASSUME EnrollmentInv, NEW p \in Procs, Step(p),
         End(p), UNCHANGED <<planeVars, storeVars, dir, file>>
  PROVE  [Issue!MembershipNext]_(Issue!membershipVars)
<1>1. UNCHANGED <<heirs, Minted, Named, issued, Members, file>>
  BY DEF planeVars, storeVars, Minted, Named, Members
<1>2. TypeInv /\ Fresh /\ proc'[p].pc = "idle"
  BY EndEffect DEF EnrollmentInv
<1>3. CASE proc[p].pc = "save"
  <2>1. OfferOf(p) \in Offers /\ Offers' = Offers \ {OfferOf(p)}
    BY <1>2, <1>3, OffersStep, OffersSplit, OfferIsOwn
  <2>2. Issue!Drop(OfferOf(p))
    BY <1>1, <2>1 DEF Issue!Drop
  <2> QED
    BY <2>1, <2>2 DEF Issue!MembershipNext
<1>4. CASE proc[p].pc # "save"
  BY <1>1, <1>2, <1>4, OffersQuiet DEF Issue!membershipVars
<1> QED
  BY <1>3, <1>4

LEMMA MembershipStep ==
  ASSUME EnrollmentInv, [Next]_vars
  PROVE  [Issue!MembershipNext]_(Issue!membershipVars)
<1>1. ASSUME NEW p \in Procs, Step(p)
      PROVE  [Issue!MembershipNext]_(Issue!membershipVars)
  <2>1. ASSUME NEW id \in Ids, PutMachine(p, id) PROVE Issue!MembershipNext
    <3>1. proc[p].token \in Tokens
      BY <2>1 DEF EnrollmentInv, TypeInv, Shape, PutMachine
    <3> QED
      BY <2>1, <3>1, MembershipRegister DEF Issue!MembershipNext
  <2>2. EnrollSaves(p) => Issue!MembershipNext
    BY MembershipAdopt DEF Issue!MembershipNext
  <2>3. Repin(p) => Issue!MembershipNext
    BY MembershipFollow
  <2>4. PostConsumes(p) \/ getBundle(p) => UNCHANGED Issue!membershipVars
    BY MembershipConsume, MembershipFetch
  <2> QED
    BY <1>1, StepCases, <2>1, <2>2, <2>3, <2>4, MembershipQuiet, MembershipEnd
<1>2. CASE UNCHANGED vars
  BY <1>2 DEF vars, Issue!membershipVars, Minted, Named, Members, Offers, OfferOf
<1> QED
  BY <1>1, <1>2, MembershipOperator DEF Next, Step

\* The commands with their lock, awd's store and its handlers implement
\* Membership, for any number of hosts, commands and keys, whether or not the
\* state directory was there from the start (enroll.go, postEnroll; main.go,
\* enroll and once; client.go, Enroll and rolloverFrom).
THEOREM EnrollmentKeepsMembership == Spec => KeepsMembership
BY EnrollmentInvariant, MembershipInitially, MembershipStep, PTL
DEF Spec, KeepsMembership, Issue!MembershipSpec
=============================================================================
