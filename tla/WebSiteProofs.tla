--------------------------- MODULE WebSiteProofs ----------------------------
(***************************************************************************)
(* Proofs about the web site: the demo form, for every list of fields and  *)
(* every bound, and the documentation, for every set of files and pages.   *)
(*                                                                         *)
(* RequestInv ties a request to what became of it while it is out: nothing *)
(* before it is served, its mail or its fate as spam once it is answered.  *)
(* PatienceInv ties the timer to the visitor: a form that was not          *)
(* submitted in a hurry is not too fast when it is served, unless its page *)
(* was stamped anew, which a page with JavaScript never is.                *)
(* DocsInv ties the process's counters of headings to the page rendered.   *)
(***************************************************************************)
EXTENDS DemoForm, DocsSite, SequenceTheorems, FiniteSetTheorems, TLAPS

RequestInv ==
    /\ request.phase = "sent" => ~delivered /\ ~spam
    /\ request.phase = "sending" => ~spam
    /\ request.phase = "answered" =>
          /\ request.status \in {"ok", "invalid", "failed"}
          /\ request.status = "ok" => delivered \/ spam
          /\ request.status = "invalid" =>
                ~delivered /\ ~spam /\ request.errors # {} /\ "plan" \notin request.errors
    /\ shown.status \in {"ok", "broken"} => request.phase = "none"

PatienceInv ==
    /\ js /\ patient => elapsed
    /\ request.phase # "none" /\ ~hurried => patient
    /\ request.phase # "none" /\ js /\ ~hurried => ~restamped
    /\ request.phase # "none" /\ ~hurried /\ ~restamped => elapsed /\ (~website => ~spam)

DemoInv ==
    /\ DemoTypeOK /\ assertBuildEnv(env)
    /\ RequestInv /\ PatienceInv
    /\ request.phase # "none" => request.values = sent
    /\ ThanksAreEarned /\ ErrorsAreShown

(* The plan is never what is wrong with a form.                            *)
LEMMA PlanNeverWrong ==
    ASSUME NEW values \in [Fields -> Contents]
    PROVE  "plan" \notin demoSchema(Parsed(values))
  BY DemoAssumption DEF demoSchema, Parsed, parsePlan, Fields, Contents

(* A page opens with fields of the form.                                   *)
LEMMA OpenedFields == Opened \subseteq [Fields -> Contents]
  BY DEF Opened, Blank, Contents

(* A step keeps the types and leaves the environment alone.                *)
LEMMA DemoTypeStep ==
    ASSUME DemoTypeOK, [DemoNext]_demoVars
    PROVE  DemoTypeOK' /\ env' = env
  <1> USE DemoAssumption DEF DemoTypeOK
  <1>1. CASE Wait
    BY <1>1 DEF Wait, history
  <1>2. ASSUME NEW f \in Fields, NEW v \in Contents, Edit(f, v)
        PROVE  DemoTypeOK' /\ env' = env
    BY <1>2 DEF Edit, history
  <1>3. CASE Submit
    <2>1. request' = [phase |-> "sent", values |-> fields, status |-> "idle", errors |-> {}]
      BY <1>3 DEF Submit, NoRequest
    <2>2. hurried' \in BOOLEAN /\ restamped' \in BOOLEAN
      BY <1>3 DEF Submit
    <2>3. asks' \in 0 .. MaxAsks
      BY <1>3 DEF Submit
    <2>4. /\ UNCHANGED <<env, js, website, fields, elapsed, patient, shown, edits>>
          /\ delivered' = FALSE /\ spam' = FALSE /\ sent' = fields
      BY <1>3 DEF Submit, visitor
    <2> QED
      BY <2>1, <2>2, <2>3, <2>4
  <1>4. CASE OpenPage
    BY <1>4, OpenedFields DEF OpenPage, history, Idle, Blank, Contents
  <1>5. CASE DropAsSpam
    BY <1>5 DEF DropAsSpam, Answer, visitor, history
  <1>6. CASE RefuseForm
    BY <1>6 DEF RefuseForm, Answer, visitor, history, readValues, Errors, demoSchema
  <1>7. CASE NotConfigured
    BY <1>7 DEF NotConfigured, Answer, visitor, history, readValues
  <1>8. CASE SendMail
    BY <1>8 DEF SendMail, visitor, history, readValues
  <1>9. CASE SendFails
    BY <1>9 DEF SendFails, Answer, visitor, history
  <1>10. CASE SendSucceeds
    BY <1>10 DEF SendSucceeds, Answer, visitor, history
  <1>11. CASE Respond
    BY <1>11 DEF Respond, history, NoRequest, Blank, Contents, StampAfter
  <1>12. CASE ConnectionBreaks
    BY <1>12 DEF ConnectionBreaks, NoRequest, Idle, Blank, Contents, visitor, history
  <1>13. CASE UNCHANGED demoVars
    BY <1>13 DEF demoVars, visitor, history
  <1> QED
    BY <1>1, <1>2, <1>3, <1>4, <1>5, <1>6, <1>7, <1>8, <1>9, <1>10, <1>11, <1>12, <1>13
    DEF DemoNext, Server

LEMMA DemoInvInit == DemoInit => DemoInv
  <1> SUFFICES ASSUME DemoInit PROVE DemoInv
    OBVIOUS
  <1>1. DemoTypeOK
    <2>1. Blank \in [Fields -> Contents] /\ fields \in [Fields -> Contents]
      BY OpenedFields DEF DemoInit, Blank, Contents
    <2>2. edits \in 0 .. MaxEdits /\ asks \in 0 .. MaxAsks
      BY DemoAssumption DEF DemoInit
    <2> QED
      BY <2>1, <2>2 DEF DemoInit, DemoTypeOK, NoRequest, Idle
  <1> QED
    BY <1>1 DEF DemoInit, DemoInv, RequestInv, PatienceInv, ThanksAreEarned,
                ErrorsAreShown, NoRequest, Idle

LEMMA DemoInvStep == DemoInv /\ [DemoNext]_demoVars => DemoInv'
  <1> SUFFICES ASSUME DemoInv, [DemoNext]_demoVars PROVE DemoInv'
    OBVIOUS
  <1>0. DemoTypeOK' /\ assertBuildEnv(env)'
    BY DemoTypeStep DEF DemoInv, assertBuildEnv
  <1> USE <1>0 DEF DemoInv, RequestInv, PatienceInv, ThanksAreEarned, ErrorsAreShown
  <1>1. CASE Wait
    BY <1>1 DEF Wait, history
  <1>2. ASSUME NEW f \in Fields, NEW v \in Contents, Edit(f, v)
        PROVE  DemoInv'
    BY <1>2 DEF Edit, history
  <1>3. CASE Submit
    BY <1>3 DEF Submit, NoRequest, visitor, history, FormShown, DemoTypeOK
  <1>4. CASE OpenPage
    BY <1>4 DEF OpenPage, history, Idle
  <1>5. CASE DropAsSpam
    BY <1>5 DEF DropAsSpam, Answer, visitor, history, tooFast
  <1>6. CASE RefuseForm
    <2>1. "plan" \notin Errors
      BY PlanNeverWrong DEF Errors, readValues, DemoTypeOK
    <2> QED
      BY <1>6, <2>1 DEF RefuseForm, Answer, visitor, history, readValues
  <1>7. CASE NotConfigured
    BY <1>7 DEF NotConfigured, Answer, visitor, history, readValues
  <1>8. CASE SendMail
    BY <1>8 DEF SendMail, visitor, history, readValues, DemoTypeOK
  <1>9. CASE SendFails
    BY <1>9 DEF SendFails, Answer, visitor, history
  <1>10. CASE SendSucceeds
    BY <1>10 DEF SendSucceeds, Answer, visitor, history
  <1>11. CASE Respond
    BY <1>11 DEF Respond, history, NoRequest, StampAfter, DemoTypeOK
  <1>12. CASE ConnectionBreaks
    BY <1>12 DEF ConnectionBreaks, NoRequest, Idle, visitor, history
  <1>13. CASE UNCHANGED demoVars
    BY <1>13 DEF demoVars, visitor, history
  <1> QED
    BY <1>1, <1>2, <1>3, <1>4, <1>5, <1>6, <1>7, <1>8, <1>9, <1>10, <1>11, <1>12, <1>13
    DEF DemoNext, Server

LEMMA DemoInvAlways == DemoSpec => []DemoInv
  BY DemoInvInit, DemoInvStep, PTL DEF DemoSpec

(* Every variable of the form keeps its type.                              *)
THEOREM DemoTypes == DemoSpec => []DemoTypeOK
  <1>1. DemoInv => DemoTypeOK
    BY DEF DemoInv
  <1> QED
    BY <1>1, DemoInvAlways, PTL

(* A person who took the time is thanked only for a mailed request, unless *)
(* the page was rendered and stamped anew, without JavaScript, less than   *)
(* MIN_FILL_MS before (submitDemo's spam checks against the page's         *)
(* startedAt).                                                             *)
THEOREM DemoThanks == DemoSpec => []ThanksAreEarned
  <1>1. DemoInv => ThanksAreEarned
    BY DEF DemoInv
  <1> QED
    BY <1>1, DemoInvAlways, PTL

(* What has to be corrected has a message beside it, for any set of fields *)
(* (parsePlan before demoSchema).                                          *)
THEOREM DemoErrors == DemoSpec => []ErrorsAreShown
  <1>1. DemoInv => ErrorsAreShown
    BY DEF DemoInv
  <1> QED
    BY <1>1, DemoInvAlways, PTL

(* A production deployment that was built can send (assertBuildEnv and     *)
(* senderFromEnv agree).                                                   *)
THEOREM DemoProduction == DemoSpec => []ProductionIsConfigured
  <1>1. DemoInv => ProductionIsConfigured
    BY DEF DemoInv, DemoTypeOK, Environments, assertBuildEnv, ProductionIsConfigured,
           senderFromEnv, Configured, fromAddress
  <1> QED
    BY <1>1, DemoInvAlways, PTL

(* The form comes back as it was submitted (readValues, and the form's key *)
(* and default values).                                                    *)
THEOREM DemoNothingRetyped == DemoSpec => NothingRetyped
  <1>1. DemoInv /\ [DemoNext]_demoVars =>
          [shown' # shown /\ shown'.status \in {"invalid", "failed"} => fields' = sent]_demoVars
    <2> SUFFICES ASSUME DemoInv, DemoNext, shown' # shown,
                        shown'.status \in {"invalid", "failed"}
                 PROVE  fields' = sent
      OBVIOUS
    <2>1. Respond
      BY DEF DemoNext, Server, Wait, Edit, Submit, OpenPage, DropAsSpam, RefuseForm,
             NotConfigured, SendMail, SendFails, SendSucceeds, ConnectionBreaks, Idle, visitor
    <2>2. request.status \in {"invalid", "failed"} /\ request.values = sent
      BY <2>1 DEF Respond, DemoInv
    <2> QED
      BY <2>1, <2>2 DEF Respond
  <1> QED
    BY <1>1, DemoInvAlways, PTL DEF DemoSpec, NothingRetyped

(***************************************************************************)
(* The form implements DemoRequest.                                        *)
(***************************************************************************)
LEMMA PromiseInit == DemoInit => Promise!RequestInit
  BY DEF DemoInit, Promise!RequestInit, NoRequest, Idle, ToldBy

LEMMA PromiseStep ==
    DemoInv /\ [DemoNext]_demoVars => [Promise!RequestNext]_(Promise!demoRequestVars)
  <1> SUFFICES ASSUME DemoInv, [DemoNext]_demoVars
               PROVE  Promise!RequestNext \/ UNCHANGED Promise!demoRequestVars
    OBVIOUS
  <1> USE DEF DemoInv, RequestInv, Promise!demoRequestVars
  <1>1. CASE Wait \/ UNCHANGED demoVars
    BY <1>1 DEF Wait, demoVars
  <1>2. ASSUME NEW f \in Fields, NEW v \in Contents, Edit(f, v)
        PROVE  UNCHANGED Promise!demoRequestVars
    BY <1>2 DEF Edit, history
  <1>3. CASE Submit
    BY <1>3 DEF Submit, FormShown, DemoTypeOK, NoRequest, ToldBy, Promise!RequestNext, Promise!AskDemo
  <1>4. CASE OpenPage
    BY <1>4 DEF OpenPage, history, Idle, ToldBy, Promise!RequestNext, Promise!Reopen
  <1>5. CASE DropAsSpam
    BY <1>5 DEF DropAsSpam, Answer, Promise!RequestNext, Promise!TakeForSpam
  <1>6. CASE RefuseForm \/ NotConfigured \/ SendFails \/ SendSucceeds
    BY <1>6 DEF RefuseForm, NotConfigured, SendFails, SendSucceeds, Answer
  <1>7. CASE SendMail
    BY <1>7 DEF SendMail, DemoTypeOK, Promise!RequestNext, Promise!Mail
  <1>8. CASE Respond
    <2>1. PICK what \in {"thanks", "correct", "sorry"} : what = ToldBy(request.status)
      BY <1>8 DEF Respond, ToldBy
    <2>2. Promise!Tell(what)
      BY <1>8, <2>1 DEF Respond, NoRequest, ToldBy, Promise!Tell
    <2> QED
      BY <2>1, <2>2 DEF Promise!RequestNext
  <1>9. CASE ConnectionBreaks
    <2>1. Promise!Tell("broken")
      BY <1>9 DEF ConnectionBreaks, NoRequest, Idle, ToldBy, Promise!Tell
    <2> QED
      BY <2>1 DEF Promise!RequestNext
  <1> QED
    BY <1>1, <1>2, <1>3, <1>4, <1>5, <1>6, <1>7, <1>8, <1>9 DEF DemoNext, Server

(* The form, with its checks, its sender and its network, keeps the        *)
(* promise of DemoRequest: thanks only for what was mailed or taken for    *)
(* spam, corrections only when nothing was, one mail for a request, and no *)
(* other request from a page that accepted one or waits with its button    *)
(* disabled.                                                               *)
THEOREM DemoKeepsPromise == DemoSpec => KeepsPromise
  BY DemoInvAlways, PromiseInit, PromiseStep, PTL
  DEF DemoSpec, KeepsPromise, Promise!RequestSpec

-----------------------------------------------------------------------------
(***************************************************************************)
(* The documentation.                                                      *)
(***************************************************************************)
(* The first n headings of the page that carry an id made from base.       *)
Earlier(base, n) == {j \in 1 .. n : Titled(Body[j]) /\ Body[j].base = base}

DocsInv ==
    /\ DocsTypeOK
    /\ build = "done" => \A f \in DOMAIN docs : parseDoc(docs[f])
    /\ page = "" => at = 0
    /\ page # "" => /\ at <= Len(Body)
                    /\ \A b \in Bases : seen[b] = Cardinality(Earlier(b, at))
    /\ AnchorsAreOwn

(* A page's body is one the site can hold, and its bases are counted.      *)
LEMMA BodyType ==
    ASSUME DocsTypeOK, NEW f \in DOMAIN docs
    PROVE  /\ Len(docs[f].body) \in Nat
           /\ \A i \in 1 .. Len(docs[f].body) :
                /\ docs[f].body[i].base \in Bases
                /\ docs[f].body[i].base \in Seq(Nat)
  <1> DEFINE body == docs[f].body
  <1>1. body \in Bodies
    <2>1. PICK D \in SUBSET Files : docs \in [D -> Sources]
      BY DEF DocsTypeOK
    <2>2. docs[f] \in Sources
      BY <2>1
    <2> QED
      BY <2>2 DEF Sources
  <1>2. body \in Seq([base : Seq(Nat), depth : 1 .. 6])
    BY <1>1, DocsAssumption
  <1>3. \A i \in 1 .. Len(body) : body[i].base \in {body[j].base : j \in 1 .. Len(body)}
    OBVIOUS
  <1> HIDE DEF body
  <1>4. \A i \in 1 .. Len(body) : body[i].base \in Bases
    BY <1>1, <1>3 DEF Bases
  <1>5. Len(body) \in Nat /\ \A i \in 1 .. Len(body) : body[i] \in [base : Seq(Nat), depth : 1 .. 6]
    BY <1>2, LenProperties, ElementOfSeq
  <1>6. \A i \in 1 .. Len(body) : body[i].base \in Seq(Nat)
    BY <1>5
  <1> QED
    BY <1>4, <1>5, <1>6 DEF body

LEMMA EarlierFinite ==
    ASSUME NEW b, NEW n \in Nat
    PROVE  IsFiniteSet(Earlier(b, n)) /\ Cardinality(Earlier(b, n)) \in Nat
  <1>1. IsFiniteSet(1 .. n)
    BY FS_Interval
  <1> QED
    BY <1>1, FS_Subset, FS_CardinalityType DEF Earlier

(* One heading more is one id more for its own base, and for no other.     *)
LEMMA EarlierGrows ==
    ASSUME NEW b, NEW n \in Nat
    PROVE  Cardinality(Earlier(b, n + 1)) =
             IF Titled(Body[n + 1]) /\ Body[n + 1].base = b
             THEN Cardinality(Earlier(b, n)) + 1 ELSE Cardinality(Earlier(b, n))
  <1>1. CASE Titled(Body[n + 1]) /\ Body[n + 1].base = b
    <2>1. Earlier(b, n + 1) = Earlier(b, n) \cup {n + 1} /\ n + 1 \notin Earlier(b, n)
      BY <1>1 DEF Earlier
    <2> QED
      BY <1>1, <2>1, EarlierFinite, FS_AddElement
  <1>2. CASE ~(Titled(Body[n + 1]) /\ Body[n + 1].base = b)
    <2>1. Earlier(b, n + 1) = Earlier(b, n)
      BY <1>2 DEF Earlier
    <2> QED
      BY <1>2, <2>1
  <1> QED
    BY <1>1, <1>2

LEMMA DocsInvInit == DocsInit => DocsInv
  <1> SUFFICES ASSUME DocsInit PROVE DocsInv
    OBVIOUS
  <1>1. DocsTypeOK
    <2>1. seen \in [Bases -> Nat]
      BY DEF DocsInit, NoneSeen
    <2>2. anchors \in Seq(Seq(Nat)) /\ Len(anchors) = 0
      BY EmptySeq DEF DocsInit
    <2> QED
      BY <2>1, <2>2 DEF DocsInit, DocsTypeOK
  <1>2. AnchorsAreOwn
    <2>1. at = 0
      BY DEF DocsInit
    <2>2. \A i \in 1 .. at : FALSE
      BY <2>1
    <2> QED
      BY <2>2 DEF AnchorsAreOwn
  <1> QED
    BY <1>1, <1>2 DEF DocsInit, DocsInv

LEMMA DocsRender ==
    ASSUME DocsInv, NEW f \in DOMAIN docs, renderMarkdown(f)
    PROVE  DocsInv'
  <1>1. /\ UNCHANGED <<docs, build>> /\ page' = f /\ at' = 0
        /\ seen' = NoneSeen /\ anchors' = <<>>
    BY DEF renderMarkdown
  <1>2. Body' = docs[f].body
    BY <1>1 DEF Body
  <1>3. DocsTypeOK'
    <2>1. seen' \in [Bases -> Nat]
      BY <1>1 DEF NoneSeen
    <2>2. anchors' \in Seq(Seq(Nat)) /\ Len(anchors') = 0
      BY <1>1, EmptySeq
    <2> QED
      BY <1>1, <2>1, <2>2 DEF DocsInv, DocsTypeOK
  <1>4. at' <= Len(Body')
    <2>1. Len(docs[f].body) \in Nat
      BY BodyType DEF DocsInv
    <2> QED
      BY <2>1, <1>1, <1>2
  <1>5. \A b \in Bases : seen'[b] = Cardinality(Earlier(b, at)')
    <2>1. \A b : Earlier(b, at)' = {}
      BY <1>1 DEF Earlier
    <2> QED
      BY <2>1, <1>1, FS_EmptySet DEF NoneSeen
  <1>6. AnchorsAreOwn'
    BY <1>1 DEF AnchorsAreOwn
  <1>7. page' # "" /\ (build' = "done" => \A g \in DOMAIN docs' : parseDoc(docs'[g]))
    BY <1>1, DocsAssumption DEF DocsInv, DocsTypeOK
  <1> QED
    BY <1>3, <1>4, <1>5, <1>6, <1>7 DEF DocsInv

LEMMA DocsHeading ==
    ASSUME DocsInv, heading
    PROVE  DocsInv'
  <1> DEFINE h == Body[at + 1]
             n == seen[h.base]
             id == CASE ~Titled(h) -> <<>>
                     [] Titled(h) /\ n = 0 -> h.base
                     [] OTHER -> Append(h.base, n)
  <1>1. /\ page \in DOMAIN docs /\ at \in Nat /\ at < Len(Body)
        /\ UNCHANGED <<docs, build, page>> /\ Body' = Body /\ at' = at + 1
    BY DEF heading, Rendering, DocsInv, DocsTypeOK, Body
  <1>2. /\ Len(Body) \in Nat /\ h.base \in Bases /\ h.base \in Seq(Nat)
    <2>1. DocsTypeOK /\ page \in DOMAIN docs
      BY <1>1 DEF DocsInv
    <2>2. Len(Body) \in Nat
      BY <2>1, BodyType DEF Body
    <2>3. at + 1 \in 1 .. Len(Body)
      BY <2>2, <1>1
    <2> QED
      BY <2>1, <2>2, <2>3, BodyType DEF Body
  <1>3. n \in Nat /\ seen \in [Bases -> Nat]
    BY <1>2 DEF DocsInv, DocsTypeOK
  <1>4. id \in Seq(Nat)
    BY <1>2, <1>3
  <1>5. /\ seen' = IF Titled(h) THEN [seen EXCEPT ![h.base] = n + 1] ELSE seen
        /\ anchors' = Append(anchors, id)
    BY DEF heading
  <1>6. anchors \in Seq(Seq(Nat)) /\ Len(anchors) = at
    BY DEF DocsInv, DocsTypeOK
  <1> HIDE DEF h, n, id
  <1>7. /\ anchors' \in Seq(Seq(Nat)) /\ Len(anchors') = at + 1
        /\ anchors'[at + 1] = id
        /\ \A i \in 1 .. at : anchors'[i] = anchors[i]
    BY <1>4, <1>5, <1>6, <1>1
  <1>8. DocsTypeOK'
    <2>1. seen' \in [Bases -> Nat]
      BY <1>2, <1>3, <1>5
    <2>2. at' \in Nat /\ Len(anchors') = at'
      BY <1>1, <1>7
    <2> QED
      BY <1>1, <1>7, <2>1, <2>2 DEF DocsInv, DocsTypeOK
  <1>9. \A b \in Bases : seen'[b] = Cardinality(Earlier(b, at + 1))
    <2> TAKE b \in Bases
    <2>1. seen[b] = Cardinality(Earlier(b, at))
      BY <1>1, DocsAssumption DEF DocsInv, DocsTypeOK
    <2>2. Cardinality(Earlier(b, at)) \in Nat
      BY <1>1, EarlierFinite
    <2>3. Cardinality(Earlier(b, at + 1)) =
            IF Titled(h) /\ h.base = b THEN Cardinality(Earlier(b, at)) + 1
            ELSE Cardinality(Earlier(b, at))
      BY <1>1, EarlierGrows DEF h
    <2>4. seen'[b] = IF Titled(h) /\ h.base = b THEN seen[b] + 1 ELSE seen[b]
      BY <1>2, <1>3, <1>5 DEF n
    <2> QED
      BY <2>1, <2>3, <2>4
  <1>10. AnchorsAreOwn'
    <2>1. n = Cardinality(Earlier(h.base, at))
      BY <1>1, <1>2, DocsAssumption DEF DocsInv, DocsTypeOK, n
    <2>2. \A i \in 1 .. at :
            /\ Titled(Body[i]) =>
                 anchors[i] = IF Cardinality(Earlier(Body[i].base, i - 1)) = 0
                              THEN Body[i].base
                              ELSE Append(Body[i].base,
                                          Cardinality(Earlier(Body[i].base, i - 1)))
            /\ ~Titled(Body[i]) => anchors[i] = <<>>
      BY DEF DocsInv, AnchorsAreOwn, Earlier
    <2>3. \A i \in 1 .. at + 1 :
            /\ Titled(Body[i]) =>
                 anchors'[i] = IF Cardinality(Earlier(Body[i].base, i - 1)) = 0
                               THEN Body[i].base
                               ELSE Append(Body[i].base,
                                           Cardinality(Earlier(Body[i].base, i - 1)))
            /\ ~Titled(Body[i]) => anchors'[i] = <<>>
      <3> TAKE i \in 1 .. at + 1
      <3>1. CASE i \in 1 .. at
        BY <3>1, <2>2, <1>7
      <3>2. CASE i = at + 1
        <4>1. Body[i] = h /\ i - 1 = at /\ anchors'[i] = id
          BY <3>2, <1>1, <1>7 DEF h
        <4> QED
          BY <4>1, <2>1 DEF id
      <3> QED
        BY <3>1, <3>2, <1>1
    <2> QED
      BY <2>3, <1>1 DEF AnchorsAreOwn, Earlier, Titled, walkTokens
  <1>11. \A b \in Bases : seen'[b] = Cardinality(Earlier(b, at)')
    BY <1>9, <1>1 DEF Earlier, Titled, walkTokens
  <1>12. page' # ""
    BY <1>1, DocsAssumption DEF DocsInv, DocsTypeOK
  <1>13. at' <= Len(Body')
    BY <1>1, <1>2
  <1>14. build' = "done" => \A f \in DOMAIN docs' : parseDoc(docs'[f])
    BY <1>1 DEF DocsInv
  <1> QED
    BY <1>8, <1>10, <1>11, <1>12, <1>13, <1>14 DEF DocsInv

LEMMA DocsInvStep == DocsInv /\ [DocsNext]_docsVars => DocsInv'
  <1> SUFFICES ASSUME DocsInv, [DocsNext]_docsVars PROVE DocsInv'
    OBVIOUS
  <1>1. CASE Build \/ UNCHANGED docsVars
    <2>1. UNCHANGED <<docs, page, at, seen, anchors>> /\ Body' = Body
      BY <1>1 DEF Build, docsVars, Body
    <2>2. DocsTypeOK' /\ AnchorsAreOwn'
      BY <1>1, <2>1 DEF Build, docsVars, DocsInv, DocsTypeOK, AnchorsAreOwn, Titled, walkTokens
    <2>3. \A b \in Bases : Earlier(b, at)' = Earlier(b, at)
      BY <2>1 DEF Earlier, Titled, walkTokens
    <2>4. build' = "done" => \A f \in DOMAIN docs : parseDoc(docs[f])
      BY <1>1 DEF Build, docsVars, DocsInv
    <2> QED
      BY <2>1, <2>2, <2>3, <2>4 DEF DocsInv
  <1> QED
    BY <1>1, DocsRender, DocsHeading DEF DocsNext

LEMMA DocsInvAlways == DocsSpec => []DocsInv
  BY DocsInvInit, DocsInvStep, PTL DEF DocsSpec

(* Every variable of the documentation keeps its type.                     *)
THEOREM DocsTypes == DocsSpec => []DocsTypeOK
  <1>1. DocsInv => DocsTypeOK
    BY DEF DocsInv
  <1> QED
    BY <1>1, DocsInvAlways, PTL

(* The anchors of a page depend on its own headings only, whatever pages   *)
(* the process rendered before (markdown.ts, renderMarkdown clears the     *)
(* counters that the heading renderer shares).                             *)
THEOREM DocsAnchors == DocsSpec => []AnchorsAreOwn
  <1>1. DocsInv => AnchorsAreOwn
    BY DEF DocsInv
  <1> QED
    BY <1>1, DocsInvAlways, PTL

(* A file's link, without the site's prefix, is its slug.                  *)
LEMMA HrefIsSlug ==
    ASSUME NEW f
    PROVE  SubSeq(docHref(f), 2, Len(docHref(f))) = docSlug(f)
  <1> DEFINE S == {"docs", f}
  <1>1. <<"docs">> \in Seq(S) /\ docSlug(f) \in Seq(S)
    <2>1. "docs" \in S /\ f \in S
      OBVIOUS
    <2> HIDE DEF S
    <2>2. <<"docs">> \in Seq(S) /\ <<f>> \in Seq(S) /\ <<>> \in Seq(S)
      BY <2>1
    <2> QED
      BY <2>2 DEF docSlug
  <1> HIDE DEF S
  <1>2. /\ Len(<<"docs">>) = 1 /\ Len(docSlug(f)) \in Nat
        /\ Len(docHref(f)) = 1 + Len(docSlug(f))
    BY <1>1, LenProperties, ConcatProperties DEF docHref
  <1>3. SubSeq(docHref(f), 2, Len(docHref(f)))
          = SubSeq(docSlug(f), 1, Len(docSlug(f)))
    BY <1>1, <1>2, SubSeqOfConcat2 DEF docHref
  <1> QED
    BY <1>1, <1>3, SubSeqFull

(* A built site lists every page under one section, and its link opens it  *)
(* (docs.ts: parseDoc, docSlug, docHref, and the navigation's filter).     *)
THEOREM DocsNavigation == DocsSpec => []NavReachesAll
  <1>1. ASSUME DocsInv, build = "done", NEW f \in DOMAIN docs
        PROVE  /\ Cardinality({s \in SECTIONS : f \in navSections[s]}) = 1
               /\ find(docSlug(f)) = {f}
    <2>1. docs[f].section \in SECTIONS
      BY <1>1 DEF DocsInv, parseDoc
    <2>2. {s \in SECTIONS : f \in navSections[s]} = {docs[f].section}
      BY <2>1, <1>1 DEF navSections
    <2>3. find(docSlug(f)) = {f}
      BY <1>1 DEF find, docSlug
    <2> QED
      BY <2>2, <2>3, FS_Singleton
  <1>2. DocsInv => NavReachesAll
    BY <1>1, HrefIsSlug DEF NavReachesAll, docSlug
  <1> QED
    BY <1>2, DocsInvAlways, PTL
=============================================================================
