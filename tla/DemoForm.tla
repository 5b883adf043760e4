------------------------------ MODULE DemoForm ------------------------------
(***************************************************************************)
(* The web site's demo form: the page with its form, with and without      *)
(* JavaScript, the server action that checks and mails a request, the      *)
(* environment it is deployed with, and the mail service.                  *)
(*                                                                         *)
(* Times are two facts: whether MIN_FILL_MS have passed since startedAt    *)
(* was stamped, and since the visitor opened the page.                     *)
(***************************************************************************)
EXTENDS Naturals, Sequences

CONSTANTS
    FieldOrder,   \* FIELD_ORDER
    Required,     \* the fields demoSchema does not let be blank
    MaxEdits,     \* fields a visitor sets in a behaviour
    MaxAsks       \* submissions in a behaviour

ASSUME DemoAssumption ==
    /\ FieldOrder \in Seq(STRING)
    /\ Required \subseteq {FieldOrder[i] : i \in 1 .. Len(FieldOrder)} \ {"plan"}
    /\ MaxEdits \in Nat /\ MaxAsks \in Nat

Fields == {FieldOrder[i] : i \in 1 .. Len(FieldOrder)}
Contents == {"blank", "good", "bad"}
Blank == [f \in Fields |-> "blank"]

(* What can be put in a field: of text, also what is too long or not an    *)
(* address; of a choice, one of its options or none.                       *)
Choices == {"size", "agents", "deployment", "plan"}
Entries(f) == IF f \in Choices THEN {"blank", "good"} ELSE Contents

(* The fields of a page just opened: a link may name the plan.             *)
Opened == {Blank, [Blank EXCEPT !["plan"] = "good"]}

VARIABLES
    env,        \* the environment: which variables are set
    js,         \* the browser runs the page's scripts
    website,    \* the honeypot field is filled
    fields,     \* the form's fields
    elapsed,    \* MIN_FILL_MS since startedAt was stamped
    patient,    \* MIN_FILL_MS since the page was opened
    request,    \* the request in flight
    shown,      \* the action's state, as the page shows it
    edits, asks,\* what is left of MaxEdits and MaxAsks
    delivered,  \* history: the last request was handed to the sender
    spam,       \* history: the last request was taken for spam
    sent,       \* history: the fields as they were last submitted
    hurried,    \* history: they were submitted before MIN_FILL_MS on the page
    restamped   \* history: after that, but before MIN_FILL_MS since a newer stamp

visitor == <<website, fields, elapsed, patient>>
history == <<sent, hurried, restamped>>
demoVars == <<env, js, visitor, request, shown, edits, asks, delivered, spam, history>>

NoRequest == [phase |-> "none", values |-> Blank, status |-> "idle", errors |-> {}]
Idle == [status |-> "idle", errors |-> {}, values |-> Blank]

(***************************************************************************)
(* The deployment.  assertBuildEnv fails a production build that lacks a   *)
(* variable or has the test sender; other deployments take anything.       *)
(***************************************************************************)
Environments == [production : BOOLEAN, site : BOOLEAN, key : BOOLEAN, fake : BOOLEAN,
                 inbox : BOOLEAN, from : BOOLEAN]

MutAssertBuildEnv(e) == e.production => e.site /\ e.key /\ e.inbox /\ ~e.fake
assertBuildEnv(e) == e.production => e.site /\ e.key /\ e.inbox /\ e.from /\ ~e.fake

senderFromEnv(e) ==
    CASE e.fake /\ ~e.production -> "fake"
      [] ~(e.fake /\ ~e.production) /\ e.key -> "resend"
      [] OTHER -> "none"

fromAddress(e) == e.from \/ e.fake
Configured(e) == senderFromEnv(e) # "none" /\ e.inbox /\ fromAddress(e)

(***************************************************************************)
(* The checks of a submitted form.                                         *)
(***************************************************************************)
(* The schema takes a plan or none, but not the empty text the form sends  *)
(* for "Not sure yet": anything that is not a tier is undefined before it. *)
MutParsePlan(v) == v
parsePlan(v) == IF v = "good" THEN v ELSE "undefined"
Parsed(values) == [f \in Fields |-> IF f = "plan" THEN parsePlan(values[f]) ELSE values[f]]

demoSchema(values) ==
    {f \in Fields : \/ values[f] = "bad"
                    \/ values[f] = "blank" /\ f \in Required \cup {"plan"}}

tooFast == ~elapsed

MutReadValues(form) == [f \in Fields |-> IF f \in Required THEN form[f] ELSE "blank"]
readValues(form) == form

DemoInit ==
    /\ env \in Environments /\ assertBuildEnv(env)
    /\ js \in BOOLEAN /\ website \in BOOLEAN
    /\ fields \in Opened
    /\ elapsed = FALSE /\ patient = FALSE
    /\ request = NoRequest /\ shown = Idle
    /\ edits = MaxEdits /\ asks = MaxAsks
    /\ delivered = FALSE /\ spam = FALSE /\ sent = Blank
    /\ hurried = FALSE /\ restamped = FALSE

FormShown == shown.status \in {"idle", "invalid", "failed"}

(***************************************************************************)
(* The visitor.                                                            *)
(***************************************************************************)
Wait ==
    /\ ~elapsed \/ ~patient
    /\ elapsed' = TRUE /\ patient' = TRUE
    /\ UNCHANGED <<env, js, website, fields, request, shown, edits, asks, delivered, spam,
                   history>>

(* The fields stay open to edits while the request is out.                 *)
Edit(f, v) ==
    /\ FormShown /\ edits > 0 /\ v \in Entries(f) /\ fields[f] # v
    /\ edits' = edits - 1
    /\ fields' = [fields EXCEPT ![f] = v]
    /\ UNCHANGED <<env, js, website, elapsed, patient, request, shown, asks, delivered, spam,
                   history>>

(* With JavaScript the button is disabled while a request is out. Without, *)
(* it can be pressed again: the browser then follows the new request only. *)
Submit ==
    /\ FormShown /\ (request.phase = "none" \/ ~js) /\ asks > 0
    /\ asks' = asks - 1
    /\ request' = [NoRequest EXCEPT !.phase = "sent", !.values = fields]
    /\ delivered' = FALSE /\ spam' = FALSE
    /\ sent' = fields /\ hurried' = ~patient /\ restamped' = (patient /\ ~elapsed)
    /\ UNCHANGED <<env, js, visitor, shown, edits>>

(* The page is opened again, newly stamped.                                *)
OpenPage ==
    /\ request.phase = "none" /\ shown.status # "idle"
    /\ fields' \in Opened /\ elapsed' = FALSE /\ patient' = FALSE
    /\ shown' = Idle
    /\ delivered' = FALSE /\ spam' = FALSE
    /\ UNCHANGED <<env, js, website, request, edits, asks, history>>

(***************************************************************************)
(* submitDemo.                                                             *)
(***************************************************************************)
Answer(status, errors, values) ==
    request' = [phase |-> "answered", values |-> values, status |-> status,
                errors |-> errors]

(* The honeypot and the timer answer "ok", and mail nothing.               *)
DropAsSpam ==
    /\ request.phase = "sent"
    /\ website \/ tooFast
    /\ Answer("ok", {}, request.values)
    /\ spam' = TRUE
    /\ UNCHANGED <<env, js, visitor, shown, edits, asks, delivered, history>>

Errors == demoSchema(Parsed(readValues(request.values)))

RefuseForm ==
    /\ request.phase = "sent" /\ ~website /\ ~tooFast
    /\ Errors # {}
    /\ Answer("invalid", Errors, readValues(request.values))
    /\ UNCHANGED <<env, js, visitor, shown, edits, asks, delivered, spam, history>>

NotConfigured ==
    /\ request.phase = "sent" /\ ~website /\ ~tooFast
    /\ Errors = {} /\ ~Configured(env)
    /\ Answer("failed", {}, readValues(request.values))
    /\ UNCHANGED <<env, js, visitor, shown, edits, asks, delivered, spam, history>>

(* The action awaits the sender: the mail goes out or not, and its answer  *)
(* is a success, or an error that may also come after the mail went out.   *)
SendMail ==
    /\ request.phase = "sent" /\ ~website /\ ~tooFast
    /\ Errors = {} /\ Configured(env)
    /\ request' = [request EXCEPT !.phase = "sending",
                                  !.values = readValues(request.values)]
    /\ delivered' \in BOOLEAN
    /\ UNCHANGED <<env, js, visitor, shown, edits, asks, spam, history>>

MutSendFails ==
    /\ request.phase = "sending"
    /\ Answer("ok", {}, request.values)
    /\ UNCHANGED <<env, js, visitor, shown, edits, asks, delivered, spam, history>>
SendFails ==
    /\ request.phase = "sending"
    /\ Answer("failed", {}, request.values)
    /\ UNCHANGED <<env, js, visitor, shown, edits, asks, delivered, spam, history>>

SendSucceeds ==
    /\ request.phase = "sending" /\ delivered
    /\ Answer("ok", {}, request.values)
    /\ UNCHANGED <<env, js, visitor, shown, edits, asks, delivered, spam, history>>

(***************************************************************************)
(* The answer arrives.  The form is filled with the values it returns,     *)
(* whatever was typed since (React resets or remounts it).  With           *)
(* JavaScript the page stays, startedAt included; without, it is rendered  *)
(* and stamped anew.                                                       *)
(***************************************************************************)
MutStampAfter(e) == FALSE
StampAfter(e) == IF js THEN e ELSE FALSE

Respond ==
    /\ request.phase = "answered"
    /\ shown' = [status |-> request.status, errors |-> request.errors,
                 values |-> request.values]
    /\ fields' = IF request.status = "ok" THEN fields ELSE request.values
    /\ elapsed' = StampAfter(elapsed)
    /\ request' = NoRequest
    /\ UNCHANGED <<env, js, website, patient, edits, asks, delivered, spam, history>>

(* The request never arrives, or its answer does not: the action's promise *)
(* rejects, and the page shows an error instead of the form.               *)
ConnectionBreaks ==
    /\ request.phase \in {"sent", "answered"}
    /\ shown' = [Idle EXCEPT !.status = "broken"]
    /\ request' = NoRequest
    /\ UNCHANGED <<env, js, visitor, edits, asks, delivered, spam, history>>

Server == DropAsSpam \/ RefuseForm \/ NotConfigured \/ SendMail \/ SendFails \/ SendSucceeds

DemoNext ==
    \/ Wait \/ (\E f \in Fields, v \in Contents : Edit(f, v)) \/ Submit \/ OpenPage
    \/ Server \/ Respond \/ ConnectionBreaks

DemoSpec == DemoInit /\ [][DemoNext]_demoVars

-----------------------------------------------------------------------------
DemoTypeOK ==
    /\ env \in Environments /\ js \in BOOLEAN /\ website \in BOOLEAN
    /\ fields \in [Fields -> Contents]
    /\ elapsed \in BOOLEAN /\ patient \in BOOLEAN
    /\ request \in [phase : {"none", "sent", "sending", "answered"},
                    values : [Fields -> Contents],
                    status : {"idle", "ok", "invalid", "failed"}, errors : SUBSET Fields]
    /\ shown \in [status : {"idle", "ok", "invalid", "failed", "broken"},
                  errors : SUBSET Fields, values : [Fields -> Contents]]
    /\ edits \in 0 .. MaxEdits /\ asks \in 0 .. MaxAsks
    /\ delivered \in BOOLEAN /\ spam \in BOOLEAN
    /\ sent \in [Fields -> Contents] /\ hurried \in BOOLEAN /\ restamped \in BOOLEAN

(* A person who took the time to fill in the form is thanked only when the *)
(* request was handed to the mail service. With JavaScript that holds also *)
(* for a form corrected and sent again at once. Without, it does not: the  *)
(* page that asks for the correction is stamped anew, and what is sent in  *)
(* less than MIN_FILL_MS from it is dropped, with thanks (restamped).      *)
ThanksAreEarned ==
    shown.status = "ok" /\ ~website /\ ~hurried => delivered \/ (~js /\ restamped)

(* Whatever the answer says to correct has a message beside its field: the *)
(* plan has none, and must never be what is wrong, also when none is made. *)
ErrorsAreShown == shown.status = "invalid" => shown.errors # {} /\ "plan" \notin shown.errors

(* A visitor who is asked to correct the form or to try again finds it as  *)
(* it was submitted, field by field, whatever the action made of it: only  *)
(* what was typed while the answer was out is lost.                        *)
NothingRetyped ==
    [][shown' # shown /\ shown'.status \in {"invalid", "failed"} => fields' = sent]_demoVars

(* A production deployment is never found unconfigured by a visitor.       *)
ProductionIsConfigured == env.production => senderFromEnv(env) = "resend" /\ Configured(env)

(* The form keeps the promise of DemoRequest.                              *)
ToldBy(status) ==
    CASE status = "ok" -> "thanks"
      [] status = "invalid" -> "correct"
      [] status = "failed" -> "sorry"
      [] status = "broken" -> "broken"
      [] OTHER -> "nothing"

Promise == INSTANCE DemoRequest WITH
    asked <- request.phase # "none", blocks <- js, mailed <- delivered, spam <- spam,
    told <- ToldBy(shown.status)

KeepsPromise == Promise!RequestSpec
=============================================================================
