-------------------------- MODULE EnrollmentScreen --------------------------
(***************************************************************************)
(* The console's Enrollment screen: a token is created by a POST, shown    *)
(* once, and copied by an asynchronous write to the clipboard.             *)
(***************************************************************************)
EXTENDS Naturals

CONSTANT MaxTokens    \* POSTs of a behaviour; token n is the n-th awd creates

ASSUME TokensAssumption == MaxTokens \in Nat

VARIABLES
    created,    \* awd: tokens created
    posted,     \* POSTs sent so far
    creation,   \* this screen's POST: "idle", "sent", "created" or "failed"
    answer,     \* the token in the answer
    result,     \* the token shown, 0 for none
    copied,     \* the button says "Copied"
    copying,    \* the tokens of copy() calls whose writeText is not settled
    astray,     \* those of a screen that was left since
    clipboard,  \* the token in the clipboard, 0 for anything else
    overtaken   \* history: a token arrived while an earlier one was being copied

enrollScreenVars ==
    <<created, posted, creation, answer, result, copied, copying, astray, clipboard, overtaken>>

EnrollScreenInit ==
    /\ created = 0 /\ posted = 0 /\ creation = "idle" /\ answer = 0
    /\ result = 0 /\ copied = FALSE /\ copying = {} /\ astray = {}
    /\ clipboard = 0 /\ overtaken = FALSE

(* The button is disabled while the POST is out.                           *)
submit ==
    /\ creation \in {"idle", "failed"} /\ posted < MaxTokens
    /\ posted' = posted + 1
    /\ result' = 0
    /\ creation' = "sent"
    /\ UNCHANGED <<created, answer, copied, copying, astray, clipboard, overtaken>>

(* awd creates a token, or refuses (a bad user or duration); the answer    *)
(* may be lost, and then a token nobody saw stays valid.                   *)
ServeToken ==
    /\ creation = "sent"
    /\ \/ created' = created + 1 /\ creation' = "created" /\ answer' = created + 1
       \/ created' = created + 1 /\ creation' = "failed" /\ UNCHANGED answer
       \/ creation' = "failed" /\ UNCHANGED <<created, answer>>
    /\ UNCHANGED <<posted, result, copied, copying, astray, clipboard, overtaken>>

MutTokenArrives ==
    /\ creation = "created"
    /\ result' = answer
    /\ creation' = "idle"
    /\ overtaken' = (copying \cup astray # {})
    /\ UNCHANGED <<created, posted, answer, copied, copying, astray, clipboard>>
TokenArrives ==
    /\ creation = "created"
    /\ result' = answer /\ copied' = FALSE
    /\ creation' = "idle"
    /\ overtaken' = (copying \cup astray # {})
    /\ UNCHANGED <<created, posted, answer, copying, astray, clipboard>>

copy ==
    /\ result # 0
    /\ copying' = copying \cup {result}
    /\ UNCHANGED <<created, posted, creation, answer, result, copied, astray, clipboard, overtaken>>

(* writeText settles: the call's own token is in the clipboard and the     *)
(* button of now says so, or the browser refused.                          *)
CopySettles(t) ==
    /\ t \in copying
    /\ copying' = copying \ {t}
    /\ \/ clipboard' = t /\ copied' = TRUE
       \/ UNCHANGED <<clipboard, copied>>
    /\ UNCHANGED <<created, posted, creation, answer, result, astray, overtaken>>

StraySettles(t) ==
    /\ t \in astray
    /\ astray' = astray \ {t}
    /\ clipboard' \in {t, clipboard}
    /\ UNCHANGED <<created, posted, creation, answer, result, copied, copying, overtaken>>

(* Another screen and back; a POST left behind shows its token nowhere.    *)
LeaveEnrollment ==
    /\ creation' = "idle" /\ answer' = 0
    /\ result' = 0 /\ copied' = FALSE
    /\ copying' = {} /\ astray' = astray \cup copying
    /\ UNCHANGED <<created, posted, clipboard, overtaken>>

EnrollScreenNext ==
    \/ submit \/ ServeToken \/ TokenArrives \/ copy \/ LeaveEnrollment
    \/ \E t \in 1 .. MaxTokens : CopySettles(t) \/ StraySettles(t)

EnrollScreenSpec == EnrollScreenInit /\ [][EnrollScreenNext]_enrollScreenVars

-----------------------------------------------------------------------------
EnrollScreenTypeOK ==
    /\ created \in 0 .. MaxTokens /\ posted \in 0 .. MaxTokens /\ created <= posted
    /\ creation \in {"idle", "sent", "created", "failed"}
    /\ answer \in 0 .. MaxTokens /\ result \in 0 .. MaxTokens
    /\ copied \in BOOLEAN /\ copying \subseteq 1 .. MaxTokens
    /\ astray \subseteq 1 .. MaxTokens
    /\ clipboard \in 0 .. MaxTokens /\ overtaken \in BOOLEAN

(* "Copied" beside a token means that token is in the clipboard, not the   *)
(* one shown before it, unless it arrived while that one was being copied. *)
CopiedIsInClipboard ==
    result # 0 /\ copied /\ ~overtaken => clipboard = result
=============================================================================
