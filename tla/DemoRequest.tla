---------------------------- MODULE DemoRequest ----------------------------
(***************************************************************************)
(* What the demo form promises, one request at a time: a request is mailed *)
(* at most once, the visitor is thanked only for a request that was mailed *)
(* or taken for spam, and told to correct the form only when nothing was   *)
(* mailed.  A failure says nothing about the mail, so a visitor who sends  *)
(* again after one may be mailed twice.  The same page takes another       *)
(* request only after the last one was not accepted, or, where it cannot   *)
(* hold the visitor back, in place of one that is out.                     *)
(***************************************************************************)
VARIABLES
    asked,   \* a request is being answered
    blocks,  \* the page takes no other meanwhile
    mailed,  \* that request was mailed
    spam,    \* that request was taken for spam
    told     \* what the visitor was last told

demoRequestVars == <<asked, blocks, mailed, spam, told>>

RequestInit ==
    /\ asked = FALSE /\ blocks \in BOOLEAN
    /\ mailed = FALSE /\ spam = FALSE /\ told = "nothing"

(* A new request, with its own mail.                                       *)
AskDemo ==
    /\ ~asked \/ ~blocks
    /\ told \in {"nothing", "correct", "sorry"}
    /\ asked' = TRUE /\ mailed' = FALSE /\ spam' = FALSE
    /\ UNCHANGED <<blocks, told>>

Mail ==
    /\ asked /\ ~mailed /\ ~spam
    /\ mailed' = TRUE
    /\ UNCHANGED <<asked, blocks, spam, told>>

TakeForSpam ==
    /\ asked /\ ~mailed /\ ~spam
    /\ spam' = TRUE
    /\ UNCHANGED <<asked, blocks, mailed, told>>

Tell(what) ==
    /\ asked
    /\ what = "thanks" => mailed \/ spam
    /\ what = "correct" => ~mailed /\ ~spam
    /\ asked' = FALSE /\ told' = what
    /\ UNCHANGED <<blocks, mailed, spam>>

(* The visitor opens the page anew.                                        *)
Reopen ==
    /\ ~asked
    /\ told' = "nothing" /\ mailed' = FALSE /\ spam' = FALSE
    /\ UNCHANGED <<asked, blocks>>

RequestNext ==
    \/ AskDemo \/ Mail \/ TakeForSpam \/ Reopen
    \/ \E what \in {"thanks", "correct", "sorry", "broken"} : Tell(what)

RequestSpec == RequestInit /\ [][RequestNext]_demoRequestVars
=============================================================================
