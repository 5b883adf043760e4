----------------------------- MODULE MCWebSite -----------------------------
(***************************************************************************)
(* The demo form and the documentation share nothing but the process that  *)
(* serves them: a behaviour exercises one of them, the other stays as it   *)
(* started.                                                                *)
(***************************************************************************)
EXTENDS DemoForm, DocsSite

VARIABLE part  \* the part of the site this behaviour exercises

webVars == <<demoVars, docsVars, part>>

MCFieldOrder == <<"name", "plan">>
H(base, depth) == [base |-> base, depth |-> depth]
MCBodies == {
    <<>>,
    <<H(<<1>>, 2), H(<<1>>, 3), H(<<1>>, 2)>>,
    <<H(<<1>>, 1), H(<<2>>, 2), H(<<1>>, 2)>>,
    <<H(<<1, 1>>, 2), H(<<1>>, 4), H(<<1>>, 2)>>}

WebInit ==
    /\ part \in {"demo", "docs"}
    /\ DemoInit /\ (part # "demo" => env.production /\ js /\ ~website)
    /\ DocsInit /\ (part # "docs" => DOMAIN docs = {})

WebNext ==
    /\ UNCHANGED part
    /\ \/ part = "demo" /\ DemoNext /\ UNCHANGED docsVars
       \/ part = "docs" /\ DocsNext /\ UNCHANGED demoVars

WebSpec == WebInit /\ [][WebNext]_webVars
=============================================================================
