------------------------------ MODULE DocsSite ------------------------------
(***************************************************************************)
(* The documentation part of the web site: the markdown files under        *)
(* docs/site are parsed into pages when the site is built, listed in the   *)
(* navigation, found by their path, and rendered one heading at a time     *)
(* with a counter of headings that all renders of the process share.       *)
(*                                                                         *)
(* A heading's slug is a sequence: <<1>> for "install", <<1, 1>> for       *)
(* "install-1", so that appending a number is the code's `${base}-${n}`.   *)
(***************************************************************************)
EXTENDS Naturals, Sequences, FiniteSets

CONSTANTS
    Files,    \* names of markdown files, "index" among them
    Bodies    \* what a page can hold: sequences of headings [base, depth]

ASSUME DocsAssumption ==
    /\ "" \notin Files
    /\ Bodies \subseteq Seq([base : Seq(Nat), depth : 1 .. 6])

SECTIONS == {"get-started", "security-review", "guides", "reference"}

(* A file may lack a key of the frontmatter or name no section of the site.*)
Sources == [complete : BOOLEAN, section : SECTIONS \cup {"blog"}, body : Bodies]

VARIABLES
    docs,     \* the files: a function from their names to their sources
    build,    \* "none", "done", or "failed" when parseDoc threw
    page,     \* the page last rendered
    at,       \* headings of it rendered so far
    seen,     \* module-level: how often each base was seen
    anchors   \* the ids given so far; <<>> stands for none

docsVars == <<docs, build, page, at, seen, anchors>>

Bases == UNION {{b[i].base : i \in 1 .. Len(b)} : b \in Bodies}
NoneSeen == [b \in Bases |-> 0]

DocsInit ==
    /\ docs \in UNION {[D -> Sources] : D \in SUBSET Files}
    /\ build = "none"
    /\ page = "" /\ at = 0 /\ seen = NoneSeen /\ anchors = <<>>

MutParseDoc(src) == src.complete
parseDoc(src) == src.complete /\ src.section \in SECTIONS

Build ==
    /\ build = "none"
    /\ build' = IF \A f \in DOMAIN docs : parseDoc(docs[f]) THEN "done" ELSE "failed"
    /\ UNCHANGED <<docs, page, at, seen, anchors>>

docSlug(f) == IF f = "index" THEN <<>> ELSE <<f>>
docHref(f) == <<"docs">> \o docSlug(f)
find(path) == {f \in DOMAIN docs : docSlug(f) = path}
navSections == [s \in SECTIONS |-> {f \in DOMAIN docs : docs[f].section = s}]

Body == docs[page].body
Rendering == page # "" /\ at < Len(Body)

(* renderMarkdown is synchronous: no render starts within another.         *)
MutRenderMarkdown(f) ==
    /\ build = "done" /\ ~Rendering /\ f \in find(docSlug(f))
    /\ page' = f /\ at' = 0 /\ anchors' = <<>>
    /\ UNCHANGED <<docs, build, seen>>
renderMarkdown(f) ==
    /\ build = "done" /\ ~Rendering /\ f \in find(docSlug(f))
    /\ seen' = NoneSeen
    /\ page' = f /\ at' = 0 /\ anchors' = <<>>
    /\ UNCHANGED <<docs, build>>

(* A first level heading becomes a second level one; deeper than three, a  *)
(* heading gets no id and is not counted.                                  *)
walkTokens(h) == [h EXCEPT !.depth = IF @ = 1 THEN 2 ELSE @]
Titled(h) == walkTokens(h).depth \in {2, 3}

heading ==
    /\ Rendering
    /\ LET h == Body[at + 1]
           n == seen[h.base]
       IN  /\ at' = at + 1
           /\ seen' = IF Titled(h) THEN [seen EXCEPT ![h.base] = n + 1] ELSE seen
           /\ anchors' = Append(anchors, CASE ~Titled(h) -> <<>>
                                           [] Titled(h) /\ n = 0 -> h.base
                                           [] OTHER -> Append(h.base, n))
    /\ UNCHANGED <<docs, build, page>>

DocsNext == Build \/ heading \/ \E f \in DOMAIN docs : renderMarkdown(f)
DocsSpec == DocsInit /\ [][DocsNext]_docsVars

-----------------------------------------------------------------------------
DocsTypeOK ==
    /\ docs \in UNION {[D -> Sources] : D \in SUBSET Files}
    /\ build \in {"none", "done", "failed"}
    /\ page \in DOMAIN docs \cup {""}
    /\ at \in Nat /\ seen \in [Bases -> Nat]
    /\ anchors \in Seq(Seq(Nat)) /\ Len(anchors) = at

(* A link to a section of a page, made when the page is written, works     *)
(* whatever was rendered before: the ids of a page depend on nothing but   *)
(* its own headings, the nth repetition of one carrying the number n.      *)
AnchorsAreOwn ==
    \A i \in 1 .. at :
        LET repeats == Cardinality({j \in 1 .. i - 1 : Titled(Body[j])
                                                       /\ Body[j].base = Body[i].base})
        IN  /\ Titled(Body[i]) => anchors[i] = IF repeats = 0 THEN Body[i].base
                                               ELSE Append(Body[i].base, repeats)
            /\ ~Titled(Body[i]) => anchors[i] = <<>>

(* A site that was built lists every page once, and every link leads to    *)
(* the page it names, the index at the root.                               *)
NavReachesAll ==
    build = "done" =>
        \A f \in DOMAIN docs :
            /\ Cardinality({s \in SECTIONS : f \in navSections[s]}) = 1
            /\ find(SubSeq(docHref(f), 2, Len(docHref(f)))) = {f}
            /\ f = "index" => find(<<>>) = {f}
=============================================================================
