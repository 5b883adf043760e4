----------------------------- MODULE ConsoleGate -----------------------------
(***************************************************************************)
(* The console's gate: which screen the browser shows, as a function of    *)
(* the query ["me"], of every other screen's queries, of signing in and    *)
(* out, and of what awd answers to a request that carries a given cookie.  *)
(*                                                                         *)
(* A request is sent with the cookie the browser holds at that moment, is  *)
(* served later, and its answer arrives later still, in any order with the *)
(* others or not at all.  A fetch the query cache gave up on is not        *)
(* aborted (no queryFn passes a signal): awd still serves it and its       *)
(* Set-Cookie still applies.                                               *)
(***************************************************************************)
EXTENDS QueryCache

CONSTANTS
    Routes,      \* the routes of the console that load data
    Slots,       \* the requests that may be in flight at once, 1 .. n
    MaxSessions, \* the sign-ins of a behaviour
    MaxEvents    \* what users and administrators do, and faults, in a behaviour

ASSUME GateAssumption ==
    /\ Slots \subseteq Nat \ {0}
    /\ MaxSessions \in Nat \ {0}
    /\ MaxEvents \in Nat
    /\ Routes # {} /\ Routes \cap {"idle", "me", "quiet", "logout"} = {}

VARIABLES
    sessions,   \* awd: the session rows alive
    admin,      \* awd: the user is in the administrators' group
    groups,     \* awd: group data and the session store answer
    cookie,     \* the browser's aw_session cookie, 0 when it has none
    issued,     \* sessions created so far
    net,        \* the requests in flight, per slot
    me,         \* the query ["me"] of Gate
    screens,    \* the query of each route's screen
    route,      \* the route shown
    signingOut, \* RootLayout's state
    events,     \* what is left of MaxEvents
    signedOut,  \* history: a sign-out was answered, and nobody signed in since
    alarm       \* history: a screen's query was refused, and ["me"] not served since

server  == <<sessions, admin, groups, issued>>
history == <<signedOut, alarm>>
vars == <<server, cookie, net, me, screens, route, signingOut, events, history>>

NoCookie == 0
Cookies  == 0 .. MaxSessions

(* A request in flight. kind is who waits for the answer: Gate's query, a  *)
(* route's query, signOut, or nobody in the gate (a mutation, or a fetch   *)
(* given up for a newer one). answer is 0 until it is served; clears is    *)
(* the Set-Cookie that removes the session cookie; aborted is a request of *)
(* a page that was left.                                                   *)
Kinds == {"idle", "me", "quiet", "logout"} \cup Routes
Answers == {0, 200, 204} \cup Failures
Requests == [kind : Kinds, cookie : Cookies, answer : Answers, clears : BOOLEAN,
             aborted : BOOLEAN]
AskWith(kind, c) ==
    [kind |-> kind, cookie |-> c, answer |-> 0, clears |-> FALSE, aborted |-> FALSE]
Ask(kind) == AskWith(kind, cookie)
Idle == AskWith("idle", NoCookie)

(* A slot is taken by the lowest free one first: slots are interchangeable.*)
Free(s) == net[s] = Idle
FirstFree(s) == Free(s) /\ \A t \in Slots : t < s => ~Free(t)

(***************************************************************************)
(* What Gate renders.                                                      *)
(***************************************************************************)
Gate ==
    CASE isPending(me)          -> "loading"
      [] me.error = 401         -> "signIn"
      [] me.error = 403         -> "noAccess"
      [] isError(me) /\ me.error \notin {401, 403} -> "unavailable"
      [] OTHER                  -> "console"

Shown == Gate = "console"

(***************************************************************************)
(* The page loads: ["me"] is asked for, and the page's earlier requests    *)
(* have nobody left to answer.                                             *)
(***************************************************************************)
Aborted(r) == IF r = Idle THEN r ELSE [r EXCEPT !.aborted = TRUE]

Load(s, c) ==
    /\ net' = [t \in Slots |-> IF t = s THEN AskWith("me", c) ELSE Aborted(net[t])]
    /\ me' = NewQuery("me", s)
    /\ screens' = [r \in Routes |-> NewQuery(r, 0)]
    /\ signingOut' = FALSE
    /\ alarm' = FALSE
    /\ UNCHANGED route

Init ==
    /\ admin = TRUE /\ groups = TRUE
    /\ cookie \in {NoCookie, 1} /\ issued = cookie        \* signed out, or in
    /\ sessions = {cookie} \ {NoCookie}
    /\ \E s \in Slots :
          /\ \A t \in Slots : s <= t
          /\ net = [t \in Slots |-> IF t = s THEN Ask("me") ELSE Idle]
          /\ me = NewQuery("me", s)
    /\ screens = [r \in Routes |-> NewQuery(r, 0)]
    /\ route \in Routes
    /\ signingOut = FALSE
    /\ events = MaxEvents
    /\ signedOut = FALSE /\ alarm = FALSE

(* A user acts, something happens to awd, or the network fails.            *)
Act == events > 0 /\ events' = events - 1

(***************************************************************************)
(* awd serves a request.  consoleUser: no live session 401, no group data  *)
(* 503, no longer an administrator 403; the 403 deletes every session of   *)
(* the user (a failure to do so is only logged).                           *)
(***************************************************************************)
consoleUser(r) ==
    CASE r.cookie \notin sessions -> 401
      [] r.cookie \in sessions /\ ~groups -> 503
      [] r.cookie \in sessions /\ groups /\ ~admin -> 403
      [] OTHER -> 200

Answered(s, status, clears) ==
    net' = [net EXCEPT ![s].answer = status, ![s].clears = clears]

ServeRead(s) ==
    /\ net[s].kind \in {"me", "quiet"} \cup Routes /\ net[s].answer = 0
    /\ LET status == consoleUser(net[s])
       IN  /\ Answered(s, status, \/ status = 403
                                  \/ status = 401 /\ net[s].cookie # NoCookie)
           /\ \/ status = 403 /\ sessions' = {}
              \/ UNCHANGED sessions
    /\ alarm' = (alarm /\ net[s].kind # "me")
    /\ UNCHANGED <<admin, groups, issued, cookie, me, screens, route, signingOut, events,
                   signedOut>>

(* The session store or the group store fails.                             *)
ServeUnavailable(s) ==
    /\ Act
    /\ net[s].kind \in {"me", "quiet"} \cup Routes /\ net[s].answer = 0
    /\ net[s].cookie # NoCookie
    /\ Answered(s, 503, FALSE)
    /\ UNCHANGED <<server, cookie, me, screens, route, signingOut, history>>

consoleLogout(s) ==
    /\ net[s].kind = "logout" /\ net[s].answer = 0
    /\ \/ /\ sessions' = sessions \ {net[s].cookie}
          /\ Answered(s, 204, TRUE)
          /\ UNCHANGED events
       \/ /\ Act /\ net[s].cookie # NoCookie        \* Sessions.Delete fails
          /\ UNCHANGED sessions
          /\ Answered(s, 500, FALSE)
    /\ UNCHANGED <<admin, groups, issued, cookie, me, screens, route, signingOut, history>>

(* The request or its answer is lost: fetch() throws.                      *)
Lose(s) ==
    /\ Act
    /\ net[s] # Idle /\ net[s].answer # Down
    /\ Answered(s, Down, FALSE)
    /\ UNCHANGED <<server, cookie, me, screens, route, signingOut, history>>

(***************************************************************************)
(* Answers arrive.  The slot s of the answer is free for what it triggers. *)
(***************************************************************************)
CookieAfter(r) == IF r.clears THEN NoCookie ELSE cookie
AskAgain(kind, r) == AskWith(kind, CookieAfter(r))
Arrives(r) == r.answer # 0 /\ ~r.aborted

(* RootLayout and the route's screen mount when the console comes back.    *)
Mount(s, r) ==
    LET q == screens[route]
    IN  /\ screens' = [screens EXCEPT ![route] = Fetch(q, s)]
        /\ net' = [net EXCEPT ![s] = IF q.fetch # 0 THEN Idle ELSE AskAgain(route, r)]
        /\ signingOut' = FALSE

MutReceiveMe(s) ==
    LET r == net[s]
        ok == r.answer = 200
    IN  /\ r.kind = "me" /\ Arrives(r)
        /\ cookie' = CookieAfter(r)
        /\ me' = IF ok THEN Succeed(me, "me") ELSE Start(Fail(me, r.answer), s)
        /\ IF ok /\ ~Shown
           THEN Mount(s, r)
           ELSE /\ net' = [net EXCEPT ![s] = IF ok THEN Idle ELSE AskAgain("me", r)]
                /\ UNCHANGED <<screens, signingOut>>
        /\ alarm' = FALSE
        /\ UNCHANGED <<server, route, events, signedOut>>
ReceiveMe(s) ==
    LET r == net[s]
        ok == r.answer = 200
    IN  /\ r.kind = "me" /\ Arrives(r)
        /\ cookie' = CookieAfter(r)
        /\ me' = IF ok THEN Succeed(me, "me") ELSE Fail(me, r.answer)
        /\ IF ok /\ ~Shown
           THEN Mount(s, r)
           ELSE /\ net' = [net EXCEPT ![s] = Idle]
                /\ UNCHANGED <<screens, signingOut>>
        /\ alarm' = FALSE
        /\ UNCHANGED <<server, route, events, signedOut>>

(* invalidateQueries(["me"]): Gate is always mounted, so the query is      *)
(* active.  A fetch it gives up keeps its slot until it is answered.       *)
InvalidateMe(s, r) ==
    /\ me' = Refetch(me, s)
    /\ net' = [t \in Slots |->
                 CASE t = s -> IF Joins(me) THEN Idle ELSE AskAgain("me", r)
                   [] t # s /\ t = me.fetch /\ ~Joins(me) -> [net[t] EXCEPT !.kind = "quiet"]
                   [] OTHER -> net[t]]

Refusals == {401, 403, 503}

MutOnQueryError(s, r) ==
    IF r.answer \in {401, 403}
    THEN InvalidateMe(s, r)
    ELSE net' = [net EXCEPT ![s] = Idle] /\ UNCHANGED me
(* QueryCache.onError for every query but ["me"].                          *)
OnQueryError(s, r) ==
    IF r.answer \in Refusals
    THEN InvalidateMe(s, r)
    ELSE net' = [net EXCEPT ![s] = Idle] /\ UNCHANGED me

ReceiveScreen(s) ==
    LET r == net[s]
    IN  /\ r.kind \in Routes /\ Arrives(r)
        /\ cookie' = CookieAfter(r)
        /\ IF r.answer = 200
           THEN /\ screens' = [screens EXCEPT ![r.kind] = Succeed(@, r.kind)]
                /\ net' = [net EXCEPT ![s] = Idle]
                /\ UNCHANGED me
           ELSE /\ screens' = [screens EXCEPT ![r.kind] = Fail(@, r.answer)]
                /\ OnQueryError(s, r)
        /\ alarm' = (alarm \/ r.answer \in Refusals)
        /\ UNCHANGED <<server, route, signingOut, events, signedOut>>

(* A mutation's answer reaches its own screen only: the handler above is   *)
(* the query cache's, and mutations are not in it.                         *)
ReceiveQuiet(s) ==
    LET r == net[s]
    IN  /\ r.kind = "quiet" /\ Arrives(r)
        /\ cookie' = CookieAfter(r)
        /\ net' = [net EXCEPT ![s] = Idle]
        /\ UNCHANGED <<server, me, screens, route, signingOut, events, history>>

(* The answer to a page that is gone.                                      *)
Vanish(s) ==
    /\ net[s].aborted /\ net[s].answer # 0
    /\ net' = [net EXCEPT ![s] = Idle]
    /\ UNCHANGED <<server, cookie, me, screens, route, signingOut, events, history>>

MutReceiveLogout(s) ==
    LET r == net[s]
    IN  /\ r.kind = "logout" /\ Arrives(r)
        /\ cookie' = CookieAfter(r)
        /\ signingOut' = FALSE
        /\ IF r.answer = 204 THEN net' = [net EXCEPT ![s] = Idle] /\ UNCHANGED me
                              ELSE InvalidateMe(s, r)
        /\ signedOut' = (signedOut \/ r.answer = 204)
        /\ UNCHANGED <<server, screens, route, events, alarm>>
(* signOut's finally: ["me"] is asked again whatever became of the POST.   *)
ReceiveLogout(s) ==
    LET r == net[s]
    IN  /\ r.kind = "logout" /\ Arrives(r)
        /\ cookie' = CookieAfter(r)
        /\ signingOut' = FALSE
        /\ InvalidateMe(s, r)
        /\ signedOut' = (signedOut \/ r.answer = 204)
        /\ UNCHANGED <<server, screens, route, events, alarm>>

(***************************************************************************)
(* What users do.                                                          *)
(***************************************************************************)
signOut(s) ==
    /\ Act /\ Shown /\ ~signingOut /\ FirstFree(s)
    /\ signingOut' = TRUE
    /\ net' = [net EXCEPT ![s] = Ask("logout")]
    /\ UNCHANGED <<server, cookie, me, screens, route, history>>

(* A button of a screen sends a mutation.                                  *)
Mutate(s) ==
    /\ Act /\ Shown /\ FirstFree(s)
    /\ net' = [net EXCEPT ![s] = Ask("quiet")]
    /\ UNCHANGED <<server, cookie, me, screens, route, signingOut, history>>

Navigate(s, to) ==
    /\ Act /\ Shown /\ FirstFree(s) /\ to # route
    /\ route' = to
    /\ screens' = [screens EXCEPT ![to] = Fetch(@, s)]
    /\ net' = IF screens[to].fetch # 0 THEN net ELSE [net EXCEPT ![s] = Ask(to)]
    /\ UNCHANGED <<server, cookie, me, signingOut, history>>

(* The window gains focus: every query on screen is fetched unless it is   *)
(* in flight.                                                              *)
Focus(s, t) ==
    LET asksMe == me.fetch = 0
        asksScreen == Shown /\ screens[route].fetch = 0
    IN  /\ Act /\ Free(s) /\ Free(t) /\ s < t
        /\ asksMe \/ asksScreen
        /\ me' = Fetch(me, s)
        /\ screens' = IF Shown THEN [screens EXCEPT ![route] = Fetch(@, t)] ELSE screens
        /\ net' = [u \in Slots |->
                     CASE u = s /\ asksMe -> Ask("me")
                       [] u = t /\ asksScreen -> Ask(route)
                       [] OTHER -> net[u]]
        /\ UNCHANGED <<server, cookie, route, signingOut, history>>

Reload(s) ==
    /\ Act /\ FirstFree(s)
    /\ Load(s, cookie)
    /\ UNCHANGED <<server, cookie, signedOut>>

(* The identity provider sends the browser back and consoleCallback makes  *)
(* a session: in this tab, from the sign-in screen, which loads the page   *)
(* anew; or in another tab, which shares the cookie.                       *)
NewSession ==
    /\ issued < MaxSessions /\ admin /\ groups
    /\ issued' = issued + 1
    /\ sessions' = sessions \cup {issued + 1}
    /\ cookie' = issued + 1
    /\ signedOut' = FALSE
    /\ UNCHANGED <<admin, groups>>

SignIn(s) ==
    /\ Act /\ Gate = "signIn" /\ FirstFree(s)
    /\ NewSession
    /\ Load(s, issued + 1)

SignInElsewhere ==
    /\ Act
    /\ NewSession
    /\ UNCHANGED <<net, me, screens, route, signingOut, alarm>>

(***************************************************************************)
(* What happens to awd meanwhile.                                          *)
(***************************************************************************)
Expire ==
    /\ Act
    /\ \E c \in sessions : sessions' = sessions \ {c}
    /\ UNCHANGED <<admin, groups, issued, cookie, net, me, screens, route, signingOut, history>>

ChangeGroups ==
    /\ Act
    /\ \/ admin' = ~admin /\ UNCHANGED groups
       \/ groups' = ~groups /\ UNCHANGED admin
    /\ UNCHANGED <<sessions, issued, cookie, net, me, screens, route, signingOut,
                   history>>

Network(s) ==
    \/ ServeRead(s) \/ consoleLogout(s) \/ Vanish(s)
    \/ ReceiveMe(s) \/ ReceiveScreen(s) \/ ReceiveQuiet(s) \/ ReceiveLogout(s)

User ==
    \/ \E s \in Slots : signOut(s) \/ Mutate(s) \/ Reload(s) \/ SignIn(s)
    \/ \E s \in Slots, to \in Routes : Navigate(s, to)
    \/ \E s, t \in Slots : Focus(s, t)
    \/ SignInElsewhere

Next ==
    \/ \E s \in Slots : Network(s) \/ ServeUnavailable(s) \/ Lose(s)
    \/ User \/ Expire \/ ChangeGroups

Spec == Init /\ [][Next]_vars

(* awd serves what it is sent and answers arrive, or the connection breaks.*)
Fairness == \A s \in Slots : WF_vars(Network(s))
LiveSpec == Spec /\ Fairness
-----------------------------------------------------------------------------
TypeOK ==
    /\ sessions \subseteq 1 .. MaxSessions
    /\ admin \in BOOLEAN /\ groups \in BOOLEAN
    /\ cookie \in Cookies /\ issued \in Cookies
    /\ net \in [Slots -> Requests]
    /\ me \in Queries({"me"}, {0} \cup Slots)
    /\ screens \in [Routes -> Queries(Routes, {0} \cup Slots)]
    /\ route \in Routes
    /\ signingOut \in BOOLEAN
    /\ events \in 0 .. MaxEvents
    /\ signedOut \in BOOLEAN /\ alarm \in BOOLEAN

(* Every query that is being fetched has its own request in flight, and no *)
(* request reports to a query that waits for another one: an answer of a   *)
(* fetch that was given up, or of an earlier page, never settles a query.  *)
OneWaiter ==
    /\ me.fetch # 0 => net[me.fetch].kind = "me" /\ ~net[me.fetch].aborted
    /\ \A r \in Routes : screens[r].fetch # 0 =>
          net[screens[r].fetch].kind = r /\ ~net[screens[r].fetch].aborted
    /\ \A s \in Slots : ~net[s].aborted =>
          /\ net[s].kind = "me" => me.fetch = s
          /\ net[s].kind \in Routes => screens[net[s].kind].fetch = s

(* After a sign-out that awd answered, the console is not shown again once *)
(* ["me"] has settled, until somebody signs in: an older fetch of ["me"],  *)
(* sent with the session that was alive, does not bring it back.           *)
SignedOutStays == signedOut /\ me.fetch = 0 => ~Shown

(* When a screen's query is refused and awd admits nobody from then on,    *)
(* the browser does leave the console (app.tsx's onError re-asks ["me"]).  *)
Open == sessions # {} /\ admin /\ groups
RefusedLeavesConsole == [](alarm /\ []~Open => <>~Shown)

(* Nothing asks for ever: once users and administrators are done, the      *)
(* console's requests end. The loop app.tsx's comment warns of, ["me"]     *)
(* invalidating itself on its own 401, does not happen.                    *)
Quiesces == <>[](\A s \in Slots : Free(s))
=============================================================================
