------------------------- MODULE ConsoleGateProofs -------------------------
(***************************************************************************)
(* Proofs about the console's gate, for every set of routes, every number  *)
(* of requests in flight and every bound.                                  *)
(*                                                                         *)
(* That a sign-out holds rests on three facts: no answer settles ["me"]    *)
(* but the one of the fetch it waits for (OneWaiter); a sign-out can only  *)
(* be answered to a page whose ["me"] has data, so that the invalidation   *)
(* gives an older fetch up and does not join it; and from then on every    *)
(* fetch of ["me"] goes out without a cookie (SignInv).                    *)
(***************************************************************************)
EXTENDS ConsoleGate, QueryCacheProofs

Fetches == {0} \cup Slots
MeQueries == Queries({"me"}, Fetches)
ScreenQueries == Queries(Routes, Fetches)
Data == {"me", "quiet"} \cup Routes

(* A request for data is not answered as a sign-out is, nor the converse.  *)
AnswerInv ==
    \A s \in Slots :
        /\ net[s].kind \in Data => net[s].answer # 204
        /\ net[s].kind = "logout" => net[s].answer # 200
        /\ net[s].kind = "logout" /\ net[s].answer = 204 => net[s].clears

SignInv ==
    /\ \A s \in Slots : net[s].kind = "logout" /\ ~net[s].aborted => me.got
    /\ signedOut =>
          /\ cookie = NoCookie
          /\ me.fetch = 0 => me.error # 0
          /\ me.fetch # 0 => /\ net[me.fetch].cookie = NoCookie
                             /\ net[me.fetch].answer # 200

GateInv == TypeOK /\ AnswerInv /\ OneWaiter /\ SignInv

-----------------------------------------------------------------------------
(* Requests.                                                               *)
LEMMA KindsDiffer ==
    /\ "me" \notin Routes /\ "quiet" \notin Routes
    /\ "logout" \notin Routes /\ "idle" \notin Routes
    /\ 0 \notin Slots /\ Slots \subseteq Nat
  BY GateAssumption

LEMMA AskTypes ==
    ASSUME NEW k \in Kinds, NEW c \in Cookies
    PROVE  /\ AskWith(k, c) \in Requests
           /\ AskWith(k, c).kind = k /\ AskWith(k, c).cookie = c
           /\ AskWith(k, c).answer = 0 /\ ~AskWith(k, c).aborted
           /\ ~AskWith(k, c).clears
  BY DEF AskWith, Requests, Answers

LEMMA IdleFields ==
    Idle \in Requests /\ Idle.kind = "idle" /\ Idle.answer = 0 /\ ~Idle.aborted
  <1>1. "idle" \in Kinds /\ NoCookie \in Cookies
    BY GateAssumption DEF Kinds, NoCookie, Cookies
  <1> QED
    BY <1>1, AskTypes DEF Idle

LEMMA RequestTypes ==
    ASSUME NEW r \in Requests
    PROVE  /\ r.kind \in Kinds /\ r.cookie \in Cookies /\ r.answer \in Answers
           /\ r.clears \in BOOLEAN /\ r.aborted \in BOOLEAN
           /\ [r EXCEPT !.kind = "quiet"] \in Requests
           /\ [r EXCEPT !.kind = "quiet"].kind = "quiet"
           /\ [r EXCEPT !.kind = "quiet"].cookie = r.cookie
           /\ [r EXCEPT !.kind = "quiet"].answer = r.answer
           /\ [r EXCEPT !.kind = "quiet"].clears = r.clears
           /\ [r EXCEPT !.kind = "quiet"].aborted = r.aborted
  BY DEF Requests, Kinds

LEMMA AnsweredTypes ==
    ASSUME NEW r \in Requests, NEW a \in Answers, NEW b \in BOOLEAN
    PROVE  /\ [r EXCEPT !.answer = a, !.clears = b] \in Requests
           /\ [r EXCEPT !.answer = a, !.clears = b].kind = r.kind
           /\ [r EXCEPT !.answer = a, !.clears = b].cookie = r.cookie
           /\ [r EXCEPT !.answer = a, !.clears = b].answer = a
           /\ [r EXCEPT !.answer = a, !.clears = b].clears = b
           /\ [r EXCEPT !.answer = a, !.clears = b].aborted = r.aborted
  BY DEF Requests

LEMMA AbortedTypes ==
    ASSUME NEW r \in Requests
    PROVE  /\ Aborted(r) \in Requests
           /\ Aborted(r).kind = r.kind /\ Aborted(r).answer = r.answer
           /\ Aborted(r).clears = r.clears
           /\ ~Aborted(r).aborted => r = Idle
  BY IdleFields DEF Aborted, Requests

(* Queries.                                                                *)
LEMMA GateQuery ==
    ASSUME NEW D, NEW q \in Queries(D, Fetches), NEW s \in Fetches
    PROVE  /\ Fetch(q, s) \in Queries(D, Fetches) /\ Fetch(q, s).got = q.got
           /\ Fetch(q, s).fetch = IF q.fetch # 0 THEN q.fetch ELSE s
           /\ q.fetch # 0 => Fetch(q, s) = q
           /\ Refetch(q, s) \in Queries(D, Fetches) /\ Refetch(q, s).got = q.got
           /\ ~Joins(q) => Refetch(q, s).fetch = s
           /\ Joins(q) => Refetch(q, s) = q
  <1>1. Fetch(q, s) \in Queries(D, Fetches) /\ Refetch(q, s) \in Queries(D, Fetches)
    BY DEF Fetch, Refetch, Start, Queries
  <1>2. /\ Fetch(q, s).got = q.got
        /\ Fetch(q, s).fetch = IF q.fetch # 0 THEN q.fetch ELSE s
        /\ q.fetch # 0 => Fetch(q, s) = q
    BY DEF Fetch, Start, Queries
  <1>3. /\ Refetch(q, s).got = q.got
        /\ ~Joins(q) => Refetch(q, s).fetch = s
        /\ Joins(q) => Refetch(q, s) = q
    BY DEF Refetch, Start, Queries
  <1> QED
    BY <1>1, <1>2, <1>3

LEMMA GateAnswers ==
    ASSUME NEW D, NEW q \in Queries(D, Fetches), NEW d \in D, NEW e \in Failures
    PROVE  /\ Succeed(q, d) \in Queries(D, Fetches) /\ Succeed(q, d).fetch = 0
           /\ Succeed(q, d).got
           /\ Fail(q, e) \in Queries(D, Fetches) /\ Fail(q, e).fetch = 0
           /\ Fail(q, e).got = q.got /\ Fail(q, e).error = e /\ e # 0
  <1>1. Succeed(q, d) \in Queries(D, Fetches) /\ Succeed(q, d).fetch = 0 /\ Succeed(q, d).got
    BY DEF Succeed, Queries, Fetches
  <1>2. /\ Fail(q, e) \in Queries(D, Fetches) /\ Fail(q, e).fetch = 0
        /\ Fail(q, e).got = q.got /\ Fail(q, e).error = e
    BY DEF Fail, Queries, Fetches
  <1>3. e # 0
    BY DEF Failures, Down
  <1> QED
    BY <1>1, <1>2, <1>3

LEMMA NewQueries ==
    /\ \A s \in Fetches : /\ NewQuery("me", s) \in MeQueries
                          /\ NewQuery("me", s).fetch = s
    /\ \A r \in Routes : NewQuery(r, 0) \in ScreenQueries /\ NewQuery(r, 0).fetch = 0
  BY DEF NewQuery, MeQueries, ScreenQueries, Queries, Fetches

(* The console is on screen only with data.                                *)
LEMMA ShownFacts ==
    ASSUME me \in MeQueries
    PROVE  /\ Shown => me.got /\ me.error = 0
           /\ me.error # 0 => ~Shown
  BY DEF Shown, Gate, isPending, isError, NoError, MeQueries, Queries

-----------------------------------------------------------------------------
(* The effect of the parts the actions are made of.                        *)
LEMMA InvalidateEffect ==
    ASSUME TypeOK, NEW s \in Slots, NEW r \in Requests, InvalidateMe(s, r)
    PROVE  /\ me' \in MeQueries /\ me'.got = me.got /\ net' \in [Slots -> Requests]
           /\ Joins(me) => /\ me' = me
                           /\ \A t \in Slots : net'[t] = IF t = s THEN Idle ELSE net[t]
           /\ ~Joins(me) =>
                 /\ me'.fetch = s /\ net'[s] = AskWith("me", CookieAfter(r))
                 /\ \A t \in Slots \ {s} :
                       net'[t] = IF t = me.fetch THEN [net[t] EXCEPT !.kind = "quiet"]
                                                 ELSE net[t]
  <1>1. me \in MeQueries /\ s \in Fetches /\ net \in [Slots -> Requests]
    BY DEF TypeOK, MeQueries, Fetches
  <1>2. me' = Refetch(me, s)
    BY DEF InvalidateMe
  <1>3. /\ me' \in MeQueries /\ me'.got = me.got
        /\ ~Joins(me) => me'.fetch = s
        /\ Joins(me) => me' = me
    BY <1>1, <1>2, GateQuery DEF MeQueries
  <1>4. \A t \in Slots :
          net'[t] = CASE t = s -> IF Joins(me) THEN Idle ELSE AskWith("me", CookieAfter(r))
                      [] t # s /\ t = me.fetch /\ ~Joins(me) -> [net[t] EXCEPT !.kind = "quiet"]
                      [] OTHER -> net[t]
    BY DEF InvalidateMe, AskAgain
  <1>5. CookieAfter(r) \in Cookies
    BY GateAssumption DEF CookieAfter, Cookies, NoCookie, TypeOK
  <1>6. /\ AskWith("me", CookieAfter(r)) \in Requests /\ Idle \in Requests
        /\ \A t \in Slots : net[t] \in Requests /\ [net[t] EXCEPT !.kind = "quiet"] \in Requests
    BY <1>1, <1>5, AskTypes, IdleFields, RequestTypes DEF Kinds
  <1>7. Joins(me) => \A t \in Slots : net'[t] = IF t = s THEN Idle ELSE net[t]
    BY <1>4
  <1>8. ~Joins(me) =>
          /\ net'[s] = AskWith("me", CookieAfter(r))
          /\ \A t \in Slots \ {s} :
                net'[t] = IF t = me.fetch THEN [net[t] EXCEPT !.kind = "quiet"] ELSE net[t]
    BY <1>4
  <1>9. \A t \in Slots : net'[t] \in Requests
    BY <1>6, <1>7, <1>8
  <1>10. net' \in [Slots -> Requests]
    BY <1>9 DEF InvalidateMe
  <1> QED
    BY <1>3, <1>7, <1>8, <1>10
(***************************************************************************)
(* The invariant without the type of what the step leaves alone.           *)
(***************************************************************************)
NetInv == AnswerInv /\ OneWaiter /\ SignInv

(* A request is answered, or lost.                                         *)
LEMMA AnsweredStep ==
    ASSUME GateInv, NEW s \in Slots, NEW a \in Answers, NEW b \in BOOLEAN,
           Answered(s, a, b), UNCHANGED <<me, screens, cookie, signedOut>>,
           net[s].kind \in Data => a # 204,
           net[s].kind = "logout" => a # 200,
           net[s].kind = "logout" /\ a = 204 => b = TRUE,
           a = 200 => net[s].cookie # NoCookie
    PROVE  net' \in [Slots -> Requests] /\ NetInv'
  <1>1. net \in [Slots -> Requests] /\ \A t \in Slots : net[t] \in Requests
    BY DEF GateInv, TypeOK
  <1>2. net' = [net EXCEPT ![s] = [net[s] EXCEPT !.answer = a, !.clears = b]]
    BY DEF Answered
  <1> DEFINE q == [net[s] EXCEPT !.answer = a, !.clears = b]
  <1>a. q \in Requests
    BY <1>1, AnsweredTypes
  <1>b. /\ q.kind = net[s].kind /\ q.cookie = net[s].cookie
        /\ q.aborted = net[s].aborted /\ q.answer = a
    BY <1>1 DEF Requests
  <1>c. b = TRUE => q.clears
    BY <1>1 DEF Requests
  <1>d. net' = [net EXCEPT ![s] = q]
    BY <1>2
  <1> HIDE DEF q
  <1>3. /\ net' \in [Slots -> Requests] /\ net'[s] = q
        /\ \A t \in Slots : t # s => net'[t] = net[t]
    BY <1>1, <1>a, <1>d
  <1>4. AnswerInv'
    <2>1. ASSUME NEW t \in Slots
          PROVE  /\ net'[t].kind \in Data => net'[t].answer # 204
                 /\ net'[t].kind = "logout" => net'[t].answer # 200
                 /\ net'[t].kind = "logout" /\ net'[t].answer = 204 => net'[t].clears
      <3>1. CASE t = s
        BY <1>3, <1>b, <1>c, <3>1
      <3>2. CASE t # s
        <4>1. net'[t] = net[t]
          BY <1>3, <3>2
        <4> QED
          BY <4>1 DEF GateInv, AnswerInv
      <3> QED
        BY <3>1, <3>2
    <2> QED
      BY <2>1 DEF AnswerInv
  <1>k. \A t \in Slots : /\ net'[t].kind = net[t].kind /\ net'[t].cookie = net[t].cookie
                         /\ net'[t].aborted = net[t].aborted
    <2> TAKE t \in Slots
    <2>1. CASE t = s
      BY <1>3, <1>b, <2>1
    <2>2. CASE t # s
      BY <1>3, <2>2
    <2> QED
      BY <2>1, <2>2
  <1>5. OneWaiter'
    BY <1>k DEF GateInv, OneWaiter, TypeOK, Queries
  <1>6. SignInv'
    <2>1. me.fetch # 0 => me.fetch \in Slots
      BY DEF GateInv, TypeOK, Queries
    <2>2. \A t \in Slots : net'[t].kind = "logout" /\ ~net'[t].aborted => me'.got
      BY <1>k DEF GateInv, SignInv
    <2>3. ASSUME signedOut', me.fetch # 0
          PROVE  net'[me.fetch].cookie = NoCookie /\ net'[me.fetch].answer # 200
      <3>1. net[me.fetch].cookie = NoCookie /\ net[me.fetch].answer # 200
        BY <2>3 DEF GateInv, SignInv
      <3>2. CASE me.fetch = s
        BY <1>3, <1>b, <3>1, <3>2
      <3>3. CASE me.fetch # s
        BY <1>3, <2>1, <2>3, <3>1, <3>3
      <3> QED
        BY <3>2, <3>3
    <2> QED
      BY <2>2, <2>3 DEF GateInv, SignInv
  <1> QED
    BY <1>3, <1>4, <1>5, <1>6 DEF NetInv

LEMMA RefusedStep ==
    ASSUME GateInv, NEW s \in Slots, NEW a \in Answers, a # 200, a # 204,
           Answered(s, a, FALSE), UNCHANGED <<me, screens, cookie, signedOut>>
    PROVE  net' \in [Slots -> Requests] /\ NetInv'
  BY AnsweredStep

(* A slot nobody waits for becomes free.                                   *)
LEMMA FreedStep ==
    ASSUME GateInv, NEW s \in Slots, net[s].kind = "quiet" \/ net[s].aborted,
           net' = [net EXCEPT ![s] = Idle], UNCHANGED <<me, screens, signedOut>>,
           cookie' \in {cookie, NoCookie}
    PROVE  net' \in [Slots -> Requests] /\ NetInv'
  <1>1. net \in [Slots -> Requests]
    BY DEF GateInv, TypeOK
  <1>2. /\ net' \in [Slots -> Requests]
        /\ \A t \in Slots : net'[t] = IF t = s THEN Idle ELSE net[t]
    BY <1>1, IdleFields
  <1>3. me.fetch # s /\ \A r \in Routes : screens[r].fetch # s
    BY KindsDiffer DEF GateInv, OneWaiter
  <1>4. /\ me.fetch # 0 => me.fetch \in Slots
        /\ \A r \in Routes : screens[r].fetch # 0 => screens[r].fetch \in Slots
    BY DEF GateInv, TypeOK, Queries
  <1>5. AnswerInv'
    BY <1>2, IdleFields, KindsDiffer DEF GateInv, AnswerInv, Data
  <1>6. OneWaiter'
    BY <1>2, <1>3, <1>4, IdleFields, KindsDiffer DEF GateInv, OneWaiter
  <1>7. SignInv'
    BY <1>2, <1>3, <1>4, IdleFields DEF GateInv, SignInv
  <1> QED
    BY <1>2, <1>5, <1>6, <1>7 DEF NetInv

(* A request of nobody in the gate, or of signOut, goes out.               *)
LEMMA SentStep ==
    ASSUME GateInv, NEW s \in Slots, Free(s), NEW k \in {"quiet", "logout"},
           k = "logout" => me.got,
           net' = [net EXCEPT ![s] = Ask(k)], UNCHANGED <<me, screens, signedOut, cookie>>
    PROVE  net' \in [Slots -> Requests] /\ NetInv'
  <1>1. net \in [Slots -> Requests] /\ cookie \in Cookies
    BY DEF GateInv, TypeOK
  <1>a. /\ Ask(k) \in Requests /\ Ask(k).kind = k /\ Ask(k).answer = 0
    BY <1>1, AskTypes DEF Ask, Kinds
  <1>2. /\ net' \in [Slots -> Requests]
        /\ \A t \in Slots : net'[t] = IF t = s THEN Ask(k) ELSE net[t]
    BY <1>1, <1>a
  <1>3. me.fetch # s /\ \A r \in Routes : screens[r].fetch # s
    BY KindsDiffer, IdleFields DEF GateInv, OneWaiter, Free
  <1>4. /\ me.fetch # 0 => me.fetch \in Slots
        /\ \A r \in Routes : screens[r].fetch # 0 => screens[r].fetch \in Slots
    BY DEF GateInv, TypeOK, Queries
  <1>5. AnswerInv'
    BY <1>2, <1>a, KindsDiffer DEF GateInv, AnswerInv, Data
  <1>6. OneWaiter'
    BY <1>2, <1>3, <1>4, <1>a, KindsDiffer DEF GateInv, OneWaiter
  <1>7. SignInv'
    BY <1>2, <1>3, <1>4, <1>a DEF GateInv, SignInv
  <1> QED
    BY <1>2, <1>5, <1>6, <1>7 DEF NetInv

(* The page loads, without a cookie when it was signed out.                *)
LEMMA LoadStep ==
    ASSUME GateInv, NEW s \in Slots, NEW c \in Cookies, Load(s, c),
           signedOut' => cookie' = NoCookie /\ c = NoCookie
    PROVE  /\ net' \in [Slots -> Requests] /\ me' \in MeQueries
           /\ screens' \in [Routes -> ScreenQueries] /\ NetInv'
  <1>1. \A t \in Slots : net[t] \in Requests
    BY DEF GateInv, TypeOK
  <1>a. /\ AskWith("me", c) \in Requests /\ AskWith("me", c).kind = "me"
        /\ AskWith("me", c).cookie = c /\ AskWith("me", c).answer = 0
        /\ ~AskWith("me", c).aborted
    BY AskTypes DEF Kinds
  <1>2. /\ net' \in [Slots -> Requests]
        /\ \A t \in Slots : net'[t] = IF t = s THEN AskWith("me", c) ELSE Aborted(net[t])
    BY <1>1, <1>a, AbortedTypes DEF Load
  <1>3. \A t \in Slots \ {s} :
          /\ net'[t].kind = net[t].kind /\ net'[t].answer = net[t].answer
          /\ net'[t].clears = net[t].clears
          /\ ~net'[t].aborted => net'[t].kind = "idle"
    BY <1>1, <1>2, AbortedTypes, IdleFields
  <1>4. /\ me' \in MeQueries /\ me'.fetch = s
        /\ screens' \in [Routes -> ScreenQueries]
        /\ \A r \in Routes : screens'[r].fetch = 0
    BY NewQueries DEF Load, Fetches
  <1>5. AnswerInv'
    BY <1>2, <1>3, <1>a, KindsDiffer DEF GateInv, AnswerInv
  <1>6. OneWaiter'
    BY <1>2, <1>3, <1>4, <1>a, KindsDiffer DEF OneWaiter
  <1>7. SignInv'
    BY <1>2, <1>3, <1>4, <1>a, KindsDiffer DEF SignInv
  <1> QED
    BY <1>2, <1>4, <1>5, <1>6, <1>7 DEF NetInv

(* An answer reaches the query that waits for it, and its slot is free.    *)
LEMMA SettledStep ==
    ASSUME GateInv, NEW s \in Slots, net' = [net EXCEPT ![s] = Idle],
           me'.fetch = (IF me.fetch = s THEN 0 ELSE me.fetch), me.got => me'.got,
           \A r \in Routes :
              screens'[r].fetch = (IF screens[r].fetch = s THEN 0 ELSE screens[r].fetch),
           UNCHANGED signedOut, cookie' \in {cookie, NoCookie},
           signedOut /\ me'.fetch = 0 => me'.error # 0
    PROVE  net' \in [Slots -> Requests] /\ NetInv'
  <1>1. net \in [Slots -> Requests]
    BY DEF GateInv, TypeOK
  <1>2. /\ net' \in [Slots -> Requests]
        /\ \A t \in Slots : net'[t] = IF t = s THEN Idle ELSE net[t]
    BY <1>1, IdleFields
  <1>4. /\ me.fetch # 0 => me.fetch \in Slots
        /\ \A r \in Routes : screens[r].fetch # 0 => screens[r].fetch \in Slots
    BY DEF GateInv, TypeOK, Queries
  <1>5. AnswerInv'
    BY <1>2, IdleFields, KindsDiffer DEF GateInv, AnswerInv, Data
  <1>6. OneWaiter'
    <2>1. /\ me'.fetch # 0 => me'.fetch = me.fetch /\ me.fetch # s
          /\ \A r \in Routes : screens'[r].fetch # 0 =>
                screens'[r].fetch = screens[r].fetch /\ screens[r].fetch # s
      OBVIOUS
    <2>2. /\ me'.fetch # 0 => net'[me'.fetch].kind = "me" /\ ~net'[me'.fetch].aborted
          /\ \A r \in Routes : screens'[r].fetch # 0 =>
                net'[screens'[r].fetch].kind = r /\ ~net'[screens'[r].fetch].aborted
      BY <1>2, <1>4, <2>1 DEF GateInv, OneWaiter
    <2>3. ASSUME NEW t \in Slots, ~net'[t].aborted
          PROVE  /\ net'[t].kind = "me" => me'.fetch = t
                 /\ net'[t].kind \in Routes => screens'[net'[t].kind].fetch = t
      <3>1. CASE t = s
        BY <1>2, <3>1, IdleFields, KindsDiffer
      <3>2. CASE t # s
        BY <1>2, <2>3, <3>2 DEF GateInv, OneWaiter
      <3> QED
        BY <3>1, <3>2
    <2> QED
      BY <2>2, <2>3 DEF OneWaiter
  <1>7. SignInv'
    BY <1>2, <1>4, IdleFields DEF GateInv, SignInv
  <1> QED
    BY <1>2, <1>5, <1>6, <1>7 DEF NetInv

(* An answer makes the gate ask for ["me"] again.                          *)
LEMMA InvalidatedStep ==
    ASSUME GateInv, NEW s \in Slots, net[s].kind # "me", ~net[s].aborted,
           InvalidateMe(s, net[s]), cookie' = CookieAfter(net[s]),
           \A r \in Routes :
              screens'[r].fetch = (IF screens[r].fetch = s THEN 0 ELSE screens[r].fetch),
           signedOut' => cookie' = NoCookie /\ (signedOut \/ ~Joins(me))
    PROVE  net' \in [Slots -> Requests] /\ me' \in MeQueries /\ NetInv'
  <1>0. TypeOK /\ net[s] \in Requests /\ \A t \in Slots : net[t] \in Requests
    BY DEF GateInv, TypeOK
  <1>1. /\ me' \in MeQueries /\ me'.got = me.got /\ net' \in [Slots -> Requests]
        /\ Joins(me) => /\ me' = me
                        /\ \A t \in Slots : net'[t] = IF t = s THEN Idle ELSE net[t]
        /\ ~Joins(me) =>
              /\ me'.fetch = s /\ net'[s] = AskWith("me", CookieAfter(net[s]))
              /\ \A t \in Slots \ {s} :
                    net'[t] = IF t = me.fetch THEN [net[t] EXCEPT !.kind = "quiet"]
                                              ELSE net[t]
    BY <1>0, InvalidateEffect
  <1>2. CookieAfter(net[s]) \in Cookies
    BY <1>0, GateAssumption DEF CookieAfter, Cookies, NoCookie, TypeOK
  <1>4. /\ me.fetch # s /\ (me.fetch # 0 => me.fetch \in Slots)
        /\ \A r \in Routes : screens[r].fetch # 0 => screens[r].fetch \in Slots
    BY KindsDiffer DEF GateInv, TypeOK, Queries, OneWaiter
  <1>5. CASE Joins(me)
    <2>1. me' = me /\ \A t \in Slots : net'[t] = IF t = s THEN Idle ELSE net[t]
      BY <1>1, <1>5
    <2>2. AnswerInv'
      BY <2>1, IdleFields, KindsDiffer DEF GateInv, AnswerInv, Data
    <2>3. OneWaiter'
      <3>1. /\ me'.fetch # 0 => net'[me'.fetch].kind = "me" /\ ~net'[me'.fetch].aborted
            /\ \A r \in Routes : screens'[r].fetch # 0 =>
                  net'[screens'[r].fetch].kind = r /\ ~net'[screens'[r].fetch].aborted
        BY <1>4, <2>1 DEF GateInv, OneWaiter
      <3>2. ASSUME NEW t \in Slots, ~net'[t].aborted
            PROVE  /\ net'[t].kind = "me" => me'.fetch = t
                   /\ net'[t].kind \in Routes => screens'[net'[t].kind].fetch = t
        <4>1. CASE t = s
          BY <2>1, <4>1, IdleFields, KindsDiffer
        <4>2. CASE t # s
          BY <2>1, <3>2, <4>2 DEF GateInv, OneWaiter
        <4> QED
          BY <4>1, <4>2
      <3> QED
        BY <3>1, <3>2 DEF OneWaiter
    <2>4. SignInv'
      BY <1>4, <1>5, <2>1, IdleFields DEF GateInv, SignInv
    <2> QED
      BY <1>1, <2>2, <2>3, <2>4 DEF NetInv
  <1>6. CASE ~Joins(me)
    <2>0. /\ me'.fetch = s /\ net'[s].kind = "me" /\ ~net'[s].aborted
          /\ net'[s].answer = 0 /\ net'[s].cookie = CookieAfter(net[s])
      BY <1>1, <1>2, <1>6, AskTypes DEF Kinds
    <2>1. \A t \in Slots \ {s} :
            /\ net'[t].kind = IF t = me.fetch THEN "quiet" ELSE net[t].kind
            /\ net'[t].answer = net[t].answer /\ net'[t].aborted = net[t].aborted
            /\ net'[t].clears = net[t].clears
      <3> TAKE t \in Slots \ {s}
      <3> DEFINE q == [net[t] EXCEPT !.kind = "quiet"]
      <3>1. /\ q.kind = "quiet" /\ q.answer = net[t].answer /\ q.aborted = net[t].aborted
            /\ q.clears = net[t].clears
        BY <1>0, RequestTypes, Zenon
      <3>2. net'[t] = IF t = me.fetch THEN q ELSE net[t]
        BY <1>1, <1>6
      <3> HIDE DEF q
      <3>3. CASE t = me.fetch
        BY <3>1, <3>2, <3>3
      <3>4. CASE t # me.fetch
        BY <3>2, <3>4, Zenon
      <3> QED
        BY <3>3, <3>4
    <2>2. AnswerInv'
      <3>1. me.fetch # 0 => net[me.fetch].answer # 204
        BY <1>4 DEF GateInv, OneWaiter, AnswerInv, Data
      <3> QED
        BY <2>0, <2>1, <3>1, KindsDiffer DEF GateInv, AnswerInv, Data
    <2>3. OneWaiter'
      <3>0. \A r \in Routes : screens[r].fetch # 0 => screens[r].fetch # me.fetch
        BY KindsDiffer DEF GateInv, OneWaiter
      <3>1. \A r \in Routes : screens'[r].fetch # 0 =>
              net'[screens'[r].fetch].kind = r /\ ~net'[screens'[r].fetch].aborted
        BY <1>4, <2>1, <3>0 DEF GateInv, OneWaiter
      <3>2. ASSUME NEW t \in Slots, ~net'[t].aborted
            PROVE  /\ net'[t].kind = "me" => me'.fetch = t
                   /\ net'[t].kind \in Routes => screens'[net'[t].kind].fetch = t
        <4>1. CASE t = s
          BY <2>0, <4>1, KindsDiffer
        <4>2. CASE t # s
          <5>1. CASE t = me.fetch
            BY <2>1, <4>2, <5>1, KindsDiffer
          <5>2. CASE t # me.fetch
            BY <2>1, <3>2, <4>2, <5>2 DEF GateInv, OneWaiter
          <5> QED
            BY <5>1, <5>2
        <4> QED
          BY <4>1, <4>2
      <3> QED
        BY <2>0, <3>1, <3>2 DEF OneWaiter
    <2>4. SignInv'
      <3>1. \A t \in Slots : net'[t].kind = "logout" /\ ~net'[t].aborted => me'.got
        BY <1>1, <2>0, <2>1 DEF GateInv, SignInv
      <3>2. signedOut' => cookie' = NoCookie /\ net'[s].cookie = NoCookie
        BY <2>0
      <3>3. me'.fetch # 0 /\ net'[me'.fetch] = net'[s] /\ net'[s].answer # 200
        BY <2>0, KindsDiffer
      <3>4. net'[me'.fetch].answer # 200 /\ (signedOut' => net'[me'.fetch].cookie = NoCookie)
        BY <3>2, <3>3
      <3> QED
        BY <3>1, <3>2, <3>3, <3>4 DEF SignInv
    <2> QED
      BY <1>1, <2>2, <2>3, <2>4 DEF NetInv
  <1> QED
    BY <1>5, <1>6

(* A screen is shown: its query is fetched with slot s, which nobody waits *)
(* for any more, or its fetch in flight is joined and s is free.  c is the *)
(* cookie the browser has by then.                                         *)
LEMMA FetchedStep ==
    ASSUME GateInv, NEW s \in Slots, NEW to \in Routes, NEW c \in Cookies,
           \A r \in Routes : screens[r].fetch # s,
           me'.fetch = (IF me.fetch = s THEN 0 ELSE me.fetch), me.got => me'.got,
           screens' = [screens EXCEPT ![to] = Fetch(screens[to], s)],
           net' = [net EXCEPT ![s] = IF screens[to].fetch # 0 THEN Idle ELSE AskWith(to, c)],
           signedOut' => signedOut /\ cookie' = NoCookie /\ me' = me
    PROVE  /\ net' \in [Slots -> Requests] /\ screens' \in [Routes -> ScreenQueries]
           /\ NetInv'
  <1>1. /\ net \in [Slots -> Requests] /\ screens \in [Routes -> ScreenQueries]
        /\ me \in MeQueries /\ s \in Fetches
    BY DEF GateInv, TypeOK, ScreenQueries, MeQueries, Fetches
  <1>2. /\ me.fetch # 0 => me.fetch \in Slots
        /\ \A r \in Routes : screens[r].fetch # 0 => screens[r].fetch \in Slots
    BY <1>1 DEF ScreenQueries, MeQueries, Queries, Fetches
  <1> DEFINE q == Fetch(screens[to], s)
             new == IF screens[to].fetch # 0 THEN Idle ELSE AskWith(to, c)
  <1>3. /\ q \in ScreenQueries
        /\ q.fetch = IF screens[to].fetch # 0 THEN screens[to].fetch ELSE s
    BY <1>1, GateQuery DEF ScreenQueries
  <1>4. /\ new \in Requests /\ new.answer = 0 /\ ~new.aborted
        /\ screens[to].fetch # 0 => new.kind = "idle"
        /\ screens[to].fetch = 0 => new.kind = to
    <2>1. CASE screens[to].fetch # 0
      BY <2>1, IdleFields
    <2>2. CASE screens[to].fetch = 0
      <3>1. to \in Kinds
        BY DEF Kinds
      <3>2. new = AskWith(to, c)
        BY <2>2
      <3> HIDE DEF new
      <3> QED
        BY <2>2, <3>1, <3>2, AskTypes
    <2> QED
      BY <2>1, <2>2
  <1> HIDE DEF q, new
  <1>5. /\ net' \in [Slots -> Requests] /\ net'[s] = new
        /\ \A t \in Slots : t # s => net'[t] = net[t]
    BY <1>1, <1>4 DEF new
  <1>6. /\ screens' \in [Routes -> ScreenQueries] /\ screens'[to] = q
        /\ \A r \in Routes : r # to => screens'[r] = screens[r]
    BY <1>1, <1>3 DEF q
  <1>7. AnswerInv'
    <2>1. ASSUME NEW t \in Slots
          PROVE  /\ net'[t].kind \in Data => net'[t].answer # 204
                 /\ net'[t].kind = "logout" => net'[t].answer # 200
                 /\ net'[t].kind = "logout" /\ net'[t].answer = 204 => net'[t].clears
      <3>1. CASE t = s
        BY <1>4, <1>5, <3>1
      <3>2. CASE t # s
        <4>1. net'[t] = net[t]
          BY <1>5, <3>2
        <4> QED
          BY <4>1 DEF GateInv, AnswerInv
      <3> QED
        BY <3>1, <3>2
    <2> QED
      BY <2>1 DEF AnswerInv
  <1>8. OneWaiter'
    <2>1. me'.fetch # 0 => net'[me'.fetch].kind = "me" /\ ~net'[me'.fetch].aborted
      BY <1>2, <1>5 DEF GateInv, OneWaiter
    <2>2. ASSUME NEW r \in Routes, screens'[r].fetch # 0
          PROVE  net'[screens'[r].fetch].kind = r /\ ~net'[screens'[r].fetch].aborted
      <3>1. CASE r = to /\ screens[to].fetch = 0
        BY <1>3, <1>4, <1>5, <1>6, <3>1
      <3>2. CASE ~(r = to /\ screens[to].fetch = 0)
        <4>1. screens'[r].fetch = screens[r].fetch
          BY <1>3, <1>6, <3>2
        <4>2. screens[r].fetch \in Slots /\ screens[r].fetch # s
          BY <1>2, <2>2, <4>1
        <4> QED
          BY <1>5, <2>2, <4>1, <4>2 DEF GateInv, OneWaiter
      <3> QED
        BY <3>1, <3>2
    <2>3. ASSUME NEW t \in Slots, ~net'[t].aborted
          PROVE  /\ net'[t].kind = "me" => me'.fetch = t
                 /\ net'[t].kind \in Routes => screens'[net'[t].kind].fetch = t
      <3>1. CASE t = s
        <4>1. CASE screens[to].fetch # 0
          BY <1>4, <1>5, <3>1, <4>1, KindsDiffer
        <4>2. CASE screens[to].fetch = 0
          BY <1>3, <1>4, <1>5, <1>6, <3>1, <4>2, KindsDiffer
        <4> QED
          BY <4>1, <4>2
      <3>2. CASE t # s
        <4>1. /\ net[t].kind = "me" => me.fetch = t
              /\ net[t].kind \in Routes => screens[net[t].kind].fetch = t
              /\ net'[t] = net[t]
          BY <1>5, <2>3, <3>2 DEF GateInv, OneWaiter
        <4>2. \A r \in Routes : screens[r].fetch = t => screens'[r].fetch = t
          BY <1>3, <1>6, KindsDiffer
        <4> QED
          BY <3>2, <4>1, <4>2
      <3> QED
        BY <3>1, <3>2
    <2> QED
      BY <2>1, <2>2, <2>3 DEF OneWaiter
  <1>9. SignInv'
    <2>1. ASSUME NEW t \in Slots, net'[t].kind = "logout", ~net'[t].aborted PROVE me'.got
      <3>1. t # s
        BY <1>4, <1>5, <2>1, KindsDiffer
      <3> QED
        BY <1>5, <2>1, <3>1 DEF GateInv, SignInv
    <2>2. ASSUME signedOut'
          PROVE  /\ cookie' = NoCookie
                 /\ me'.fetch = 0 => me'.error # 0
                 /\ me'.fetch # 0 => /\ net'[me'.fetch].cookie = NoCookie
                                     /\ net'[me'.fetch].answer # 200
      <3>1. me' = me /\ signedOut /\ cookie' = NoCookie
        BY <2>2
      <3>2. me.fetch # s
        BY <3>1, KindsDiffer
      <3>3. me.fetch # 0 => net'[me.fetch] = net[me.fetch]
        BY <1>2, <1>5, <3>2
      <3> QED
        BY <3>1, <3>3 DEF GateInv, SignInv
    <2> QED
      BY <2>1, <2>2 DEF SignInv
  <1> QED
    BY <1>5, <1>6, <1>7, <1>8, <1>9 DEF NetInv

(* The window gains focus.                                                 *)
LEMMA FocusStep ==
    ASSUME GateInv, NEW s \in Slots, NEW t \in Slots, Focus(s, t)
    PROVE  /\ net' \in [Slots -> Requests] /\ screens' \in [Routes -> ScreenQueries]
           /\ me' \in MeQueries /\ NetInv'
  <1>0. /\ Free(s) /\ Free(t) /\ s # t
        /\ UNCHANGED <<cookie, route, signedOut>>
        /\ me' = Fetch(me, s)
        /\ screens' = IF Shown THEN [screens EXCEPT ![route] = Fetch(screens[route], t)]
                               ELSE screens
    BY GateAssumption DEF Focus, history
  <1> DEFINE asksMe == me.fetch = 0
             asksScreen == Shown /\ screens[route].fetch = 0
  <1>1. /\ net \in [Slots -> Requests] /\ screens \in [Routes -> ScreenQueries]
        /\ me \in MeQueries /\ s \in Fetches /\ t \in Fetches
        /\ route \in Routes /\ cookie \in Cookies
    BY DEF GateInv, TypeOK, ScreenQueries, MeQueries, Fetches
  <1>2. /\ me.fetch # 0 => me.fetch \in Slots
        /\ \A r \in Routes : screens[r].fetch # 0 => screens[r].fetch \in Slots
    BY <1>1 DEF ScreenQueries, MeQueries, Queries, Fetches
  <1>a. /\ Ask("me") \in Requests /\ Ask("me").kind = "me" /\ Ask("me").answer = 0
        /\ ~Ask("me").aborted /\ Ask("me").cookie = cookie
    BY <1>1, AskTypes DEF Ask, Kinds
  <1>b. /\ Ask(route) \in Requests /\ Ask(route).kind = route /\ Ask(route).answer = 0
        /\ ~Ask(route).aborted
    BY <1>1, AskTypes DEF Ask, Kinds
  <1>3. /\ net' \in [Slots -> Requests]
        /\ net'[s] = IF asksMe THEN Ask("me") ELSE Idle
        /\ net'[t] = IF asksScreen THEN Ask(route) ELSE Idle
        /\ \A u \in Slots : u # s /\ u # t => net'[u] = net[u]
    <2>1. net' = [u \in Slots |-> CASE u = s /\ asksMe -> Ask("me")
                                    [] u = t /\ asksScreen -> Ask(route)
                                    [] OTHER -> net[u]]
      BY DEF Focus
    <2>2. net[s] = Idle /\ net[t] = Idle
      BY <1>0 DEF Free
    <2> HIDE DEF asksMe, asksScreen
    <2>3. \A u \in Slots : net'[u] \in {Ask("me"), Ask(route), net[u]}
      BY <2>1
    <2>4. net' \in [Slots -> Requests]
      BY <1>1, <1>a, <1>b, <2>1, <2>3
    <2> QED
      BY <1>0, <2>1, <2>2, <2>4
  <1>4. me' \in MeQueries /\ me'.got = me.got
        /\ me'.fetch = (IF me.fetch # 0 THEN me.fetch ELSE s)
        /\ (me.fetch # 0 => me' = me)
    BY <1>0, <1>1, GateQuery DEF MeQueries
  <1>5. /\ screens' \in [Routes -> ScreenQueries]
        /\ \A r \in Routes : screens'[r].fetch = IF r = route /\ asksScreen THEN t
                                                 ELSE screens[r].fetch
    <2>1. /\ Fetch(screens[route], t) \in ScreenQueries
          /\ Fetch(screens[route], t).fetch =
                IF screens[route].fetch # 0 THEN screens[route].fetch ELSE t
      BY <1>1, GateQuery DEF ScreenQueries
    <2>2. CASE Shown
      BY <1>0, <1>1, <2>1, <2>2
    <2>3. CASE ~Shown
      BY <1>0, <1>1, <2>3
    <2> QED
      BY <2>2, <2>3
  <1>6. /\ me.fetch \notin {s, t} /\ \A r \in Routes : screens[r].fetch \notin {s, t}
    BY <1>0, IdleFields, KindsDiffer DEF GateInv, OneWaiter, Free
  <1> HIDE DEF asksScreen
  <1>7. AnswerInv'
    <2>1. ASSUME NEW u \in Slots
          PROVE  /\ net'[u].kind \in Data => net'[u].answer # 204
                 /\ net'[u].kind = "logout" => net'[u].answer # 200
                 /\ net'[u].kind = "logout" /\ net'[u].answer = 204 => net'[u].clears
      <3>1. CASE u = s \/ u = t
        <4>1. net'[u].answer = 0
          BY <1>3, <1>a, <1>b, <3>1, IdleFields
        <4> QED
          BY <4>1
      <3>2. CASE u # s /\ u # t
        <4>1. net'[u] = net[u]
          BY <1>3, <3>2
        <4> QED
          BY <4>1 DEF GateInv, AnswerInv
      <3> QED
        BY <3>1, <3>2
    <2> QED
      BY <2>1 DEF AnswerInv
  <1>8. OneWaiter'
    <2>1. me'.fetch # 0 => net'[me'.fetch].kind = "me" /\ ~net'[me'.fetch].aborted
      <3>1. CASE me.fetch = 0
        BY <1>3, <1>4, <1>a, <3>1
      <3>2. CASE me.fetch # 0
        BY <1>2, <1>3, <1>4, <1>6, <3>2 DEF GateInv, OneWaiter
      <3> QED
        BY <3>1, <3>2
    <2>2. ASSUME NEW r \in Routes, screens'[r].fetch # 0
          PROVE  net'[screens'[r].fetch].kind = r /\ ~net'[screens'[r].fetch].aborted
      <3>1. CASE r = route /\ asksScreen
        BY <1>3, <1>5, <1>b, <3>1
      <3>2. CASE ~(r = route /\ asksScreen)
        <4>1. screens'[r].fetch = screens[r].fetch
          BY <1>5, <3>2
        <4>2. screens[r].fetch \in Slots /\ screens[r].fetch \notin {s, t}
          BY <1>2, <1>6, <2>2, <4>1
        <4> QED
          BY <1>3, <2>2, <4>1, <4>2 DEF GateInv, OneWaiter
      <3> QED
        BY <3>1, <3>2
    <2>3. ASSUME NEW u \in Slots, ~net'[u].aborted
          PROVE  /\ net'[u].kind = "me" => me'.fetch = u
                 /\ net'[u].kind \in Routes => screens'[net'[u].kind].fetch = u
      <3>1. CASE u = s
        BY <1>3, <1>4, <1>a, <3>1, IdleFields, KindsDiffer
      <3>2. CASE u = t
        <4>1. CASE asksScreen
          BY <1>1, <1>3, <1>5, <1>b, <3>2, <4>1, KindsDiffer
        <4>2. CASE ~asksScreen
          BY <1>3, <3>2, <4>2, IdleFields, KindsDiffer
        <4> QED
          BY <4>1, <4>2
      <3>3. CASE u # s /\ u # t
        <4>1. /\ net[u].kind = "me" => me.fetch = u
              /\ net[u].kind \in Routes => screens[net[u].kind].fetch = u
              /\ net'[u] = net[u]
          BY <1>3, <2>3, <3>3 DEF GateInv, OneWaiter
        <4>2. u # 0 /\ \A r \in Routes : screens[r].fetch = u => screens'[r].fetch = u
          BY <1>5, KindsDiffer DEF asksScreen
        <4> QED
          BY <1>4, <4>1, <4>2
      <3> QED
        BY <3>1, <3>2, <3>3
    <2> QED
      BY <2>1, <2>2, <2>3 DEF OneWaiter
  <1>9. SignInv'
    <2>1. ASSUME NEW u \in Slots, net'[u].kind = "logout", ~net'[u].aborted PROVE me'.got
      <3>1. u # s /\ u # t
        BY <1>1, <1>3, <1>a, <1>b, <2>1, IdleFields, KindsDiffer
      <3>2. me.got
        BY <1>3, <2>1, <3>1 DEF GateInv, SignInv
      <3> QED
        BY <1>4, <3>2
    <2>2. ASSUME signedOut'
          PROVE  /\ cookie' = NoCookie
                 /\ me'.fetch = 0 => me'.error # 0
                 /\ me'.fetch # 0 => /\ net'[me'.fetch].cookie = NoCookie
                                     /\ net'[me'.fetch].answer # 200
      <3>1. signedOut /\ cookie = NoCookie /\ cookie' = NoCookie
        BY <1>0, <2>2 DEF GateInv, SignInv
      <3>2. CASE me.fetch = 0
        BY <1>3, <1>4, <1>a, <3>1, <3>2, KindsDiffer
      <3>3. CASE me.fetch # 0
        <4>1. me' = me /\ net'[me.fetch] = net[me.fetch]
          BY <1>2, <1>3, <1>4, <1>6, <3>3
        <4> QED
          BY <3>1, <3>3, <4>1 DEF GateInv, SignInv
      <3> QED
        BY <3>2, <3>3
    <2> QED
      BY <2>1, <2>2 DEF SignInv
  <1> QED
    BY <1>3, <1>4, <1>5, <1>7, <1>8, <1>9 DEF NetInv

-----------------------------------------------------------------------------
(* What is not a request or a query.                                       *)
RestOK ==
    /\ sessions \subseteq 1 .. MaxSessions
    /\ admin \in BOOLEAN /\ groups \in BOOLEAN
    /\ cookie \in Cookies /\ issued \in Cookies
    /\ route \in Routes
    /\ signingOut \in BOOLEAN
    /\ events \in 0 .. MaxEvents
    /\ signedOut \in BOOLEAN /\ alarm \in BOOLEAN

QueriesOK ==
    /\ net \in [Slots -> Requests] /\ me \in MeQueries
    /\ screens \in [Routes -> ScreenQueries]

LEMMA TypeParts == TypeOK <=> RestOK /\ QueriesOK
  BY DEF TypeOK, RestOK, QueriesOK, MeQueries, ScreenQueries, Fetches

LEMMA ServeSteps ==
    ASSUME GateInv, NEW s \in Slots,
           ServeRead(s) \/ ServeUnavailable(s) \/ consoleLogout(s) \/ Lose(s)
    PROVE  GateInv'
  <1>0. RestOK /\ QueriesOK /\ net[s] \in Requests
    BY TypeParts DEF GateInv, QueriesOK
  <1>e. Act => events' \in 0 .. MaxEvents
    BY <1>0, GateAssumption DEF Act, RestOK
  <1>d. Data = {"me", "quiet"} \cup Routes /\ "logout" \notin Data
    BY KindsDiffer DEF Data
  <1>k. ASSUME RestOK', UNCHANGED <<me, screens>>, net' \in [Slots -> Requests], NetInv'
        PROVE  GateInv'
    <2>1. QueriesOK'
      BY <1>0, <1>k DEF QueriesOK
    <2>2. TypeOK'
      BY <1>k, <2>1, TypeParts DEF TypeOK, RestOK, QueriesOK, MeQueries, ScreenQueries, Fetches
    <2> QED
      BY <1>k, <2>2 DEF GateInv, NetInv
  <1>1. CASE ServeRead(s)
    <2> DEFINE a == consoleUser(net[s])
               b == \/ a = 403
                    \/ a = 401 /\ net[s].cookie # NoCookie
    <2>1. /\ Answered(s, a, b) /\ UNCHANGED <<me, screens, cookie, signedOut>>
          /\ net[s].kind \in Data
      BY <1>1 DEF ServeRead, Data
    <2>2. a \in {200, 401, 403, 503} /\ (a = 200 => net[s].cookie \in sessions)
      BY DEF consoleUser
    <2>3. a \in Answers /\ b \in BOOLEAN /\ a # 204
      BY <2>2 DEF Answers, Failures
    <2>4. a = 200 => net[s].cookie # NoCookie
      BY <1>0, <2>2 DEF RestOK, NoCookie
    <2> HIDE DEF a, b
    <2>5. net' \in [Slots -> Requests] /\ NetInv'
      BY <1>d, <2>1, <2>3, <2>4, AnsweredStep
    <2>6. RestOK'
      BY <1>0, <1>1 DEF ServeRead, RestOK
    <2> QED
      BY <1>k, <2>1, <2>5, <2>6
  <1>2. CASE ServeUnavailable(s)
    <2>1. /\ Answered(s, 503, FALSE) /\ UNCHANGED <<me, screens, cookie, signedOut>>
          /\ net[s].kind \in Data
      BY <1>2 DEF ServeUnavailable, Data, history
    <2> DEFINE a == 503
    <2>2. a \in Answers /\ a # 200 /\ a # 204
      BY DEF Answers, Failures
    <2>a. Answered(s, a, FALSE)
      BY <2>1
    <2> HIDE DEF a
    <2>3. net' \in [Slots -> Requests] /\ NetInv'
      BY <2>1, <2>2, <2>a, RefusedStep
    <2>4. RestOK'
      BY <1>0, <1>2, <1>e DEF ServeUnavailable, RestOK, history, server
    <2> QED
      BY <1>k, <2>1, <2>3, <2>4
  <1>3. CASE consoleLogout(s)
    <2>1. /\ Answered(s, 204, TRUE) \/ Answered(s, 500, FALSE)
          /\ UNCHANGED <<me, screens, cookie, signedOut>> /\ net[s].kind = "logout"
      BY <1>3 DEF consoleLogout, history
    <2>2. 204 \in Answers /\ 500 \in Answers
      BY DEF Answers, Failures
    <2>3. net' \in [Slots -> Requests] /\ NetInv'
      <3>1. CASE Answered(s, 204, TRUE)
        <4> DEFINE a == 204
                   ok == TRUE
        <4>a. a \in Answers /\ ok \in BOOLEAN /\ ok = TRUE /\ a # 200
          BY <2>2
        <4>b. Answered(s, a, ok)
          BY <3>1
        <4> HIDE DEF a, ok
        <4>1. /\ net[s].kind \in Data => a # 204
              /\ net[s].kind = "logout" => a # 200
              /\ net[s].kind = "logout" /\ a = 204 => ok = TRUE
              /\ a = 200 => net[s].cookie # NoCookie
          BY <1>d, <2>1, <4>a
        <4> QED
          BY <2>1, <4>a, <4>b, <4>1, AnsweredStep
      <3>2. CASE Answered(s, 500, FALSE)
        <4> DEFINE a == 500
        <4>1. a \in Answers /\ a # 200 /\ a # 204
          BY DEF Answers, Failures
        <4>2. Answered(s, a, FALSE)
          BY <3>2
        <4> HIDE DEF a
        <4> QED
          BY <2>1, <4>1, <4>2, RefusedStep
      <3> QED
        BY <2>1, <3>1, <3>2
    <2>4. RestOK'
      <3>1. sessions' \subseteq sessions /\ events' \in 0 .. MaxEvents
        BY <1>0, <1>3, <1>e DEF consoleLogout, RestOK
      <3>2. UNCHANGED <<admin, groups, issued, cookie, route, signingOut, signedOut, alarm>>
        BY <1>3 DEF consoleLogout, history
      <3> QED
        BY <1>0, <3>1, <3>2 DEF RestOK
    <2> QED
      BY <1>k, <2>1, <2>3, <2>4
  <1>4. CASE Lose(s)
    <2>1. Answered(s, Down, FALSE) /\ UNCHANGED <<me, screens, cookie, signedOut>>
      BY <1>4 DEF Lose, history
    <2>2. Down \in Answers /\ Down # 204 /\ Down # 200
      BY DEF Answers, Failures, Down
    <2>3. net' \in [Slots -> Requests] /\ NetInv'
      BY <2>1, <2>2, RefusedStep
    <2>4. RestOK'
      BY <1>0, <1>4, <1>e DEF Lose, RestOK, history, server
    <2> QED
      BY <1>k, <2>1, <2>3, <2>4
  <1> QED
    BY <1>1, <1>2, <1>3, <1>4

LEMMA ReceiveSteps ==
    ASSUME GateInv, NEW s \in Slots,
           ReceiveMe(s) \/ ReceiveScreen(s) \/ ReceiveQuiet(s) \/ ReceiveLogout(s) \/ Vanish(s)
    PROVE  GateInv'
  <1> DEFINE r == net[s]
  <1>0. RestOK /\ QueriesOK /\ r \in Requests
    BY TypeParts DEF GateInv, QueriesOK
  <1>c. CookieAfter(r) \in Cookies /\ CookieAfter(r) \in {cookie, NoCookie}
    BY <1>0, GateAssumption DEF CookieAfter, Cookies, NoCookie, RestOK
  <1>a. r.answer \in Answers /\ r.kind \in Kinds
    BY <1>0, RequestTypes
  <1>k. ASSUME RestOK', QueriesOK', NetInv' PROVE GateInv'
    <2>1. TypeOK'
      BY <1>k, TypeParts DEF TypeOK, RestOK, QueriesOK, MeQueries, ScreenQueries, Fetches
    <2> QED
      BY <1>k, <2>1 DEF GateInv, NetInv
  <1>f. r.kind \in Data /\ r.answer \notin {0, 200} => r.answer \in Failures
    BY <1>a DEF GateInv, AnswerInv, Answers
  <1>1. CASE ReceiveMe(s)
    <2>1. /\ r.kind = "me" /\ r.answer # 0 /\ ~r.aborted
          /\ cookie' = CookieAfter(r) /\ UNCHANGED signedOut
          /\ me' = IF r.answer = 200 THEN Succeed(me, "me") ELSE Fail(me, r.answer)
      BY <1>1 DEF ReceiveMe, Arrives
    <2>2. me.fetch = s /\ \A q \in Routes : screens[q].fetch # s
      BY <2>1, KindsDiffer DEF GateInv, OneWaiter
    <2>3. /\ me' \in MeQueries /\ me'.fetch = 0 /\ (me.got => me'.got)
          /\ r.answer # 200 => me'.error # 0
      <3>1. CASE r.answer = 200
        <4>1. Down \in Failures
          BY DEF Failures
        <4> QED
          BY <1>0, <2>1, <3>1, <4>1, GateAnswers DEF QueriesOK, MeQueries
      <3>2. CASE r.answer # 200
        BY <1>0, <1>f, <2>1, <3>2, GateAnswers DEF QueriesOK, MeQueries, Data
      <3> QED
        BY <3>1, <3>2
    <2>4. signedOut => r.answer # 200
      BY <2>2, KindsDiffer DEF GateInv, SignInv
    <2>5. RestOK'
      BY <1>0, <1>1, <1>c, <2>1 DEF ReceiveMe, RestOK, server, Mount
    <2>6. CASE r.answer = 200 /\ ~Shown
      <3>1. Mount(s, r)
        BY <1>1, <2>6 DEF ReceiveMe
      <3>2. /\ screens' = [screens EXCEPT ![route] = Fetch(screens[route], s)]
            /\ net' = [net EXCEPT ![s] = IF screens[route].fetch # 0 THEN Idle
                                         ELSE AskWith(route, CookieAfter(r))]
            /\ route \in Routes
        BY <1>0, <3>1 DEF Mount, AskAgain, RestOK
      <3>3. ~signedOut'
        BY <2>1, <2>4, <2>6
      <3>4. /\ net' \in [Slots -> Requests] /\ screens' \in [Routes -> ScreenQueries]
            /\ NetInv'
        BY <1>c, <2>2, <2>3, <3>2, <3>3, FetchedStep
      <3> QED
        BY <1>k, <2>3, <2>5, <3>4 DEF QueriesOK
    <2>7. CASE ~(r.answer = 200 /\ ~Shown)
      <3>1. net' = [net EXCEPT ![s] = Idle] /\ UNCHANGED screens
        BY <1>1, <2>7 DEF ReceiveMe
      <3>2. \A q \in Routes :
              screens'[q].fetch = (IF screens[q].fetch = s THEN 0 ELSE screens[q].fetch)
        BY <2>2, <3>1
      <3>3. net' \in [Slots -> Requests] /\ NetInv'
        BY <1>c, <2>1, <2>2, <2>3, <2>4, <3>1, <3>2, SettledStep
      <3> QED
        BY <1>0, <1>k, <2>3, <2>5, <3>1, <3>3 DEF QueriesOK
    <2> QED
      BY <2>6, <2>7
  <1>2. CASE ReceiveScreen(s)
    <2>1. /\ r.kind \in Routes /\ r.answer # 0 /\ ~r.aborted
          /\ cookie' = CookieAfter(r) /\ UNCHANGED signedOut
          /\ screens' = [screens EXCEPT ![r.kind] = IF r.answer = 200
                           THEN Succeed(screens[r.kind], r.kind)
                           ELSE Fail(screens[r.kind], r.answer)]
      BY <1>2 DEF ReceiveScreen, Arrives
    <2>2. /\ screens[r.kind].fetch = s /\ me.fetch # s
          /\ \A q \in Routes : q # r.kind => screens[q].fetch # s
      BY <2>1, KindsDiffer DEF GateInv, OneWaiter
    <2> DEFINE q1 == IF r.answer = 200 THEN Succeed(screens[r.kind], r.kind)
                                       ELSE Fail(screens[r.kind], r.answer)
    <2>3. q1 \in ScreenQueries /\ q1.fetch = 0
      <3>0. screens[r.kind] \in Queries(Routes, Fetches)
        BY <1>0, <2>1 DEF QueriesOK, ScreenQueries
      <3>1. CASE r.answer = 200
        <4>1. Down \in Failures
          BY DEF Failures
        <4> QED
          BY <2>1, <3>0, <3>1, <4>1, GateAnswers DEF ScreenQueries
      <3>2. CASE r.answer # 200
        <4>1. r.answer \in Failures
          BY <1>f, <2>1, <3>2 DEF Data
        <4> QED
          BY <2>1, <3>0, <3>2, <4>1, GateAnswers DEF ScreenQueries
      <3> QED
        BY <3>1, <3>2
    <2>4. screens' = [screens EXCEPT ![r.kind] = q1]
      BY <2>1
    <2> HIDE DEF q1
    <2>5. /\ screens' \in [Routes -> ScreenQueries]
          /\ \A q \in Routes :
                screens'[q].fetch = (IF screens[q].fetch = s THEN 0 ELSE screens[q].fetch)
      BY <1>0, <2>1, <2>2, <2>3, <2>4 DEF QueriesOK
    <2>6. RestOK'
      BY <1>0, <1>2, <1>c, <2>1 DEF ReceiveScreen, RestOK, server
    <2>s. signedOut => cookie = NoCookie /\ (me.fetch = 0 => me.error # 0)
      BY DEF GateInv, SignInv
    <2>7. CASE InvalidateMe(s, r)
      <3>1. signedOut' => cookie' = NoCookie /\ signedOut
        BY <1>c, <2>1, <2>s
      <3>2. net' \in [Slots -> Requests] /\ me' \in MeQueries /\ NetInv'
        BY <2>1, <2>5, <2>7, <3>1, KindsDiffer, InvalidatedStep
      <3> QED
        BY <1>k, <2>5, <2>6, <3>2 DEF QueriesOK
    <2>8. CASE net' = [net EXCEPT ![s] = Idle] /\ UNCHANGED me
      <3>1. net' \in [Slots -> Requests] /\ NetInv'
        BY <1>c, <2>1, <2>2, <2>5, <2>8, <2>s, SettledStep
      <3> QED
        BY <1>0, <1>k, <2>5, <2>6, <2>8, <3>1 DEF QueriesOK
    <2> QED
      BY <1>2, <2>7, <2>8 DEF ReceiveScreen, OnQueryError
  <1>3. CASE ReceiveQuiet(s) \/ Vanish(s)
    <2>1. /\ net' = [net EXCEPT ![s] = Idle] /\ UNCHANGED <<me, screens, signedOut>>
          /\ r.kind = "quiet" \/ r.aborted
          /\ cookie' \in {cookie, NoCookie}
      BY <1>3, <1>c DEF ReceiveQuiet, Vanish, history
    <2>2. net' \in [Slots -> Requests] /\ NetInv'
      BY <2>1, FreedStep
    <2>3. RestOK'
      BY <1>0, <1>3, <1>c DEF ReceiveQuiet, Vanish, RestOK, server, history
    <2> QED
      BY <1>0, <1>k, <2>1, <2>2, <2>3 DEF QueriesOK
  <1>4. CASE ReceiveLogout(s)
    <2>1. /\ r.kind = "logout" /\ ~r.aborted /\ cookie' = CookieAfter(r)
          /\ InvalidateMe(s, r) /\ UNCHANGED screens
          /\ signedOut' = (signedOut \/ r.answer = 204)
      BY <1>4 DEF ReceiveLogout, Arrives
    <2>2. /\ r.answer = 204 => r.clears
          /\ me.got /\ (signedOut => cookie = NoCookie)
      BY <2>1 DEF GateInv, SignInv, AnswerInv
    <2>3. signedOut' => cookie' = NoCookie
      BY <1>c, <2>1, <2>2 DEF CookieAfter
    <2>4. ~Joins(me)
      BY <2>2 DEF Joins
    <2>5. \A q \in Routes :
            screens'[q].fetch = (IF screens[q].fetch = s THEN 0 ELSE screens[q].fetch)
      BY <2>1, KindsDiffer DEF GateInv, OneWaiter
    <2>6. net' \in [Slots -> Requests] /\ me' \in MeQueries /\ NetInv'
      BY <2>1, <2>3, <2>4, <2>5, InvalidatedStep
    <2>7. RestOK'
      BY <1>0, <1>4, <1>c DEF ReceiveLogout, RestOK, server
    <2> QED
      BY <1>0, <1>k, <2>1, <2>6, <2>7 DEF QueriesOK
  <1> QED
    BY <1>1, <1>2, <1>3, <1>4

LEMMA UserSteps ==
    ASSUME GateInv, User \/ Expire \/ ChangeGroups
    PROVE  GateInv'
  <1>0. RestOK /\ QueriesOK
    BY TypeParts DEF GateInv
  <1>e. Act => events' \in 0 .. MaxEvents
    BY <1>0, GateAssumption DEF Act, RestOK
  <1>k. ASSUME RestOK', QueriesOK', NetInv' PROVE GateInv'
    <2>1. TypeOK'
      BY <1>k, TypeParts DEF TypeOK, RestOK, QueriesOK, MeQueries, ScreenQueries, Fetches
    <2> QED
      BY <1>k, <2>1 DEF GateInv, NetInv
  <1>n. ASSUME RestOK', UNCHANGED <<net, me, screens>>,
               signedOut' => signedOut /\ cookie' = NoCookie
        PROVE  GateInv'
    <2>1. QueriesOK'
      BY <1>0, <1>n DEF QueriesOK
    <2>2. NetInv'
      BY <1>n DEF NetInv, GateInv, AnswerInv, OneWaiter, SignInv
    <2> QED
      BY <1>k, <1>n, <2>1, <2>2
  <1>s. NewSession => /\ issued' \in Cookies /\ cookie' \in Cookies
                      /\ sessions' \subseteq 1 .. MaxSessions /\ ~signedOut'
                      /\ issued + 1 \in Cookies /\ cookie' = issued + 1
                      /\ UNCHANGED <<admin, groups>> /\ signedOut' \in BOOLEAN
    <2> SUFFICES ASSUME NewSession
                 PROVE  /\ issued' \in Cookies /\ cookie' \in Cookies
                        /\ sessions' \subseteq 1 .. MaxSessions /\ ~signedOut'
                        /\ issued + 1 \in Cookies /\ cookie' = issued + 1
                        /\ UNCHANGED <<admin, groups>> /\ signedOut' \in BOOLEAN
      OBVIOUS
    <2>1. /\ issued' = issued + 1 /\ cookie' = issued + 1 /\ issued < MaxSessions
          /\ sessions' = sessions \cup {issued + 1} /\ UNCHANGED <<admin, groups>>
      BY DEF NewSession
    <2>2. signedOut' = FALSE
      BY DEF NewSession
    <2>3. issued + 1 \in 1 .. MaxSessions /\ issued + 1 \in Cookies
      BY <1>0, <2>1, GateAssumption DEF RestOK, Cookies
    <2>4. sessions' \subseteq 1 .. MaxSessions
      BY <1>0, <2>1, <2>3 DEF RestOK
    <2> QED
      BY <2>1, <2>2, <2>3, <2>4
  <1>1. ASSUME NEW s \in Slots, signOut(s) PROVE GateInv'
    <2>1. /\ Free(s) /\ Shown /\ net' = [net EXCEPT ![s] = Ask("logout")]
          /\ UNCHANGED <<me, screens, signedOut, cookie>>
      BY <1>1 DEF signOut, FirstFree, history
    <2>2. me.got
      BY <1>0, <2>1, ShownFacts DEF QueriesOK
    <2>3. net' \in [Slots -> Requests] /\ NetInv'
      BY <2>1, <2>2, SentStep
    <2>4. RestOK'
      BY <1>0, <1>1, <1>e DEF signOut, RestOK, server, history
    <2> QED
      BY <1>0, <1>k, <2>1, <2>3, <2>4 DEF QueriesOK
  <1>2. ASSUME NEW s \in Slots, Mutate(s) PROVE GateInv'
    <2>1. /\ Free(s) /\ net' = [net EXCEPT ![s] = Ask("quiet")]
          /\ UNCHANGED <<me, screens, signedOut, cookie>>
      BY <1>2 DEF Mutate, FirstFree, history
    <2>3. net' \in [Slots -> Requests] /\ NetInv'
      BY <2>1, SentStep
    <2>4. RestOK'
      BY <1>0, <1>2, <1>e DEF Mutate, RestOK, server, history
    <2> QED
      BY <1>0, <1>k, <2>1, <2>3, <2>4 DEF QueriesOK
  <1>3. ASSUME NEW s \in Slots, Reload(s) PROVE GateInv'
    <2>1. Load(s, cookie) /\ cookie \in Cookies /\ UNCHANGED <<cookie, signedOut>>
      BY <1>0, <1>3 DEF Reload, RestOK
    <2>2. signedOut' => cookie' = NoCookie /\ cookie = NoCookie
      BY <2>1 DEF GateInv, SignInv
    <2>3. /\ net' \in [Slots -> Requests] /\ me' \in MeQueries
          /\ screens' \in [Routes -> ScreenQueries] /\ NetInv'
      BY <2>1, <2>2, LoadStep
    <2>4. RestOK'
      BY <1>0, <1>3, <1>e DEF Reload, Load, RestOK, server
    <2> QED
      BY <1>k, <2>3, <2>4 DEF QueriesOK
  <1>4. ASSUME NEW s \in Slots, SignIn(s) PROVE GateInv'
    <2>1. Load(s, issued + 1) /\ NewSession
      BY <1>4 DEF SignIn
    <2>3. /\ net' \in [Slots -> Requests] /\ me' \in MeQueries
          /\ screens' \in [Routes -> ScreenQueries] /\ NetInv'
      BY <1>s, <2>1, LoadStep
    <2>4. RestOK'
      BY <1>0, <1>4, <1>e, <1>s, <2>1 DEF SignIn, Load, RestOK
    <2> QED
      BY <1>k, <2>3, <2>4 DEF QueriesOK
  <1>5. ASSUME NEW s \in Slots, NEW to \in Routes, Navigate(s, to) PROVE GateInv'
    <2>1. /\ Free(s) /\ screens' = [screens EXCEPT ![to] = Fetch(screens[to], s)]
          /\ net' = IF screens[to].fetch # 0 THEN net ELSE [net EXCEPT ![s] = Ask(to)]
          /\ UNCHANGED <<cookie, me, signedOut>>
      BY <1>5 DEF Navigate, FirstFree, history
    <2>2. net' = [net EXCEPT ![s] = IF screens[to].fetch # 0 THEN Idle
                                    ELSE AskWith(to, cookie)]
      <3>1. [net EXCEPT ![s] = Idle] = net
        BY <1>0, <2>1 DEF QueriesOK, Free
      <3> QED
        BY <2>1, <3>1 DEF Ask
    <2>3. me.fetch # s /\ \A q \in Routes : screens[q].fetch # s
      BY <2>1, KindsDiffer, IdleFields DEF GateInv, OneWaiter, Free
    <2>4. signedOut' => signedOut /\ cookie' = NoCookie /\ me' = me
      BY <2>1 DEF GateInv, SignInv
    <2>5. me'.fetch = (IF me.fetch = s THEN 0 ELSE me.fetch) /\ (me.got => me'.got)
          /\ cookie \in Cookies
      BY <1>0, <2>1, <2>3 DEF RestOK
    <2>6. /\ net' \in [Slots -> Requests] /\ screens' \in [Routes -> ScreenQueries]
          /\ NetInv'
      BY <2>1, <2>2, <2>3, <2>4, <2>5, FetchedStep
    <2>7. RestOK'
      BY <1>0, <1>5, <1>e DEF Navigate, RestOK, server, history
    <2> QED
      BY <1>0, <1>k, <2>1, <2>6, <2>7 DEF QueriesOK
  <1>6. ASSUME NEW s \in Slots, NEW t \in Slots, Focus(s, t) PROVE GateInv'
    <2>1. RestOK'
      BY <1>0, <1>6, <1>e DEF Focus, RestOK, server, history
    <2> QED
      BY <1>6, <1>k, <2>1, FocusStep DEF QueriesOK
  <1>7. CASE SignInElsewhere
    <2>1. RestOK' /\ ~signedOut' /\ UNCHANGED <<net, me, screens>>
      BY <1>0, <1>7, <1>e, <1>s DEF SignInElsewhere, RestOK
    <2> QED
      BY <1>n, <2>1
  <1>8. CASE Expire
    <2>1. RestOK'
      BY <1>0, <1>8, <1>e DEF Expire, RestOK, history
    <2>2. UNCHANGED <<net, me, screens, signedOut, cookie>>
      BY <1>8 DEF Expire, history
    <2> QED
      BY <1>n, <2>1, <2>2 DEF GateInv, SignInv
  <1>9. CASE ChangeGroups
    <2>1. RestOK'
      BY <1>0, <1>9, <1>e DEF ChangeGroups, RestOK, history
    <2>2. UNCHANGED <<net, me, screens, signedOut, cookie>>
      BY <1>9 DEF ChangeGroups, history
    <2> QED
      BY <1>n, <2>1, <2>2 DEF GateInv, SignInv
  <1> QED
    BY <1>1, <1>2, <1>3, <1>4, <1>5, <1>6, <1>7, <1>8, <1>9 DEF User

LEMMA GateInit == Init => GateInv
  <1> SUFFICES ASSUME Init PROVE GateInv
    OBVIOUS
  <1>1. PICK s \in Slots : /\ net = [t \in Slots |-> IF t = s THEN Ask("me") ELSE Idle]
                           /\ me = NewQuery("me", s)
    BY DEF Init
  <1>2. cookie \in Cookies /\ issued \in Cookies /\ sessions \subseteq 1 .. MaxSessions
    BY GateAssumption DEF Init, Cookies, NoCookie
  <1>3. RestOK
    <2>1. events \in 0 .. MaxEvents
      BY GateAssumption DEF Init
    <2>2. /\ admin = TRUE /\ groups = TRUE /\ route \in Routes
          /\ signingOut = FALSE /\ signedOut = FALSE /\ alarm = FALSE
      BY DEF Init
    <2> QED
      BY <1>2, <2>1, <2>2 DEF RestOK
  <1>a. /\ Ask("me") \in Requests /\ Ask("me").kind = "me" /\ Ask("me").answer = 0
        /\ ~Ask("me").aborted
    BY <1>2, AskTypes DEF Ask, Kinds
  <1>4. /\ me \in MeQueries /\ me.fetch = s
        /\ screens \in [Routes -> ScreenQueries] /\ \A r \in Routes : screens[r].fetch = 0
    BY <1>1, NewQueries DEF Init, Fetches
  <1>5. net \in [Slots -> Requests]
    BY <1>1, <1>a, IdleFields
  <1>6. TypeOK
    BY <1>3, <1>4, <1>5, TypeParts DEF QueriesOK
  <1>7. \A t \in Slots : net[t] = IF t = s THEN Ask("me") ELSE Idle
    BY <1>1
  <1>8. AnswerInv
    BY <1>7, <1>a, IdleFields DEF AnswerInv
  <1>9. OneWaiter
    BY <1>4, <1>7, <1>a, IdleFields, KindsDiffer DEF OneWaiter
  <1>10. SignInv
    BY <1>4, <1>7, <1>a, IdleFields, KindsDiffer DEF SignInv, Init
  <1> QED
    BY <1>6, <1>8, <1>9, <1>10 DEF GateInv

LEMMA GateStep == GateInv /\ [Next]_vars => GateInv'
  <1> SUFFICES ASSUME GateInv, [Next]_vars PROVE GateInv'
    OBVIOUS
  <1>1. CASE \E s \in Slots : Network(s) \/ ServeUnavailable(s) \/ Lose(s)
    BY <1>1, ServeSteps, ReceiveSteps DEF Network
  <1>2. CASE User \/ Expire \/ ChangeGroups
    BY <1>2, UserSteps
  <1>3. CASE UNCHANGED vars
    <2>1. /\ UNCHANGED <<sessions, admin, groups, issued, cookie, net, me, screens>>
          /\ UNCHANGED <<route, signingOut, events, signedOut, alarm>>
      BY <1>3 DEF vars, server, history
    <2>2. TypeOK'
      BY <2>1 DEF GateInv, TypeOK
    <2>5. AnswerInv'
      BY <2>1 DEF GateInv, AnswerInv
    <2>3. OneWaiter'
      BY <2>1 DEF GateInv, OneWaiter
    <2>4. SignInv'
      BY <2>1 DEF GateInv, SignInv
    <2> QED
      BY <2>2, <2>3, <2>4, <2>5 DEF GateInv
  <1> QED
    BY <1>1, <1>2, <1>3 DEF Next

LEMMA GateInvAlways == Spec => []GateInv
  BY GateInit, GateStep, PTL DEF Spec

(* Types: in particular, no query is ever settled with the answer of a     *)
(* sign-out (app.tsx, router.tsx).                                         *)
THEOREM GateTypes == Spec => []TypeOK
  <1>1. GateInv => TypeOK
    BY DEF GateInv
  <1> QED
    BY <1>1, GateInvAlways, PTL

(* A query waits for one request, and no other answer settles it: not one  *)
(* of a fetch that was given up, and not one of an earlier page.           *)
THEOREM GateOneWaiter == Spec => []OneWaiter
  <1>1. GateInv => OneWaiter
    BY DEF GateInv
  <1> QED
    BY <1>1, GateInvAlways, PTL

(* After a sign-out that awd answered, no older fetch of ["me"] brings the *)
(* console back (router.tsx, signOut; app.tsx, Gate).                      *)
THEOREM SignOutHolds == Spec => []SignedOutStays
  <1>1. GateInv => SignedOutStays
    <2> SUFFICES ASSUME GateInv PROVE SignedOutStays
      OBVIOUS
    <2>1. me \in MeQueries
      BY DEF GateInv, TypeOK, MeQueries, Fetches
    <2>2. signedOut /\ me.fetch = 0 => me.error # 0
      BY DEF GateInv, SignInv
    <2> QED
      BY <2>1, <2>2, ShownFacts DEF SignedOutStays
  <1> QED
    BY <1>1, GateInvAlways, PTL
=============================================================================
