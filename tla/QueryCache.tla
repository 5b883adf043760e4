----------------------------- MODULE QueryCache -----------------------------
(***************************************************************************)
(* The query library the console's screens are written on (TanStack Query  *)
(* v5, an external component), as far as the console's code uses it: one   *)
(* cached query and what happens to it when a component mounts, the window *)
(* is focused, the query is invalidated, or an answer comes back.          *)
(*                                                                         *)
(* A query is a record                                                     *)
(*   got    an answer was stored at some time (data # undefined)           *)
(*   data   the last answer stored; meaningful when got                    *)
(*   error  the last outcome, NoError after a success                      *)
(*   fetch  the request in flight, 0 when there is none                    *)
(***************************************************************************)
EXTENDS Naturals

NoError == 0

(* The statuses the console tells apart, and a fetch that got no answer:   *)
(* request() in api.ts throws an ApiError for the first, and lets the      *)
(* TypeError of fetch() through for the last.                              *)
Down == 1
Failures == {Down, 401, 403, 404, 409, 422, 500, 503}

Queries(Data, Fetches) ==
    [got : BOOLEAN, data : Data, error : {NoError} \cup Failures, fetch : Fetches]

NewQuery(d, r) == [got |-> FALSE, data |-> d, error |-> NoError, fetch |-> r]

isPending(q) == ~q.got /\ q.error = NoError
isError(q)   == q.error # NoError
isSuccess(q) == q.got /\ q.error = NoError

(* A fetch starts. Only a query that never had an answer forgets its error.*)
Start(q, r) == [q EXCEPT !.fetch = r, !.error = IF q.got THEN @ ELSE NoError]

(* On mount and on window focus: a fetch already in flight is joined.      *)
Fetch(q, r) == IF q.fetch # 0 THEN q ELSE Start(q, r)

(* Invalidation of a query on screen: a fetch in flight is given up for a  *)
(* new one, except when there is no data yet; then it is joined.           *)
Joins(q) == q.fetch # 0 /\ ~q.got
Refetch(q, r) == IF Joins(q) THEN q ELSE Start(q, r)

(* The answer of the fetch in flight. A failure keeps the data.            *)
Succeed(q, d) == [got |-> TRUE, data |-> d, error |-> NoError, fetch |-> 0]
Fail(q, e)    == [q EXCEPT !.error = e, !.fetch = 0]
=============================================================================
