-------------------------- MODULE QueryCacheProofs --------------------------
(***************************************************************************)
(* What the operations of the query cache preserve and do, for the proofs  *)
(* about the screens that use it.                                          *)
(***************************************************************************)
EXTENDS QueryCache, TLAPS

(* Every operation returns a query.                                        *)
LEMMA QueryTypes ==
    ASSUME NEW D, NEW F, NEW q \in Queries(D, F), NEW r \in F, NEW d \in D,
           NEW e \in Failures, 0 \in F
    PROVE  /\ NewQuery(d, r) \in Queries(D, F)
           /\ Start(q, r) \in Queries(D, F)
           /\ Fetch(q, r) \in Queries(D, F)
           /\ Refetch(q, r) \in Queries(D, F)
           /\ Succeed(q, d) \in Queries(D, F)
           /\ Fail(q, e) \in Queries(D, F)
           /\ [q EXCEPT !.fetch = r] \in Queries(D, F)
  BY DEF Queries, NewQuery, Start, Fetch, Refetch, Succeed, Fail, NoError

(* The fields of a query.                                                  *)
LEMMA QueryFields ==
    ASSUME NEW D, NEW F, NEW q \in Queries(D, F)
    PROVE  /\ q.got \in BOOLEAN /\ q.data \in D /\ q.fetch \in F
           /\ q.error \in {NoError} \cup Failures
  BY DEF Queries

(* What the operations of the query cache do to a query; 1 and 2 are the   *)
(* stages of a fetch, before and after awd has read.                       *)
QueryFacts(q) ==
    /\ q.fetch \in 0 .. 2
    /\ \A d : Succeed(q, d).got /\ Succeed(q, d).data = d /\ Succeed(q, d).fetch = 0
    /\ Fail(q, Down).got = q.got /\ Fail(q, Down).data = q.data
    /\ Fail(q, Down).fetch = 0 /\ ~isSuccess(Fail(q, Down))
    /\ Fetch(q, 1).got = q.got /\ Fetch(q, 1).data = q.data
    /\ Fetch(q, 1).fetch = IF q.fetch # 0 THEN q.fetch ELSE 1
    /\ isSuccess(Fetch(q, 1)) <=> isSuccess(q)
    /\ Refetch(q, 1).got = q.got /\ Refetch(q, 1).data = q.data
    /\ Refetch(q, 1).fetch = IF q.fetch # 0 /\ ~q.got THEN q.fetch ELSE 1
    /\ isSuccess(Refetch(q, 1)) <=> isSuccess(q)
    /\ [q EXCEPT !.fetch = 2].got = q.got /\ [q EXCEPT !.fetch = 2].data = q.data
    /\ [q EXCEPT !.fetch = 2].fetch = 2
    /\ isSuccess([q EXCEPT !.fetch = 2]) <=> isSuccess(q)

LEMMA QueryFactsHold ==
    ASSUME NEW D, NEW q \in Queries(D, 0 .. 2)
    PROVE  QueryFacts(q)
  <1>1. q.fetch \in 0 .. 2
    BY QueryFields
  <1>2. \A d : Succeed(q, d).got /\ Succeed(q, d).data = d /\ Succeed(q, d).fetch = 0
    BY DEF Succeed
  <1>3. /\ Fail(q, Down).got = q.got /\ Fail(q, Down).data = q.data
        /\ Fail(q, Down).fetch = 0 /\ ~isSuccess(Fail(q, Down))
    BY DEF Queries, Fail, isSuccess, NoError, Down
  <1>4. /\ Fetch(q, 1).got = q.got /\ Fetch(q, 1).data = q.data
        /\ Fetch(q, 1).fetch = IF q.fetch # 0 THEN q.fetch ELSE 1
        /\ isSuccess(Fetch(q, 1)) <=> isSuccess(q)
    BY DEF Queries, Start, Fetch, Refetch, Joins, isSuccess, NoError
  <1>5. /\ Refetch(q, 1).got = q.got /\ Refetch(q, 1).data = q.data
        /\ Refetch(q, 1).fetch = IF q.fetch # 0 /\ ~q.got THEN q.fetch ELSE 1
        /\ isSuccess(Refetch(q, 1)) <=> isSuccess(q)
    BY DEF Queries, Start, Fetch, Refetch, Joins, isSuccess, NoError
  <1>6. /\ [q EXCEPT !.fetch = 2].got = q.got /\ [q EXCEPT !.fetch = 2].data = q.data
        /\ [q EXCEPT !.fetch = 2].fetch = 2
        /\ isSuccess([q EXCEPT !.fetch = 2]) <=> isSuccess(q)
    BY DEF Queries, Start, Fetch, Refetch, Joins, isSuccess, NoError
  <1> QED
    BY <1>1, <1>2, <1>3, <1>4, <1>5, <1>6 DEF QueryFacts
=============================================================================
