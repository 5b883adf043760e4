----------------------------- MODULE Membership -----------------------------
(***************************************************************************)
(* What enrollment promises, without the commands, the requests, the locks *)
(* and the configuration that bring it about: a token buys one membership  *)
(* at most, for good or in vain; a machine becomes a member by taking an   *)
(* offer made to it under a key its token vouches for; it follows the keys *)
(* that key's trust is passed on to and nothing else; and who is put out   *)
(* stays out.                                                              *)
(***************************************************************************)
CONSTANTS
  Hosts, Tokens, Ids, Keys,
  None,      \* no token, no key, no membership
  Locked     \* a host's commands exclude each other

VARIABLES
  passed,    \* <<a, b>>: whoever trusts a may come to trust b
  minted,    \* the tokens handed out
  named,     \* the key each of them names
  owner,     \* the token each id was issued for
  members,   \* the ids that are admitted
  offers,    \* memberships on their way to a host
  enrolled   \* the membership of each host: an id and the key it trusts

membershipVars == <<passed, minted, named, owner, members, offers, enrolled>>

MembershipInit ==
  /\ passed = {}
  /\ minted = {} /\ named = [t \in Tokens |-> None]
  /\ owner = [id \in Ids |-> None] /\ members = {}
  /\ offers = {} /\ enrolled = [h \in Hosts |-> None]

Known(k) == k = None \/ <<k, k>> \in passed

\* A membership chains back to the token it was issued for.
Descends(m) ==
  /\ owner[m.id] # None
  /\ named[owner[m.id]] # None => <<named[owner[m.id]], m.pin>> \in passed

Begin(k) ==
  /\ passed' = passed \cup {<<k, k>>}
  /\ UNCHANGED <<minted, named, owner, members, offers, enrolled>>

\* Trust in a, and all that led to it, passes to a new key.
HandOver(a, k) ==
  /\ <<a, a>> \in passed /\ <<k, k>> \notin passed
  /\ passed' = passed \cup {<<k, k>>} \cup {<<b, k>> : b \in {c \in Keys : <<c, a>> \in passed}}
  /\ UNCHANGED <<minted, named, owner, members, offers, enrolled>>

Mint(t, k) ==
  /\ t \notin minted /\ Known(k)
  /\ minted' = minted \cup {t} /\ named' = [named EXCEPT ![t] = k]
  /\ UNCHANGED <<passed, owner, members, offers, enrolled>>

\* The one membership of a token; it may be lost on its way.
Register(t, id) ==
  /\ t \in minted /\ \A i \in Ids : owner[i] # t
  /\ owner[id] = None
  /\ owner' = [owner EXCEPT ![id] = t]
  /\ members' = members \cup {id}
  /\ \/ offers' = offers
     \/ \E h \in Hosts, k \in Keys \cup {None}, force \in BOOLEAN :
          /\ Known(k)
          /\ offers' = offers \cup {[to |-> h, mine |-> [id |-> id, pin |-> k],
                                     force |-> force]}
  /\ UNCHANGED <<passed, minted, named, enrolled>>

Revoke(id) ==
  /\ id \in members
  /\ members' = members \ {id}
  /\ UNCHANGED <<passed, minted, named, owner, offers, enrolled>>

\* An offer is taken once, under the key its token names, and it replaces a
\* membership only where that was asked for.
Adopt(o) ==
  /\ named[owner[o.mine.id]] \in {None, o.mine.pin}
  /\ Locked => enrolled[o.to] = None \/ o.force
  /\ enrolled' = [enrolled EXCEPT ![o.to] = o.mine]
  /\ offers' = offers \ {o}
  /\ UNCHANGED <<passed, minted, named, owner, members>>

Drop(o) ==
  /\ offers' = offers \ {o}
  /\ UNCHANGED <<passed, minted, named, owner, members, enrolled>>

Follow(h, k) ==
  /\ enrolled[h] # None /\ <<enrolled[h].pin, k>> \in passed
  /\ enrolled' = [enrolled EXCEPT ![h].pin = k]
  /\ UNCHANGED <<passed, minted, named, owner, members, offers>>

\* Commands that do not exclude each other may bring back an old membership.
Restore(h, m) ==
  /\ ~Locked /\ Descends(m)
  /\ enrolled' = [enrolled EXCEPT ![h] = m]
  /\ UNCHANGED <<passed, minted, named, owner, members, offers>>

MembershipNext ==
  \/ \E k \in Keys : Begin(k) \/ \E a \in Keys : HandOver(a, k)
  \/ \E t \in Tokens, k \in Keys \cup {None} : Mint(t, k)
  \/ \E t \in Tokens, id \in Ids : Register(t, id)
  \/ \E id \in Ids : Revoke(id)
  \/ \E o \in offers : Adopt(o) \/ Drop(o)
  \/ \E h \in Hosts, k \in Keys : Follow(h, k)
  \/ \E h \in Hosts, m \in [id : Ids, pin : Keys \cup {None}] : Restore(h, m)

MembershipSpec == MembershipInit /\ [][MembershipNext]_membershipVars
=============================================================================
