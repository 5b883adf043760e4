--------------------------- MODULE BundleProtocol ---------------------------
(***************************************************************************)
(* What travels between awd and a machine on GET /v1/bundle, and the       *)
(* checks a machine makes of it: the bundle, its signature, and the        *)
(* rollover statement by which an outgoing signing key hands over to the   *)
(* next one.                                                               *)
(*                                                                         *)
(* Bytes are abstracted to what the checks tell apart.  A bundle is the    *)
(* policy revision it was cut from, that revision's creation time and the  *)
(* slice the user's groups select; its ETag is a hash of its bytes, so the *)
(* bundle itself stands for its ETag.  A signature is the pair of the key  *)
(* that made it and the bundle it covers: Ed25519 is taken as unforgeable. *)
(* Both signature formats (v1 over the body, v2 over a statement of key id *)
(* and body) bind exactly that pair.                                       *)
(***************************************************************************)
EXTENDS Integers

CONSTANTS
  Slices,      \* what a set of group memberships can select of a rule set
  MaxVersion,  \* bound: policy revisions applied
  MaxTime,     \* bound: creation times of revisions
  Keys,        \* the signing keys an operator generates
  None         \* nothing: no file, no entry, no ETag, no key, no answer

ASSUME BoundsAssumption ==
  /\ MaxVersion \in Nat
  /\ MaxTime \in Nat
  /\ Slices # {}

NoKey == None
KeyOrNone == Keys \cup {NoKey}

Bundle == [version: 0..MaxVersion, revisedAt: 0..MaxTime, slice: Slices]

Signature == [key: Keys, bundle: Bundle]

(***************************************************************************)
(* An answer of getBundle.  `key' is the control plane's current key: it   *)
(* signed the body of a 200, and it is the key a rollover announces.  `by' *)
(* is the outgoing key that signed the rollover header, NoKey when the     *)
(* answer carries none.                                                    *)
(***************************************************************************)
Answer == [unchanged: BOOLEAN, bundle: Bundle, key: KeyOrNone, by: KeyOrNone]

ASSUME NoneAssumption == None \notin Bundle /\ None \notin Signature
                           /\ None \notin Keys /\ None \notin Answer

(***************************************************************************)
(* getBundle: the current slice, answered 304 when the machine already     *)
(* holds it; the rollover header rides on every answer while a previous    *)
(* key is configured, whichever key the machine presents.                  *)
(***************************************************************************)
getBundle(bundle, signer, ifNoneMatch) ==
  [unchanged |-> ifNoneMatch = bundle,
   bundle    |-> bundle,
   key       |-> signer.current,
   by        |-> signer.previous]

\* rolloverFrom: a header the pinned key did not sign fails the whole fetch.
RolloverRefused(pin, a) ==
  /\ pin # NoKey
  /\ a.by # NoKey
  /\ a.by # pin

\* rolloverFrom: a header the pinned key signed is the one thing that moves the pin.
Rollover(pin, a) == pin # NoKey /\ a.by = pin

\* Fetch: the key the body must be signed with.
Verifier(pin, a) == IF Rollover(pin, a) THEN a.key ELSE pin

\* Fetch: a pinned machine refuses a body that is unsigned or signed by another key.
SignatureRefused(pin, a) ==
  /\ ~a.unchanged
  /\ pin # NoKey
  /\ a.key # Verifier(pin, a)

\* VerifyFiles: does the body on disk carry a signature of the trusted key?
VerifyFiles(trust, bundle, sig) ==
  /\ trust \in Keys
  /\ sig = [key |-> trust, bundle |-> bundle]
=============================================================================
