-------------------------------- MODULE Poawx -------------------------------
(***************************************************************************)
(* The PoAW-X state a block changes: the registry of eligible proposer VRF *)
(* keys, the FIFO queue of announced registrations that every block must   *)
(* drain from the front, and the offences already slashed.  Pure operators *)
(* on a ledger record L (src/poawx_proposer.rs, src/poawx_penalty.rs and   *)
(* the apply_/revert_ functions of src/chain.rs).                          *)
(***************************************************************************)
EXTENDS Blocks, Functions

CONSTANTS
  Key, Offence,                                 \* VRF keys, fraud events
  VrfHeight, RegistrationHeight, FraudHeight,   \* activation heights
  RegCap, AnnounceCap,      \* PROPOSER_REG_CAP, PROPOSER_ANNOUNCE_CAP
  FreezeDepth, ExpiryWindow, MinCommittee, QuorumNum, QuorumDen

(* The registry is the set of <<key, height>> pairs of the records' height *)
(* sets; a record exists exactly while its height set is not empty.        *)
eligible_keys(registry, target) ==
  LET hi == target - FreezeDepth
      lo == IF hi >= ExpiryWindow - 1 THEN hi - (ExpiryWindow - 1) ELSE 0
  IN  IF target < FreezeDepth THEN {}
      ELSE {k \in Key : \E h \in lo..hi : <<k, h>> \in registry}

(* Registration is active only where the proposer VRF is.                  *)
RegistrationActive(h) == ActiveAt(VrfHeight, h) /\ ActiveAt(RegistrationHeight, h)

is_registered(registry, k) == \E r \in registry : r[1] = k

(* proposer_keys_from_block: before registrations are active the sub-role  *)
(* assignment keys count as well.                                          *)
proposer_keys_from_block(b, h) ==
  Body[b].proposers
    \cup (IF RegistrationActive(h) THEN {} ELSE Body[b].roles)

NewRegistrations(b, h) ==
  (IF ActiveAt(VrfHeight, h) THEN proposer_keys_from_block(b, h) ELSE {})
    \cup (IF RegistrationActive(h) THEN Range(Body[b].activations) ELSE {})

(* apply_block_proposer_registry and apply_block_proposer_registrations.   *)
ApplyRegistry(L, b) ==
  L.registry \cup {<<k, L.height + 1>> : k \in NewRegistrations(b, L.height + 1)}

(* Faulty variant: the whole record of a key is dropped.                   *)
RevertRegistryWhole(registry, b, h) == {r \in registry : r[1] \notin NewRegistrations(b, h)}

RevertRegistry(registry, b, h) ==
  registry \ {<<k, h>> : k \in NewRegistrations(b, h)}

(* One pop_front per activation, then one push_back per announce.          *)
ApplyQueue(L, b) ==
  IF RegistrationActive(L.height + 1)
    THEN SubSeq(L.queue, Len(Body[b].activations) + 1, Len(L.queue)) \o Body[b].announces
    ELSE L.queue

(* One pop_back per announce, then the activations back at the front.      *)
RevertQueue(queue, b, h) ==
  IF RegistrationActive(h)
    THEN Body[b].activations \o SubSeq(queue, 1, Len(queue) - Len(Body[b].announces))
    ELSE queue

ApplyOffences(L, b) ==
  L.offences \cup (IF ActiveAt(FraudHeight, L.height + 1) THEN Range(Body[b].offences) ELSE {})

RevertOffences(offences, b, h) ==
  offences \ (IF ActiveAt(FraudHeight, h) THEN Range(Body[b].offences) ELSE {})

(* validate_block_proposer_registrations: the forced drain, and announces  *)
(* that are neither queued already nor repeated.                           *)
RegistrationsValid(L, b) ==
  LET k == IF RegCap < Len(L.queue) THEN RegCap ELSE Len(L.queue)
      announces == Body[b].announces
  IN  /\ Len(Body[b].activations) = k
      /\ \A i \in 1..k : Body[b].activations[i] = L.queue[i]
      /\ Len(announces) <= AnnounceCap
      /\ \A i \in DOMAIN announces :
           /\ announces[i] \notin Range(L.queue)
           /\ \A j \in DOMAIN announces : announces[i] = announces[j] => i = j

(* validate_block_proposer: everyone may propose while nobody is eligible. *)
ProposerValid(L, b) ==
  LET eligible == eligible_keys(L.registry, L.height + 1)
  IN  eligible # {} => Body[b].proposers \subseteq eligible

(* validate_block_fraud_proofs.                                            *)
FraudProofsValid(L, b) ==
  LET offences == Body[b].offences
  IN  \A i \in DOMAIN offences :
        /\ offences[i] \notin L.offences
        /\ \A j \in DOMAIN offences : offences[i] = offences[j] => i = j

PoawxValid(L, b) ==
  LET h == L.height + 1
  IN  /\ ActiveAt(FraudHeight, h) => FraudProofsValid(L, b)
      /\ ActiveAt(VrfHeight, h) => ProposerValid(L, b)
      /\ RegistrationActive(h) => RegistrationsValid(L, b)

(* block_finality_has_genuine_quorum, on the state after b at height h was *)
(* applied: votes of distinct registered keys, counted against the keys    *)
(* eligible at the parent's height.                                        *)
GenuineQuorum(registry, b, h) ==
  LET committee == Cardinality(eligible_keys(registry, h - 1))
      voters    == {k \in Body[b].voters : is_registered(registry, k)}
      need      == (committee * QuorumNum + QuorumDen - 1) \div QuorumDen
  IN  committee >= MinCommittee /\ Cardinality(voters) >= need
=============================================================================
