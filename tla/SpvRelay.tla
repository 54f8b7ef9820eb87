------------------------------- MODULE SpvRelay -------------------------------
(***************************************************************************)
(* The relay of an external chain's headers (src/btc_spv.rs; src/ltc_spv.rs *)
(* is its twin for Litecoin).  Headers form a tree above a configured      *)
(* anchor.  Batches of them travel in outputs of Irium blocks; connecting  *)
(* a block applies its batch and keeps what is needed to take it back.     *)
(*                                                                         *)
(* Proof of work, difficulty and time stamps of a header depend only on    *)
(* the header and its ancestors: Sound says whether they check out.        *)
(***************************************************************************)
EXTENDS Integers, Sequences

CONSTANTS
  Header, Anchor,   \* external headers; the anchor is not one of them
  Prev,             \* the header's prev_hash
  HeightOf,         \* height of a header and of the anchor
  WorkOf,           \* cumulative work, likewise
  Sound             \* the headers whose own checks succeed

ASSUME HeaderAssumption ==
  /\ Anchor \notin Header
  /\ Prev \in [Header -> Header \cup {Anchor}]
  /\ HeightOf \in [Header \cup {Anchor} -> Nat]
  /\ WorkOf \in [Header \cup {Anchor} -> Nat]
  /\ \A h \in Header : HeightOf[h] = HeightOf[Prev[h]] + 1 /\ WorkOf[h] > WorkOf[Prev[h]]
  /\ Sound \subseteq Header

(* btc_headers with btc_heights, btc_tip (the anchor stands for None) and  *)
(* btc_tip_height, which is 0 before the first batch.                      *)
NoRelay == [known |-> {}, tip |-> Anchor, tip_height |-> 0]

Connects(r, hs) == Prev[hs[1]] = Anchor \/ Prev[hs[1]] \in r.known

Linked(hs, i) == i = 1 \/ Prev[hs[i]] = hs[i - 1]

(* The positions of the headers a batch starts with that are known         *)
(* already, and of those after them.                                       *)
KnownPrefix(r, hs) ==
  {i \in 1..Len(hs) : \A j \in 1..i : Linked(hs, j) /\ hs[j] \in r.known}

Fresh(r, hs) == (1..Len(hs)) \ KnownPrefix(r, hs)

(* The known headers end below the relay's tip.                            *)
LeavesTip(r, hs) ==
  \E i \in KnownPrefix(r, hs) :
    /\ \A j \in KnownPrefix(r, hs) : j <= i
    /\ HeightOf[hs[i]] < r.tip_height

(* What the loop over the new headers finds wrong with the i-th.           *)
Fault(r, hs, i) ==
  IF ~Linked(hs, i) THEN "hard"
  ELSE IF hs[i] \in r.known THEN "soft"
  ELSE IF hs[i] \notin Sound \/ \E j \in Fresh(r, hs) : j < i /\ hs[j] = hs[i] THEN "hard"
  ELSE "ok"

(* Result of a batch: that of the first faulty header, if there is one.    *)
(* The coinbase may carry one that fails softly: the first header is       *)
(* unknown, or one has been relayed meanwhile.                             *)
Verdict(r, hs) ==
  LET bad == {i \in Fresh(r, hs) : Fault(r, hs, i) # "ok"}
  IN  IF ~Connects(r, hs) THEN "soft"
      ELSE IF Fresh(r, hs) = {} THEN "ok"
      ELSE IF LeavesTip(r, hs) THEN "hard"
      ELSE IF bad = {} THEN "ok"
      ELSE IF \E i \in bad : Fault(r, hs, i) = "soft" /\ \A j \in bad : i <= j THEN "soft"
      ELSE "hard"

Added(r, hs) == {hs[i] : i \in Fresh(r, hs)}

(* A tip that is not among the headers counts as no work at all.           *)
TipWork(tip, known) == IF tip \in known \cup {Anchor} THEN WorkOf[tip] ELSE 0

apply_header_batch(r, hs) ==
  LET final == hs[Len(hs)]
      known == r.known \cup Added(r, hs)
  IN  IF Added(r, hs) # {} /\ WorkOf[final] > TipWork(r.tip, known)
        THEN [known |-> known, tip |-> final, tip_height |-> HeightOf[final]]
        ELSE [r EXCEPT !.known = known]

(* BtcRelayUpdate: the undo record.                                        *)
NoUpdate == [any |-> FALSE, added |-> {}, tip |-> Anchor, tip_height |-> 0]

Update(r, hs) ==
  [any |-> TRUE, added |-> Added(r, hs), tip |-> r.tip, tip_height |-> r.tip_height]

(* Faulty variant: the height of the tip is left as it is.                 *)
undo_without_height(r, u) ==
  IF u.any THEN [r EXCEPT !.known = @ \ u.added, !.tip = u.tip] ELSE r

undo_relay_update(r, u) ==
  IF u.any
    THEN [known |-> r.known \ u.added, tip |-> u.tip, tip_height |-> u.tip_height]
    ELSE r
=============================================================================
