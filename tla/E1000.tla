------------------------------- MODULE E1000 -------------------------------
(***************************************************************************)
(* The e1000 driver (net/e1000.rs) and the network card.  They share two   *)
(* rings of descriptors and four registers.  The card owns the descriptors *)
(* from its head up to, and without, the tail, and takes an empty range    *)
(* for an empty ring; it works on them at its own pace and sets DD on each *)
(* one it is done with.  The driver learns of that from DD alone.          *)
(***************************************************************************)
EXTENDS Integers, Sequences, FiniteSets

CONSTANTS
  Frames, NoFrame,
  TX_DESC_COUNT, RX_DESC_COUNT

ASSUME E1000Assumption ==
  /\ TX_DESC_COUNT \in Nat \ {0, 1} /\ RX_DESC_COUNT \in Nat \ {0, 1}
  /\ NoFrame \notin Frames

VARIABLES
  tx_descs, tx_cur, tdh, tdt,   \* descriptors are records [dd, frame]
  rx_descs, rx_cur, rdh, rdt

txVars == <<tx_descs, tx_cur, tdh, tdt>>
rxVars == <<rx_descs, rx_cur, rdh, rdt>>
vars == <<txVars, rxVars>>

TxRing == 0..TX_DESC_COUNT - 1
RxRing == 0..RX_DESC_COUNT - 1

\* The driver owns every transmit descriptor ...
init_tx ==
  /\ tx_descs = [i \in TxRing |-> [dd |-> TRUE, frame |-> NoFrame]]
  /\ tdh = 0 /\ tdt = 0

\* ... and the card all but one of the receive descriptors.
init_rx ==
  /\ rx_descs = [i \in RxRing |-> [dd |-> FALSE, frame |-> NoFrame]]
  /\ rdh = 0 /\ rdt = RX_DESC_COUNT - 1

Init ==
  /\ init_tx /\ tx_cur = 0
  /\ init_rx /\ rx_cur = 0

-----------------------------------------------------------------------------
(* The driver.  smoltcp's frames fit into a buffer.                         *)

\* Mutant: DD is not looked at.
TransmitUnchecked(frame) ==
  /\ tx_descs' = [tx_descs EXCEPT ![tx_cur] = [dd |-> FALSE, frame |-> frame]]
  /\ tx_cur' = (tx_cur + 1) % TX_DESC_COUNT
  /\ tdt' = tx_cur'
  /\ UNCHANGED tdh

\* Mutant: the tail register is written before tx_cur moves on.
TransmitTailFirst(frame) ==
  \/ /\ ~tx_descs[tx_cur].dd
     /\ UNCHANGED txVars
  \/ /\ tx_descs[tx_cur].dd
     /\ tx_descs' = [tx_descs EXCEPT ![tx_cur] = [dd |-> FALSE, frame |-> frame]]
     /\ tx_cur' = (tx_cur + 1) % TX_DESC_COUNT
     /\ tdt' = tx_cur
     /\ UNCHANGED tdh

\* The frame is not queued, and the caller does not look at the result, if the
\* card still owns the descriptor.
transmit_raw(frame) ==
  \/ /\ ~tx_descs[tx_cur].dd
     /\ UNCHANGED txVars
  \/ /\ tx_descs[tx_cur].dd
     /\ tx_descs' = [tx_descs EXCEPT ![tx_cur] = [dd |-> FALSE, frame |-> frame]]
     /\ tx_cur' = (tx_cur + 1) % TX_DESC_COUNT
     /\ tdt' = tx_cur'
     /\ UNCHANGED tdh

\* Device::transmit gives a token, which smoltcp uses.
Transmit(frame) ==
  /\ tx_descs[tx_cur].dd
  /\ transmit_raw(frame)
  /\ UNCHANGED rxVars

\* Mutant: the tail moves to the next descriptor instead of the one just read.
ReceiveToNext ==
  /\ rx_descs[rx_cur].dd
  /\ rx_descs' = [rx_descs EXCEPT ![rx_cur].dd = FALSE]
  /\ rx_cur' = (rx_cur + 1) % RX_DESC_COUNT
  /\ rdt' = rx_cur'
  /\ UNCHANGED rdh

\* Mutant: the tail stays.
ReceiveKeepingTail ==
  /\ rx_descs[rx_cur].dd
  /\ rx_descs' = [rx_descs EXCEPT ![rx_cur].dd = FALSE]
  /\ rx_cur' = (rx_cur + 1) % RX_DESC_COUNT
  /\ UNCHANGED <<rdh, rdt>>

receive_raw ==
  /\ rx_descs[rx_cur].dd
  /\ rx_descs' = [rx_descs EXCEPT ![rx_cur].dd = FALSE]
  /\ rx_cur' = (rx_cur + 1) % RX_DESC_COUNT
  /\ rdt' = rx_cur
  /\ UNCHANGED rdh

\* The token for a reply, which smoltcp may leave unused.
consume(reply) == IF reply = NoFrame THEN UNCHANGED txVars ELSE transmit_raw(reply)

\* Device::receive gives the frame and such a token.
Receive(reply) == receive_raw /\ consume(reply)

-----------------------------------------------------------------------------
(* The card.                                                                *)

CardSends ==
  /\ tdh # tdt
  /\ tx_descs' = [tx_descs EXCEPT ![tdh].dd = TRUE]
  /\ tdh' = (tdh + 1) % TX_DESC_COUNT
  /\ UNCHANGED <<tx_cur, tdt, rxVars>>

CardReceives(frame) ==
  /\ rdh # rdt
  /\ rx_descs' = [rx_descs EXCEPT ![rdh] = [dd |-> TRUE, frame |-> frame]]
  /\ rdh' = (rdh + 1) % RX_DESC_COUNT
  /\ UNCHANGED <<rx_cur, rdt, txVars>>

Driver == \E reply \in Frames \cup {NoFrame} : Receive(reply)

Next ==
  \/ \E frame \in Frames : Transmit(frame) \/ CardReceives(frame)
  \/ Driver
  \/ CardSends

\* The card sends what it is given, and the network poller asks for frames in
\* each of its turns.
Spec == Init /\ [][Next]_vars /\ WF_vars(CardSends) /\ WF_vars(Driver)

-----------------------------------------------------------------------------
(* Properties.                                                              *)

Outstanding == Cardinality({i \in TxRing : ~tx_descs[i].dd})
Ready == Cardinality({i \in RxRing : rx_descs[i].dd})

\* The rings as queues, the oldest frame first.
TxQueue == [k \in 1..Outstanding |-> tx_descs[(tx_cur - Outstanding + k - 1) % TX_DESC_COUNT].frame]
RxQueue == [k \in 1..Ready |-> rx_descs[(rx_cur + k - 1) % RX_DESC_COUNT].frame]

Device == INSTANCE NetDevice WITH
  tx_queue <- TxQueue, rx_queue <- RxQueue, TxCap <- TX_DESC_COUNT, RxCap <- RX_DESC_COUNT - 1

\* The driver and the card implement a network device: no frame is overwritten in
\* the ring, sent or delivered twice or out of order, and only a full ring drops
\* a reply.
ImplementsDevice == Device!Spec

\* The distance the card has to go from its head to the tail.
Ahead(head, tail, count) == (tail - head) % count

\* DD, the driver's place and the registers agree: the card's transmit
\* descriptors are those without DD, unless all of them are, and then it sees an
\* empty ring; a receive descriptor with DD is never the card's, and one is
\* always kept back.
RingsAgree ==
  /\ tdt = tx_cur
  /\ Ahead(tdh, tdt, TX_DESC_COUNT) = Outstanding % TX_DESC_COUNT
  /\ Ahead(rdh, rdt, RX_DESC_COUNT) = RX_DESC_COUNT - 1 - Ready
  /\ rdh = (rx_cur + Ready) % RX_DESC_COUNT

\* A frame in the ring is sent, unless the driver gets so far ahead of the card
\* that it fills the whole ring.
FramesAreSent ==
  \A i \in TxRing : ~tx_descs[i].dd ~> (tx_descs[i].dd \/ Outstanding = TX_DESC_COUNT)

\* Receiving never stops: a frame that arrived is handed to smoltcp, and the card
\* gets its descriptor back.
FramesAreReceived ==
  /\ \A i \in RxRing : rx_descs[i].dd ~> ~rx_descs[i].dd
  /\ rdh = rdt ~> rdh # rdt
============================================================================
