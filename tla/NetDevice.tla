----------------------------- MODULE NetDevice -----------------------------
(***************************************************************************)
(* What a network device promises smoltcp (net/mod.rs, NetworkDevice): two *)
(* bounded queues of frames.  A frame that was taken is sent or delivered  *)
(* once, unchanged and in order; a frame is refused only when a queue is   *)
(* full.  The loopback device (net/device.rs) is this, with queues of      *)
(* QUEUE_CAPACITY; E1000 is shown to implement it with descriptor rings.   *)
(***************************************************************************)
EXTENDS Naturals, Sequences

CONSTANTS
  Frames, NoFrame,  \* what is sent and received; no reply
  TxCap, RxCap      \* the capacities of the queues

VARIABLES tx_queue, rx_queue

devVars == <<tx_queue, rx_queue>>

Init == tx_queue = <<>> /\ rx_queue = <<>>

\* E1000TxToken::consume: the frame is queued, or dropped if there is no room.
Consume(frame) ==
  tx_queue' = IF frame # NoFrame /\ Len(tx_queue) < TxCap THEN Append(tx_queue, frame) ELSE tx_queue

\* smoltcp asks for a token, which it gets if there is room, and uses it.
Transmit(frame) ==
  /\ Len(tx_queue) < TxCap
  /\ Consume(frame)
  /\ UNCHANGED rx_queue

\* It takes the oldest frame, with a token for its reply, whatever the room.
Receive(reply) ==
  /\ rx_queue # <<>>
  /\ rx_queue' = Tail(rx_queue)
  /\ Consume(reply)

\* The oldest frames leave the device: all of them, for drain_tx.
Drain ==
  /\ \E n \in 1..Len(tx_queue) : tx_queue' = SubSeq(tx_queue, n + 1, Len(tx_queue))
  /\ UNCHANGED rx_queue

\* inject_rx: a frame arrives; without room it is dropped.
Inject(frame) ==
  /\ Len(rx_queue) < RxCap
  /\ rx_queue' = Append(rx_queue, frame)
  /\ UNCHANGED tx_queue

Next ==
  \/ \E frame \in Frames : Transmit(frame) \/ Inject(frame)
  \/ \E reply \in Frames \cup {NoFrame} : Receive(reply)
  \/ Drain

Spec == Init /\ [][Next]_devVars
============================================================================
