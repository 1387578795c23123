---------------------------- MODULE DownlinkQueue ----------------------------
(***************************************************************************)
(* The bounded buffer of downlink messages the Core keeps for one device   *)
(* (go/src/device_manager/message_queue.go).  The operators are the effect *)
(* of one method call under the queue's mutex; `cap` is the capacity given *)
(* to NewDeviceCommandQueue, and a capacity of 0 means "unbounded".        *)
(***************************************************************************)
EXTENDS Naturals, Sequences

\* m.capacity > 0 && len(queue) >= m.capacity
QueueFull(q, cap) == cap > 0 /\ Len(q) >= cap

\* Faulty variant, to test the properties: a full queue is not trimmed.
BugEnqueued(q, m, cap) == Append(q, m)

\* Enqueue: a full queue silently gives up its oldest message.
Enqueued(q, m, cap) ==
  IF QueueFull(q, cap) THEN Append(Tail(q), m) ELSE Append(q, m)

\* The queue Requeue works on: a full queue gives up its newest message.
Trimmed(q, cap) ==
  IF QueueFull(q, cap) THEN SubSeq(q, 1, Len(q) - 1) ELSE q

\* Requeue returns ErrDownlinkQueueFull when trimming was not enough.
RequeueRefused(q, cap) == QueueFull(Trimmed(q, cap), cap)

\* Requeue: the retried message goes to the head.
Requeued(q, m, cap) ==
  IF RequeueRefused(q, cap) THEN q ELSE <<m>> \o Trimmed(q, cap)

\* The messages waiting in a queue.
Waiting(q) == {q[i] : i \in DOMAIN q}

=============================================================================
