------------------------------ MODULE SqsQueue ------------------------------
(***************************************************************************)
(* A Standard SQS queue with a redrive policy, as the workers under        *)
(* backend/workers use one.  The service is outside the repository; this   *)
(* is what the callers see of it.                                          *)
(*                                                                         *)
(*   - A message stays in the queue until a consumer deletes it.  Until    *)
(*     then it can be delivered again, and to several consumers at once:   *)
(*     a handler may overrun the visibility timeout, and a Standard queue  *)
(*     duplicates.  Deliveries come in any order.                          *)
(*   - Every delivery counts.  A message delivered MaxReceive times is not *)
(*     delivered again; unless a handler still deletes it, the redrive     *)
(*     policy puts it in the dead-letter queue (every stage queue of       *)
(*     modules/data-foundation/locals.tf has maxReceiveCount 3).  The move *)
(*     itself changes nothing for the consumers and is not a step.         *)
(*                                                                         *)
(* A queue is a record: the next message id and the messages not deleted.  *)
(***************************************************************************)
EXTENDS Naturals

CONSTANT MaxReceive      \* maxReceiveCount of the redrive policy

ASSUME MaxReceiveAssumption == MaxReceive \in Nat \ {0}

(* No message: the value of a message-id attribute that is not stored.     *)
NoMessage == 0

Message(Body) == [id : Nat \ {NoMessage}, body : Body, received : 0..MaxReceive]

Queue(Body) == [next : Nat \ {NoMessage}, messages : SUBSET Message(Body)]

EmptyQueue == [next |-> 1, messages |-> {}]

Fresh(q, body) == [id |-> q.next, body |-> body, received |-> 0]

(* SendMessage: the message gets an id of its own.                         *)
Sent(q, body) == [next |-> q.next + 1, messages |-> q.messages \cup {Fresh(q, body)}]

(* ReceiveMessage.                                                         *)
CanDeliver(m) == m.received < MaxReceive

Delivered(q, m) ==
    [q EXCEPT !.messages = (@ \ {m}) \cup {[m EXCEPT !.received = @ + 1]}]

(* DeleteMessage, by the id of the message: a no-op when it is gone.       *)
Deleted(q, id) == [q EXCEPT !.messages = {m \in @ : m.id # id}]

(* The ids a consumer may still meet, or an operator finds in the          *)
(* dead-letter queue: what the system has not forgotten.                   *)
Retained(q) == {m.id : m \in q.messages}

(* Out of deliveries: dead-lettered once no handler works on it.           *)
Exhausted(q) == {m.id : m \in {n \in q.messages : ~CanDeliver(n)}}

WasSent(q, id) == id \in 1..(q.next - 1)
=============================================================================
