--------------------------- MODULE SqsQueueProofs ---------------------------
(***************************************************************************)
(* What the operators of SqsQueue return, for any redrive budget: the      *)
(* facts the proofs of the components rest on.                             *)
(***************************************************************************)
EXTENDS SqsQueue, TLAPS

(* The ids of a queue were handed out by SendMessage.                      *)
IdsBefore(q) == \A m \in q.messages : m.id < q.next

(* SendMessage keeps a queue a queue and gives the message a fresh id      *)
(* (send_message of the AWS client).                                       *)
LEMMA SentType ==
    ASSUME NEW Body, NEW q \in Queue(Body), NEW body \in Body
    PROVE  /\ Sent(q, body) \in Queue(Body)
           /\ Sent(q, body).next = q.next + 1
           /\ Sent(q, body).messages = q.messages \cup {Fresh(q, body)}
           /\ Fresh(q, body).id = q.next
           /\ Fresh(q, body).body = body
  <1>1. q.next \in Nat \ {0} /\ q.messages \subseteq Message(Body)
    BY DEF Queue, NoMessage
  <1>2. Fresh(q, body) \in Message(Body)
    BY <1>1, MaxReceiveAssumption DEF Fresh, Message, NoMessage
  <1>3. q.next + 1 \in Nat \ {0}
    BY <1>1
  <1> QED
    BY <1>1, <1>2, <1>3 DEF Sent, Queue, Fresh, NoMessage

(* ReceiveMessage counts a delivery and keeps the ids (receive_message).   *)
LEMMA DeliveredType ==
    ASSUME NEW Body, NEW q \in Queue(Body), NEW m \in q.messages, CanDeliver(m)
    PROVE  /\ Delivered(q, m) \in Queue(Body)
           /\ Delivered(q, m).next = q.next
           /\ Retained(Delivered(q, m)) = Retained(q)
           /\ IdsBefore(q) => IdsBefore(Delivered(q, m))
  <1> DEFINE counted == [m EXCEPT !.received = @ + 1]
  <1>1. q.next \in Nat \ {0} /\ q.messages \subseteq Message(Body)
    BY DEF Queue, NoMessage
  <1>2. m \in Message(Body) /\ m.received \in 0..MaxReceive
    BY <1>1 DEF Message
  <1>3. counted \in Message(Body) /\ counted.id = m.id
    BY <1>2, MaxReceiveAssumption DEF CanDeliver, Message
  <1>4. /\ Delivered(q, m).next = q.next
        /\ Delivered(q, m).messages = (q.messages \ {m}) \cup {counted}
        /\ Delivered(q, m) \in Queue(Body)
    BY <1>1, <1>3 DEF Delivered, Queue, NoMessage
  <1>5. Retained(Delivered(q, m)) = Retained(q)
    BY <1>3, <1>4, Zenon DEF Retained
  <1>6. IdsBefore(q) => IdsBefore(Delivered(q, m))
    BY <1>3, <1>4 DEF IdsBefore
  <1> QED
    BY <1>4, <1>5, <1>6

(* A delivery changes neither id nor body (receive_message).               *)
LEMMA DeliveredBody ==
    ASSUME NEW Body, NEW q \in Queue(Body), NEW m \in q.messages, CanDeliver(m)
    PROVE  \A n \in Delivered(q, m).messages : \E o \in q.messages :
               n.id = o.id /\ n.body = o.body
  <1>1. m \in Message(Body)
    BY DEF Queue
  <1>2. /\ [m EXCEPT !.received = @ + 1].id = m.id
        /\ [m EXCEPT !.received = @ + 1].body = m.body
    BY <1>1 DEF Message
  <1>3. Delivered(q, m).messages = (q.messages \ {m}) \cup {[m EXCEPT !.received = @ + 1]}
    BY DEF Delivered, Queue
  <1> QED
    BY <1>2, <1>3

(* DeleteMessage forgets one id and nothing else (delete_message).         *)
LEMMA DeletedType ==
    ASSUME NEW Body, NEW q \in Queue(Body), NEW id
    PROVE  /\ Deleted(q, id) \in Queue(Body)
           /\ Deleted(q, id).next = q.next
           /\ Deleted(q, id).messages \subseteq q.messages
           /\ Retained(Deleted(q, id)) = Retained(q) \ {id}
           /\ IdsBefore(q) => IdsBefore(Deleted(q, id))
  <1>1. /\ Deleted(q, id).next = q.next
        /\ Deleted(q, id).messages = {m \in q.messages : m.id # id}
        /\ Deleted(q, id) \in Queue(Body)
    BY DEF Deleted, Queue
  <1>2. Retained(Deleted(q, id)) = Retained(q) \ {id}
    BY <1>1, Zenon DEF Retained
  <1> QED
    BY <1>1, <1>2 DEF IdsBefore

(* A new queue holds nothing and has handed out no id.                     *)
LEMMA EmptyQueueType ==
    ASSUME NEW Body
    PROVE  EmptyQueue \in Queue(Body) /\ IdsBefore(EmptyQueue)
  BY DEF EmptyQueue, Queue, NoMessage, IdsBefore
=============================================================================
