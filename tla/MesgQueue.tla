------------------------------ MODULE MesgQueue ------------------------------
(***************************************************************************)
(* The OSMesgQueue of the operating-system layer (lib/n64psp), as the game *)
(* uses it: a bounded FIFO of messages.  A send with OS_MESG_NOBLOCK to a  *)
(* full queue fails, returns non-zero and leaves the queue alone; a send   *)
(* with OS_MESG_BLOCK waits for room; a receive takes the oldest message.  *)
(* The layer is outside the repository's own sources, so these operators   *)
(* say what the callers under src/ rely on.                                *)
(***************************************************************************)
EXTENDS Naturals, Sequences

Queue(S, cap) == {q \in Seq(S) : Len(q) <= cap}

HasRoom(q, cap) == Len(q) < cap

(* osSendMesg(mq, msg, OS_MESG_NOBLOCK), its result left aside.            *)
SendNoBlock(q, cap, m) == IF HasRoom(q, cap) THEN Append(q, m) ELSE q

(* MQ_GET_MESG with a NULL destination: drop the oldest message, if any.   *)
Discard(q) == IF q = << >> THEN q ELSE Tail(q)

(* At most n positions of q hold m.                                        *)
AtMostOne(q, m) ==
    \A i, j \in 1..Len(q) : q[i] = m /\ q[j] = m => i = j

AtMostTwo(q, m) ==
    \A i, j, k \in 1..Len(q) :
        q[i] = m /\ q[j] = m /\ q[k] = m => i = j \/ j = k \/ i = k

Holds(q, m) == \E i \in 1..Len(q) : q[i] = m
=============================================================================
