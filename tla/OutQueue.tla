------------------------------ MODULE OutQueue ------------------------------
(***************************************************************************)
(* The outgoing half of a SimpleMessenger Pipe: the priority map out_q,    *)
(* the list of unacknowledged messages, sent, and the counter out_seq.     *)
(* A message is its identity and the sequence number it carries, 0 until   *)
(* the writer has numbered it.  Two priorities matter: everything put back *)
(* by requeue_sent goes to CEPH_MSG_PRIO_HIGHEST (high), which the writer  *)
(* drains before the rest (dflt).                                          *)
(***************************************************************************)
EXTENDS Integers, Sequences, FiniteSets

Message(Ids) == [id : Ids, seq : Nat]

OutQ(Ids) == [out_seq : Nat, high : Seq(Message(Ids)),
              dflt : Seq(Message(Ids)), sent : Seq(Message(Ids))]

(* A queue with nothing in it whose next message is numbered start + 1:    *)
(* a new Pipe's, and what discard_out_queue and randomize_out_seq leave.   *)
EmptyOutQ(start) == [out_seq |-> start, high |-> <<>>, dflt |-> <<>>, sent |-> <<>>]

HasOut(q) == q.high # <<>> \/ q.dflt # <<>>

Send(q, m, urgent) ==
  IF urgent THEN [q EXCEPT !.high = Append(@, m)]
            ELSE [q EXCEPT !.dflt = Append(@, m)]

NextOutgoing(q) == IF q.high # <<>> THEN Head(q.high) ELSE Head(q.dflt)

PopOutgoing(q) == IF q.high # <<>> THEN [q EXCEPT !.high = Tail(@)]
                                   ELSE [q EXCEPT !.dflt = Tail(@)]

(* The next message as the writer sends it: renumbered from out_seq.       *)
Numbered(q) == [NextOutgoing(q) EXCEPT !.seq = q.out_seq + 1]

(* The queue once the writer has taken that message; a lossless Pipe keeps *)
(* it on the sent list until it is acknowledged.                           *)
Transmit(q, lossy) ==
  [PopOutgoing(q) EXCEPT !.out_seq = @ + 1,
                         !.sent = IF lossy THEN @ ELSE Append(@, Numbered(q))]

(* How many messages at the front of s carry a number of at most n.        *)
LeadingUpTo(s, n) ==
  Cardinality({k \in 1..Len(s) : \A i \in 1..k : s[i].seq # 0 /\ s[i].seq <= n})

DropFirst(s, k) == SubSeq(s, k + 1, Len(s))

handle_ack(q, n) == [q EXCEPT !.sent = DropFirst(@, LeadingUpTo(@, n))]

(* Two mutants of it: the sent list is not cleared; out_seq is not rewound. *)
RequeueKeepsSent(q) == [q EXCEPT !.high = q.sent \o @, !.out_seq = @ - Len(q.sent)]
RequeueKeepsSeq(q)  == [q EXCEPT !.high = q.sent \o @, !.sent = <<>>]

(* What was sent and not acknowledged is put back to be sent again.        *)
requeue_sent(q) == [q EXCEPT !.high = q.sent \o @, !.sent = <<>>,
                             !.out_seq = @ - Len(q.sent)]

(* The peer says it has everything up to n: what was put back and carries  *)
(* such a number is dropped.                                               *)
discard_requeued_up_to(q, n) ==
  LET k == LeadingUpTo(q.high, n)
  IN  [q EXCEPT !.high = DropFirst(@, k), !.out_seq = @ + k]

(* On a reconnect the peer says it received everything up to n: connect()  *)
(* pops one message for each number between out_seq and n.                 *)
AckedCount(q, n) == IF n > q.out_seq THEN n - q.out_seq ELSE 0

(* A mutant: they are sent again.                                          *)
DiscardNone(q, n) == q

discard_acked(q, n) ==
  LET k == AckedCount(q, n)
      h == Len(q.high)
  IN  [q EXCEPT !.out_seq = @ + k,
                !.high = IF k <= h THEN DropFirst(@, k) ELSE <<>>,
                !.dflt = IF k <= h THEN @ ELSE DropFirst(@, k - h)]

(* What a replacing Pipe takes over from the one it replaces, whose sent   *)
(* messages are put back; and the mutant in which they are left behind.    *)
StolenUnsent(q) == [q EXCEPT !.sent = <<>>]
Stolen(q) == requeue_sent(q)

(* The numbers the queue holds are consistent with its counter: the sent   *)
(* list ends at out_seq without a gap, and a message that was put back     *)
(* will be given, when it is sent again, the number it already carries.    *)
WellNumbered(q) ==
  /\ Len(q.sent) <= q.out_seq
  /\ \A i \in 1..Len(q.sent) : q.sent[i].seq = q.out_seq - Len(q.sent) + i
  /\ \A i \in 1..Len(q.high) : q.high[i].seq # 0 => q.high[i].seq = q.out_seq + i
  /\ \A i \in 1..Len(q.dflt) : q.dflt[i].seq = 0
=============================================================================
