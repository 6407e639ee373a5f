-------------------------- MODULE PipeSessionProofs -------------------------
(***************************************************************************)
(* Theorems about PipeSession, for every value of its constants: where the *)
(* threads are and which Pipe is registered, and then the types of the     *)
(* data.                                                                   *)
(*                                                                         *)
(* What the operations on an out queue preserve comes first: its type and  *)
(* the numbers of its messages.  How many messages an acknowledgement      *)
(* covers does not matter for that, only that a prefix is dropped.         *)
(***************************************************************************)
EXTENDS PipeSession, SequenceTheorems, FiniteSetTheorems, TLAPS

(* An out queue with messages in I whose numbers are consistent.         *)
Good(q, I) == q \in OutQ(I) /\ WellNumbered(q)

(* LeadingUpTo() counts messages of the list it is given.                  *)
LEMMA LeadingUpToBound ==
  ASSUME NEW S, NEW s \in Seq(S), NEW n
  PROVE  LeadingUpTo(s, n) \in 0..Len(s)
<1> DEFINE T == {k \in 1..Len(s) : \A i \in 1..k : s[i].seq # 0 /\ s[i].seq <= n}
<1>1. Len(s) \in Nat
  BY LenProperties
<1>2. IsFiniteSet(1..Len(s)) /\ Cardinality(1..Len(s)) = Len(s)
  <2>1. 1 \in Int /\ Len(s) \in Int /\ (1 > Len(s) => Len(s) = 0)
    BY <1>1
  <2>2. /\ IsFiniteSet(1..Len(s))
        /\ Cardinality(1..Len(s)) = IF 1 > Len(s) THEN 0 ELSE Len(s) - 1 + 1
    BY <2>1, FS_Interval
  <2> QED BY <1>1, <2>1, <2>2
<1>3. T \in SUBSET (1..Len(s))
  OBVIOUS
<1> HIDE DEF T
<1>4. IsFiniteSet(T) /\ Cardinality(T) <= Len(s)
  BY <1>2, <1>3, FS_Subset
<1>5. Cardinality(T) \in Nat
  BY <1>4, FS_CardinalityType
<1>6. LeadingUpTo(s, n) = Cardinality(T)
  BY DEF LeadingUpTo, T
<1> QED BY <1>1, <1>4, <1>5, <1>6

(* Dropping the first k messages of a list.                                *)
LEMMA DropFirstProperties ==
  ASSUME NEW S, NEW s \in Seq(S), NEW k \in 0..Len(s)
  PROVE  /\ DropFirst(s, k) \in Seq(S)
         /\ Len(DropFirst(s, k)) = Len(s) - k
         /\ \A i \in 1..(Len(s) - k) : DropFirst(s, k)[i] = s[k + i]
<1>1. Len(s) \in Nat /\ k \in Nat /\ k <= Len(s)
  BY LenProperties
<1>2. \A i \in (k + 1)..Len(s) : s[i] \in S
  BY <1>1, ElementOfSeq
<1>3. /\ SubSeq(s, k + 1, Len(s)) \in Seq(S)
      /\ Len(SubSeq(s, k + 1, Len(s))) = IF k + 1 <= Len(s) THEN Len(s) - (k + 1) + 1 ELSE 0
      /\ \A i \in 1..(Len(s) - (k + 1) + 1) : SubSeq(s, k + 1, Len(s))[i] = s[(k + 1) + i - 1]
  BY <1>1, <1>2, SubSeqProperties
<1> QED BY <1>1, <1>3 DEF DropFirst

(* An empty queue, a new Pipe's or a reset session's.                      *)
LEMMA EmptyOutQGood ==
  ASSUME NEW I, NEW start \in Nat
  PROVE  Good(EmptyOutQ(start), I)
BY EmptySeq DEF Good, EmptyOutQ, OutQ, WellNumbered

(* _send: a message that has no number yet is put at the end of a list.    *)
LEMMA SendGood ==
  ASSUME NEW I, NEW q, Good(q, I), NEW m \in Message(I), m.seq = 0, NEW urgent \in BOOLEAN
  PROVE  Good(Send(q, m, urgent), I) /\ Send(q, m, urgent).sent = q.sent
<1>1. /\ q \in OutQ(I) /\ q.out_seq \in Nat
      /\ q.high \in Seq(Message(I)) /\ q.dflt \in Seq(Message(I)) /\ q.sent \in Seq(Message(I))
  BY DEF Good, OutQ
<1>2. ASSUME NEW s \in Seq(Message(I))
      PROVE  /\ Append(s, m) \in Seq(Message(I))
             /\ Len(Append(s, m)) = Len(s) + 1
             /\ \A i \in 1..Len(s) : Append(s, m)[i] = s[i]
             /\ Append(s, m)[Len(s) + 1] = m
             /\ Len(s) \in Nat
  BY <1>2, AppendProperties, LenProperties
<1>3. CASE urgent
  <2> DEFINE r == [q EXCEPT !.high = Append(@, m)]
  <2>1. /\ r \in OutQ(I) /\ r.high = Append(q.high, m) /\ r.sent = q.sent
        /\ r.dflt = q.dflt /\ r.out_seq = q.out_seq
    BY <1>1, <1>2 DEF OutQ
  <2>2. \A i \in 1..Len(r.high) : r.high[i].seq # 0 => r.high[i].seq = r.out_seq + i
    <3> SUFFICES ASSUME NEW i \in 1..Len(r.high), r.high[i].seq # 0
                 PROVE  r.high[i].seq = r.out_seq + i
      OBVIOUS
    <3>1. i \in 1..(Len(q.high) + 1) /\ i # Len(q.high) + 1
      BY <1>1, <1>2, <2>1
    <3>2. i \in 1..Len(q.high) /\ r.high[i] = q.high[i]
      BY <1>1, <1>2, <2>1, <3>1
    <3> QED BY <2>1, <3>2 DEF Good, WellNumbered
  <2> QED BY <1>3, <2>1, <2>2 DEF Good, WellNumbered, Send
<1>4. CASE ~urgent
  <2> DEFINE r == [q EXCEPT !.dflt = Append(@, m)]
  <2>1. /\ r \in OutQ(I) /\ r.dflt = Append(q.dflt, m) /\ r.sent = q.sent
        /\ r.high = q.high /\ r.out_seq = q.out_seq
    BY <1>1, <1>2 DEF OutQ
  <2>2. \A i \in 1..Len(r.dflt) : r.dflt[i].seq = 0
    <3> SUFFICES ASSUME NEW i \in 1..Len(r.dflt)
                 PROVE  r.dflt[i].seq = 0
      OBVIOUS
    <3>1. i \in 1..Len(q.dflt) \/ i = Len(q.dflt) + 1
      BY <1>1, <1>2, <2>1
    <3> QED BY <1>1, <1>2, <2>1, <3>1 DEF Good, WellNumbered
  <2> QED BY <1>4, <2>1, <2>2 DEF Good, WellNumbered, Send
<1> QED BY <1>3, <1>4

(* The fields of a queue, and the numbers they hold.                       *)
Fields(q, I) ==
  /\ q \in OutQ(I) /\ q.out_seq \in Nat
  /\ q.high \in Seq(Message(I)) /\ Len(q.high) \in Nat
  /\ q.dflt \in Seq(Message(I)) /\ Len(q.dflt) \in Nat
  /\ q.sent \in Seq(Message(I)) /\ Len(q.sent) \in Nat
  /\ Len(q.sent) <= q.out_seq
  /\ \A i \in 1..Len(q.sent) : q.sent[i].seq = q.out_seq - Len(q.sent) + i
  /\ \A i \in 1..Len(q.high) : q.high[i].seq # 0 => q.high[i].seq = q.out_seq + i
  /\ \A i \in 1..Len(q.dflt) : q.dflt[i].seq = 0

LEMMA GoodFields ==
  ASSUME NEW I, NEW q, Good(q, I)
  PROVE  Fields(q, I)
BY LenProperties DEF Good, OutQ, WellNumbered, Fields

(* A place in the concatenation of lists of a and b messages.              *)
LEMMA SplitIndex ==
  ASSUME NEW a \in Nat, NEW b \in Nat, NEW i \in 1..(a + b)
  PROVE  i \in 1..a \/ (~(i <= a) /\ i - a \in 1..b)
OBVIOUS

(* handle_ack: what is acknowledged is a prefix of the sent list.          *)
LEMMA HandleAckGood ==
  ASSUME NEW I, NEW q, Good(q, I), NEW n
  PROVE  Good(handle_ack(q, n), I) /\ (q.sent = <<>> => handle_ack(q, n).sent = <<>>)
<1>0. Fields(q, I)
  BY GoodFields
<1> DEFINE k == LeadingUpTo(q.sent, n)
           t == DropFirst(q.sent, k)
<1>1. k \in 0..Len(q.sent)
  BY <1>0, LeadingUpToBound DEF Fields
<1> HIDE DEF k
<1>2. /\ t \in Seq(Message(I)) /\ Len(t) = Len(q.sent) - k
      /\ \A i \in 1..(Len(q.sent) - k) : t[i] = q.sent[k + i]
  <2>1. PICK s \in Seq(Message(I)) : s = q.sent
    BY <1>0 DEF Fields
  <2>2. k \in 0..Len(s)
    BY <1>1, <2>1
  <2>3. /\ DropFirst(s, k) \in Seq(Message(I)) /\ Len(DropFirst(s, k)) = Len(s) - k
        /\ \A i \in 1..(Len(s) - k) : DropFirst(s, k)[i] = s[k + i]
    BY <2>2, DropFirstProperties
  <2> QED BY <2>1, <2>3
<1> HIDE DEF t
<1> DEFINE r == handle_ack(q, n)
<1>3. r \in OutQ(I) /\ r.out_seq = q.out_seq /\ r.high = q.high /\ r.dflt = q.dflt /\ r.sent = t
  <2>1. r = [q EXCEPT !.sent = t]
    BY DEF handle_ack, k, t
  <2> QED BY <1>0, <1>2, <2>1 DEF Fields, OutQ
<1> HIDE DEF r
<1>4. \A i \in 1..Len(t) : t[i].seq = q.out_seq - Len(t) + i
  <2> SUFFICES ASSUME NEW i \in 1..Len(t)
               PROVE  t[i].seq = q.out_seq - Len(t) + i
    OBVIOUS
  <2>1. k + i \in 1..Len(q.sent) /\ t[i] = q.sent[k + i]
    BY <1>0, <1>1, <1>2 DEF Fields
  <2>2. q.sent[k + i].seq = q.out_seq - Len(q.sent) + (k + i)
    BY <1>0, <2>1 DEF Fields
  <2> QED BY <1>0, <1>1, <1>2, <2>1, <2>2 DEF Fields
<1>5. Len(t) <= q.out_seq
  BY <1>0, <1>1, <1>2 DEF Fields
<1>6. Good(r, I)
  BY <1>0, <1>3, <1>4, <1>5 DEF Fields, Good, WellNumbered
<1>7. ASSUME q.sent = <<>> PROVE r.sent = <<>>
  <2>1. Len(t) = 0
    BY <1>1, <1>2, <1>7, EmptySeq
  <2> QED BY <1>2, <1>3, <2>1, EmptySeq
<1> QED BY <1>6, <1>7 DEF r

(* requeue_sent: the sent messages go back in front, with their numbers.   *)
LEMMA RequeueGood ==
  ASSUME NEW I, NEW q, Good(q, I)
  PROVE  Good(requeue_sent(q), I) /\ requeue_sent(q).sent = <<>>
<1>0. Fields(q, I)
  BY GoodFields
<1> DEFINE h == q.sent \o q.high
           n == q.out_seq - Len(q.sent)
<1>1. /\ h \in Seq(Message(I)) /\ Len(h) = Len(q.sent) + Len(q.high)
      /\ \A i \in 1..(Len(q.sent) + Len(q.high)) :
            h[i] = IF i <= Len(q.sent) THEN q.sent[i] ELSE q.high[i - Len(q.sent)]
  <2>1. q.sent \in Seq(Message(I)) /\ q.high \in Seq(Message(I))
    BY <1>0 DEF Fields
  <2> QED BY <2>1, ConcatProperties
<1> HIDE DEF h
<1>2. n \in Nat
  BY <1>0 DEF Fields
<1>5. <<>> \in Seq(Message(I)) /\ Len(<<>>) = 0
  BY EmptySeq
<1> DEFINE r == requeue_sent(q)
<1>3. r \in OutQ(I) /\ r.out_seq = n /\ r.high = h /\ r.dflt = q.dflt /\ r.sent = <<>>
  <2>1. r = [q EXCEPT !.high = h, !.sent = <<>>, !.out_seq = n]
    BY DEF requeue_sent, h
  <2> HIDE DEF n, r
  <2>2. q \in OutQ(I)
    BY <1>0 DEF Fields
  <2> QED BY <1>1, <1>2, <1>5, <2>1, <2>2 DEF OutQ
<1> HIDE DEF r
<1>4. \A i \in 1..Len(h) : h[i].seq # 0 => h[i].seq = n + i
  <2> SUFFICES ASSUME NEW i \in 1..Len(h), h[i].seq # 0
               PROVE  h[i].seq = n + i
    OBVIOUS
  <2>0. /\ Len(q.sent) \in Nat /\ Len(q.high) \in Nat /\ q.out_seq \in Nat
        /\ i \in 1..(Len(q.sent) + Len(q.high))
    BY <1>0, <1>1 DEF Fields
  <2>h. h[i] = IF i <= Len(q.sent) THEN q.sent[i] ELSE q.high[i - Len(q.sent)]
    BY <1>1, <2>0
  <2>1. CASE i \in 1..Len(q.sent)
    <3>1. q.sent[i].seq = q.out_seq - Len(q.sent) + i
      BY <1>0, <2>1 DEF Fields
    <3>2. h[i] = q.sent[i]
      BY <2>h, <2>0, <2>1
    <3> QED BY <3>1, <3>2
  <2>2. CASE ~(i <= Len(q.sent)) /\ i - Len(q.sent) \in 1..Len(q.high)
    <3> DEFINE j == i - Len(q.sent)
    <3>1. q.high[j].seq # 0 => q.high[j].seq = q.out_seq + j
      BY <1>0, <2>2 DEF Fields
    <3>2. h[i] = q.high[j]
      BY <2>h, <2>2
    <3>3. h[i].seq = q.out_seq + j
      BY <3>1, <3>2
    <3> QED BY <2>0, <3>3
  <2> QED BY <2>0, <2>1, <2>2, SplitIndex
<1> HIDE DEF n
<1>6. \A i \in 1..Len(<<>>) : <<>>[i].seq = n - Len(<<>>) + i
  BY <1>5
<1>7. Len(<<>>) <= n
  BY <1>2, <1>5
<1>8. Good(r, I)
  BY <1>0, <1>3, <1>4, <1>6, <1>7 DEF Fields, Good, WellNumbered
<1> QED BY <1>3, <1>8 DEF r

(* Dropping any number of messages leaves a suffix of the list.            *)
LEMMA DropFirstSuffix ==
  ASSUME NEW S, NEW s \in Seq(S), NEW k \in Nat
  PROVE  /\ DropFirst(s, k) \in Seq(S)
         /\ \A i \in 1..Len(DropFirst(s, k)) :
               k + i \in 1..Len(s) /\ DropFirst(s, k)[i] = s[k + i]
<1>1. Len(s) \in Nat
  BY LenProperties
<1>2. \A i \in (k + 1)..Len(s) : s[i] \in S
  BY <1>1, ElementOfSeq
<1>3. /\ SubSeq(s, k + 1, Len(s)) \in Seq(S)
      /\ Len(SubSeq(s, k + 1, Len(s))) = IF k + 1 <= Len(s) THEN Len(s) - (k + 1) + 1 ELSE 0
      /\ \A i \in 1..(Len(s) - (k + 1) + 1) : SubSeq(s, k + 1, Len(s))[i] = s[(k + 1) + i - 1]
  BY <1>1, <1>2, SubSeqProperties
<1>4. ASSUME NEW i \in 1..Len(DropFirst(s, k))
      PROVE  k + i \in 1..Len(s) /\ DropFirst(s, k)[i] = s[k + i]
  BY <1>1, <1>3, <1>4 DEF DropFirst
<1> QED BY <1>3, <1>4 DEF DropFirst

(* A queue without sent messages from whose front, messages that were put  *)
(* back first, k are dropped and counted as sent.                          *)
LEMMA DroppedGood ==
  ASSUME NEW I, NEW q, Good(q, I), q.sent = <<>>, NEW k \in Nat, NEW d \in Nat,
         NEW r, r \in OutQ(I), r.out_seq = q.out_seq + k, r.sent = <<>>,
         r.high = DropFirst(q.high, k), r.dflt = DropFirst(q.dflt, d)
  PROVE  Good(r, I)
<1>0. Fields(q, I)
  BY GoodFields
<1>1. \A i \in 1..Len(r.high) : k + i \in 1..Len(q.high) /\ r.high[i] = q.high[k + i]
  <2>1. PICK s \in Seq(Message(I)) : s = q.high
    BY <1>0 DEF Fields
  <2>2. r.high = DropFirst(s, k)
    BY <2>1
  <2>3. \A i \in 1..Len(DropFirst(s, k)) :
           k + i \in 1..Len(s) /\ DropFirst(s, k)[i] = s[k + i]
    BY DropFirstSuffix
  <2> QED BY <2>1, <2>2, <2>3
<1>2. \A i \in 1..Len(r.dflt) : d + i \in 1..Len(q.dflt) /\ r.dflt[i] = q.dflt[d + i]
  <2>1. PICK s \in Seq(Message(I)) : s = q.dflt
    BY <1>0 DEF Fields
  <2>2. r.dflt = DropFirst(s, d)
    BY <2>1
  <2>3. \A i \in 1..Len(DropFirst(s, d)) :
           d + i \in 1..Len(s) /\ DropFirst(s, d)[i] = s[d + i]
    BY DropFirstSuffix
  <2> QED BY <2>1, <2>2, <2>3
<1>3. ASSUME NEW i \in 1..Len(r.high), r.high[i].seq # 0
      PROVE  r.high[i].seq = r.out_seq + i
  <2>1. k + i \in 1..Len(q.high) /\ r.high[i] = q.high[k + i]
    BY <1>1
  <2>2. q.high[k + i].seq = q.out_seq + (k + i)
    BY <1>0, <1>3, <2>1 DEF Fields
  <2>3. i \in Int /\ q.out_seq \in Int
    BY <1>0 DEF Fields
  <2> QED BY <2>1, <2>2, <2>3
<1>4. \A i \in 1..Len(r.dflt) : r.dflt[i].seq = 0
  BY <1>0, <1>2 DEF Fields
<1>5. Len(r.sent) = 0 /\ Len(r.sent) <= r.out_seq
  BY <1>0, EmptySeq DEF Fields
<1>6. \A i \in 1..Len(r.sent) : r.sent[i].seq = r.out_seq - Len(r.sent) + i
  BY <1>5
<1> QED BY <1>3, <1>4, <1>5, <1>6 DEF Good, WellNumbered

LEMMA DropNone ==
  ASSUME NEW S, NEW s \in Seq(S)
  PROVE  DropFirst(s, 0) = s
<1>1. Len(s) \in Nat
  BY LenProperties
<1>2. /\ DropFirst(s, 0) \in Seq(S) /\ Len(DropFirst(s, 0)) = Len(s) - 0
      /\ \A i \in 1..(Len(s) - 0) : DropFirst(s, 0)[i] = s[0 + i]
  BY <1>1, DropFirstProperties
<1>3. \A i \in 1..Len(s) : DropFirst(s, 0)[i] = s[i]
  BY <1>1, <1>2
<1> QED BY <1>1, <1>2, <1>3, SeqEqual

(* discard_requeued_up_to: what the peer has received is not sent again.   *)
LEMMA DiscardRequeuedGood ==
  ASSUME NEW I, NEW q, Good(q, I), q.sent = <<>>, NEW n
  PROVE  /\ Good(discard_requeued_up_to(q, n), I)
         /\ discard_requeued_up_to(q, n).sent = <<>>
<1>0. Fields(q, I)
  BY GoodFields
<1> DEFINE k == LeadingUpTo(q.high, n)
           r == discard_requeued_up_to(q, n)
<1>1. k \in Nat
  BY <1>0, LeadingUpToBound DEF Fields
<1>2. r = [q EXCEPT !.high = DropFirst(@, k), !.out_seq = @ + k]
  BY DEF discard_requeued_up_to
<1> HIDE DEF k, r
<1>3. DropFirst(q.high, k) \in Seq(Message(I)) /\ q.out_seq + k \in Nat
  BY <1>0, <1>1, DropFirstSuffix DEF Fields
<1>4. /\ r \in OutQ(I) /\ r.out_seq = q.out_seq + k /\ r.sent = <<>>
      /\ r.high = DropFirst(q.high, k) /\ r.dflt = q.dflt
  BY <1>0, <1>2, <1>3 DEF Fields, OutQ
<1>5. r.dflt = DropFirst(q.dflt, 0)
  BY <1>0, <1>4, DropNone DEF Fields
<1>6. Good(r, I)
  BY <1>1, <1>4, <1>5, DroppedGood
<1> QED BY <1>4, <1>6 DEF r

(* discard_acked, the same on the connecting side: pops one message for    *)
(* each number between out_seq and n.                                      *)
LEMMA DiscardAckedGood ==
  ASSUME NEW I, NEW q, Good(q, I), q.sent = <<>>, NEW n \in Nat
  PROVE  Good(discard_acked(q, n), I) /\ discard_acked(q, n).sent = <<>>
<1>0. Fields(q, I)
  BY GoodFields
<1> DEFINE k == AckedCount(q, n)
           h == Len(q.high)
           r == discard_acked(q, n)
           d == IF k <= h THEN 0 ELSE k - h
<1>1. k \in Nat /\ h \in Nat /\ d \in Nat
  BY <1>0 DEF Fields, AckedCount
<1>2. r = [q EXCEPT !.out_seq = @ + k,
                    !.high = IF k <= h THEN DropFirst(@, k) ELSE <<>>,
                    !.dflt = IF k <= h THEN @ ELSE DropFirst(@, k - h)]
  BY DEF discard_acked
<1>3. (IF k <= h THEN DropFirst(q.high, k) ELSE <<>>) = DropFirst(q.high, k)
  <2>1. CASE k <= h
    BY <2>1
  <2>2. CASE ~(k <= h)
    <3>1. DropFirst(q.high, k) \in Seq(Message(I))
      BY <1>0, <1>1, DropFirstSuffix DEF Fields
    <3>2. Len(DropFirst(q.high, k)) \in Nat
          /\ \A i \in 1..Len(DropFirst(q.high, k)) : k + i \in 1..h
      BY <1>0, <1>1, <3>1, DropFirstSuffix, LenProperties DEF Fields
    <3>3. Len(DropFirst(q.high, k)) = 0
      BY <1>1, <2>2, <3>2
    <3>4. DropFirst(q.high, k) = <<>>
      BY <3>1, <3>3, EmptySeq
    <3> QED BY <2>2, <3>4
  <2> QED BY <2>1, <2>2
<1>4. (IF k <= h THEN q.dflt ELSE DropFirst(q.dflt, k - h)) = DropFirst(q.dflt, d)
  BY <1>0, DropNone DEF Fields
<1> HIDE DEF k, h, r, d
<1>5. /\ DropFirst(q.high, k) \in Seq(Message(I)) /\ DropFirst(q.dflt, d) \in Seq(Message(I))
      /\ q.out_seq + k \in Nat
  BY <1>0, <1>1, DropFirstSuffix DEF Fields
<1>6. /\ r \in OutQ(I) /\ r.out_seq = q.out_seq + k /\ r.sent = <<>>
      /\ r.high = DropFirst(q.high, k) /\ r.dflt = DropFirst(q.dflt, d)
  BY <1>0, <1>2, <1>3, <1>4, <1>5 DEF Fields, OutQ
<1>7. Good(r, I)
  BY <1>1, <1>6, DroppedGood
<1> QED BY <1>6, <1>7 DEF r

(* Taking the next message off the queue.                                  *)
LEMMA PopProperties ==
  ASSUME NEW I, NEW q, Good(q, I), HasOut(q)
  PROVE  /\ NextOutgoing(q) \in Message(I)
         /\ PopOutgoing(q) \in OutQ(I)
         /\ PopOutgoing(q).out_seq = q.out_seq /\ PopOutgoing(q).sent = q.sent
         /\ \A i \in 1..Len(PopOutgoing(q).high) :
               i + 1 \in 1..Len(q.high) /\ PopOutgoing(q).high[i] = q.high[i + 1]
         /\ \A i \in 1..Len(PopOutgoing(q).dflt) : PopOutgoing(q).dflt[i].seq = 0
<1>0. Fields(q, I)
  BY GoodFields
<1>1. ASSUME NEW s \in Seq(Message(I)), s # <<>>
      PROVE  /\ Head(s) \in Message(I) /\ Tail(s) \in Seq(Message(I))
             /\ \A i \in 1..Len(Tail(s)) : i + 1 \in 1..Len(s) /\ Tail(s)[i] = s[i + 1]
  <2>1. /\ Head(s) \in Message(I) /\ Tail(s) \in Seq(Message(I))
        /\ Len(Tail(s)) = Len(s) - 1 /\ \A i \in 1..Len(Tail(s)) : Tail(s)[i] = s[i + 1]
    BY <1>1, HeadTailProperties
  <2>2. Len(s) \in Nat
    BY LenProperties
  <2> QED BY <2>1, <2>2
<1>2. CASE q.high # <<>>
  <2> DEFINE r == [q EXCEPT !.high = Tail(@)]
  <2>1. /\ Head(q.high) \in Message(I) /\ Tail(q.high) \in Seq(Message(I))
        /\ \A i \in 1..Len(Tail(q.high)) :
              i + 1 \in 1..Len(q.high) /\ Tail(q.high)[i] = q.high[i + 1]
    BY <1>0, <1>1, <1>2 DEF Fields
  <2>2. /\ r \in OutQ(I) /\ r.out_seq = q.out_seq /\ r.sent = q.sent
        /\ r.high = Tail(q.high) /\ r.dflt = q.dflt
    BY <1>0, <2>1 DEF Fields, OutQ
  <2>3. NextOutgoing(q) = Head(q.high) /\ PopOutgoing(q) = r
    BY <1>2 DEF NextOutgoing, PopOutgoing
  <2> QED BY <1>0, <2>1, <2>2, <2>3 DEF Fields
<1>3. CASE q.high = <<>>
  <2> DEFINE r == [q EXCEPT !.dflt = Tail(@)]
  <2>1. /\ Head(q.dflt) \in Message(I) /\ Tail(q.dflt) \in Seq(Message(I))
        /\ \A i \in 1..Len(Tail(q.dflt)) :
              i + 1 \in 1..Len(q.dflt) /\ Tail(q.dflt)[i] = q.dflt[i + 1]
    BY <1>0, <1>1, <1>3 DEF Fields, HasOut
  <2>2. /\ r \in OutQ(I) /\ r.out_seq = q.out_seq /\ r.sent = q.sent
        /\ r.high = <<>> /\ r.dflt = Tail(q.dflt)
    BY <1>0, <1>3, <2>1 DEF Fields, OutQ
  <2>3. NextOutgoing(q) = Head(q.dflt) /\ PopOutgoing(q) = r
    BY <1>3 DEF NextOutgoing, PopOutgoing
  <2>4. \A i \in 1..Len(r.dflt) : r.dflt[i].seq = 0
    BY <1>0, <2>1, <2>2 DEF Fields
  <2>5. Len(r.high) = 0
    BY <2>2, EmptySeq
  <2> QED BY <2>1, <2>2, <2>3, <2>4, <2>5
<1> QED BY <1>2, <1>3

(* What the writer takes: the next message, numbered out_seq + 1.          *)
LEMMA NumberedType ==
  ASSUME NEW I, NEW q, Good(q, I), HasOut(q)
  PROVE  Numbered(q) \in Message(I) /\ Numbered(q).seq = q.out_seq + 1
<1>1. NextOutgoing(q) \in Message(I)
  BY PopProperties
<1>2. q.out_seq \in Nat
  BY GoodFields DEF Fields
<1> QED BY <1>1, <1>2 DEF Numbered, Message

(* The writer takes a message; a lossy Pipe, which keeps no sent messages, *)
(* forgets it.                                                             *)
LEMMA TransmitGood ==
  ASSUME NEW I, NEW q, Good(q, I), HasOut(q), NEW lossy \in BOOLEAN,
         lossy => q.sent = <<>>
  PROVE  Good(Transmit(q, lossy), I) /\ (lossy => Transmit(q, lossy).sent = <<>>)
<1>0. Fields(q, I)
  BY GoodFields
<1> DEFINE o == PopOutgoing(q)
           m == Numbered(q)
           t == IF lossy THEN q.sent ELSE Append(q.sent, m)
           r == Transmit(q, lossy)
<1>1. /\ o \in OutQ(I) /\ o.out_seq = q.out_seq /\ o.sent = q.sent
      /\ \A i \in 1..Len(o.high) : i + 1 \in 1..Len(q.high) /\ o.high[i] = q.high[i + 1]
      /\ \A i \in 1..Len(o.dflt) : o.dflt[i].seq = 0
  BY PopProperties
<1>2. m \in Message(I) /\ m.seq = q.out_seq + 1
  BY NumberedType
<1>3. r = [o EXCEPT !.out_seq = @ + 1, !.sent = IF lossy THEN @ ELSE Append(@, m)]
  BY DEF Transmit
<1> HIDE DEF o, m, r
<1>4. /\ t \in Seq(Message(I)) /\ (lossy => t = <<>>) /\ Len(t) <= q.out_seq + 1
      /\ \A i \in 1..Len(t) : t[i].seq = (q.out_seq + 1) - Len(t) + i
  <2>1. CASE lossy
    <3>1. t = <<>> /\ Len(t) = 0 /\ t \in Seq(Message(I))
      BY <1>0, <2>1, EmptySeq DEF Fields
    <3> HIDE DEF t
    <3> QED BY <1>0, <3>1 DEF Fields
  <2>2. CASE ~lossy
    <3>1. t = Append(q.sent, m)
      BY <2>2
    <3>2. /\ t \in Seq(Message(I)) /\ Len(t) = Len(q.sent) + 1 /\ t[Len(q.sent) + 1] = m
          /\ \A i \in 1..Len(q.sent) : t[i] = q.sent[i]
      BY <1>0, <1>2, <3>1, AppendProperties DEF Fields
    <3> HIDE DEF t
    <3>3. Len(q.sent) \in Nat /\ q.out_seq \in Nat /\ Len(q.sent) <= q.out_seq
      BY <1>0 DEF Fields
    <3>4. ASSUME NEW i \in 1..Len(t)
          PROVE  t[i].seq = (q.out_seq + 1) - Len(t) + i
      <4>1. i \in 1..Len(q.sent) \/ i = Len(q.sent) + 1
        BY <3>2, <3>3
      <4>2. CASE i \in 1..Len(q.sent)
        <5>1. t[i] = q.sent[i] /\ q.sent[i].seq = q.out_seq - Len(q.sent) + i
          BY <1>0, <3>2, <4>2 DEF Fields
        <5> QED BY <3>2, <3>3, <5>1
      <4>3. CASE i = Len(q.sent) + 1
        <5>1. t[i].seq = q.out_seq + 1
          BY <1>2, <3>2, <4>3
        <5> QED BY <3>2, <3>3, <4>3, <5>1
      <4> QED BY <4>1, <4>2, <4>3
    <3>5. Len(t) <= q.out_seq + 1
      BY <3>2, <3>3
    <3> QED BY <2>2, <3>2, <3>4, <3>5
  <2> QED BY <2>1, <2>2
<1>5. r = [o EXCEPT !.out_seq = q.out_seq + 1, !.sent = t]
  BY <1>1, <1>3
<1> HIDE DEF t
<1>6. /\ r \in OutQ(I) /\ r.out_seq = q.out_seq + 1 /\ r.sent = t
      /\ r.high = o.high /\ r.dflt = o.dflt
  <2>1. o \in OutQ(I) /\ t \in Seq(Message(I)) /\ q.out_seq + 1 \in Nat
    BY <1>0, <1>1, <1>4 DEF Fields
  <2> QED BY <1>5, <2>1 DEF OutQ
<1>7. ASSUME NEW i \in 1..Len(o.high), o.high[i].seq # 0
      PROVE  o.high[i].seq = (q.out_seq + 1) + i
  <2>1. i + 1 \in 1..Len(q.high) /\ o.high[i] = q.high[i + 1]
    BY <1>1
  <2>2. q.high[i + 1].seq = q.out_seq + (i + 1)
    BY <1>0, <1>7, <2>1 DEF Fields
  <2>3. q.out_seq \in Nat /\ i \in Int
    BY <1>0 DEF Fields
  <2>4. q.out_seq + (i + 1) = (q.out_seq + 1) + i
    BY <2>3
  <2> QED BY <2>1, <2>2, <2>4
<1>8. Good(r, I)
  BY <1>1, <1>4, <1>6, <1>7 DEF Good, WellNumbered
<1> QED BY <1>4, <1>6, <1>8 DEF r
-----------------------------------------------------------------------------
(* Where the threads are and which Pipe is registered.                     *)
Control ==
  /\ state \in [Pipes -> States]
  /\ rd \in [Pipes -> ReaderPC] /\ wr \in [Pipes -> WriterPC]
  /\ rank_pipe \in [Peers -> Pipes \cup {None}]
  /\ DOMAIN pipe = Pipes /\ DOMAIN outq = Pipes /\ DOMAIN loc = Pipes

(* The registered Pipe belongs to the messenger and has left accept().     *)
Registered ==
  \A p \in Peers : rank_pipe[p] # None =>
    Owner(rank_pipe[p]) = p /\ state[rank_pipe[p]] \notin {"free", "accepting"}

(* Nothing is left of a Pipe that has been reaped.                         *)
FreeIsClean ==
  \A i \in Pipes : state[i] = "free" =>
    rd[i] = "none" /\ wr[i] = "none" /\ outq[i] = EmptyOutQ(0) /\ loc[i] = NoLoc

(* A Pipe that is being accepted has a reader, in accept(), and no writer, *)
(* and nobody has given it anything to send.                               *)
AcceptingIsIdle ==
  \A i \in Pipes : state[i] = "accepting" =>
    /\ rd[i] = "accept" /\ wr[i] = "none" /\ loc[i] = NoLoc
    /\ outq[i] = EmptyOutQ(0) /\ ~IsQueued(pipe[i], outq[i])

(* LivePipeRegistered is not inductive: a Pipe that fails in accept()      *)
(* becomes live if it has something to send.                               *)
LInv == Control /\ Registered /\ FreeIsClean /\ AcceptingIsIdle /\ LivePipeRegistered

(* There is no Pipe <<0, 0>>.                                              *)
LEMMA NoneIsNoPipe == None \notin Pipes
BY DEF None, Pipes, Peers

LEMMA OwnerIsPeer == \A i \in Pipes : Owner(i) \in Peers
BY DEF Owner, Pipes

(* FreePipe gives a Pipe object that is not in use.                        *)
LEMMA FreePipeIsFree ==
  ASSUME NEW p \in Peers, Free(p) # {}
  PROVE  FreePipe(p) \in Pipes /\ state[FreePipe(p)] = "free" /\ Owner(FreePipe(p)) = p
<1>1. (CHOOSE n \in Free(p) : TRUE) \in Free(p)
  OBVIOUS
<1>2. PICK n \in Free(p) : FreePipe(p) = <<p, n>>
  BY <1>1 DEF FreePipe
<1>3. n \in Slots /\ state[<<p, n>>] = "free"
  BY DEF Free
<1> QED BY <1>2, <1>3 DEF Pipes, Owner

(* _lookup_pipe.                                                           *)
LEMMA LookupProperties ==
  ASSUME NEW p \in Peers, LInv
  PROVE  /\ Lookup(p) # None =>
              /\ Lookup(p) = rank_pipe[p] /\ Lookup(p) \in Pipes /\ Owner(Lookup(p)) = p
              /\ state[Lookup(p)] \notin {"free", "accepting", "closed"}
         /\ Lookup(p) = None => rank_pipe[p] = None \/ state[rank_pipe[p]] = "closed"
BY DEF Lookup, LInv, Control, Registered

(* While Lookup finds no Pipe, none is live.                               *)
LEMMA LiveIsLookup ==
  ASSUME LInv, NEW j \in Pipes, InUse(j)
  PROVE  Lookup(Owner(j)) = j
<1>1. rank_pipe[Owner(j)] = j /\ j # None
  BY NoneIsNoPipe DEF LInv, LivePipeRegistered
<1> QED BY <1>1 DEF Lookup, InUse

LEMMA InitLInv == Init => LInv
<1> SUFFICES ASSUME Init PROVE LInv
  OBVIOUS
<1>1. Control
  BY DEF Init, Control, States, ReaderPC, WriterPC
<1>2. Registered /\ FreeIsClean /\ AcceptingIsIdle /\ LivePipeRegistered
  BY OwnerIsPeer DEF Init, Registered, FreeIsClean, AcceptingIsIdle, LivePipeRegistered, InUse
<1> QED BY <1>1, <1>2 DEF LInv
-----------------------------------------------------------------------------
(* What a step leaves alone of Pipe j.                                     *)
Same(j) ==
  /\ state'[j] = state[j] /\ rd'[j] = rd[j] /\ wr'[j] = wr[j]
  /\ outq'[j] = outq[j] /\ loc'[j] = loc[j] /\ pipe'[j] = pipe[j]

(* Most steps change one Pipe, which does not become live by it.           *)
LEMMA OnePipeChanges ==
  ASSUME LInv, Control', NEW i \in Pipes,
         \A j \in Pipes \ {i} : Same(j),
         state'[i] \notin {"free", "accepting"},
         InUse(i)' => InUse(i) /\ rank_pipe' = rank_pipe,
         rank_pipe' = rank_pipe \/ rank_pipe' = Unregistered(i)
  PROVE  LInv'
<1>1. Registered'
  <2> SUFFICES ASSUME NEW p \in Peers, rank_pipe'[p] # None
               PROVE  Owner(rank_pipe'[p]) = p /\ state'[rank_pipe'[p]] \notin {"free", "accepting"}
    BY DEF Registered
  <2>1. rank_pipe'[p] = rank_pipe[p]
    BY DEF Unregistered
  <2>2. rank_pipe[p] \in Pipes
    BY <2>1 DEF LInv, Control
  <2> QED BY <2>1, <2>2 DEF LInv, Registered, Same
<1>2. FreeIsClean'
  BY DEF LInv, FreeIsClean, Same
<1>3. AcceptingIsIdle'
  BY DEF LInv, AcceptingIsIdle, Same, IsQueued
<1>4. LivePipeRegistered'
  <2> SUFFICES ASSUME NEW j \in Pipes, InUse(j)'
               PROVE  rank_pipe'[Owner(j)] = j
    BY DEF LivePipeRegistered
  <2>1. CASE j = i
    BY <2>1 DEF LInv, LivePipeRegistered
  <2>2. CASE j # i
    <3>1. InUse(j)
      BY <2>2 DEF Same, InUse
    <3>2. rank_pipe[Owner(j)] = j
      BY <3>1 DEF LInv, LivePipeRegistered
    <3> QED BY <2>2, <3>2, OwnerIsPeer DEF Unregistered
  <2> QED BY <2>1, <2>2
<1> QED BY <1>1, <1>2, <1>3, <1>4 DEF LInv

LEMMA ReaderNextType == \A st : ReaderNext(st) \in ReaderPC
BY DEF ReaderNext, ReaderPC

(* fault() on Pipe i, found in state st.                                   *)
LEMMA FaultEffect ==
  ASSUME Control, NEW i \in Pipes, NEW st, NEW onread, NEW q, Fault(i, st, onread, q)
  PROVE  /\ state' \in [Pipes -> States] /\ DOMAIN pipe' = Pipes /\ DOMAIN outq' = Pipes
         /\ rank_pipe' = rank_pipe \/ rank_pipe' = Unregistered(i)
         /\ rank_pipe' \in [Peers -> Pipes \cup {None}]
         /\ \A j \in Pipes \ {i} : state'[j] = state[j] /\ pipe'[j] = pipe[j] /\ outq'[j] = outq[j]
         /\ state'[i] \in {"connecting", "standby", "closed"}
         /\ state'[i] # "closed" => rank_pipe' = rank_pipe /\ st # "closed"
<1>1. Unregistered(i) \in [Peers -> Pipes \cup {None}]
  BY DEF Control, Unregistered
<1>2. CASE FaultIgnored(i, st, onread, q)
  BY <1>2 DEF FaultIgnored, Control, States
<1>3. CASE FaultClosed(i, st, q)
  BY <1>3 DEF FaultClosed, Control, States
<1>4. CASE FaultLossy(i, st)
  <2>1. state' = [state EXCEPT ![i] = "closed"]
    BY <1>4, NoneIsNoPipe DEF FaultLossy, StoppedState
  <2> QED BY <1>1, <1>4, <2>1 DEF FaultLossy, Control, States
<1>5. CASE FaultLossless(i, st, onread, q)
  <2>1. PICK new \in {"connecting", "standby"} : state' = [state EXCEPT ![i] = new]
    BY <1>5 DEF FaultLossless, FaultState
  <2>2. /\ DOMAIN outq' = Pipes /\ DOMAIN pipe' = Pipes
        /\ \A j \in Pipes \ {i} : pipe'[j] = pipe[j] /\ outq'[j] = outq[j]
    BY <1>5 DEF FaultLossless, Control
  <2> QED BY <1>5, <2>1, <2>2 DEF FaultLossless, Control, States
<1> QED BY <1>2, <1>3, <1>4, <1>5 DEF Fault
-----------------------------------------------------------------------------
(* accept().                                                               *)

LEMMA AcceptingLInv ==
  ASSUME LInv, NEW i \in Pipes,
         AcceptStopped(i) \/ AcceptReplied(i) \/ AcceptSeq(i) \/ AcceptReject(i)
  PROVE  LInv'
<1> USE DEF LInv
<1>0. ASSUME rd[i] = "reply" \/ rd[i] = "seq"
      PROVE  state[i] \notin {"free", "accepting"}
  BY <1>0 DEF FreeIsClean, AcceptingIsIdle
<1>1. CASE AcceptStopped(i)
  <2>1. FaultClosed(i, "closed", outq[i]) /\ rd' = [rd EXCEPT ![i] = "none"] /\ UNCHANGED <<wr, loc>>
    BY <1>1 DEF AcceptStopped
  <2>2. /\ state' = [state EXCEPT ![i] = "closed"] /\ pipe' = [pipe EXCEPT ![i] = Detached(@)]
        /\ outq' = [outq EXCEPT ![i] = outq[i]] /\ UNCHANGED rank_pipe
    BY <2>1 DEF FaultClosed
  <2>3. Control'
    BY <2>1, <2>2 DEF Control, States, ReaderPC
  <2>4. \A j \in Pipes \ {i} : Same(j)
    BY <2>1, <2>2 DEF Same, Control
  <2>5. state'[i] = "closed"
    BY <2>2 DEF Control
  <2> QED BY <2>2, <2>3, <2>4, <2>5, OnePipeChanges DEF InUse
<1>2. CASE AcceptReplied(i) \/ AcceptSeq(i)
  <2>1. /\ rd[i] = "reply" \/ rd[i] = "seq"
        /\ UNCHANGED <<state, pipe, rank_pipe>>
        /\ rd' \in [Pipes -> ReaderPC] /\ wr' \in [Pipes -> WriterPC]
        /\ DOMAIN outq' = Pipes /\ DOMAIN loc' = Pipes
        /\ \A j \in Pipes \ {i} : /\ rd'[j] = rd[j] /\ wr'[j] = wr[j]
                                  /\ outq'[j] = outq[j] /\ loc'[j] = loc[j]
    <3>1. ASSUME NEW n, AcceptDone(i, n)
          PROVE  /\ rd' \in [Pipes -> ReaderPC] /\ wr' \in [Pipes -> WriterPC]
                 /\ DOMAIN outq' = Pipes /\ DOMAIN loc' = Pipes
                 /\ \A j \in Pipes \ {i} : /\ rd'[j] = rd[j] /\ wr'[j] = wr[j]
                                           /\ outq'[j] = outq[j] /\ loc'[j] = loc[j]
      BY <3>1, ReaderNextType DEF AcceptDone, Control, WriterPC
    <3>2. CASE AcceptSeq(i)
      BY <3>1, <3>2 DEF AcceptSeq, msgrVars
    <3>3. CASE AcceptReplied(i) /\ loc[i].reply.tag = "SEQ"
      BY <3>3 DEF AcceptReplied, msgrVars, Control, ReaderPC
    <3>4. CASE AcceptReplied(i) /\ loc[i].reply.tag # "SEQ"
      BY <3>1, <3>4 DEF AcceptReplied, msgrVars
    <3> QED BY <1>2, <3>2, <3>3, <3>4
  <2>2. Control'
    BY <2>1 DEF Control
  <2>3. \A j \in Pipes \ {i} : Same(j)
    BY <2>1 DEF Same
  <2>4. state'[i] \notin {"free", "accepting"} /\ (InUse(i)' => InUse(i) /\ rank_pipe' = rank_pipe)
    BY <1>0, <2>1 DEF InUse
  <2> QED BY <2>1, <2>2, <2>3, <2>4, OnePipeChanges
<1>3. CASE AcceptReject(i)
  <2>1. UNCHANGED <<state, pipe, outq, rd, wr, loc, rank_pipe>>
    BY <1>3 DEF AcceptReject, AcceptReply, msgrVars
  <2> QED BY <2>1 DEF Control, Registered, FreeIsClean, AcceptingIsIdle, LivePipeRegistered, InUse
<1> QED BY <1>1, <1>2, <1>3

LEMMA AcceptRefuseLInv ==
  ASSUME LInv, NEW i \in Pipes, AcceptRefuse(i)
  PROVE  LInv'
<1> DEFINE e == Lookup(Owner(i))
<1>1. UNCHANGED <<state, outq, rd, wr, loc, rank_pipe>>
  BY DEF AcceptRefuse, AcceptReply, msgrVars
<1>2. pipe' = pipe \/ (e # None /\ pipe' = [pipe EXCEPT ![e].send_keepalive = TRUE])
  <2>1. CASE e = None
    <3>1. DecidedAs(i) \in {"RESETSESSION", "open"}
      BY <2>1 DEF DecidedAs, Verdict
    <3> QED BY <3>1 DEF AcceptRefuse
  <2>2. CASE e # None
    BY <2>2 DEF AcceptRefuse
  <2> QED BY <2>1, <2>2
<1>3. CASE pipe' = pipe
  BY <1>1, <1>3 DEF LInv, Control, Registered, FreeIsClean, AcceptingIsIdle, LivePipeRegistered, InUse
<1>4. CASE e # None /\ pipe' = [pipe EXCEPT ![e].send_keepalive = TRUE]
  <2>1. PICK k \in Pipes : k = e /\ state[k] \notin {"free", "accepting"}
    BY <1>4, OwnerIsPeer, LookupProperties
  <2>2. Control' /\ \A j \in Pipes \ {k} : Same(j)
    BY <1>1, <1>4, <2>1 DEF LInv, Control, Same
  <2>3. InUse(k)' => InUse(k) /\ rank_pipe' = rank_pipe
    BY <1>1 DEF InUse
  <2> QED BY <1>1, <2>1, <2>2, <2>3, OnePipeChanges
<1> QED BY <1>2, <1>3, <1>4

(* A failed accept() leaves a Pipe live only if it was registered.         *)
LEMMA AcceptFailedLInv ==
  ASSUME LInv, NEW i \in Pipes, AcceptFailed(i)
  PROVE  LInv'
<1> USE DEF LInv
<1>0. state[i] # "free" /\ rd' = [rd EXCEPT ![i] = ReaderNext(state'[i])] /\ loc' = [loc EXCEPT ![i] = NoLoc]
  BY DEF AcceptFailed, FreeIsClean
<1>1. CASE state[i] = "closed"
  <2>1. UNCHANGED <<state, pipe, outq, wr, rank_pipe>>
    BY <1>1 DEF AcceptFailed
  <2>2. Control'
    BY <1>0, <2>1, ReaderNextType DEF Control
  <2>3. \A j \in Pipes \ {i} : Same(j)
    BY <1>0, <2>1 DEF Same, Control
  <2> QED BY <1>1, <2>1, <2>2, <2>3, OnePipeChanges DEF InUse
<1>2. CASE state[i] # "closed"
  <2>1. /\ Fault(i, AcceptFailState(i), FALSE, outq[i])
        /\ wr' = wr \/ wr' = [wr EXCEPT ![i] = "loop"]
    BY <1>2 DEF AcceptFailed
  <2>2. /\ state' \in [Pipes -> States] /\ DOMAIN pipe' = Pipes /\ DOMAIN outq' = Pipes
        /\ rank_pipe' = rank_pipe \/ rank_pipe' = Unregistered(i)
        /\ rank_pipe' \in [Peers -> Pipes \cup {None}]
        /\ \A j \in Pipes \ {i} : state'[j] = state[j] /\ pipe'[j] = pipe[j] /\ outq'[j] = outq[j]
        /\ state'[i] \in {"connecting", "standby", "closed"}
        /\ state'[i] # "closed" => rank_pipe' = rank_pipe /\ AcceptFailState(i) # "closed"
    BY <2>1, FaultEffect
  <2>3. Control'
    <3>1. rd' \in [Pipes -> ReaderPC]
      BY <1>0, ReaderNextType DEF Control
    <3>2. wr' \in [Pipes -> WriterPC]
      BY <2>1 DEF Control, WriterPC
    <3> QED BY <1>0, <2>2, <3>1, <3>2 DEF Control
  <2>4. \A j \in Pipes \ {i} : Same(j)
    BY <1>0, <2>1, <2>2 DEF Same, Control
  <2>5. state[i] = "accepting" => AcceptFailState(i) = "closed"
    BY DEF AcceptFailState, AcceptingIsIdle, NoLoc
  <2>6. InUse(i)' => InUse(i) /\ rank_pipe' = rank_pipe
    <3>1. state[i] \in States
      BY DEF Control
    <3> QED BY <1>0, <1>2, <2>2, <2>5, <3>1 DEF InUse, States
  <2> QED BY <2>2, <2>3, <2>4, <2>6, OnePipeChanges
<1> QED BY <1>1, <1>2

(* Pipe i opens and is registered; the Pipe e it replaces, which was, is   *)
(* stopped.                                                                *)
LEMMA OpenedLInv ==
  ASSUME LInv, NEW i \in Pipes, NEW e, e = Lookup(Owner(i)), NEW tag, NEW acked,
         AcceptOpened(i, e, tag, acked),
         DOMAIN pipe' = Pipes, DOMAIN outq' = Pipes,
         \A j \in Pipes \ {i, e} : pipe'[j] = pipe[j] /\ outq'[j] = outq[j]
  PROVE  LInv'
<1> DEFINE p == Owner(i)
<1> USE DEF LInv
<1>1. /\ state' = [StoppedState(state, e) EXCEPT ![i] = "open"]
      /\ rank_pipe' = [rank_pipe EXCEPT ![p] = i]
      /\ rd' = [rd EXCEPT ![i] = "reply"]
      /\ DOMAIN loc' = Pipes /\ \A j \in Pipes \ {i} : loc'[j] = loc[j]
      /\ wr' = wr
  BY DEF AcceptOpened, Control
<1>2. p \in Peers /\ (e # None => e \in Pipes /\ e = rank_pipe[p])
  BY OwnerIsPeer, LookupProperties
<1>3. /\ state' \in [Pipes -> States] /\ state'[i] = "open"
      /\ e # None /\ e # i => state'[e] = "closed"
      /\ \A j \in Pipes \ {i, e} : state'[j] = state[j]
  BY <1>1, <1>2 DEF StoppedState, Control, States
<1>4. Control'
  BY <1>1, <1>3 DEF Control, ReaderPC
<1>5. \A j \in Pipes \ {i, e} : Same(j)
  BY <1>1, <1>3 DEF Same, Control
<1>6. \A j \in {i, e} \cap Pipes : state'[j] \in {"open", "closed"}
  BY <1>2, <1>3, NoneIsNoPipe
<1>7. FreeIsClean' /\ AcceptingIsIdle'
  BY <1>5, <1>6 DEF FreeIsClean, AcceptingIsIdle, Same, IsQueued
<1>8. Registered'
  <2> SUFFICES ASSUME NEW r \in Peers, rank_pipe'[r] # None
               PROVE  Owner(rank_pipe'[r]) = r /\ state'[rank_pipe'[r]] \notin {"free", "accepting"}
    BY DEF Registered
  <2>1. CASE r = p
    BY <1>1, <1>2, <1>3, <2>1 DEF Control
  <2>2. CASE r # p
    <3>1. rank_pipe'[r] = rank_pipe[r] /\ rank_pipe[r] \in Pipes
      BY <1>1, <2>2 DEF Control
    <3>2. Owner(rank_pipe[r]) = r /\ state[rank_pipe[r]] \notin {"free", "accepting"}
      BY <3>1 DEF Registered
    <3> QED BY <1>5, <1>6, <3>1, <3>2 DEF Same
  <2> QED BY <2>1, <2>2
<1>9. LivePipeRegistered'
  <2> SUFFICES ASSUME NEW j \in Pipes, InUse(j)'
               PROVE  rank_pipe'[Owner(j)] = j
    BY DEF LivePipeRegistered
  <2>1. CASE j = i
    BY <1>1, <1>2, <2>1 DEF Control
  <2>2. CASE j # i
    <3>1. j # e
      BY <1>2, <1>3, <2>2, NoneIsNoPipe DEF InUse
    <3>2. InUse(j)
      BY <1>3, <2>2, <3>1 DEF InUse
    <3>3. Owner(j) # p
      BY <3>1, <3>2, LiveIsLookup
    <3> QED BY <1>1, <1>2, <3>2, <3>3, OwnerIsPeer DEF LivePipeRegistered, Control
  <2> QED BY <2>1, <2>2
<1> QED BY <1>4, <1>7, <1>8, <1>9

LEMMA AcceptOpensLInv ==
  ASSUME LInv, NEW i \in Pipes,
         AcceptNew(i) \/ AcceptReplaceLossy(i) \/ AcceptReplace(i) \/ AcceptReplaceReset(i)
  PROVE  LInv'
<1> DEFINE p == Owner(i)
           e == Lookup(p)
<1>1. CASE AcceptNew(i)
  <2>1. e = None
    BY <1>1 DEF AcceptNew, DecidedAs, Verdict, RaceVerdict
  <2>2. /\ DOMAIN pipe' = Pipes /\ outq' = outq
        /\ \A j \in Pipes \ {i} : pipe'[j] = pipe[j]
    BY <1>1 DEF AcceptNew, LInv, Control
  <2> QED BY <1>1, <2>1, <2>2, OpenedLInv DEF AcceptNew, LInv, Control
<1>2. ASSUME NEW x, NEW q, NEW hard, TakeOver(i, e, x, q, hard)
      PROVE  /\ DOMAIN pipe' = Pipes /\ DOMAIN outq' = Pipes
             /\ \A j \in Pipes \ {i, e} : pipe'[j] = pipe[j] /\ outq'[j] = outq[j]
  BY <1>2 DEF TakeOver, LInv, Control
<1>3. CASE AcceptReplaceLossy(i)
  <2>1. /\ AcceptOpened(i, e, "SEQ", 0) /\ DOMAIN pipe' = Pipes
        /\ \E start \in StartSeqs : outq' = [outq EXCEPT ![e] = EmptyOutQ(start)]
        /\ \A j \in Pipes \ {i, e} : pipe'[j] = pipe[j]
    BY <1>3 DEF AcceptReplaceLossy, LInv, Control
  <2>2. DOMAIN outq' = Pipes /\ \A j \in Pipes \ {i, e} : outq'[j] = outq[j]
    BY <2>1 DEF LInv, Control
  <2> QED BY <2>1, <2>2, OpenedLInv
<1>4. CASE AcceptReplace(i)
  BY <1>2, <1>4, OpenedLInv DEF AcceptReplace
<1>5. CASE AcceptReplaceReset(i)
  <2>1. AcceptOpened(i, e, "READY", 0) /\ \E x, q : TakeOver(i, e, x, q, TRUE)
    BY <1>5 DEF AcceptReplaceReset
  <2> QED BY <1>2, <2>1, OpenedLInv
<1> QED BY <1>1, <1>3, <1>4, <1>5
-----------------------------------------------------------------------------
(* A step that changes neither a state nor the registration, and the rest  *)
(* of one Pipe only, which is in use or closed.                            *)
LEMMA QuietStep ==
  ASSUME LInv, NEW i \in Pipes, state[i] \notin {"free", "accepting"},
         UNCHANGED <<state, rank_pipe>>,
         rd' \in [Pipes -> ReaderPC], wr' \in [Pipes -> WriterPC],
         DOMAIN pipe' = Pipes, DOMAIN outq' = Pipes, DOMAIN loc' = Pipes,
         \A j \in Pipes \ {i} : /\ rd'[j] = rd[j] /\ wr'[j] = wr[j] /\ pipe'[j] = pipe[j]
                                /\ outq'[j] = outq[j] /\ loc'[j] = loc[j]
  PROVE  LInv'
<1>1. Control'
  BY DEF LInv, Control
<1>2. \A j \in Pipes \ {i} : Same(j)
  BY DEF Same
<1>3. InUse(i)' => InUse(i) /\ rank_pipe' = rank_pipe
  BY DEF InUse
<1> QED BY <1>1, <1>2, <1>3, OnePipeChanges

(* Pipes whose threads are past accept() are not being accepted.           *)
LEMMA ThreadsRunning ==
  ASSUME LInv, NEW i \in Pipes, rd[i] \notin {"none", "accept"} \/ wr[i] # "none"
  PROVE  state[i] \notin {"free", "accepting"}
BY DEF LInv, FreeIsClean, AcceptingIsIdle

(* fault() on a Pipe that is not being accepted.                           *)
LEMMA FaultLInv ==
  ASSUME LInv, NEW i \in Pipes, state[i] \notin {"free", "accepting"},
         NEW onread, NEW q, Fault(i, state[i], onread, q),
         rd' \in [Pipes -> ReaderPC], wr' \in [Pipes -> WriterPC], DOMAIN loc' = Pipes,
         \A j \in Pipes \ {i} : rd'[j] = rd[j] /\ wr'[j] = wr[j] /\ loc'[j] = loc[j]
  PROVE  LInv'
<1>1. /\ state' \in [Pipes -> States] /\ DOMAIN pipe' = Pipes /\ DOMAIN outq' = Pipes
      /\ rank_pipe' = rank_pipe \/ rank_pipe' = Unregistered(i)
      /\ rank_pipe' \in [Peers -> Pipes \cup {None}]
      /\ \A j \in Pipes \ {i} : state'[j] = state[j] /\ pipe'[j] = pipe[j] /\ outq'[j] = outq[j]
      /\ state'[i] \in {"connecting", "standby", "closed"}
      /\ state'[i] # "closed" => rank_pipe' = rank_pipe /\ state[i] # "closed"
  BY FaultEffect DEF LInv
<1>2. Control'
  BY <1>1 DEF Control
<1>3. \A j \in Pipes \ {i} : Same(j)
  BY <1>1 DEF Same
<1>4. InUse(i)' => InUse(i) /\ rank_pipe' = rank_pipe
  <2>1. state[i] \in States
    BY DEF LInv, Control
  <2> QED BY <1>1, <2>1 DEF InUse, States
<1> QED BY <1>1, <1>2, <1>3, <1>4, OnePipeChanges

(* reader().                                                               *)
LEMMA ReadingLInv ==
  ASSUME LInv, NEW i \in Pipes, Reading(i)
  PROVE  LInv'
<1>0. rd[i] \in {"read", "dispatch"}
  BY DEF Reading, Reads, ReadMsg, Dispatched, ReadAck, ReadKeepalive, ReadError
<1>1. state[i] \notin {"free", "accepting"}
  BY <1>0, ThreadsRunning
<1>2. rd \in [Pipes -> ReaderPC] /\ wr \in [Pipes -> WriterPC]
      /\ DOMAIN pipe = Pipes /\ DOMAIN outq = Pipes /\ DOMAIN loc = Pipes
  BY DEF LInv, Control
<1>3. CASE ReadMsg(i)
  <2>1. UNCHANGED <<state, outq, wr, rank_pipe>>
    BY <1>3 DEF ReadMsg
  <2>2. /\ DOMAIN pipe' = Pipes /\ DOMAIN loc' = Pipes
        /\ \A j \in Pipes \ {i} : pipe'[j] = pipe[j] /\ loc'[j] = loc[j]
    BY <1>2, <1>3 DEF ReadMsg
  <2>3. /\ rd' \in [Pipes -> ReaderPC] /\ \A j \in Pipes \ {i} : rd'[j] = rd[j]
    BY <1>2, <1>3, ReaderNextType DEF ReadMsg, ReaderPC
  <2> QED BY <1>1, <1>2, <2>1, <2>2, <2>3, QuietStep
<1>4. CASE Dispatched(i)
  <2>1. /\ UNCHANGED <<state, pipe, outq, wr, rank_pipe>>
        /\ rd' = [rd EXCEPT ![i] = ReaderNext(state[i])]
        /\ loc' = [loc EXCEPT ![i].id = 0]
    BY <1>4 DEF Dispatched, msgrVars
  <2>2. /\ rd' \in [Pipes -> ReaderPC] /\ DOMAIN loc' = Pipes
        /\ \A j \in Pipes \ {i} : rd'[j] = rd[j] /\ loc'[j] = loc[j]
    BY <1>2, <2>1, ReaderNextType
  <2> QED BY <1>1, <1>2, <2>1, <2>2, QuietStep
<1>5. CASE ReadAck(i)
  <2>1. /\ UNCHANGED <<state, pipe, wr, loc, rank_pipe>>
        /\ rd' = [rd EXCEPT ![i] = ReaderNext(state[i])]
        /\ outq' = outq \/ outq' = [outq EXCEPT ![i] = handle_ack(@, Head(sock[i].in).seq)]
    BY <1>5 DEF ReadAck, msgrVars
  <2>2. /\ rd' \in [Pipes -> ReaderPC] /\ DOMAIN outq' = Pipes
        /\ \A j \in Pipes \ {i} : rd'[j] = rd[j] /\ outq'[j] = outq[j]
    BY <1>2, <2>1, ReaderNextType
  <2> QED BY <1>1, <1>2, <2>1, <2>2, QuietStep
<1>6. CASE ReadKeepalive(i)
  <2>1. /\ UNCHANGED <<state, outq, wr, loc, rank_pipe>>
        /\ rd' = [rd EXCEPT ![i] = ReaderNext(state[i])]
        /\ pipe' = pipe \/ pipe' = [pipe EXCEPT ![i].send_keepalive_ack = TRUE]
    BY <1>6 DEF ReadKeepalive, msgrVars
  <2>2. /\ rd' \in [Pipes -> ReaderPC] /\ DOMAIN pipe' = Pipes
        /\ \A j \in Pipes \ {i} : rd'[j] = rd[j] /\ pipe'[j] = pipe[j]
    BY <1>2, <2>1, ReaderNextType
  <2> QED BY <1>1, <1>2, <2>1, <2>2, QuietStep
<1>7. CASE ReadError(i)
  <2>1. /\ Fault(i, state[i], TRUE, outq[i]) /\ UNCHANGED <<wr, loc>>
        /\ rd' = [rd EXCEPT ![i] = ReaderNext(state'[i])]
    BY <1>7 DEF ReadError
  <2>2. rd' \in [Pipes -> ReaderPC] /\ wr' \in [Pipes -> WriterPC] /\ DOMAIN loc' = Pipes
        /\ \A j \in Pipes \ {i} : rd'[j] = rd[j] /\ wr'[j] = wr[j] /\ loc'[j] = loc[j]
    BY <1>2, <2>1, ReaderNextType
  <2> QED BY <1>1, <2>1, <2>2, FaultLInv
<1> QED BY <1>3, <1>4, <1>5, <1>6, <1>7 DEF Reading

(* connect().                                                              *)
LEMMA ConnectFailsLInv ==
  ASSUME LInv, NEW i \in Pipes, wr[i] # "none", NEW q, ConnectFails(i, q)
  PROVE  LInv'
<1>1. state[i] \notin {"free", "accepting"}
  BY ThreadsRunning
<1>2. /\ rd' \in [Pipes -> ReaderPC] /\ wr' \in [Pipes -> WriterPC] /\ DOMAIN loc' = Pipes
      /\ \A j \in Pipes \ {i} : rd'[j] = rd[j] /\ wr'[j] = wr[j] /\ loc'[j] = loc[j]
  BY DEF ConnectFails, LInv, Control, WriterPC
<1>3. CASE state[i] = "connecting"
  <2>1. Fault(i, state[i], FALSE, q)
    BY <1>3 DEF ConnectFails
  <2> QED BY <1>1, <1>2, <2>1, FaultLInv
<1>4. CASE state[i] # "connecting"
  <2>1. UNCHANGED <<state, pipe, outq, rank_pipe>>
    BY <1>4 DEF ConnectFails
  <2> QED BY <1>1, <1>2, <2>1, QuietStep DEF LInv, Control
<1> QED BY <1>3, <1>4

LEMMA AgainLInv ==
  ASSUME LInv, NEW i \in Pipes, wr[i] # "none", NEW cseq, NEW gseq, NEW bad,
         Again(i, cseq, gseq, bad),
         DOMAIN pipe' = Pipes, DOMAIN outq' = Pipes,
         \A j \in Pipes \ {i} : pipe'[j] = pipe[j] /\ outq'[j] = outq[j]
  PROVE  LInv'
<1>1. state[i] \notin {"free", "accepting"}
  BY ThreadsRunning
<1>2. /\ UNCHANGED <<state, rd, wr, rank_pipe>> /\ DOMAIN loc' = Pipes
      /\ \A j \in Pipes \ {i} : loc'[j] = loc[j]
  BY DEF Again, LInv, Control
<1> QED BY <1>1, <1>2, QuietStep DEF LInv, Control

(* A Pipe is made for the connection at the other messenger.               *)
LEMMA ConnectOpensLInv ==
  ASSUME LInv, NEW i \in Pipes, ConnectOpens(i)
  PROVE  LInv'
<1> USE DEF LInv
<1> DEFINE q == Other(Owner(i))
<1>1. q \in Peers
  BY OwnerIsPeer DEF Other, Peers
<1>2. PICK j \in Pipes : j = FreePipe(q) /\ state[j] = "free" /\ Owner(j) = q
  BY <1>1, FreePipeIsFree DEF ConnectOpens, CanMakePipe
<1>3. /\ rd[j] = "none" /\ wr[j] = "none" /\ loc[j] = NoLoc /\ outq[j] = EmptyOutQ(0)
      /\ wr[i] = "join" /\ i # j
  BY <1>2 DEF FreeIsClean, ConnectOpens
<1>4. /\ state' = [state EXCEPT ![j] = "accepting"]
      /\ pipe' = [pipe EXCEPT ![j] = NewPipe(q, FreshId(q))]
      /\ rd' = [rd EXCEPT ![j] = "accept"] /\ wr' = [wr EXCEPT ![i] = "await"]
      /\ UNCHANGED <<outq, loc, rank_pipe>>
  BY <1>2 DEF ConnectOpens, msgrVars
<1>5. Control'
  BY <1>4 DEF Control, States, ReaderPC, WriterPC
<1>6. \A k \in Pipes \ {i, j} : Same(k)
  BY <1>4 DEF Same, Control
<1>7. /\ state'[i] = state[i] /\ state[i] \notin {"free", "accepting"}
      /\ state'[j] = "accepting"
  BY <1>3, <1>4, ThreadsRunning DEF Control
<1>8. Registered'
  BY <1>2, <1>4, <1>6, <1>7 DEF Registered, Same, Control
<1>9. FreeIsClean'
  BY <1>6, <1>7 DEF FreeIsClean, Same
<1>10. AcceptingIsIdle'
  <2>1. /\ rd'[j] = "accept" /\ wr'[j] = "none" /\ loc'[j] = NoLoc /\ outq'[j] = EmptyOutQ(0)
        /\ pipe'[j] = NewPipe(q, FreshId(q))
    BY <1>3, <1>4 DEF Control
  <2>2. ~IsQueued(pipe'[j], outq'[j])
    BY <2>1 DEF IsQueued, HasOut, NewPipe, EmptyOutQ
  <2> QED BY <1>6, <1>7, <2>1, <2>2 DEF AcceptingIsIdle, Same, IsQueued
<1>11. LivePipeRegistered'
  BY <1>4, <1>6, <1>7 DEF LivePipeRegistered, InUse, Same
<1> QED BY <1>5, <1>8, <1>9, <1>10, <1>11

LEMMA ConnectingLInv ==
  ASSUME LInv, NEW i \in Pipes, Connecting(i)
  PROVE  LInv'
<1>1. wr[i] # "none"
  BY DEF Connecting, Connect, ConnectOpens, ConnectRefused, ConnectBroken, ConnectStops,
         ConnectRejected, ConnectRetriesAuth, ConnectResets, ConnectRetriesGlobal,
         ConnectRetriesSession, ConnectReady, ConnectSeqFails, Answers, Answered
<1>2. state[i] \notin {"free", "accepting"}
  BY <1>1, ThreadsRunning
<1>3. Control
  BY DEF LInv
<1>4. CASE Connect(i)
  <2>1. /\ state' = [state EXCEPT ![i] = "connecting"] /\ wr' = [wr EXCEPT ![i] = "join"]
        /\ UNCHANGED <<pipe, outq, rd, rank_pipe>>
        /\ DOMAIN loc' = Pipes /\ \A j \in Pipes \ {i} : loc'[j] = loc[j]
        /\ InUse(i)
    BY <1>3, <1>4 DEF Connect, MayConnect, Control, InUse
  <2>2. Control'
    BY <1>3, <2>1 DEF Control, States, WriterPC
  <2>3. \A j \in Pipes \ {i} : Same(j)
    BY <1>3, <2>1 DEF Control, Same
  <2>4. state'[i] = "connecting"
    BY <1>3, <2>1 DEF Control
  <2> QED BY <2>1, <2>2, <2>3, <2>4, OnePipeChanges
<1>5. CASE ConnectOpens(i)
  BY <1>5, ConnectOpensLInv
<1>6. CASE \/ ConnectRefused(i) \/ ConnectBroken(i) \/ ConnectRejected(i)
           \/ ConnectSeqFails(i)
  <2>1. \E q : ConnectFails(i, q)
    BY <1>6 DEF ConnectRefused, ConnectBroken, ConnectRejected, ConnectSeqFails
  <2> QED BY <1>1, <2>1, ConnectFailsLInv
<1>7. CASE ConnectStops(i)
  <2>1. /\ UNCHANGED <<pipe, outq, rd, rank_pipe>> /\ wr' = [wr EXCEPT ![i] = "loop"]
        /\ loc' = [loc EXCEPT ![i] = NoLoc]
        /\ state' = state \/ (state' = [state EXCEPT ![i] = "wait"] /\ InUse(i))
    BY <1>7 DEF ConnectStops, Answers, InUse, msgrVars
  <2>2. Control'
    BY <1>3, <2>1 DEF Control, States, WriterPC
  <2>3. \A j \in Pipes \ {i} : Same(j)
    BY <1>3, <2>1 DEF Control, Same
  <2>4. state'[i] = state[i] \/ (state'[i] = "wait" /\ InUse(i))
    BY <1>3, <2>1 DEF Control
  <2> QED BY <1>2, <2>1, <2>2, <2>3, <2>4, OnePipeChanges DEF InUse
<1>8. CASE \/ ConnectRetriesAuth(i) \/ ConnectResets(i)
           \/ ConnectRetriesGlobal(i) \/ ConnectRetriesSession(i)
  <2>1. \E cseq, gseq, bad : Again(i, cseq, gseq, bad)
    BY <1>8 DEF ConnectRetriesAuth, ConnectResets, ConnectRetriesGlobal, ConnectRetriesSession
  <2>2. DOMAIN pipe' = Pipes /\ \A j \in Pipes \ {i} : pipe'[j] = pipe[j]
    BY <1>3, <1>8 DEF ConnectRetriesAuth, ConnectResets, ConnectRetriesGlobal,
                      ConnectRetriesSession, Control
  <2>3. outq' = outq \/ \E start \in StartSeqs : outq' = [outq EXCEPT ![i] = EmptyOutQ(start)]
    BY <1>8 DEF ConnectRetriesAuth, ConnectResets, ConnectRetriesGlobal, ConnectRetriesSession
  <2>4. DOMAIN outq' = Pipes /\ \A j \in Pipes \ {i} : outq'[j] = outq[j]
    BY <1>3, <2>3 DEF Control
  <2> QED BY <1>1, <2>1, <2>2, <2>4, AgainLInv
<1>9. CASE ConnectReady(i)
  <2>1. /\ state' = [state EXCEPT ![i] = "open"] /\ rd' = [rd EXCEPT ![i] = "read"]
        /\ wr' = [wr EXCEPT ![i] = "loop"] /\ loc' = [loc EXCEPT ![i] = NoLoc]
        /\ rank_pipe' = rank_pipe /\ InUse(i)
    BY <1>9 DEF ConnectReady, Answers, InUse, msgrVars
  <2>2. /\ DOMAIN pipe' = Pipes /\ DOMAIN outq' = Pipes
        /\ \A j \in Pipes \ {i} : pipe'[j] = pipe[j] /\ outq'[j] = outq[j]
    BY <1>3, <1>9 DEF ConnectReady, Control
  <2>3. Control'
    BY <1>3, <2>1, <2>2 DEF Control, States, ReaderPC, WriterPC
  <2>4. \A j \in Pipes \ {i} : Same(j)
    BY <1>3, <2>1, <2>2 DEF Control, Same
  <2>5. state'[i] = "open"
    BY <1>3, <2>1 DEF Control
  <2> QED BY <2>1, <2>3, <2>4, <2>5, OnePipeChanges
<1> QED BY <1>4, <1>5, <1>6, <1>7, <1>8, <1>9 DEF Connecting

(* writer().                                                               *)
LEMMA NextWriteProperties ==
  ASSUME NEW k \in 1..5, NEW r, NEW q
  PROVE  /\ NextWrite(k, r, q) \in {"loop", "keepalive", "keepalive_ack", "ack", "msg"}
         /\ NextWrite(k, r, q) = "msg" => HasOut(q)
<1> DEFINE due == {n \in k..4 : IsDue(Round[n], r, q)}
           first == CHOOSE n \in due : \A m \in due : n <= m
<1>1. CASE due = {}
  <2>1. NextWrite(k, r, q) = "loop"
    BY <1>1 DEF NextWrite
  <2> QED BY <2>1
<1>2. CASE due # {}
  <2>1. due \subseteq {1, 2, 3, 4}
    OBVIOUS
  <2>2. \E n \in due : \A m \in due : n <= m
    <3> HIDE DEF due
    <3>1. CASE 1 \in due
      BY <2>1, <3>1
    <3>2. CASE 1 \notin due /\ 2 \in due
      BY <2>1, <3>2
    <3>3. CASE 1 \notin due /\ 2 \notin due /\ 3 \in due
      BY <2>1, <3>3
    <3>4. CASE 1 \notin due /\ 2 \notin due /\ 3 \notin due
      <4>1. due = {4}
        BY <1>2, <2>1, <3>4
      <4> QED BY <4>1
    <3> QED BY <3>1, <3>2, <3>3, <3>4
  <2>3. first \in due
    BY <2>2
  <2>4. NextWrite(k, r, q) = Round[first]
    BY <1>2 DEF NextWrite
  <2>5. first \in {1, 2, 3, 4} /\ IsDue(Round[first], r, q)
    BY <2>1, <2>3
  <2> HIDE DEF first
  <2>6. Round[first] \in {"keepalive", "keepalive_ack", "ack", "msg"}
    BY <2>5 DEF Round
  <2>7. Round[first] = "msg" => HasOut(q)
    BY <2>5 DEF IsDue
  <2> QED BY <2>4, <2>6, <2>7
<1> QED BY <1>1, <1>2

LEMMA WritingParts ==
  ASSUME NEW i
  PROVE  Writing(i) <=> wr[i] \in {"keepalive", "keepalive_ack", "ack", "msg"}
<1>1. /\ Round[1] = "keepalive" /\ Round[2] = "keepalive_ack"
      /\ Round[3] = "ack" /\ Round[4] = "msg"
  BY DEF Round
<1>2. 1..4 = {1, 2, 3, 4}
  OBVIOUS
<1> QED BY <1>1, <1>2 DEF Writing

LEMMA WriterLInv ==
  ASSUME LInv, NEW i \in Pipes, WriterStep(i)
  PROVE  LInv'
<1>0. Control
  BY DEF LInv
<1>1. wr[i] # "none"
  <2>1. Writing(i) => wr[i] # "none"
    BY WritingParts
  <2>2. WriterStep(i) => wr[i] = "loop" \/ Writing(i)
    BY DEF WriterStep, WriterRound, Wrote, WriteFails
  <2> QED BY <2>1, <2>2
<1>2. state[i] \notin {"free", "accepting"}
  BY <1>1, ThreadsRunning
<1>3. ASSUME NEW k \in 1..5, NEW r, StartWrite(i, k, r)
      PROVE  /\ wr' \in [Pipes -> WriterPC] /\ DOMAIN loc' = Pipes /\ DOMAIN outq' = Pipes
             /\ \A j \in Pipes \ {i} : wr'[j] = wr[j] /\ loc'[j] = loc[j] /\ outq'[j] = outq[j]
  <2> DEFINE w == NextWrite(k, r, outq[i])
  <2>1. w \in WriterPC
    BY NextWriteProperties DEF WriterPC
  <2>2. /\ wr' = [wr EXCEPT ![i] = w]
        /\ DOMAIN loc' = Pipes /\ \A j \in Pipes \ {i} : loc'[j] = loc[j]
        /\ DOMAIN outq' = Pipes /\ \A j \in Pipes \ {i} : outq'[j] = outq[j]
    BY <1>0, <1>3 DEF StartWrite, Control
  <2> QED BY <1>0, <2>1, <2>2 DEF Control
<1>4. CASE WriterRound(i)
  <2>1. StartWrite(i, 1, pipe[i]) /\ UNCHANGED <<state, pipe, rd, rank_pipe>>
    BY <1>4 DEF WriterRound, msgrVars
  <2> QED BY <1>0, <1>2, <1>3, <2>1, QuietStep DEF Control
<1>5. CASE Wrote(i)
  <2>1. PICK k \in 1..4 : StartWrite(i, IF k = 4 THEN 5 ELSE k + 1, AfterWrite(i))
    BY <1>5 DEF Wrote
  <2>2. (IF k = 4 THEN 5 ELSE k + 1) \in 1..5
    OBVIOUS
  <2>3. /\ UNCHANGED <<state, rd, rank_pipe>> /\ DOMAIN pipe' = Pipes
        /\ \A j \in Pipes \ {i} : pipe'[j] = pipe[j]
    BY <1>0, <1>5 DEF Wrote, msgrVars, Control
  <2> QED BY <1>0, <1>2, <1>3, <2>1, <2>2, <2>3, QuietStep DEF Control
<1>6. CASE WriteFails(i)
  <2>1. Fault(i, state[i], FALSE, outq[i]) /\ rd' = rd /\ wr' = [wr EXCEPT ![i] = "loop"]
    BY <1>6 DEF WriteFails
  <2>2. DOMAIN loc' = Pipes /\ \A j \in Pipes \ {i} : loc'[j] = loc[j]
    BY <1>0, <1>6 DEF WriteFails, Control
  <2>3. wr' \in [Pipes -> WriterPC] /\ \A j \in Pipes \ {i} : wr'[j] = wr[j]
    BY <1>0, <2>1 DEF Control, WriterPC
  <2> QED BY <1>0, <1>2, <2>1, <2>2, <2>3, FaultLInv DEF Control
<1> QED BY <1>4, <1>5, <1>6 DEF WriterStep
-----------------------------------------------------------------------------
(* The reaper, the application and the network.                            *)

LEMMA ReapLInv ==
  ASSUME LInv, NEW i \in Pipes, Reap(i)
  PROVE  LInv'
<1> USE DEF LInv
<1>1. /\ state' = [state EXCEPT ![i] = "free"] /\ outq' = [outq EXCEPT ![i] = EmptyOutQ(0)]
      /\ pipe' = [pipe EXCEPT ![i] = NoPipe(Owner(i))] /\ loc' = [loc EXCEPT ![i] = NoLoc]
      /\ rd' = [rd EXCEPT ![i] = "none"] /\ wr' = [wr EXCEPT ![i] = "none"]
      /\ rank_pipe' = Unregistered(i)
  BY DEF Reap
<1>2. Control'
  BY <1>1 DEF Control, Unregistered, States, ReaderPC, WriterPC
<1>3. \A j \in Pipes \ {i} : Same(j)
  BY <1>1 DEF Same, Control
<1>4. /\ state'[i] = "free" /\ outq'[i] = EmptyOutQ(0) /\ loc'[i] = NoLoc
      /\ rd'[i] = "none" /\ wr'[i] = "none"
  BY <1>1 DEF Control
<1>5. Registered'
  <2> SUFFICES ASSUME NEW p \in Peers, rank_pipe'[p] # None
               PROVE  Owner(rank_pipe'[p]) = p /\ state'[rank_pipe'[p]] \notin {"free", "accepting"}
    BY DEF Registered
  <2>1. rank_pipe'[p] = rank_pipe[p] /\ rank_pipe[p] # i /\ rank_pipe[p] \in Pipes
    BY <1>1 DEF Unregistered, Control
  <2> QED BY <1>3, <2>1 DEF Registered, Same
<1>6. FreeIsClean'
  BY <1>3, <1>4 DEF FreeIsClean, Same
<1>7. AcceptingIsIdle'
  BY <1>3, <1>4 DEF AcceptingIsIdle, Same, IsQueued
<1>8. LivePipeRegistered'
  BY <1>1, <1>3, <1>4, OwnerIsPeer DEF LivePipeRegistered, InUse, Same, Unregistered
<1> QED BY <1>2, <1>5, <1>6, <1>7, <1>8

(* connect_rank(): a new Pipe is registered when none is live.             *)
LEMMA ConnectRankLInv ==
  ASSUME LInv, NEW p \in Peers, Lookup(p) = None, NEW i \in Pipes, Owner(i) = p,
         NEW r, NEW q,
         state' = [state EXCEPT ![i] = "connecting"], pipe' = [pipe EXCEPT ![i] = r],
         outq' = [outq EXCEPT ![i] = q], wr' = [wr EXCEPT ![i] = "loop"],
         rank_pipe' = [rank_pipe EXCEPT ![p] = i], UNCHANGED <<rd, loc>>
  PROVE  LInv'
<1> USE DEF LInv
<1>1. Control'
  BY DEF Control, States, WriterPC
<1>2. state'[i] = "connecting" /\ rank_pipe'[p] = i
  BY DEF Control
<1>3. \A j \in Pipes \ {i} : Same(j)
  BY DEF Same, Control
<1>4. \A s \in Peers \ {p} : rank_pipe'[s] = rank_pipe[s] /\ rank_pipe[s] \in Pipes \cup {None}
  BY DEF Control
<1>5. Registered'
  <2> SUFFICES ASSUME NEW s \in Peers, rank_pipe'[s] # None
               PROVE  Owner(rank_pipe'[s]) = s /\ state'[rank_pipe'[s]] \notin {"free", "accepting"}
    BY DEF Registered
  <2>1. CASE s = p
    BY <1>2, <2>1
  <2>2. CASE s # p
    <3>1. rank_pipe'[s] = rank_pipe[s] /\ rank_pipe[s] \in Pipes
      BY <1>4, <2>2
    <3>2. Owner(rank_pipe[s]) = s /\ state[rank_pipe[s]] \notin {"free", "accepting"}
      BY <3>1 DEF Registered
    <3> QED BY <1>3, <2>2, <3>1, <3>2 DEF Same
  <2> QED BY <2>1, <2>2
<1>6. FreeIsClean' /\ AcceptingIsIdle'
  BY <1>2, <1>3 DEF FreeIsClean, AcceptingIsIdle, Same, IsQueued
<1>7. LivePipeRegistered'
  <2> SUFFICES ASSUME NEW j \in Pipes, InUse(j)'
               PROVE  rank_pipe'[Owner(j)] = j
    BY DEF LivePipeRegistered
  <2>1. CASE j = i
    BY <1>2, <2>1
  <2>2. CASE j # i
    <3>1. InUse(j)
      BY <1>3, <2>2 DEF InUse, Same
    <3>2. Owner(j) # p
      BY <3>1, LiveIsLookup, NoneIsNoPipe
    <3> QED BY <1>4, <3>1, <3>2, OwnerIsPeer DEF LivePipeRegistered
  <2> QED BY <2>1, <2>2
<1> QED BY <1>1, <1>5, <1>6, <1>7

LEMMA SubmitLInv ==
  ASSUME LInv, NEW p \in Peers, Submit(p)
  PROVE  LInv'
<1> DEFINE e == Lookup(p)
           m == [id |-> submitted[p] + 1, seq |-> 0]
           urgent == submitted[p] + 1 \in Urgent
           n == FreePipe(p)
<1>1. UNCHANGED <<rd, loc>>
  BY DEF Submit
<1>2. CASE /\ e # None /\ outq' = [outq EXCEPT ![e] = Send(@, m, urgent)]
           /\ UNCHANGED <<state, pipe, wr, rank_pipe>>
  <2>1. PICK k \in Pipes : k = e /\ state[k] \notin {"free", "accepting"}
    BY <1>2, LookupProperties
  <2>2. DOMAIN outq' = Pipes /\ \A j \in Pipes \ {k} : outq'[j] = outq[j]
    BY <1>2, <2>1 DEF LInv, Control
  <2> QED BY <1>1, <1>2, <2>1, <2>2, QuietStep DEF LInv, Control
<1>3. CASE UNCHANGED <<state, pipe, outq, wr, rank_pipe>>
  BY <1>1, <1>3 DEF LInv, Control, Registered, FreeIsClean, AcceptingIsIdle, LivePipeRegistered, InUse
<1>4. CASE /\ e = None /\ CanMakePipe(p) /\ state' = [state EXCEPT ![n] = "connecting"]
           /\ pipe' = [pipe EXCEPT ![n] = NewPipe(p, FreshId(p))]
           /\ outq' = [outq EXCEPT ![n] = Send(EmptyOutQ(0), m, urgent)]
           /\ wr' = [wr EXCEPT ![n] = "loop"] /\ rank_pipe' = [rank_pipe EXCEPT ![p] = n]
  <2>1. PICK i \in Pipes : i = n /\ Owner(i) = p
    BY <1>4, FreePipeIsFree DEF CanMakePipe
  <2> QED BY <1>1, <1>4, <2>1, ConnectRankLInv
<1> QED BY <1>2, <1>3, <1>4 DEF Submit

LEMMA SendKeepaliveLInv ==
  ASSUME LInv, NEW p \in Peers, SendKeepalive(p)
  PROVE  LInv'
<1>1. PICK k \in Pipes : k = Lookup(p) /\ state[k] \notin {"free", "accepting"}
  BY LookupProperties DEF SendKeepalive
<1>2. /\ pipe' = [pipe EXCEPT ![k].send_keepalive = TRUE]
      /\ UNCHANGED <<state, outq, rd, wr, loc, rank_pipe>>
  BY <1>1 DEF SendKeepalive, msgrVars
<1>3. DOMAIN pipe' = Pipes /\ \A j \in Pipes \ {k} : pipe'[j] = pipe[j]
  BY <1>2 DEF LInv, Control
<1> QED BY <1>1, <1>2, <1>3, QuietStep DEF LInv, Control

(* mark_down() and mark_down_all().                                        *)
LEMMA StopPipesLInv ==
  ASSUME LInv, NEW p \in Peers, NEW S \in SUBSET Pipes, StopPipes(p, S),
         \A i \in S : state[i] # "free"
  PROVE  LInv'
<1> USE DEF LInv
<1>1. /\ state' = [i \in Pipes |-> IF i \in S THEN "closed" ELSE state[i]]
      /\ pipe' = [i \in Pipes |-> IF i \in S THEN Detached(pipe[i]) ELSE pipe[i]]
      /\ rank_pipe' = IF rank_pipe[p] \in S THEN [rank_pipe EXCEPT ![p] = None] ELSE rank_pipe
      /\ UNCHANGED <<outq, rd, wr, loc>>
  BY DEF StopPipes
<1>2. Control'
  BY <1>1 DEF Control, States
<1>3. \A j \in Pipes \ S : Same(j)
  BY <1>1 DEF Same
<1>4. \A j \in S : state'[j] = "closed"
  BY <1>1
<1>5. \A s \in Peers : rank_pipe'[s] = rank_pipe[s] \/ (rank_pipe'[s] = None /\ rank_pipe[s] \in S)
  BY <1>1 DEF Control
<1>6. Registered'
  BY <1>3, <1>4, <1>5 DEF Registered, Same, Control
<1>7. FreeIsClean' /\ AcceptingIsIdle'
  BY <1>3, <1>4 DEF FreeIsClean, AcceptingIsIdle, Same, IsQueued
<1>8. LivePipeRegistered'
  BY <1>3, <1>4, <1>5, OwnerIsPeer DEF LivePipeRegistered, InUse, Same
<1> QED BY <1>2, <1>6, <1>7, <1>8

LEMMA RestartLInv ==
  ASSUME LInv, NEW p \in Peers, Restart(p)
  PROVE  LInv'
<1> USE DEF LInv
<1> DEFINE mine == {i \in Pipes : Owner(i) = p}
<1>1. /\ state' = [i \in Pipes |-> IF i \in mine THEN "free" ELSE state[i]]
      /\ pipe' = [i \in Pipes |-> IF i \in mine THEN NoPipe(p) ELSE pipe[i]]
      /\ outq' = [i \in Pipes |-> IF i \in mine THEN EmptyOutQ(0) ELSE outq[i]]
      /\ rd' = [i \in Pipes |-> IF i \in mine THEN "none" ELSE rd[i]]
      /\ wr' = [i \in Pipes |-> IF i \in mine THEN "none" ELSE wr[i]]
      /\ loc' = [i \in Pipes |-> IF i \in mine THEN NoLoc ELSE loc[i]]
      /\ rank_pipe' = [rank_pipe EXCEPT ![p] = None]
  BY DEF Restart
<1>2. Control'
  BY <1>1 DEF Control, States, ReaderPC, WriterPC
<1>3. \A j \in Pipes : Owner(j) # p => Same(j)
  BY <1>1 DEF Same
<1>4. \A j \in Pipes : Owner(j) = p =>
        /\ state'[j] = "free" /\ outq'[j] = EmptyOutQ(0) /\ loc'[j] = NoLoc
        /\ rd'[j] = "none" /\ wr'[j] = "none"
  BY <1>1
<1>5. rank_pipe'[p] = None /\ \A s \in Peers \ {p} : rank_pipe'[s] = rank_pipe[s]
  BY <1>1 DEF Control
<1>6. Registered'
  <2> SUFFICES ASSUME NEW s \in Peers, rank_pipe'[s] # None
               PROVE  Owner(rank_pipe'[s]) = s /\ state'[rank_pipe'[s]] \notin {"free", "accepting"}
    BY DEF Registered
  <2>1. s # p /\ rank_pipe'[s] = rank_pipe[s] /\ rank_pipe[s] \in Pipes
    BY <1>5 DEF Control
  <2> QED BY <1>3, <2>1 DEF Registered, Same
<1>7. FreeIsClean'
  BY <1>3, <1>4 DEF FreeIsClean, Same
<1>8. AcceptingIsIdle'
  BY <1>3, <1>4 DEF AcceptingIsIdle, Same, IsQueued
<1>9. LivePipeRegistered'
  BY <1>3, <1>4, <1>5, OwnerIsPeer DEF LivePipeRegistered, InUse, Same
<1> QED BY <1>2, <1>6, <1>7, <1>8, <1>9

LEMMA StutterLInv ==
  ASSUME LInv, UNCHANGED <<state, pipe, outq, rd, wr, loc, rank_pipe>>
  PROVE  LInv'
BY DEF LInv, Control, Registered, FreeIsClean, AcceptingIsIdle, LivePipeRegistered, InUse

LEMMA ApplicationLInv ==
  ASSUME LInv, NEW p \in Peers, Application(p)
  PROVE  LInv'
<1>1. CASE MarkDown(p)
  <2>1. {Lookup(p)} \ {None} \in SUBSET Pipes /\ \A i \in {Lookup(p)} \ {None} : state[i] # "free"
    BY LookupProperties
  <2> QED BY <1>1, <2>1, StopPipesLInv DEF MarkDown
<1>2. CASE MarkDownAll(p)
  <2> DEFINE S == ({rank_pipe[p]} \ {None}) \cup {i \in Pipes : Owner(i) = p /\ state[i] = "accepting"}
  <2>1. S \in SUBSET Pipes /\ \A i \in S : state[i] # "free"
    BY DEF LInv, Control, Registered
  <2>2. StopPipes(p, S)
    BY <1>2 DEF MarkDownAll
  <2> HIDE DEF S
  <2> QED BY <2>1, <2>2, StopPipesLInv
<1>3. CASE Deliver(p)
  BY <1>3, StutterLInv DEF Deliver
<1> QED BY <1>1, <1>2, <1>3, SubmitLInv, SendKeepaliveLInv, RestartLInv DEF Application

LEMMA NextLInv == LInv /\ [Next]_vars => LInv'
<1> SUFFICES ASSUME LInv, [Next]_vars PROVE LInv'
  OBVIOUS
<1>1. CASE UNCHANGED vars
  BY <1>1, StutterLInv DEF vars, msgrVars
<1>2. ASSUME NEW i \in Pipes, Accepting(i) PROVE LInv'
  BY <1>2, AcceptingLInv, AcceptRefuseLInv, AcceptOpensLInv, AcceptFailedLInv DEF Accepting
<1>3. ASSUME NEW i \in Pipes, NetFault(i) PROVE LInv'
  BY <1>3, StutterLInv DEF NetFault, msgrVars
<1> QED BY <1>1, <1>2, <1>3, ReadingLInv, ConnectingLInv, WriterLInv, ReapLInv, ApplicationLInv DEF Next

(* In every behaviour, whatever the policies, the bounds and the faults,   *)
(* at most one Pipe of a messenger is live and it is the registered one:   *)
(* register_pipe, unregister_pipe and the replacement in accept() never    *)
(* leave two Pipes serving one peer.                                       *)
THEOREM LiveRegistered == Spec => []LivePipeRegistered
<1>1. LInv => LivePipeRegistered
  BY DEF LInv
<1> QED BY <1>1, InitLInv, NextLInv, PTL DEF Spec
-----------------------------------------------------------------------------
(* Type correctness and the consistency of the sequence numbers in the out *)
(* queues.  The two need each other: requeue_sent subtracts from an        *)
(* unsigned counter.                                                       *)

(* The types of the variables that Control does not already give.          *)
DataOK ==
  /\ pipe \in [Pipes -> PipeType]
  /\ outq \in [Pipes -> OutQ(Ids)]
  /\ loc \in [Pipes -> LocType]
  /\ sock \in [Pipes -> SockType]
  /\ global_seq \in [Peers -> Nat]
  /\ in_q \in [Peers -> [ConnIds -> Seq(Ids)]]
  /\ submitted \in [Peers -> Nat]
  /\ delivered \in [Peers -> Seq(Ids)]
  /\ excused \in [Peers -> SUBSET Ids]
  /\ used \in Budgets

(* What holds of one Pipe: its numbers are consistent; accept() runs       *)
(* without a writer; only the writer of an open, lossless Pipe leaves sent *)
(* messages, and whoever ends that state puts them back; and a write goes  *)
(* out on a usable socket only while the Pipe is open.                     *)
PipeInv(i) ==
  /\ WellNumbered(outq[i])
  /\ rd[i] \in {"accept", "reply", "seq"} => wr[i] = "none"
  /\ wr[i] = "none" \/ state[i] \notin {"open", "closed"} \/ pipe[i].lossy
       => outq[i].sent = <<>>
  /\ Writing(i) /\ sock[i].up => state[i] = "open"

TInv == LInv /\ DataOK /\ \A i \in Pipes : PipeInv(i)

LEMMA TypesFromInv == TInv => TypeOK /\ OutQueuesNumbered
BY DEF TInv, LInv, Control, DataOK, PipeInv, TypeOK, OutQueuesNumbered

(* Frames.                                                                 *)
LEMMA ReplyType ==
  ASSUME NEW tag \in ReplyTags, NEW g \in Nat, NEW c \in Nat, NEW a \in Nat, NEW l \in BOOLEAN
  PROVE  Reply(tag, g, c, a, l) \in Replies
BY DEF Reply, Replies

LEMMA AttemptType ==
  ASSUME NEW c \in Nat, NEW g \in Nat
  PROVE  Attempt(c, g) \in Frames
BY DEF Attempt, Connects, Frames

LEMMA FrameTypes ==
  /\ \A r \in Replies : r \in Frames
  /\ \A n \in Nat : [kind |-> "seq", seq |-> n] \in Frames /\ [kind |-> "ack", seq |-> n] \in Frames
  /\ \A m \in Message(Ids) : [kind |-> "msg", msg |-> m] \in Frames
  /\ [kind |-> "keepalive"] \in Frames /\ [kind |-> "keepalive_ack"] \in Frames
<1>1. \A n \in Nat : /\ [kind |-> "seq", seq |-> n] \in [kind : {"seq", "ack"}, seq : Nat]
                     /\ [kind |-> "ack", seq |-> n] \in [kind : {"seq", "ack"}, seq : Nat]
  OBVIOUS
<1>2. \A m \in Message(Ids) : [kind |-> "msg", msg |-> m] \in [kind : {"msg"}, msg : Message(Ids)]
  OBVIOUS
<1>3. /\ [kind |-> "keepalive"] \in [kind : {"keepalive", "keepalive_ack"}]
      /\ [kind |-> "keepalive_ack"] \in [kind : {"keepalive", "keepalive_ack"}]
  OBVIOUS
<1> QED BY <1>1, <1>2, <1>3 DEF Frames

(* What a frame of each kind carries.                                      *)
LEMMA FrameFields ==
  ASSUME NEW f \in Frames
  PROVE  /\ f.kind = "connect" => f.gseq \in Nat /\ f.cseq \in Nat
         /\ f.kind = "reply" => /\ f.tag \in ReplyTags /\ f.gseq \in Nat /\ f.cseq \in Nat
                                /\ f.acked \in Nat /\ f.lossy \in BOOLEAN
         /\ f.kind \in {"seq", "ack"} => f.seq \in Nat
         /\ f.kind = "msg" => f.msg \in Message(Ids)
<1>1. CASE f \in Connects
  BY <1>1 DEF Connects
<1>2. CASE f \in Replies
  BY <1>2 DEF Replies
<1>3. CASE f \in [kind : {"seq", "ack"}, seq : Nat]
  BY <1>3
<1>4. CASE f \in [kind : {"msg"}, msg : Message(Ids)]
  BY <1>4
<1>5. CASE f \in [kind : {"keepalive", "keepalive_ack"}]
  BY <1>5
<1> QED BY <1>1, <1>2, <1>3, <1>4, <1>5 DEF Frames

(* Sockets.                                                                *)
Socks == [Pipes -> SockType]

(* No socket that was down comes up.                                       *)
NoneUp(sk, new) == \A j \in Pipes : new[j].up => sk[j].up

LEMMA PutType ==
  ASSUME NEW sk \in Socks, NEW i \in Pipes, NEW f \in Frames
  PROVE  Put(sk, i, f) \in Socks /\ NoneUp(sk, Put(sk, i, f))
<1>1. CASE sk[i].peer = None
  BY <1>1 DEF Put, Live, NoneUp
<1>2. CASE sk[i].peer # None
  <2> DEFINE k == sk[i].peer
  <2>1. k \in Pipes /\ sk[k].in \in Seq(Frames)
    BY <1>2 DEF Socks, SockType
  <2>2. Append(sk[k].in, f) \in Seq(Frames)
    BY <2>1, AppendProperties
  <2>3. Put(sk, i, f) = [sk EXCEPT ![k].in = Append(@, f)]
    BY <1>2 DEF Put, Live
  <2> HIDE DEF k
  <2> QED BY <2>1, <2>2, <2>3 DEF Socks, SockType, NoneUp
<1> QED BY <1>1, <1>2

LEMMA TookType ==
  ASSUME NEW sk \in Socks, NEW i \in Pipes, sk[i].in # <<>>
  PROVE  /\ Took(sk, i) \in Socks /\ NoneUp(sk, Took(sk, i)) /\ Head(sk[i].in) \in Frames
<1>1. sk[i].in \in Seq(Frames)
  BY DEF Socks, SockType
<1>2. Tail(sk[i].in) \in Seq(Frames) /\ Head(sk[i].in) \in Frames
  BY <1>1, HeadTailProperties
<1> QED BY <1>2 DEF Took, Socks, SockType, NoneUp

LEMMA CutType ==
  ASSUME NEW sk \in Socks, NEW i \in Pipes
  PROVE  Cut(sk, i) \in Socks /\ \A j \in Pipes : Cut(sk, i)[j].up = sk[j].up
BY DEF Cut, Socks, SockType

LEMMA ShutType ==
  ASSUME NEW sk \in Socks, NEW i \in Pipes
  PROVE  Shut(sk, i) \in Socks /\ NoneUp(sk, Shut(sk, i)) /\ ~Shut(sk, i)[i].up
<1> DEFINE c == Cut(sk, i)
<1>1. c \in Socks /\ \A j \in Pipes : c[j].up = sk[j].up
  BY CutType
<1>2. Shut(sk, i) = [c EXCEPT ![i].up = FALSE]
  BY DEF Shut
<1> HIDE DEF c
<1>3. Shut(sk, i) \in Socks /\ ~Shut(sk, i)[i].up
  <2>1. PICK p \in SockType : p = c[i]
    BY <1>1 DEF Socks
  <2>2. [p EXCEPT !.up = FALSE] \in SockType /\ ~[p EXCEPT !.up = FALSE].up
    BY DEF SockType
  <2>3. Shut(sk, i) = [c EXCEPT ![i] = [p EXCEPT !.up = FALSE]]
    BY <1>2, <2>1
  <2> QED BY <1>1, <2>2, <2>3 DEF Socks
<1>4. NoneUp(sk, Shut(sk, i))
  BY <1>1, <1>2 DEF Socks, SockType, NoneUp
<1> QED BY <1>3, <1>4

LEMMA NoSockType == NoSock \in SockType /\ ~NoSock.up
BY EmptySeq DEF NoSock, SockType

LEMMA StoppedType ==
  ASSUME NEW sk \in Socks, NEW i \in Pipes
  PROVE  Stopped(sk, i) \in Socks /\ NoneUp(sk, Stopped(sk, i)) /\ ~Stopped(sk, i)[i].up
BY CutType, NoSockType DEF Stopped, Socks, NoneUp

LEMMA SeveredType ==
  ASSUME sock \in Socks, NEW S
  PROVE  /\ Severed(S) \in Socks /\ NoneUp(sock, Severed(S))
         /\ \A i \in Pipes \cap S : ~Severed(S)[i].up
BY NoSockType DEF Severed, Socks, SockType, NoneUp

(* The event queue and the excuses.                                        *)
LEMMA DiscardedType ==
  ASSUME DataOK, NEW p, NEW c
  PROVE  Discarded(p, c) \in [Peers -> [ConnIds -> Seq(Ids)]]
<1>1. <<>> \in Seq(Ids)
  BY EmptySeq
<1> QED BY <1>1 DEF Discarded, DataOK

LEMMA ExcuseType ==
  ASSUME DataOK, NEW told, Excuse(told)
  PROVE  excused' \in [Peers -> SUBSET Ids]
BY DEF Excuse, DataOK, Ids

(* Records.                                                                *)
LEMMA PolicyTypes ==
  ASSUME NEW p \in Peers
  PROVE  /\ Policy[p].lossy \in BOOLEAN /\ Policy[p].server \in BOOLEAN
         /\ Policy[p].standby \in BOOLEAN /\ Policy[p].resetcheck \in BOOLEAN
BY ConstantsAssumption DEF PolicyType

(* Updates of a Pipe's fields.                                             *)
LEMMA PipeUpdates ==
  ASSUME NEW r \in PipeType, NEW n \in Nat, NEW b \in BOOLEAN
  PROVE  /\ [r EXCEPT !.connect_seq = n] \in PipeType
         /\ [r EXCEPT !.connect_seq = n].lossy = r.lossy
         /\ [r EXCEPT !.in_seq = n] \in PipeType /\ [r EXCEPT !.in_seq = n].lossy = r.lossy
         /\ [r EXCEPT !.in_seq_acked = n] \in PipeType
         /\ [r EXCEPT !.in_seq_acked = n].lossy = r.lossy
         /\ [r EXCEPT !.send_keepalive = b] \in PipeType
         /\ [r EXCEPT !.send_keepalive = b].lossy = r.lossy
         /\ [r EXCEPT !.send_keepalive_ack = b] \in PipeType
         /\ [r EXCEPT !.send_keepalive_ack = b].lossy = r.lossy
         /\ Detached(r) \in PipeType /\ Detached(r).lossy = r.lossy
         /\ WasReset(r) \in PipeType /\ WasReset(r).lossy = r.lossy
BY DEF PipeType, Detached, WasReset

LEMMA NewPipeType ==
  ASSUME NEW p \in Peers, NEW c \in ConnIds \cup {0}
  PROVE  /\ NewPipe(p, c) \in PipeType /\ NewPipe(p, c).lossy = Policy[p].lossy
         /\ NoPipe(p) \in PipeType
BY PolicyTypes DEF NewPipe, NoPipe, Detached, PipeType

LEMMA NoLocType == NoLoc \in LocType
<1>1. Reply("READY", 0, 0, 0, FALSE) \in Replies
  BY ReplyType DEF ReplyTags
<1> QED BY <1>1 DEF NoLoc, LocType, Message, Ids

LEMMA FreshIdType ==
  ASSUME NEW p, FreeIds(p) # {}
  PROVE  FreshId(p) \in ConnIds
BY DEF FreshId, FreeIds

LEMMA EmptyIsGood ==
  ASSUME NEW n \in Nat
  PROVE  EmptyOutQ(n) \in OutQ(Ids) /\ WellNumbered(EmptyOutQ(n)) /\ EmptyOutQ(n).sent = <<>>
BY EmptyOutQGood DEF Good, EmptyOutQ

(* A step that leaves Pipe j alone keeps what holds of it.                 *)
LEMMA SamePipeInv ==
  ASSUME NEW j \in Pipes, Same(j), sock'[j].up => sock[j].up, PipeInv(j)
  PROVE  PipeInv(j)'
BY DEF Same, PipeInv, Writing

(* A step that changes one Pipe.                                           *)
LEMMA OnePipeTInv ==
  ASSUME TInv, LInv', DataOK', NEW i \in Pipes, NoneUp(sock, sock'),
         \A j \in Pipes \ {i} : Same(j),
         PipeInv(i)'
  PROVE  TInv'
<1>1. ASSUME NEW j \in Pipes \ {i} PROVE PipeInv(j)'
  BY <1>1, SamePipeInv DEF TInv, NoneUp
<1> QED BY <1>1 DEF TInv

(* What holds of a Pipe whose sent list is empty.                          *)
LEMMA EmptySentInv ==
  ASSUME NEW i \in Pipes, WellNumbered(outq'[i]), outq'[i].sent = <<>>,
         rd'[i] \in {"accept", "reply", "seq"} => wr'[i] = "none",
         wr'[i] \notin {"keepalive", "keepalive_ack", "ack", "msg"} \/ ~sock'[i].up
  PROVE  PipeInv(i)'
<1>1. Writing(i)' <=> wr'[i] \in {"keepalive", "keepalive_ack", "ack", "msg"}
  <2>1. /\ Round[1] = "keepalive" /\ Round[2] = "keepalive_ack"
        /\ Round[3] = "ack" /\ Round[4] = "msg"
    BY DEF Round
  <2>2. 1..4 = {1, 2, 3, 4}
    OBVIOUS
  <2> QED BY <2>1, <2>2 DEF Writing
<1> QED BY <1>1 DEF PipeInv

(* What fault() needs of the queue it finds, and what it leaves.           *)
MayFault(st, q) == Good(q, Ids) /\ (st = "connecting" => q.sent = <<>>)

FaultLeaves(i, st, q) ==
  /\ pipe' \in [Pipes -> PipeType] /\ pipe'[i].lossy = pipe[i].lossy
  /\ outq' \in [Pipes -> OutQ(Ids)] /\ WellNumbered(outq'[i])
  /\ outq'[i].sent = <<>> \/ (st = "closed" /\ state'[i] = "closed" /\ outq'[i] = q)
  /\ sock' \in Socks /\ NoneUp(sock, sock')
  /\ ~sock'[i].up \/ (st = "connecting" /\ sock' = sock)
  /\ in_q' \in [Peers -> [ConnIds -> Seq(Ids)]]
  /\ excused' \in [Peers -> SUBSET Ids]
  /\ \A j \in Pipes \ {i} : pipe'[j] = pipe[j] /\ outq'[j] = outq[j]

(* fault() on Pipe i, found in state st with out queue q.                  *)
LEMMA FaultData ==
  ASSUME TInv, NEW i \in Pipes, NEW st, NEW onread, NEW q, MayFault(st, q),
         Fault(i, st, onread, q)
  PROVE  FaultLeaves(i, st, q)
<1> USE DEF TInv, FaultLeaves
<1>1. /\ pipe \in [Pipes -> PipeType] /\ outq \in [Pipes -> OutQ(Ids)] /\ sock \in Socks
      /\ in_q \in [Peers -> [ConnIds -> Seq(Ids)]] /\ excused \in [Peers -> SUBSET Ids]
      /\ state \in [Pipes -> States]
  BY DEF DataOK, Socks, LInv, Control
<1>2. q \in OutQ(Ids) /\ WellNumbered(q)
  BY DEF Good, MayFault
<1>3. [pipe EXCEPT ![i] = Detached(@)] \in [Pipes -> PipeType]
      /\ [pipe EXCEPT ![i] = Detached(@)][i].lossy = pipe[i].lossy
  BY <1>1 DEF Detached, PipeType
<1>4. CASE FaultIgnored(i, st, onread, q)
  <2>1. /\ st = "connecting" /\ onread /\ outq' = [outq EXCEPT ![i] = q]
        /\ UNCHANGED <<pipe, sock, in_q, excused>>
    BY <1>4 DEF FaultIgnored
  <2> QED BY <1>1, <1>2, <2>1 DEF NoneUp, MayFault
<1>5. CASE FaultClosed(i, st, q)
  <2>1. /\ state' = [state EXCEPT ![i] = st] /\ st = "closed" /\ outq' = [outq EXCEPT ![i] = q]
        /\ pipe' = [pipe EXCEPT ![i] = Detached(@)] /\ sock' = Stopped(sock, i)
        /\ UNCHANGED in_q /\ excused' \in [Peers -> SUBSET Ids]
    BY <1>5, ExcuseType DEF FaultClosed
  <2>2. state'[i] = "closed" /\ outq'[i] = q /\ outq' \in [Pipes -> OutQ(Ids)]
    BY <1>1, <1>2, <2>1
  <2>3. sock' \in Socks /\ NoneUp(sock, sock') /\ ~sock'[i].up
    BY <1>1, <2>1, StoppedType
  <2> QED BY <1>1, <1>2, <1>3, <2>1, <2>2, <2>3
<1>6. CASE FaultLossy(i, st)
  <2>1. /\ outq' = [outq EXCEPT ![i] = EmptyOutQ(@.out_seq)]
        /\ pipe' = [pipe EXCEPT ![i] = Detached(@)] /\ sock' = Stopped(sock, i)
        /\ in_q' = Discarded(Owner(i), pipe[i].conn_id) /\ excused' \in [Peers -> SUBSET Ids]
    BY <1>6, ExcuseType DEF FaultLossy
  <2>2. outq[i].out_seq \in Nat
    BY <1>1 DEF OutQ
  <2>3. outq' \in [Pipes -> OutQ(Ids)] /\ WellNumbered(outq'[i]) /\ outq'[i].sent = <<>>
    BY <1>1, <2>1, <2>2, EmptyIsGood
  <2>4. sock' \in Socks /\ NoneUp(sock, sock') /\ ~sock'[i].up
    BY <1>1, <2>1, StoppedType
  <2> QED BY <1>3, <2>1, <2>3, <2>4, DiscardedType
<1>7. CASE FaultLossless(i, st, onread, q)
  <2> DEFINE rq == requeue_sent(q)
  <2>1. rq \in OutQ(Ids) /\ WellNumbered(rq) /\ rq.sent = <<>>
    BY RequeueGood DEF Good, MayFault
  <2>2. /\ outq' = [outq EXCEPT ![i] = rq] /\ sock' = Shut(sock, i)
        /\ UNCHANGED <<in_q, excused>>
        /\ pipe' = pipe \/ pipe' = [pipe EXCEPT ![i].connect_seq = @ + 1]
    BY <1>7 DEF FaultLossless
  <2> HIDE DEF rq
  <2>3. outq' \in [Pipes -> OutQ(Ids)] /\ WellNumbered(outq'[i]) /\ outq'[i].sent = <<>>
    BY <1>1, <2>1, <2>2
  <2>4. pipe' \in [Pipes -> PipeType] /\ pipe'[i].lossy = pipe[i].lossy
    <3> DEFINE r == [pipe[i] EXCEPT !.connect_seq = @ + 1]
    <3>1. pipe[i].connect_seq + 1 \in Nat
      BY <1>1 DEF PipeType
    <3>2. r \in PipeType /\ r.lossy = pipe[i].lossy
      BY <1>1, <3>1, PipeUpdates
    <3>3. pipe' = pipe \/ pipe' = [pipe EXCEPT ![i] = r]
      BY <2>2
    <3> HIDE DEF r
    <3> QED BY <1>1, <3>2, <3>3
  <2>5. sock' \in Socks /\ NoneUp(sock, sock') /\ ~sock'[i].up
    BY <1>1, <2>2, ShutType
  <2> QED BY <1>1, <2>2, <2>3, <2>4, <2>5
<1> QED BY <1>4, <1>5, <1>6, <1>7 DEF Fault
-----------------------------------------------------------------------------
(* accept().                                                               *)

LEMMA UsedTypes ==
  ASSUME used \in Budgets
  PROVE  /\ [used EXCEPT !.faults = @ + 1] \in Budgets /\ [used EXCEPT !.downs = @ + 1] \in Budgets
         /\ [used EXCEPT !.restarts = @ + 1] \in Budgets
         /\ [used EXCEPT !.rejects = @ + 1] \in Budgets
         /\ [used EXCEPT !.keepalives = @ + 1] \in Budgets
BY DEF Budgets

(* The frame a reader or a connecting writer takes from its socket.        *)
LEMMA ArrivedFrame ==
  ASSUME DataOK, NEW i \in Pipes, NEW kind, Arrived(i, kind)
  PROVE  /\ Head(sock[i].in) \in Frames /\ Head(sock[i].in).kind = kind
         /\ Took(sock, i) \in Socks /\ NoneUp(sock, Took(sock, i))
BY TookType DEF Arrived, DataOK, Socks

(* An answer written to the socket a request was read from.                *)
LEMMA AnsweredSocks ==
  ASSUME DataOK, NEW i \in Pipes, NEW kind, Arrived(i, kind), NEW f \in Frames
  PROVE  Put(Took(sock, i), i, f) \in Socks /\ NoneUp(sock, Put(Took(sock, i), i, f))
<1> DEFINE t == Took(sock, i)
<1>1. t \in Socks /\ NoneUp(sock, t)
  BY ArrivedFrame
<1> HIDE DEF t
<1>2. Put(t, i, f) \in Socks /\ NoneUp(t, Put(t, i, f))
  BY <1>1, PutType
<1> QED BY <1>1, <1>2 DEF NoneUp, t

LEMMA AcceptStoppedTInv ==
  ASSUME TInv, LInv', NEW i \in Pipes, AcceptStopped(i)
  PROVE  TInv'
<1>1. /\ rd[i] = "accept" /\ FaultClosed(i, "closed", outq[i]) /\ rd' = [rd EXCEPT ![i] = "none"]
      /\ UNCHANGED <<wr, loc, global_seq, submitted, delivered, used>>
  BY DEF AcceptStopped, AtConnect
<1>2. wr[i] = "none" /\ outq[i].sent = <<>> /\ Good(outq[i], Ids)
  BY <1>1 DEF TInv, PipeInv, Good, DataOK
<1>3. Fault(i, "closed", FALSE, outq[i])
  BY <1>1 DEF Fault
<1>4. FaultLeaves(i, "closed", outq[i])
  BY <1>2, <1>3, FaultData DEF MayFault
<1>5. DataOK'
  BY <1>1, <1>4 DEF TInv, DataOK, Socks, FaultLeaves
<1>6. /\ state' = [state EXCEPT ![i] = "closed"] /\ pipe' = [pipe EXCEPT ![i] = Detached(@)]
      /\ outq' = [outq EXCEPT ![i] = outq[i]]
  BY <1>1 DEF FaultClosed
<1>7. \A j \in Pipes \ {i} : Same(j)
  BY <1>1, <1>6 DEF TInv, Same, LInv, Control
<1>8. rd'[i] = "none" /\ ~sock'[i].up /\ outq'[i].sent = <<>>
  BY <1>1, <1>2, <1>4 DEF TInv, LInv, Control, FaultLeaves
<1>9. PipeInv(i)'
  BY <1>4, <1>8, EmptySentInv DEF FaultLeaves
<1>10. NoneUp(sock, sock')
  BY <1>4 DEF FaultLeaves
<1> QED BY <1>5, <1>7, <1>9, <1>10, OnePipeTInv

(* The end of the handshake.                                               *)
LEMMA AcceptDoneData ==
  ASSUME TInv, NEW i \in Pipes, rd[i] \in {"reply", "seq"}, NEW n, AcceptDone(i, n)
  PROVE  /\ outq' \in [Pipes -> OutQ(Ids)] /\ loc' \in [Pipes -> LocType]
         /\ WellNumbered(outq'[i]) /\ outq'[i].sent = <<>>
         /\ rd'[i] \notin {"accept", "reply", "seq"} /\ wr'[i] \in {"none", "loop"}
         /\ \A j \in Pipes \ {i} : /\ rd'[j] = rd[j] /\ wr'[j] = wr[j]
                                   /\ outq'[j] = outq[j] /\ loc'[j] = loc[j]
<1> USE DEF TInv
<1>1. wr[i] = "none" /\ outq[i].sent = <<>> /\ Good(outq[i], Ids)
  BY DEF PipeInv, Good, DataOK
<1> DEFINE q == discard_requeued_up_to(outq[i], n)
<1>2. q \in OutQ(Ids) /\ WellNumbered(q) /\ q.sent = <<>>
  BY <1>1, DiscardRequeuedGood DEF Good
<1>3. /\ outq' = [outq EXCEPT ![i] = q] /\ loc' = [loc EXCEPT ![i] = NoLoc]
      /\ rd' = [rd EXCEPT ![i] = ReaderNext(state[i])]
      /\ wr' = wr \/ wr' = [wr EXCEPT ![i] = "loop"]
  BY DEF AcceptDone
<1> HIDE DEF q
<1>4. ReaderNext(state[i]) \notin {"accept", "reply", "seq"}
  BY DEF ReaderNext
<1>5. /\ outq \in [Pipes -> OutQ(Ids)] /\ loc \in [Pipes -> LocType]
      /\ rd \in [Pipes -> ReaderPC] /\ wr \in [Pipes -> WriterPC]
  BY DEF DataOK, LInv, Control
<1> QED BY <1>1, <1>2, <1>3, <1>4, <1>5, NoLocType

LEMMA AcceptRepliedTInv ==
  ASSUME TInv, LInv', NEW i \in Pipes, AcceptReplied(i) \/ AcceptSeq(i)
  PROVE  TInv'
<1> USE DEF TInv
<1>1. /\ UNCHANGED <<state, pipe, global_seq, in_q, submitted, delivered, excused, used>>
      /\ rd[i] \in {"reply", "seq"}
  BY DEF AcceptReplied, AcceptSeq, msgrVars, appVars
<1>2. sock' \in Socks /\ NoneUp(sock, sock')
  <2>1. CASE AcceptReplied(i)
    <3>1. loc[i].reply \in Frames /\ sock \in Socks
      BY FrameTypes DEF DataOK, LocType, Socks
    <3> QED BY <2>1, <3>1, PutType DEF AcceptReplied
  <2>2. CASE AcceptSeq(i)
    BY <2>2, ArrivedFrame DEF AcceptSeq
  <2> QED BY <2>1, <2>2
<1>3. wr[i] = "none" /\ outq[i].sent = <<>>
  BY <1>1 DEF PipeInv
<1>4. CASE AcceptReplied(i) /\ loc[i].reply.tag = "SEQ"
  <2>1. rd' = [rd EXCEPT ![i] = "seq"] /\ UNCHANGED <<outq, wr, loc>>
    BY <1>4 DEF AcceptReplied
  <2>2. DataOK'
    BY <1>1, <1>2, <2>1 DEF DataOK, Socks
  <2>3. \A j \in Pipes \ {i} : Same(j)
    BY <1>1, <2>1 DEF Same, LInv, Control
  <2>4. PipeInv(i)'
    BY <1>3, <2>1, EmptySentInv DEF PipeInv
  <2> QED BY <1>2, <2>2, <2>3, <2>4, OnePipeTInv
<1>5. CASE \E n : AcceptDone(i, n)
  <2>1. /\ outq' \in [Pipes -> OutQ(Ids)] /\ loc' \in [Pipes -> LocType]
        /\ WellNumbered(outq'[i]) /\ outq'[i].sent = <<>>
        /\ rd'[i] \notin {"accept", "reply", "seq"} /\ wr'[i] \in {"none", "loop"}
        /\ \A j \in Pipes \ {i} : /\ rd'[j] = rd[j] /\ wr'[j] = wr[j]
                                  /\ outq'[j] = outq[j] /\ loc'[j] = loc[j]
    BY <1>1, <1>5, AcceptDoneData
  <2>2. DataOK'
    BY <1>1, <1>2, <2>1 DEF DataOK, Socks
  <2>3. \A j \in Pipes \ {i} : Same(j)
    BY <1>1, <2>1 DEF Same
  <2>4. PipeInv(i)'
    BY <2>1, EmptySentInv
  <2> QED BY <1>2, <2>2, <2>3, <2>4, OnePipeTInv
<1> QED BY <1>4, <1>5 DEF AcceptReplied, AcceptSeq

(* A step in which the fields of one Pipe other than lossy may change, and *)
(* frames are exchanged.                                                   *)
LEMMA FieldsTInv ==
  ASSUME TInv, LInv', DataOK', NoneUp(sock, sock'), UNCHANGED <<state, outq, rd, wr>>,
         \A j \in Pipes : pipe'[j].lossy = pipe[j].lossy
  PROVE  TInv'
<1>1. ASSUME NEW j \in Pipes PROVE PipeInv(j)'
  BY DEF TInv, PipeInv, Writing, NoneUp
<1> QED BY <1>1 DEF TInv

LEMMA AcceptRefuseTInv ==
  ASSUME TInv, LInv', NEW i \in Pipes, AcceptRefuse(i) \/ AcceptReject(i)
  PROVE  TInv'
<1> USE DEF TInv
<1> DEFINE p == Owner(i)
           e == Lookup(p)
<1>1. /\ UNCHANGED <<state, outq, rd, wr, loc, global_seq, in_q, submitted, delivered, excused>>
      /\ Arrived(i, "connect")
  BY DEF AcceptRefuse, AcceptReject, AcceptReply, Deciding, AtConnect, msgrVars, appVars
<1>2. CASE AcceptReject(i)
  <2>1. PICK tag \in {"BADPROTOVER", "FEATURES", "BADAUTHORIZER"} :
              sock' = Put(Took(sock, i), i, Reply(tag, 0, 0, 0, FALSE))
    BY <1>2 DEF AcceptReject, AcceptReply
  <2>2. Reply(tag, 0, 0, 0, FALSE) \in Frames
    BY <2>1, ReplyType, FrameTypes DEF ReplyTags
  <2>3. sock' \in Socks /\ NoneUp(sock, sock')
    BY <1>1, <2>1, <2>2, AnsweredSocks
  <2>4. pipe' = pipe /\ used' \in Budgets
    BY <1>2, UsedTypes DEF AcceptReject, DataOK
  <2>5. DataOK'
    BY <1>1, <2>3, <2>4 DEF DataOK, Socks
  <2> QED BY <1>1, <2>3, <2>4, <2>5, FieldsTInv
<1>3. CASE AcceptRefuse(i)
  <2> DEFINE v == DecidedAs(i)
             g == IF v = "RETRY_GLOBAL" THEN pipe[e].peer_global_seq ELSE 0
             c == IF v = "RETRY_SESSION" THEN pipe[e].connect_seq + 1 ELSE 0
  <2>1. /\ v \in {"RETRY_GLOBAL", "RETRY_SESSION", "RESETSESSION", "WAIT"}
        /\ sock' = Put(Took(sock, i), i, Reply(v, g, c, 0, FALSE))
        /\ used' = used
        /\ pipe' = IF v = "WAIT" THEN [pipe EXCEPT ![e].send_keepalive = TRUE] ELSE pipe
    BY <1>3 DEF AcceptRefuse, AcceptReply
  <2>2. e = None => v \in {"RESETSESSION", "open"}
    BY DEF DecidedAs, Verdict
  <2>3. e # None => e \in Pipes /\ pipe[e] \in PipeType
    BY OwnerIsPeer, LookupProperties DEF DataOK
  <2>4. g \in Nat /\ c \in Nat
    <3>1. e # None => pipe[e].peer_global_seq \in Nat /\ pipe[e].connect_seq \in Nat
      BY <2>3 DEF PipeType
    <3> HIDE DEF v, e
    <3> QED BY <2>2, <3>1
  <2>5. pipe' \in [Pipes -> PipeType] /\ \A j \in Pipes : pipe'[j].lossy = pipe[j].lossy
    <3>1. CASE v # "WAIT"
      BY <2>1, <3>1 DEF DataOK
    <3>2. CASE v = "WAIT"
      <4>1. PICK k \in Pipes : k = e
        BY <2>2, <2>3, <3>2
      <4>2. pipe' = [pipe EXCEPT ![k] = [pipe[k] EXCEPT !.send_keepalive = TRUE]]
        BY <2>1, <3>2, <4>1
      <4>3. /\ [pipe[k] EXCEPT !.send_keepalive = TRUE] \in PipeType
            /\ [pipe[k] EXCEPT !.send_keepalive = TRUE].lossy = pipe[k].lossy
        BY PipeUpdates DEF DataOK
      <4> QED BY <4>2, <4>3 DEF DataOK
    <3> QED BY <3>1, <3>2
  <2>6. Reply(v, g, c, 0, FALSE) \in Frames
    <3> HIDE DEF v, g, c
    <3> QED BY <2>1, <2>4, ReplyType, FrameTypes DEF ReplyTags
  <2>7. sock' \in Socks /\ NoneUp(sock, sock')
    BY <1>1, <2>1, <2>6, AnsweredSocks
  <2>8. DataOK'
    BY <1>1, <2>1, <2>5, <2>7 DEF DataOK, Socks
  <2> QED BY <1>1, <2>5, <2>7, <2>8, FieldsTInv
<1> QED BY <1>2, <1>3

(* Updates of a thread's local variables.                                  *)
LEMMA LocReply ==
  ASSUME NEW l \in LocType, NEW r \in Replies, NEW c \in BOOLEAN
  PROVE  [l EXCEPT !.reply = r, !.replaced = c] \in LocType
BY DEF LocType

LEMMA LocId ==
  ASSUME NEW l \in LocType, NEW a \in Ids
  PROVE  [l EXCEPT !.id = a] \in LocType
BY DEF LocType

LEMMA LocAttempt ==
  ASSUME NEW l \in LocType, NEW a \in Nat, NEW b \in Nat, NEW c \in BOOLEAN
  PROVE  [l EXCEPT !.cseq = a, !.gseq = b, !.bad_auth = c] \in LocType
BY DEF LocType

LEMMA LocWrite ==
  ASSUME NEW l \in LocType, NEW a \in Nat, NEW m \in Message(Ids)
  PROVE  [l EXCEPT !.seq = a, !.msg = m] \in LocType
BY DEF LocType

(* A step that changes two Pipes.                                          *)
LEMMA TwoPipesTInv ==
  ASSUME TInv, LInv', DataOK', NEW i \in Pipes, NEW e, NoneUp(sock, sock'),
         \A j \in Pipes \ {i, e} : Same(j),
         PipeInv(i)', e \in Pipes => PipeInv(e)'
  PROVE  TInv'
<1>1. ASSUME NEW j \in Pipes \ {i, e} PROVE PipeInv(j)'
  BY <1>1, SamePipeInv DEF TInv, NoneUp
<1>2. e \in Pipes \/ e \notin Pipes
  OBVIOUS
<1> QED BY <1>1, <1>2 DEF TInv

(* The Pipe that accepts is given nothing before it has decided.           *)
LEMMA DecidingPipe ==
  ASSUME TInv, NEW i \in Pipes, Deciding(i)
  PROVE  /\ state[i] = "accepting" /\ rd[i] = "accept" /\ wr[i] = "none"
         /\ outq[i] = EmptyOutQ(0) /\ Arrived(i, "connect")
         /\ Request(i).cseq \in Nat /\ Request(i).gseq \in Nat
         /\ Lookup(Owner(i)) # i
         /\ Lookup(Owner(i)) # None => /\ Lookup(Owner(i)) \in Pipes
                                       /\ state[Lookup(Owner(i))] # "closed"
<1>1. state[i] = "accepting" /\ rd[i] = "accept" /\ Arrived(i, "connect")
  BY DEF Deciding, AtConnect
<1>2. wr[i] = "none" /\ outq[i] = EmptyOutQ(0)
  BY <1>1 DEF TInv, LInv, AcceptingIsIdle
<1>3. Request(i) \in Frames /\ Request(i).kind = "connect"
  BY <1>1, ArrivedFrame DEF TInv, Request
<1>4. Request(i).cseq \in Nat /\ Request(i).gseq \in Nat
  BY <1>3, FrameFields
<1>5. /\ Lookup(Owner(i)) # i
      /\ Lookup(Owner(i)) # None => /\ Lookup(Owner(i)) \in Pipes
                                    /\ state[Lookup(Owner(i))] # "closed"
  BY <1>1, OwnerIsPeer, LookupProperties, NoneIsNoPipe DEF TInv
<1> QED BY <1>1, <1>2, <1>4, <1>5

(* open: whatever the accepting Pipe has taken over.                       *)
LEMMA OpenedTInv ==
  ASSUME TInv, LInv', NEW i \in Pipes, Deciding(i), NEW e, e = None \/ e = Lookup(Owner(i)),
         NEW tag \in ReplyTags, NEW acked \in Nat, AcceptOpened(i, e, tag, acked),
         pipe' \in [Pipes -> PipeType], outq' \in [Pipes -> OutQ(Ids)],
         \A j \in Pipes \ {i, e} : pipe'[j] = pipe[j] /\ outq'[j] = outq[j],
         WellNumbered(outq'[i]), outq'[i].sent = <<>>,
         e # None => WellNumbered(outq'[e]) /\ outq'[e].sent = <<>>,
         in_q' \in [Peers -> [ConnIds -> Seq(Ids)]], excused' \in [Peers -> SUBSET Ids]
  PROVE  TInv'
<1> DEFINE p == Owner(i)
           R == Reply(tag, global_seq[p] + 1, Request(i).cseq + 1, acked, Policy[p].lossy)
<1>1. /\ state[i] = "accepting" /\ wr[i] = "none" /\ Arrived(i, "connect")
      /\ Request(i).cseq \in Nat /\ e # i /\ (e # None => e \in Pipes)
  BY DecidingPipe, NoneIsNoPipe
<1>2. p \in Peers /\ global_seq[p] \in Nat
  BY OwnerIsPeer DEF TInv, DataOK
<1>3. R \in Replies
  BY <1>1, <1>2, ReplyType, PolicyTypes
<1> HIDE DEF R
<1>4. /\ state' = [StoppedState(state, e) EXCEPT ![i] = "open"]
      /\ sock' = IF e = None THEN Took(sock, i) ELSE Stopped(Took(sock, i), e)
      /\ global_seq' = [global_seq EXCEPT ![p] = @ + 1]
      /\ rd' = [rd EXCEPT ![i] = "reply"]
      /\ loc' = [loc EXCEPT ![i].reply = R, ![i].replaced = (e # None)]
      /\ UNCHANGED <<wr, submitted, delivered, used>>
  BY DEF AcceptOpened, R
<1> HIDE DEF p
<1>5. sock' \in Socks /\ NoneUp(sock, sock') /\ (e # None => ~sock'[e].up)
  <2> DEFINE t == Took(sock, i)
  <2>1. t \in Socks /\ NoneUp(sock, t)
    BY <1>1, ArrivedFrame DEF TInv
  <2>2. sock' = IF e = None THEN t ELSE Stopped(t, e)
    BY <1>4
  <2> HIDE DEF t
  <2>3. CASE e = None
    BY <2>1, <2>2, <2>3
  <2>4. CASE e # None
    <3>1. e \in Pipes
      BY <1>1, <2>4
    <3>2. Stopped(t, e) \in Socks /\ NoneUp(t, Stopped(t, e)) /\ ~Stopped(t, e)[e].up
      BY <2>1, <3>1, StoppedType
    <3> QED BY <2>1, <2>2, <2>4, <3>2 DEF NoneUp
  <2> QED BY <2>3, <2>4
<1>6. loc' \in [Pipes -> LocType] /\ \A j \in Pipes \ {i} : loc'[j] = loc[j]
  <2> DEFINE b == (e # None)
             l == [loc[i] EXCEPT !.reply = R, !.replaced = b]
  <2>1. loc' = [loc EXCEPT ![i] = l]
    BY <1>4
  <2>2. b \in BOOLEAN /\ loc \in [Pipes -> LocType]
    BY DEF TInv, DataOK
  <2> HIDE DEF b
  <2>3. l \in LocType
    BY <1>3, <2>2, LocReply
  <2> HIDE DEF l
  <2> QED BY <2>1, <2>2, <2>3
<1>7. DataOK'
  <2>1. global_seq' \in [Peers -> Nat]
    BY <1>2, <1>4 DEF TInv, DataOK
  <2> QED BY <1>4, <1>5, <1>6, <2>1 DEF TInv, DataOK, Socks
<1>8. ASSUME NEW j \in Pipes \ {i, e} PROVE Same(j)
  BY <1>4, <1>6, <1>8 DEF Same, StoppedState, TInv, LInv, Control
<1>9. PipeInv(i)'
  <2>1. rd'[i] = "reply" /\ wr'[i] = "none"
    BY <1>1, <1>4 DEF TInv, LInv, Control
  <2> QED BY <2>1, EmptySentInv
<1>10. ASSUME e \in Pipes PROVE PipeInv(e)'
  <2>1. e # None
    BY <1>10, NoneIsNoPipe
  <2>2. rd'[e] = rd[e] /\ wr'[e] = wr[e]
    BY <1>1, <1>4, <1>10 DEF TInv, LInv, Control
  <2>3. rd[e] \in {"accept", "reply", "seq"} => wr[e] = "none"
    BY <1>10 DEF TInv, PipeInv
  <2> QED BY <1>5, <1>10, <2>1, <2>2, <2>3, EmptySentInv
<1> QED BY <1>5, <1>7, <1>8, <1>9, <1>10, TwoPipesTInv
(* The fields a Pipe has when it takes over a session.                     *)
LEMMA RequestedType ==
  ASSUME NEW r \in PipeType, NEW c \in Nat, NEW g \in Nat
  PROVE  [r EXCEPT !.connect_seq = c, !.peer_global_seq = g] \in PipeType
BY DEF PipeType

LEMMA TakenType ==
  ASSUME NEW r \in PipeType, NEW c \in Nat, NEW g \in Nat, NEW n \in Nat, NEW x \in PipeType
  PROVE  /\ [r EXCEPT !.connect_seq = c, !.peer_global_seq = g,
                      !.in_seq = n, !.in_seq_acked = n, !.conn_id = x.conn_id] \in PipeType
         /\ [Detached(x) EXCEPT !.conn_id = r.conn_id] \in PipeType
BY DEF PipeType, Detached

LEMMA TakeOverData ==
  ASSUME DataOK, NEW i \in Pipes, NEW e \in Pipes, e # i, NEW x \in PipeType,
         NEW q, Good(q, Ids), NEW hard \in BOOLEAN,
         Request(i).cseq \in Nat, Request(i).gseq \in Nat, TakeOver(i, e, x, q, hard)
  PROVE  /\ pipe' \in [Pipes -> PipeType] /\ outq' \in [Pipes -> OutQ(Ids)]
         /\ \A j \in Pipes \ {i, e} : pipe'[j] = pipe[j] /\ outq'[j] = outq[j]
         /\ WellNumbered(outq'[i]) /\ outq'[i].sent = <<>>
         /\ WellNumbered(outq'[e]) /\ outq'[e].sent = <<>>
<1> DEFINE n == IF hard THEN 0 ELSE x.in_seq
           c == Request(i).cseq + 1
           g == Request(i).gseq
           a == [pipe[i] EXCEPT !.connect_seq = c, !.peer_global_seq = g,
                      !.in_seq = n, !.in_seq_acked = n, !.conn_id = x.conn_id]
           b == [Detached(x) EXCEPT !.conn_id = pipe[i].conn_id]
           s == Stolen(q)
           z == EmptyOutQ(s.out_seq)
<1>1. pipe' = [pipe EXCEPT ![i] = a, ![e] = b] /\ outq' = [outq EXCEPT ![i] = s, ![e] = z]
  BY DEF TakeOver
<1>2. n \in Nat /\ c \in Nat /\ g \in Nat
  BY DEF PipeType
<1>3. pipe \in [Pipes -> PipeType] /\ outq \in [Pipes -> OutQ(Ids)]
  BY DEF DataOK
<1>4. a \in PipeType /\ b \in PipeType
  <2> HIDE DEF n, c, g
  <2> QED BY <1>2, <1>3, TakenType
<1>5. s \in OutQ(Ids) /\ WellNumbered(s) /\ s.sent = <<>>
  BY RequeueGood DEF Stolen, Good
<1>6. z \in OutQ(Ids) /\ WellNumbered(z) /\ z.sent = <<>>
  <2>1. s.out_seq \in Nat
    BY <1>5 DEF OutQ
  <2> QED BY <2>1, EmptyIsGood
<1> HIDE DEF a, b, s, z
<1> QED BY <1>1, <1>3, <1>4, <1>5, <1>6

(* The Pipe whose session is taken over.                                   *)
LEMMA ReplacedPipe ==
  ASSUME TInv, NEW i \in Pipes, Deciding(i), Lookup(Owner(i)) # None
  PROVE  /\ Lookup(Owner(i)) \in Pipes /\ Lookup(Owner(i)) # i
         /\ pipe[Lookup(Owner(i))] \in PipeType /\ WasReset(pipe[Lookup(Owner(i))]) \in PipeType
         /\ pipe[Lookup(Owner(i))].in_seq \in Nat
         /\ Good(outq[Lookup(Owner(i))], Ids)
         /\ Request(i).cseq \in Nat /\ Request(i).gseq \in Nat
         /\ Discarded(Owner(i), pipe[Lookup(Owner(i))].conn_id)
              \in [Peers -> [ConnIds -> Seq(Ids)]]
<1> DEFINE e == Lookup(Owner(i))
<1>1. e \in Pipes /\ e # i /\ Request(i).cseq \in Nat /\ Request(i).gseq \in Nat
  BY DecidingPipe
<1> HIDE DEF e
<1>2. pipe[e] \in PipeType /\ Good(outq[e], Ids) /\ DataOK
  BY <1>1 DEF TInv, DataOK, PipeInv, Good
<1>3. WasReset(pipe[e]) \in PipeType /\ pipe[e].in_seq \in Nat
  BY <1>2 DEF PipeType, WasReset
<1> QED BY <1>1, <1>2, <1>3, DiscardedType DEF e

LEMMA ReplaceVerdict ==
  ASSUME NEW i, DecidedAs(i) \in {"replace", "replace_lossy", "replace_reset"}
  PROVE  Lookup(Owner(i)) # None
BY DEF DecidedAs, Verdict

LEMMA AcceptNewTInv ==
  ASSUME TInv, LInv', NEW i \in Pipes, AcceptNew(i)
  PROVE  TInv'
<1> DEFINE a == [pipe[i] EXCEPT !.connect_seq = Request(i).cseq + 1,
                                !.peer_global_seq = Request(i).gseq]
<1>1. /\ Deciding(i) /\ AcceptOpened(i, None, "READY", 0)
      /\ pipe' = [pipe EXCEPT ![i] = a]
      /\ outq' = outq /\ in_q' = in_q /\ excused' = excused
  BY DEF AcceptNew
<1>2. Request(i).cseq + 1 \in Nat /\ Request(i).gseq \in Nat /\ outq[i] = EmptyOutQ(0)
  BY <1>1, DecidingPipe
<1>3. /\ pipe \in [Pipes -> PipeType] /\ outq \in [Pipes -> OutQ(Ids)]
      /\ in_q \in [Peers -> [ConnIds -> Seq(Ids)]] /\ excused \in [Peers -> SUBSET Ids]
  BY DEF TInv, DataOK
<1>4. a \in PipeType
  BY <1>2, <1>3, RequestedType
<1> HIDE DEF a
<1>5. pipe' \in [Pipes -> PipeType] /\ \A j \in Pipes \ {i} : pipe'[j] = pipe[j]
  BY <1>1, <1>3, <1>4
<1>6. WellNumbered(outq[i]) /\ outq[i].sent = <<>>
  BY <1>2, EmptyIsGood
<1>7. "READY" \in ReplyTags
  BY DEF ReplyTags
<1> QED BY <1>1, <1>3, <1>5, <1>6, <1>7, OpenedTInv

LEMMA AcceptReplaceLossyTInv ==
  ASSUME TInv, LInv', NEW i \in Pipes, AcceptReplaceLossy(i)
  PROVE  TInv'
<1> DEFINE a == [pipe[i] EXCEPT !.connect_seq = Request(i).cseq + 1,
                                !.peer_global_seq = Request(i).gseq]
<1>1. Deciding(i) /\ Lookup(Owner(i)) # None
  BY ReplaceVerdict DEF AcceptReplaceLossy
<1>2. PICK e \in Pipes : e = Lookup(Owner(i))
  BY <1>1, ReplacedPipe
<1> DEFINE b == Detached(WasReset(pipe[e]))
<1>3. PICK start \in StartSeqs : outq' = [outq EXCEPT ![e] = EmptyOutQ(start)]
  BY <1>2 DEF AcceptReplaceLossy
<1>4. /\ AcceptOpened(i, e, "SEQ", 0) /\ Excuse(TRUE)
      /\ pipe' = [pipe EXCEPT ![i] = a, ![e] = b]
      /\ in_q' = Discarded(Owner(i), pipe[e].conn_id)
  <2>1. e # i
    BY <1>1, <1>2, ReplacedPipe
  <2> QED BY <1>2, <2>1 DEF AcceptReplaceLossy
<1>5. /\ e # i /\ WasReset(pipe[e]) \in PipeType /\ Request(i).cseq + 1 \in Nat
      /\ Request(i).gseq \in Nat /\ in_q' \in [Peers -> [ConnIds -> Seq(Ids)]]
  BY <1>1, <1>2, <1>4, ReplacedPipe
<1>6. pipe \in [Pipes -> PipeType] /\ outq \in [Pipes -> OutQ(Ids)] /\ DataOK
  BY DEF TInv, DataOK
<1>7. a \in PipeType
  BY <1>5, <1>6, RequestedType
<1>8. b \in PipeType
  <2>1. PICK p \in PipeType : p = WasReset(pipe[e])
    BY <1>5
  <2> QED BY <2>1 DEF Detached, PipeType
<1> HIDE DEF a, b
<1>9. pipe' \in [Pipes -> PipeType] /\ \A j \in Pipes \ {i, e} : pipe'[j] = pipe[j]
  BY <1>4, <1>6, <1>7, <1>8
<1>10. EmptyOutQ(start) \in OutQ(Ids) /\ WellNumbered(EmptyOutQ(start)) /\ EmptyOutQ(start).sent = <<>>
  BY EmptyIsGood, ConstantsAssumption
<1>11. /\ outq' \in [Pipes -> OutQ(Ids)] /\ WellNumbered(outq'[e]) /\ outq'[e].sent = <<>>
       /\ \A j \in Pipes \ {e} : outq'[j] = outq[j]
  BY <1>3, <1>6, <1>10
<1>12. WellNumbered(outq'[i]) /\ outq'[i].sent = <<>>
  <2>1. outq[i] = EmptyOutQ(0)
    BY <1>1, DecidingPipe
  <2> QED BY <1>5, <1>11, <2>1, EmptyIsGood
<1>13. excused' \in [Peers -> SUBSET Ids]
  BY <1>4, <1>6, ExcuseType
<1>14. "SEQ" \in ReplyTags
  BY DEF ReplyTags
<1> QED BY <1>1, <1>2, <1>4, <1>5, <1>9, <1>11, <1>12, <1>13, <1>14, OpenedTInv

(* The two ways to take over a lossless session.                           *)
LEMMA TakenTInv ==
  ASSUME TInv, LInv', NEW i \in Pipes, Deciding(i), NEW e \in Pipes, e = Lookup(Owner(i)),
         NEW tag \in ReplyTags, NEW acked \in Nat, AcceptOpened(i, e, tag, acked),
         NEW x \in PipeType, NEW q, Good(q, Ids), NEW hard \in BOOLEAN,
         TakeOver(i, e, x, q, hard),
         in_q' \in [Peers -> [ConnIds -> Seq(Ids)]], excused' \in [Peers -> SUBSET Ids]
  PROVE  TInv'
<1>1. e # None
  BY NoneIsNoPipe
<1>2. e # i /\ Request(i).cseq \in Nat /\ Request(i).gseq \in Nat
  BY <1>1, ReplacedPipe
<1>3. DataOK
  BY DEF TInv
<1>4. /\ pipe' \in [Pipes -> PipeType] /\ outq' \in [Pipes -> OutQ(Ids)]
      /\ \A j \in Pipes \ {i, e} : pipe'[j] = pipe[j] /\ outq'[j] = outq[j]
      /\ WellNumbered(outq'[i]) /\ outq'[i].sent = <<>>
      /\ WellNumbered(outq'[e]) /\ outq'[e].sent = <<>>
  BY <1>2, <1>3, TakeOverData
<1> QED BY <1>4, OpenedTInv

LEMMA AcceptReplaceTInv ==
  ASSUME TInv, LInv', NEW i \in Pipes, AcceptReplace(i) \/ AcceptReplaceReset(i)
  PROVE  TInv'
<1>1. Deciding(i) /\ Lookup(Owner(i)) # None
  <2>1. Deciding(i) /\ DecidedAs(i) \in {"replace", "replace_reset"}
    BY DEF AcceptReplace, AcceptReplaceReset
  <2> QED BY <2>1, ReplaceVerdict
<1>2. PICK e \in Pipes : e = Lookup(Owner(i))
  BY <1>1, ReplacedPipe
<1>3. /\ pipe[e] \in PipeType /\ WasReset(pipe[e]) \in PipeType /\ pipe[e].in_seq \in Nat
      /\ Good(outq[e], Ids)
      /\ Discarded(Owner(i), pipe[e].conn_id) \in [Peers -> [ConnIds -> Seq(Ids)]]
  BY <1>1, <1>2, ReplacedPipe
<1>4. in_q \in [Peers -> [ConnIds -> Seq(Ids)]] /\ excused \in [Peers -> SUBSET Ids] /\ DataOK
  BY DEF TInv, DataOK
<1>5. "READY" \in ReplyTags /\ "SEQ" \in ReplyTags
  BY DEF ReplyTags
<1>6. CASE AcceptReplace(i)
  <2>1. /\ AcceptOpened(i, e, "SEQ", pipe[e].in_seq)
        /\ TakeOver(i, e, pipe[e], outq[e], FALSE) /\ in_q' = in_q /\ excused' = excused
    BY <1>2, <1>6 DEF AcceptReplace
  <2>2. in_q' \in [Peers -> [ConnIds -> Seq(Ids)]] /\ excused' \in [Peers -> SUBSET Ids]
    BY <1>4, <2>1
  <2> QED BY <1>1, <1>2, <1>3, <1>5, <2>1, <2>2, TakenTInv
<1>7. CASE AcceptReplaceReset(i) /\ Policy[Owner(i)].resetcheck
  <2>1. PICK start \in StartSeqs : TakeOver(i, e, WasReset(pipe[e]), EmptyOutQ(start), TRUE)
    BY <1>2, <1>7 DEF AcceptReplaceReset
  <2>2. /\ AcceptOpened(i, e, "READY", 0) /\ Excuse(TRUE)
        /\ in_q' = Discarded(Owner(i), pipe[e].conn_id)
    BY <1>2, <1>7 DEF AcceptReplaceReset
  <2>3. in_q' \in [Peers -> [ConnIds -> Seq(Ids)]] /\ excused' \in [Peers -> SUBSET Ids]
    BY <1>3, <1>4, <2>2, ExcuseType
  <2>4. Good(EmptyOutQ(start), Ids)
    BY EmptyOutQGood, ConstantsAssumption
  <2> QED BY <1>1, <1>2, <1>3, <1>5, <2>1, <2>2, <2>3, <2>4, TakenTInv
<1>8. CASE AcceptReplaceReset(i) /\ ~Policy[Owner(i)].resetcheck
  <2>1. /\ AcceptOpened(i, e, "READY", 0)
        /\ TakeOver(i, e, pipe[e], outq[e], TRUE) /\ in_q' = in_q /\ excused' = excused
    BY <1>2, <1>8 DEF AcceptReplaceReset
  <2>2. in_q' \in [Peers -> [ConnIds -> Seq(Ids)]] /\ excused' \in [Peers -> SUBSET Ids]
    BY <1>4, <2>1
  <2> QED BY <1>1, <1>2, <1>3, <1>5, <2>1, <2>2, TakenTInv
<1> QED BY <1>6, <1>7, <1>8
(* What a fault leaves alone, and what else its step may do.               *)
FaultFrame(i) ==
  /\ loc' \in [Pipes -> LocType] /\ used' \in Budgets
  /\ UNCHANGED <<global_seq, submitted, delivered>>
  /\ \A j \in Pipes \ {i} : rd'[j] = rd[j] /\ wr'[j] = wr[j] /\ loc'[j] = loc[j]
  /\ rd'[i] \in {"accept", "reply", "seq"} => wr'[i] = "none"

(* A fault() on a Pipe that has nothing unacknowledged.                    *)
LEMMA FaultEmptyTInv ==
  ASSUME TInv, LInv', NEW i \in Pipes, NEW st, NEW onread, NEW q,
         Good(q, Ids), q.sent = <<>>, Fault(i, st, onread, q), FaultFrame(i),
         wr'[i] \notin {"keepalive", "keepalive_ack", "ack", "msg"}
  PROVE  TInv'
<1>1. FaultLeaves(i, st, q)
  BY FaultData DEF MayFault
<1>2. DataOK'
  BY <1>1 DEF FaultLeaves, FaultFrame, DataOK, Socks, TInv
<1>3. \A j \in Pipes \ {i} : state'[j] = state[j]
  BY FaultEffect DEF TInv, LInv
<1>4. \A j \in Pipes \ {i} : Same(j)
  BY <1>1, <1>3 DEF FaultLeaves, FaultFrame, Same
<1>5. NoneUp(sock, sock') /\ WellNumbered(outq'[i]) /\ outq'[i].sent = <<>>
  BY <1>1 DEF FaultLeaves
<1>6. PipeInv(i)'
  BY <1>5, EmptySentInv DEF FaultFrame
<1> QED BY <1>2, <1>4, <1>5, <1>6, OnePipeTInv

(* A fault() on a Pipe found as it is, past accept().                      *)
LEMMA FaultRunningTInv ==
  ASSUME TInv, LInv', NEW i \in Pipes, NEW onread, Fault(i, state[i], onread, outq[i]),
         FaultFrame(i), wr'[i] = wr[i] \/ (wr[i] # "none" /\ wr'[i] = "loop")
  PROVE  TInv'
<1>1. MayFault(state[i], outq[i])
  BY DEF MayFault, TInv, PipeInv, Good, DataOK
<1>2. FaultLeaves(i, state[i], outq[i])
  BY <1>1, FaultData
<1>3. DataOK'
  BY <1>2 DEF FaultLeaves, FaultFrame, DataOK, Socks, TInv
<1>4. \A j \in Pipes \ {i} : state'[j] = state[j]
  BY FaultEffect DEF TInv, LInv
<1>5. \A j \in Pipes \ {i} : Same(j)
  BY <1>2, <1>4 DEF FaultLeaves, FaultFrame, Same
<1>6. NoneUp(sock, sock') /\ WellNumbered(outq'[i])
  BY <1>2 DEF FaultLeaves
<1>7. ~sock'[i].up \/ ~Writing(i)'
  <2>1. CASE state[i] = "connecting" /\ sock' = sock
    <3>1. Writing(i)' => Writing(i)
      BY DEF Writing, Round
    <3> QED BY <2>1, <3>1 DEF TInv, PipeInv
  <2> QED BY <1>2, <2>1 DEF FaultLeaves
<1>8. PipeInv(i)'
  <2>1. CASE outq'[i].sent = <<>>
    BY <1>6, <1>7, <2>1 DEF PipeInv, FaultFrame
  <2>2. CASE state[i] = "closed" /\ state'[i] = "closed" /\ outq'[i] = outq[i]
    <3>1. pipe'[i].lossy = pipe[i].lossy
      BY <1>2 DEF FaultLeaves
    <3> QED BY <1>6, <1>7, <2>2, <3>1 DEF PipeInv, FaultFrame, TInv
  <2> QED BY <1>2, <2>1, <2>2 DEF FaultLeaves
<1> QED BY <1>3, <1>5, <1>6, <1>8, OnePipeTInv

LEMMA ReaderNextPast == \A st : ReaderNext(st) \notin {"accept", "reply", "seq"}
BY DEF ReaderNext

LEMMA AcceptFailedTInv ==
  ASSUME TInv, LInv', NEW i \in Pipes, AcceptFailed(i)
  PROVE  TInv'
<1>1. /\ rd[i] \in {"accept", "reply", "seq"} /\ loc' = [loc EXCEPT ![i] = NoLoc]
      /\ rd' = [rd EXCEPT ![i] = ReaderNext(state'[i])]
      /\ UNCHANGED <<global_seq, submitted, delivered, used>>
  BY DEF AcceptFailed
<1>2. wr[i] = "none" /\ outq[i].sent = <<>> /\ Good(outq[i], Ids)
  BY <1>1 DEF TInv, PipeInv, Good, DataOK
<1>3. /\ loc \in [Pipes -> LocType] /\ rd \in [Pipes -> ReaderPC] /\ wr \in [Pipes -> WriterPC]
      /\ used \in Budgets
  BY DEF TInv, DataOK, LInv, Control
<1>4. loc' \in [Pipes -> LocType] /\ rd'[i] \notin {"accept", "reply", "seq"}
      /\ \A j \in Pipes \ {i} : rd'[j] = rd[j] /\ loc'[j] = loc[j]
  BY <1>1, <1>3, NoLocType, ReaderNextPast
<1>5. CASE state[i] = "closed"
  <2>1. UNCHANGED <<state, pipe, outq, wr, sock, rank_pipe, in_q, excused>>
    BY <1>5 DEF AcceptFailed
  <2>2. DataOK'
    BY <1>1, <1>4, <2>1 DEF TInv, DataOK
  <2>3. \A j \in Pipes \ {i} : Same(j)
    BY <1>4, <2>1 DEF Same
  <2>4. PipeInv(i)'
    <3>1. WellNumbered(outq[i])
      BY DEF TInv, PipeInv
    <3> QED BY <1>2, <1>4, <2>1, <3>1, EmptySentInv
  <2>5. NoneUp(sock, sock')
    BY <2>1 DEF NoneUp
  <2> QED BY <2>2, <2>3, <2>4, <2>5, OnePipeTInv
<1>6. CASE state[i] # "closed"
  <2>1. /\ Fault(i, AcceptFailState(i), FALSE, outq[i])
        /\ wr' = wr \/ wr' = [wr EXCEPT ![i] = "loop"]
    BY <1>6 DEF AcceptFailed
  <2>2. wr'[i] \in {"none", "loop"} /\ \A j \in Pipes \ {i} : wr'[j] = wr[j]
    BY <1>2, <1>3, <2>1
  <2>3. FaultFrame(i)
    BY <1>1, <1>3, <1>4, <2>2 DEF FaultFrame
  <2> QED BY <1>2, <2>1, <2>2, <2>3, FaultEmptyTInv
<1> QED BY <1>5, <1>6
-----------------------------------------------------------------------------
(* reader().                                                               *)

(* A step of a reader that leaves the state and the writer alone.          *)
LEMMA ReaderStepTInv ==
  ASSUME TInv, LInv', DataOK', NEW i \in Pipes, NoneUp(sock, sock'),
         UNCHANGED <<state, wr>>, rd'[i] \notin {"accept", "reply", "seq"},
         pipe'[i].lossy = pipe[i].lossy,
         WellNumbered(outq'[i]), outq[i].sent = <<>> => outq'[i].sent = <<>>,
         \A j \in Pipes \ {i} : /\ rd'[j] = rd[j] /\ pipe'[j] = pipe[j]
                                /\ outq'[j] = outq[j] /\ loc'[j] = loc[j]
  PROVE  TInv'
<1>1. \A j \in Pipes \ {i} : Same(j)
  BY DEF Same
<1>2. Writing(i)' <=> Writing(i)
  BY DEF Writing
<1>3. PipeInv(i)'
  BY <1>2 DEF PipeInv, TInv, NoneUp
<1> QED BY <1>1, <1>3, OnePipeTInv

LEMMA ReadMsgTInv ==
  ASSUME TInv, LInv', NEW i \in Pipes, ReadMsg(i)
  PROVE  TInv'
<1> DEFINE f == Head(sock[i].in)
           m == f.msg
<1>1. /\ Arrived(i, "msg") /\ sock' = Took(sock, i)
      /\ UNCHANGED <<state, outq, wr, global_seq, submitted, delivered, excused, used>>
  BY DEF ReadMsg, Reads, appVars
<1>2. DataOK
  BY DEF TInv
<1>3. sock' \in Socks /\ NoneUp(sock, sock') /\ m \in Message(Ids)
  <2>1. f \in Frames /\ f.kind = "msg" /\ sock' \in Socks /\ NoneUp(sock, sock')
    BY <1>1, <1>2, ArrivedFrame
  <2> QED BY <2>1, FrameFields
<1>4. m.seq \in Nat /\ m.id \in Ids
  BY <1>3 DEF Message
<1>5. /\ pipe \in [Pipes -> PipeType] /\ loc \in [Pipes -> LocType]
      /\ in_q \in [Peers -> [ConnIds -> Seq(Ids)]] /\ rd \in [Pipes -> ReaderPC]
      /\ WellNumbered(outq[i]) /\ Owner(i) \in Peers
  BY <1>2, OwnerIsPeer DEF DataOK, TInv, LInv, Control, PipeInv
<1>6. /\ pipe' = pipe \/ pipe' = [pipe EXCEPT ![i].in_seq = m.seq]
      /\ loc' = loc \/ loc' = [loc EXCEPT ![i].id = m.id]
      /\ in_q' = in_q
         \/ in_q' = [in_q EXCEPT ![Owner(i)][pipe[i].conn_id] = Append(@, m.id)]
      /\ rd' = [rd EXCEPT ![i] = "dispatch"] \/ rd' = [rd EXCEPT ![i] = ReaderNext(state[i])]
  BY DEF ReadMsg
<1> HIDE DEF m
<1>7. /\ pipe' \in [Pipes -> PipeType] /\ pipe'[i].lossy = pipe[i].lossy
      /\ \A j \in Pipes \ {i} : pipe'[j] = pipe[j]
  <2> DEFINE r == [pipe[i] EXCEPT !.in_seq = m.seq]
  <2>1. r \in PipeType /\ r.lossy = pipe[i].lossy
    BY <1>4, <1>5, PipeUpdates
  <2>2. pipe' = pipe \/ pipe' = [pipe EXCEPT ![i] = r]
    BY <1>6
  <2> HIDE DEF r
  <2> QED BY <1>5, <2>1, <2>2
<1>8. loc' \in [Pipes -> LocType] /\ \A j \in Pipes \ {i} : loc'[j] = loc[j]
  <2> DEFINE l == [loc[i] EXCEPT !.id = m.id]
  <2>1. l \in LocType
    BY <1>4, <1>5, LocId
  <2>2. loc' = loc \/ loc' = [loc EXCEPT ![i] = l]
    BY <1>6
  <2> HIDE DEF l
  <2> QED BY <1>5, <2>1, <2>2
<1>9. in_q' \in [Peers -> [ConnIds -> Seq(Ids)]]
  <2>1. ASSUME NEW s \in Seq(Ids) PROVE Append(s, m.id) \in Seq(Ids)
    BY <1>4, AppendProperties
  <2>2. ASSUME NEW g \in [ConnIds -> Seq(Ids)], NEW c
        PROVE  [g EXCEPT ![c] = Append(@, m.id)] \in [ConnIds -> Seq(Ids)]
    BY <2>1
  <2> DEFINE h == [in_q[Owner(i)] EXCEPT ![pipe[i].conn_id] = Append(@, m.id)]
  <2>3. h \in [ConnIds -> Seq(Ids)]
    BY <1>5, <2>2
  <2>4. in_q' = in_q \/ in_q' = [in_q EXCEPT ![Owner(i)] = h]
    BY <1>6
  <2> HIDE DEF h
  <2> QED BY <1>5, <2>3, <2>4
<1>10. rd'[i] \notin {"accept", "reply", "seq"} /\ \A j \in Pipes \ {i} : rd'[j] = rd[j]
  BY <1>5, <1>6, ReaderNextPast
<1>11. DataOK'
  BY <1>1, <1>2, <1>3, <1>7, <1>8, <1>9 DEF DataOK, Socks
<1> QED BY <1>1, <1>3, <1>5, <1>7, <1>8, <1>10, <1>11, ReaderStepTInv

LEMMA DispatchedTInv ==
  ASSUME TInv, LInv', NEW i \in Pipes, Dispatched(i)
  PROVE  TInv'
<1> DEFINE l == [loc[i] EXCEPT !.id = 0]
<1>1. /\ delivered' = [delivered EXCEPT ![Owner(i)] = Append(@, loc[i].id)]
      /\ loc' = [loc EXCEPT ![i] = l] /\ rd' = [rd EXCEPT ![i] = ReaderNext(state[i])]
      /\ UNCHANGED <<state, pipe, outq, wr, sock, global_seq, in_q, submitted, excused, used>>
  BY DEF Dispatched, msgrVars
<1>2. /\ loc \in [Pipes -> LocType] /\ rd \in [Pipes -> ReaderPC]
      /\ delivered \in [Peers -> Seq(Ids)] /\ WellNumbered(outq[i]) /\ DataOK
  BY DEF TInv, DataOK, LInv, Control, PipeInv
<1>3. l \in LocType
  BY <1>2, LocId DEF Ids
<1> HIDE DEF l
<1>4. loc' \in [Pipes -> LocType] /\ \A j \in Pipes \ {i} : loc'[j] = loc[j]
  BY <1>1, <1>2, <1>3
<1>5. delivered' \in [Peers -> Seq(Ids)]
  <2>1. loc[i].id \in Ids
    BY <1>2 DEF LocType
  <2>2. ASSUME NEW s \in Seq(Ids) PROVE Append(s, loc[i].id) \in Seq(Ids)
    BY <2>1, AppendProperties
  <2> QED BY <1>1, <1>2, <2>2
<1>6. DataOK'
  BY <1>1, <1>2, <1>4, <1>5 DEF DataOK
<1>7. rd'[i] \notin {"accept", "reply", "seq"} /\ \A j \in Pipes \ {i} : rd'[j] = rd[j]
  BY <1>1, <1>2, ReaderNextPast
<1>8. NoneUp(sock, sock')
  BY <1>1 DEF NoneUp
<1> QED BY <1>1, <1>2, <1>4, <1>6, <1>7, <1>8, ReaderStepTInv
LEMMA ReadAckTInv ==
  ASSUME TInv, LInv', NEW i \in Pipes, ReadAck(i)
  PROVE  TInv'
<1> DEFINE n == Head(sock[i].in).seq
           q == handle_ack(outq[i], n)
<1>1. /\ Arrived(i, "ack") /\ sock' = Took(sock, i)
      /\ outq' = outq \/ outq' = [outq EXCEPT ![i] = q]
      /\ rd' = [rd EXCEPT ![i] = ReaderNext(state[i])]
      /\ UNCHANGED <<state, pipe, wr, loc, global_seq, in_q, submitted, delivered, excused, used>>
  BY DEF ReadAck, Reads, msgrVars, appVars
<1>2. /\ outq \in [Pipes -> OutQ(Ids)] /\ rd \in [Pipes -> ReaderPC] /\ DataOK
      /\ Good(outq[i], Ids)
  BY DEF TInv, DataOK, LInv, Control, PipeInv, Good
<1>3. q \in OutQ(Ids) /\ WellNumbered(q) /\ (outq[i].sent = <<>> => q.sent = <<>>)
  BY <1>2, HandleAckGood DEF Good
<1> HIDE DEF q
<1>4. /\ outq' \in [Pipes -> OutQ(Ids)] /\ WellNumbered(outq'[i])
      /\ outq[i].sent = <<>> => outq'[i].sent = <<>>
      /\ \A j \in Pipes \ {i} : outq'[j] = outq[j]
  BY <1>1, <1>2, <1>3 DEF Good
<1>5. sock' \in Socks /\ NoneUp(sock, sock')
  BY <1>1, <1>2, ArrivedFrame
<1>6. DataOK'
  BY <1>1, <1>2, <1>4, <1>5 DEF DataOK, Socks
<1>7. rd'[i] \notin {"accept", "reply", "seq"} /\ \A j \in Pipes \ {i} : rd'[j] = rd[j]
  BY <1>1, <1>2, ReaderNextPast
<1> QED BY <1>1, <1>4, <1>5, <1>6, <1>7, ReaderStepTInv

LEMMA ReadKeepaliveTInv ==
  ASSUME TInv, LInv', NEW i \in Pipes, ReadKeepalive(i)
  PROVE  TInv'
<1> DEFINE r == [pipe[i] EXCEPT !.send_keepalive_ack = TRUE]
<1>1. /\ Arrived(i, "keepalive") \/ Arrived(i, "keepalive_ack")
      /\ sock' = Took(sock, i)
      /\ pipe' = pipe \/ pipe' = [pipe EXCEPT ![i] = r]
      /\ rd' = [rd EXCEPT ![i] = ReaderNext(state[i])]
      /\ UNCHANGED <<state, outq, wr, loc, global_seq, in_q, submitted, delivered, excused, used>>
  BY DEF ReadKeepalive, Reads, msgrVars, appVars
<1>2. /\ pipe \in [Pipes -> PipeType] /\ rd \in [Pipes -> ReaderPC] /\ DataOK
      /\ WellNumbered(outq[i])
  BY DEF TInv, DataOK, LInv, Control, PipeInv
<1>3. r \in PipeType /\ r.lossy = pipe[i].lossy
  BY <1>2, PipeUpdates
<1> HIDE DEF r
<1>4. /\ pipe' \in [Pipes -> PipeType] /\ pipe'[i].lossy = pipe[i].lossy
      /\ \A j \in Pipes \ {i} : pipe'[j] = pipe[j]
  BY <1>1, <1>2, <1>3
<1>5. sock' \in Socks /\ NoneUp(sock, sock')
  BY <1>1, <1>2, ArrivedFrame
<1>6. DataOK'
  BY <1>1, <1>2, <1>4, <1>5 DEF DataOK, Socks
<1>7. rd'[i] \notin {"accept", "reply", "seq"} /\ \A j \in Pipes \ {i} : rd'[j] = rd[j]
  BY <1>1, <1>2, ReaderNextPast
<1> QED BY <1>1, <1>2, <1>4, <1>5, <1>6, <1>7, ReaderStepTInv

LEMMA ReadErrorTInv ==
  ASSUME TInv, LInv', NEW i \in Pipes, ReadError(i)
  PROVE  TInv'
<1>1. /\ Fault(i, state[i], TRUE, outq[i]) /\ rd' = [rd EXCEPT ![i] = ReaderNext(state'[i])]
      /\ UNCHANGED <<wr, loc, global_seq, submitted, delivered, used>>
  BY DEF ReadError
<1>2. loc \in [Pipes -> LocType] /\ rd \in [Pipes -> ReaderPC] /\ used \in Budgets
  BY DEF TInv, DataOK, LInv, Control
<1>3. rd'[i] \notin {"accept", "reply", "seq"} /\ \A j \in Pipes \ {i} : rd'[j] = rd[j]
  BY <1>1, <1>2, ReaderNextPast
<1>4. FaultFrame(i)
  BY <1>1, <1>2, <1>3 DEF FaultFrame
<1> QED BY <1>1, <1>4, FaultRunningTInv

LEMMA ReadingTInv ==
  ASSUME TInv, LInv', NEW i \in Pipes, Reading(i)
  PROVE  TInv'
BY ReadMsgTInv, DispatchedTInv, ReadAckTInv, ReadKeepaliveTInv, ReadErrorTInv DEF Reading
-----------------------------------------------------------------------------
(* connect().                                                              *)

(* A step of a writer in connect().                                        *)
LEMMA ConnectStepTInv ==
  ASSUME TInv, LInv', DataOK', NEW i \in Pipes, NoneUp(sock, sock'), wr[i] # "none",
         wr'[i] \notin {"none", "keepalive", "keepalive_ack", "ack", "msg"},
         rd'[i] = rd[i] \/ rd'[i] = "read",
         WellNumbered(outq'[i]),
         outq'[i].sent = <<>> \/ /\ outq'[i] = outq[i] /\ state'[i] = state[i]
                                 /\ pipe'[i].lossy = pipe[i].lossy,
         \A j \in Pipes \ {i} : Same(j)
  PROVE  TInv'
<1>1. ~Writing(i)'
  BY DEF Writing, Round
<1>2. PipeInv(i)'
  BY <1>1 DEF PipeInv, TInv
<1> QED BY <1>2, OnePipeTInv

LEMMA ConnectTInv ==
  ASSUME TInv, LInv', NEW i \in Pipes, Connect(i)
  PROVE  TInv'
<1> DEFINE p == Owner(i)
           l == [loc[i] EXCEPT !.cseq = pipe[i].connect_seq, !.gseq = global_seq[p] + 1,
                               !.bad_auth = FALSE]
<1>1. /\ wr[i] = "loop" /\ MayConnect(i)
      /\ global_seq' = [global_seq EXCEPT ![p] = @ + 1]
      /\ loc' = [loc EXCEPT ![i] = l] /\ wr' = [wr EXCEPT ![i] = "join"]
      /\ state' = [state EXCEPT ![i] = "connecting"]
      /\ UNCHANGED <<pipe, outq, rd, sock, in_q, submitted, delivered, excused, used>>
  BY DEF Connect, appVars
<1>2. /\ pipe[i] \in PipeType /\ global_seq \in [Peers -> Nat] /\ loc \in [Pipes -> LocType]
      /\ wr \in [Pipes -> WriterPC] /\ state \in [Pipes -> States] /\ DataOK
      /\ WellNumbered(outq[i])
  BY DEF TInv, DataOK, LInv, Control, PipeInv
<1>3. p \in Peers /\ global_seq[p] + 1 \in Nat /\ pipe[i].connect_seq \in Nat
  BY <1>2, OwnerIsPeer DEF PipeType
<1> HIDE DEF p
<1>4. l \in LocType
  BY <1>2, <1>3, LocAttempt
<1> HIDE DEF l
<1>5. /\ loc' \in [Pipes -> LocType] /\ global_seq' \in [Peers -> Nat]
      /\ \A j \in Pipes \ {i} : loc'[j] = loc[j]
  BY <1>1, <1>2, <1>3, <1>4
<1>6. DataOK'
  BY <1>1, <1>2, <1>5 DEF DataOK
<1>7. \A j \in Pipes \ {i} : Same(j)
  BY <1>1, <1>2, <1>5 DEF Same
<1>8. outq'[i].sent = <<>>
  BY <1>1 DEF MayConnect, TInv, PipeInv
<1>9. NoneUp(sock, sock') /\ wr'[i] = "join"
  BY <1>1, <1>2 DEF NoneUp
<1> QED BY <1>1, <1>2, <1>6, <1>7, <1>8, <1>9, ConnectStepTInv

LEMMA ConnectOpensTInv ==
  ASSUME TInv, LInv', NEW i \in Pipes, ConnectOpens(i)
  PROVE  TInv'
<1> DEFINE q == Other(Owner(i))
           f == Attempt(loc[i].cseq, loc[i].gseq)
           c == Cut(sock, i)
<1>1. q \in Peers
  BY OwnerIsPeer DEF Other, Peers
<1>2. FreePipe(q) \in Pipes /\ state[FreePipe(q)] = "free" /\ FreeIds(q) # {}
  BY <1>1, FreePipeIsFree DEF ConnectOpens, CanMakePipe
<1>3. PICK j \in Pipes : j = FreePipe(q)
  BY <1>2
<1> DEFINE a == [peer |-> j, up |-> TRUE, in |-> <<>>]
           b == [peer |-> i, up |-> TRUE, in |-> <<f>>]
           x == NewPipe(q, FreshId(q))
<1>4. /\ state' = [state EXCEPT ![j] = "accepting"] /\ pipe' = [pipe EXCEPT ![j] = x]
      /\ rd' = [rd EXCEPT ![j] = "accept"] /\ wr' = [wr EXCEPT ![i] = "await"]
      /\ sock' = [c EXCEPT ![i] = a, ![j] = b] /\ wr[i] = "join"
      /\ UNCHANGED <<outq, loc, global_seq, in_q, submitted, delivered, excused, used>>
  BY <1>3 DEF ConnectOpens, msgrVars, appVars
<1>5. /\ pipe \in [Pipes -> PipeType] /\ loc \in [Pipes -> LocType] /\ sock \in Socks
      /\ state \in [Pipes -> States] /\ rd \in [Pipes -> ReaderPC] /\ wr \in [Pipes -> WriterPC]
      /\ DataOK
  BY DEF TInv, DataOK, LInv, Control, Socks
<1>6. wr[j] = "none" /\ outq[j] = EmptyOutQ(0) /\ i # j
  BY <1>2, <1>3, <1>4 DEF TInv, LInv, FreeIsClean
<1>7. x \in PipeType
  <2>1. FreshId(q) \in ConnIds
    BY <1>2, FreshIdType
  <2> QED BY <1>1, <2>1, NewPipeType
<1>8. f \in Frames
  <2>1. loc[i].cseq \in Nat /\ loc[i].gseq \in Nat
    BY <1>5 DEF LocType
  <2> QED BY <2>1, AttemptType
<1>9. c \in Socks /\ \A k \in Pipes : c[k].up = sock[k].up
  BY <1>5, CutType
<1> HIDE DEF f, c, x
<1>10. a \in SockType /\ b \in SockType
  <2>1. <<>> \in Seq(Frames) /\ <<f>> \in Seq(Frames)
    BY <1>8, EmptySeq
  <2> QED BY <2>1 DEF SockType
<1> HIDE DEF a, b
<1>11. /\ pipe' \in [Pipes -> PipeType] /\ sock' \in Socks
       /\ \A k \in Pipes \ {i, j} : Same(k) /\ sock'[k].up = sock[k].up
  BY <1>4, <1>5, <1>7, <1>9, <1>10 DEF Same, Socks
<1>12. DataOK'
  BY <1>4, <1>5, <1>11 DEF DataOK, Socks
<1>13. ASSUME NEW k \in Pipes \ {i, j} PROVE PipeInv(k)'
  BY <1>11, <1>13, SamePipeInv DEF TInv
<1>14. PipeInv(j)'
  <2>1. wr'[j] = "none" /\ outq'[j] = EmptyOutQ(0)
    BY <1>4, <1>5, <1>6
  <2> QED BY <2>1, EmptyIsGood, EmptySentInv
<1>15. PipeInv(i)'
  <2>1. wr'[i] = "await" /\ rd'[i] = rd[i] /\ state'[i] = state[i] /\ pipe'[i] = pipe[i]
    BY <1>4, <1>5, <1>6
  <2>2. ~Writing(i)'
    BY <2>1 DEF Writing, Round
  <2> QED BY <1>4, <2>1, <2>2 DEF TInv, PipeInv
<1> QED BY <1>12, <1>13, <1>14, <1>15 DEF TInv

LEMMA ConnectFailsTInv ==
  ASSUME TInv, LInv', NEW i \in Pipes, wr[i] # "none", NEW q, Good(q, Ids),
         state[i] = "connecting" => q.sent = <<>>,
         ConnectFails(i, q), used' \in Budgets
  PROVE  TInv'
<1>1. /\ wr' = [wr EXCEPT ![i] = "loop"] /\ loc' = [loc EXCEPT ![i] = NoLoc]
      /\ UNCHANGED <<rd, global_seq, submitted, delivered>>
  BY DEF ConnectFails
<1>2. loc \in [Pipes -> LocType] /\ wr \in [Pipes -> WriterPC] /\ DataOK
  BY DEF TInv, DataOK, LInv, Control
<1>3. /\ loc' \in [Pipes -> LocType] /\ wr'[i] = "loop"
      /\ \A j \in Pipes \ {i} : loc'[j] = loc[j] /\ wr'[j] = wr[j]
  BY <1>1, <1>2, NoLocType
<1>4. rd'[i] \notin {"accept", "reply", "seq"}
  BY <1>1 DEF TInv, PipeInv
<1>5. CASE state[i] = "connecting"
  <2>1. Fault(i, "connecting", FALSE, q)
    BY <1>5 DEF ConnectFails
  <2>2. FaultFrame(i)
    BY <1>1, <1>3, <1>4 DEF FaultFrame
  <2> QED BY <1>3, <1>5, <2>1, <2>2, FaultEmptyTInv
<1>6. CASE state[i] # "connecting"
  <2>1. UNCHANGED <<state, pipe, outq, sock, in_q, excused>>
    BY <1>6 DEF ConnectFails
  <2>2. DataOK'
    BY <1>1, <1>2, <1>3, <2>1 DEF DataOK
  <2>3. NoneUp(sock, sock') /\ WellNumbered(outq'[i])
    BY <2>1 DEF NoneUp, TInv, PipeInv
  <2>4. \A j \in Pipes \ {i} : Same(j)
    BY <1>1, <1>3, <2>1 DEF Same
  <2> QED BY <1>1, <1>3, <2>1, <2>2, <2>3, <2>4, ConnectStepTInv
<1> QED BY <1>5, <1>6
(* A connecting Pipe and the reply its writer reads.                       *)
LEMMA ConnectingPipe ==
  ASSUME TInv, NEW i \in Pipes
  PROVE  /\ Good(outq[i], Ids)
         /\ state[i] = "connecting" => outq[i].sent = <<>>
         /\ Answered(i) => /\ wr[i] = "await" /\ Arrived(i, "reply")
                           /\ Answer(i).tag \in ReplyTags /\ Answer(i).gseq \in Nat
                           /\ Answer(i).cseq \in Nat /\ Answer(i).acked \in Nat
                           /\ Answer(i).lossy \in BOOLEAN
<1>1. Good(outq[i], Ids) /\ DataOK
  BY DEF TInv, DataOK, PipeInv, Good
<1>2. state[i] = "connecting" => outq[i].sent = <<>>
  BY DEF TInv, PipeInv
<1>3. ASSUME Answered(i)
      PROVE  /\ wr[i] = "await" /\ Arrived(i, "reply")
             /\ Answer(i) \in Frames /\ Answer(i).kind = "reply"
  BY <1>1, <1>3, ArrivedFrame DEF Answered, Answer
<1> QED BY <1>1, <1>2, <1>3, FrameFields

LEMMA ConnectFailingTInv ==
  ASSUME TInv, LInv', NEW i \in Pipes,
         ConnectRefused(i) \/ ConnectBroken(i) \/ ConnectRejected(i) \/ ConnectSeqFails(i)
  PROVE  TInv'
<1>1. used' \in Budgets
  BY UsedTypes DEF TInv, DataOK, ConnectRefused, ConnectBroken, ConnectRejected, ConnectSeqFails
<1>2. wr[i] # "none"
  BY DEF ConnectRefused, ConnectBroken, ConnectRejected, ConnectSeqFails, Answers, Answered
<1>3. Good(outq[i], Ids) /\ (state[i] = "connecting" => outq[i].sent = <<>>)
  BY ConnectingPipe
<1>4. CASE ConnectRefused(i) \/ ConnectBroken(i) \/ ConnectRejected(i)
  <2>1. ConnectFails(i, outq[i])
    BY <1>4 DEF ConnectRefused, ConnectBroken, ConnectRejected
  <2> QED BY <1>1, <1>2, <1>3, <2>1, ConnectFailsTInv
<1>5. CASE ConnectSeqFails(i)
  <2> DEFINE n == Answer(i).acked
             q == discard_acked(outq[i], n)
  <2>1. ConnectFails(i, q) /\ Answered(i) /\ state[i] = "connecting"
    BY <1>5 DEF ConnectSeqFails, Answers
  <2>2. n \in Nat
    BY <2>1, ConnectingPipe
  <2>3. Good(q, Ids) /\ q.sent = <<>>
    BY <1>3, <2>1, <2>2, DiscardAckedGood
  <2> HIDE DEF q
  <2> QED BY <1>1, <1>2, <2>1, <2>3, ConnectFailsTInv
<1> QED BY <1>4, <1>5

LEMMA ConnectStopsTInv ==
  ASSUME TInv, LInv', NEW i \in Pipes, ConnectStops(i)
  PROVE  TInv'
<1>1. /\ Answered(i) /\ sock' = Took(sock, i)
      /\ wr' = [wr EXCEPT ![i] = "loop"] /\ loc' = [loc EXCEPT ![i] = NoLoc]
      /\ state' = state \/ (state' = [state EXCEPT ![i] = "wait"] /\ state[i] = "connecting")
      /\ UNCHANGED <<pipe, outq, rd, global_seq, in_q, submitted, delivered, excused, used>>
  BY DEF ConnectStops, Answers, msgrVars, appVars
<1>2. /\ wr[i] # "none" /\ Arrived(i, "reply") /\ WellNumbered(outq[i])
      /\ state[i] = "connecting" => outq[i].sent = <<>>
  BY <1>1, ConnectingPipe DEF Good
<1>3. /\ loc \in [Pipes -> LocType] /\ wr \in [Pipes -> WriterPC] /\ state \in [Pipes -> States]
      /\ DataOK
  BY DEF TInv, DataOK, LInv, Control
<1>4. /\ loc' \in [Pipes -> LocType] /\ wr'[i] = "loop"
      /\ \A j \in Pipes \ {i} : loc'[j] = loc[j] /\ wr'[j] = wr[j] /\ state'[j] = state[j]
  BY <1>1, <1>3, NoLocType
<1>5. sock' \in Socks /\ NoneUp(sock, sock')
  BY <1>1, <1>2, <1>3, ArrivedFrame
<1>6. DataOK'
  BY <1>1, <1>3, <1>4, <1>5 DEF DataOK, Socks
<1>7. \A j \in Pipes \ {i} : Same(j)
  BY <1>1, <1>4 DEF Same
<1> QED BY <1>1, <1>2, <1>4, <1>5, <1>6, <1>7, ConnectStepTInv

(* What may change besides when the loop goes round.                       *)
AgainFrame(i) ==
  /\ pipe' \in [Pipes -> PipeType] /\ outq' \in [Pipes -> OutQ(Ids)]
  /\ WellNumbered(outq'[i]) /\ outq'[i].sent = <<>>
  /\ \A j \in Pipes \ {i} : pipe'[j] = pipe[j] /\ outq'[j] = outq[j]
  /\ global_seq' \in [Peers -> Nat] /\ in_q' \in [Peers -> [ConnIds -> Seq(Ids)]]
  /\ excused' \in [Peers -> SUBSET Ids]

LEMMA AgainTInv ==
  ASSUME TInv, LInv', NEW i \in Pipes, Answered(i), AgainFrame(i),
         NEW cseq \in Nat, NEW gseq \in Nat, NEW bad \in BOOLEAN, Again(i, cseq, gseq, bad)
  PROVE  TInv'
<1> DEFINE l == [loc[i] EXCEPT !.cseq = cseq, !.gseq = gseq, !.bad_auth = bad]
           f == Attempt(cseq, gseq)
<1>1. /\ sock' = Put(Took(sock, i), i, f) /\ loc' = [loc EXCEPT ![i] = l]
      /\ UNCHANGED <<state, rd, wr, submitted, delivered, used>>
  BY DEF Again
<1>2. loc \in [Pipes -> LocType] /\ DataOK
  BY DEF TInv, DataOK
<1>3. l \in LocType
  BY <1>2, LocAttempt
<1>4. f \in Frames /\ wr[i] = "await" /\ Arrived(i, "reply")
  BY AttemptType, ConnectingPipe
<1> HIDE DEF l, f
<1>5. sock' \in Socks /\ NoneUp(sock, sock')
  BY <1>1, <1>2, <1>4, AnsweredSocks
<1>6. loc' \in [Pipes -> LocType] /\ \A j \in Pipes \ {i} : loc'[j] = loc[j]
  BY <1>1, <1>2, <1>3
<1>7. DataOK'
  BY <1>1, <1>2, <1>5, <1>6 DEF DataOK, Socks, AgainFrame
<1>8. \A j \in Pipes \ {i} : Same(j)
  BY <1>1, <1>6 DEF Same, AgainFrame
<1>9. WellNumbered(outq'[i]) /\ outq'[i].sent = <<>>
  BY DEF AgainFrame
<1> QED BY <1>1, <1>4, <1>5, <1>7, <1>8, <1>9, ConnectStepTInv

LEMMA ConnectRetriesTInv ==
  ASSUME TInv, LInv', NEW i \in Pipes,
         \/ ConnectRetriesAuth(i) \/ ConnectResets(i)
         \/ ConnectRetriesGlobal(i) \/ ConnectRetriesSession(i)
  PROVE  TInv'
<1> DEFINE l == loc[i]
           p == Owner(i)
           g == NextGlobalSeq(p, Answer(i).gseq)
<1>1. Answered(i) /\ state[i] = "connecting"
  BY DEF ConnectRetriesAuth, ConnectResets, ConnectRetriesGlobal, ConnectRetriesSession, Answers
<1>2. /\ pipe \in [Pipes -> PipeType] /\ outq \in [Pipes -> OutQ(Ids)] /\ l \in LocType
      /\ global_seq \in [Peers -> Nat] /\ in_q \in [Peers -> [ConnIds -> Seq(Ids)]]
      /\ excused \in [Peers -> SUBSET Ids] /\ DataOK
  BY DEF TInv, DataOK
<1>3. l.cseq \in Nat /\ l.gseq \in Nat /\ l.bad_auth \in BOOLEAN
  BY <1>2 DEF LocType
<1>4. /\ Good(outq[i], Ids) /\ outq[i].sent = <<>>
      /\ Answer(i).gseq \in Nat /\ Answer(i).cseq \in Nat
  BY <1>1, ConnectingPipe
<1>5. pipe[i] \in PipeType
  BY <1>2
<1>6. p \in Peers
  BY OwnerIsPeer
<1> HIDE DEF l, p
<1>7. CASE ConnectRetriesAuth(i)
  <2>1. /\ Again(i, l.cseq, l.gseq, TRUE)
        /\ UNCHANGED <<pipe, outq, global_seq, in_q, excused>>
    BY <1>7 DEF ConnectRetriesAuth, l
  <2>2. AgainFrame(i)
    BY <1>2, <1>4, <2>1 DEF AgainFrame, Good
  <2> QED BY <1>1, <1>3, <2>1, <2>2, AgainTInv
<1>8. CASE ConnectResets(i)
  <2> DEFINE r == WasReset(pipe[i])
  <2>1. PICK start \in StartSeqs : outq' = [outq EXCEPT ![i] = EmptyOutQ(start)]
    BY <1>8 DEF ConnectResets
  <2>2. /\ Again(i, 0, l.gseq, l.bad_auth) /\ pipe' = [pipe EXCEPT ![i] = r]
        /\ in_q' = Discarded(p, pipe[i].conn_id) /\ Excuse(TRUE) /\ UNCHANGED global_seq
    BY <1>8 DEF ConnectResets, l, p
  <2>3. r \in PipeType
    BY <1>5 DEF WasReset, PipeType
  <2> HIDE DEF r
  <2>4. in_q' \in [Peers -> [ConnIds -> Seq(Ids)]] /\ excused' \in [Peers -> SUBSET Ids]
    BY <1>2, <2>2, DiscardedType, ExcuseType
  <2>5. /\ EmptyOutQ(start) \in OutQ(Ids) /\ WellNumbered(EmptyOutQ(start))
        /\ EmptyOutQ(start).sent = <<>>
    BY EmptyIsGood, ConstantsAssumption
  <2>6. AgainFrame(i)
    BY <1>2, <2>1, <2>2, <2>3, <2>4, <2>5 DEF AgainFrame
  <2> QED BY <1>1, <1>3, <2>2, <2>6, AgainTInv
<1>9. CASE ConnectRetriesGlobal(i)
  <2>1. /\ Again(i, l.cseq, g, l.bad_auth) /\ global_seq' = [global_seq EXCEPT ![p] = g]
        /\ UNCHANGED <<pipe, outq, in_q, excused>>
    BY <1>9 DEF ConnectRetriesGlobal, l, p
  <2>2. g \in Nat
    BY <1>2, <1>4, <1>6 DEF NextGlobalSeq
  <2> HIDE DEF g
  <2>3. AgainFrame(i)
    BY <1>2, <1>4, <2>1, <2>2 DEF AgainFrame, Good
  <2> QED BY <1>1, <1>3, <2>1, <2>2, <2>3, AgainTInv
<1>10. CASE ConnectRetriesSession(i)
  <2> DEFINE c == Answer(i).cseq
             r == [pipe[i] EXCEPT !.connect_seq = c]
  <2>1. /\ Again(i, c, l.gseq, l.bad_auth) /\ pipe' = [pipe EXCEPT ![i] = r]
        /\ UNCHANGED <<outq, global_seq, in_q, excused>>
    BY <1>10 DEF ConnectRetriesSession, l
  <2>2. r \in PipeType /\ c \in Nat
    BY <1>4, <1>5, PipeUpdates
  <2> HIDE DEF r, c
  <2>3. AgainFrame(i)
    BY <1>2, <1>4, <2>1, <2>2 DEF AgainFrame, Good
  <2> QED BY <1>1, <1>3, <2>1, <2>2, <2>3, AgainTInv
<1> QED BY <1>7, <1>8, <1>9, <1>10

LEMMA ConnectReadyTInv ==
  ASSUME TInv, LInv', NEW i \in Pipes, ConnectReady(i)
  PROVE  TInv'
<1> DEFINE a == Answer(i)
           seq == [kind |-> "seq", seq |-> pipe[i].in_seq]
           dq == discard_acked(outq[i], a.acked)
           r == [pipe[i] EXCEPT !.peer_global_seq = a.gseq, !.lossy = a.lossy,
                                !.connect_seq = loc[i].cseq + 1]
<1>1. /\ Answered(i) /\ state[i] = "connecting"
      /\ sock' = Took(sock, i) \/ sock' = Put(Took(sock, i), i, seq)
      /\ outq' = outq \/ outq' = [outq EXCEPT ![i] = dq]
      /\ pipe' = [pipe EXCEPT ![i] = r]
      /\ state' = [state EXCEPT ![i] = "open"] /\ rd' = [rd EXCEPT ![i] = "read"]
      /\ wr' = [wr EXCEPT ![i] = "loop"] /\ loc' = [loc EXCEPT ![i] = NoLoc]
      /\ UNCHANGED <<global_seq, in_q, submitted, delivered, excused, used>>
  BY DEF ConnectReady, Answers, msgrVars, appVars
<1>2. /\ Good(outq[i], Ids) /\ outq[i].sent = <<>> /\ Arrived(i, "reply") /\ wr[i] = "await"
      /\ a.gseq \in Nat /\ a.acked \in Nat /\ a.lossy \in BOOLEAN
  BY <1>1, ConnectingPipe
<1>3. /\ pipe \in [Pipes -> PipeType] /\ outq \in [Pipes -> OutQ(Ids)] /\ loc \in [Pipes -> LocType]
      /\ state \in [Pipes -> States] /\ rd \in [Pipes -> ReaderPC] /\ wr \in [Pipes -> WriterPC]
      /\ DataOK
  BY DEF TInv, DataOK, LInv, Control
<1> HIDE DEF a
<1>4. seq \in Frames
  <2>1. pipe[i].in_seq \in Nat
    BY <1>3 DEF PipeType
  <2> QED BY <2>1, FrameTypes
<1>5. sock' \in Socks /\ NoneUp(sock, sock')
  <2> HIDE DEF seq
  <2> QED BY <1>1, <1>2, <1>3, <1>4, ArrivedFrame, AnsweredSocks
<1>6. r \in PipeType
  <2>1. loc[i].cseq + 1 \in Nat
    BY <1>3 DEF LocType
  <2>2. PICK p \in PipeType : p = pipe[i]
    BY <1>3
  <2> QED BY <1>2, <2>1, <2>2 DEF PipeType
<1>7. Good(dq, Ids) /\ dq.sent = <<>>
  BY <1>2, DiscardAckedGood
<1> HIDE DEF r, dq
<1>8. /\ pipe' \in [Pipes -> PipeType] /\ outq' \in [Pipes -> OutQ(Ids)]
      /\ loc' \in [Pipes -> LocType] /\ WellNumbered(outq'[i]) /\ outq'[i].sent = <<>>
      /\ rd'[i] = "read" /\ wr'[i] = "loop"
      /\ \A j \in Pipes \ {i} : Same(j)
  BY <1>1, <1>2, <1>3, <1>6, <1>7, NoLocType DEF Good, Same
<1>9. DataOK'
  BY <1>1, <1>3, <1>5, <1>8 DEF DataOK, Socks
<1> QED BY <1>2, <1>5, <1>8, <1>9, ConnectStepTInv

LEMMA ConnectingTInv ==
  ASSUME TInv, LInv', NEW i \in Pipes, Connecting(i)
  PROVE  TInv'
BY ConnectTInv, ConnectOpensTInv, ConnectFailingTInv, ConnectStopsTInv, ConnectRetriesTInv,
   ConnectReadyTInv DEF Connecting-----------------------------------------------------------------------------
(* writer().                                                               *)

LEMMA NoMsgType == NoLoc.msg \in Message(Ids)
BY NoLocType DEF LocType

(* What the writer takes from the queue of an open Pipe.                   *)
LEMMA StartWriteData ==
  ASSUME TInv, NEW i \in Pipes, state[i] = "open", wr[i] # "none",
         NEW k \in 1..5, NEW r \in PipeType, r.lossy = pipe[i].lossy, StartWrite(i, k, r)
  PROVE  /\ outq' \in [Pipes -> OutQ(Ids)] /\ loc' \in [Pipes -> LocType]
         /\ WellNumbered(outq'[i]) /\ (pipe[i].lossy => outq'[i].sent = <<>>)
         /\ wr'[i] # "none"
         /\ \A j \in Pipes \ {i} : outq'[j] = outq[j] /\ loc'[j] = loc[j] /\ wr'[j] = wr[j]
<1> DEFINE q == outq[i]
           w == NextWrite(k, r, q)
           a == IF w = "ack" THEN r.in_seq ELSE 0
           m == IF w = "msg" THEN Numbered(q) ELSE NoLoc.msg
           l == [loc[i] EXCEPT !.seq = a, !.msg = m]
           t == Transmit(q, r.lossy)
<1>1. /\ wr' = [wr EXCEPT ![i] = w] /\ loc' = [loc EXCEPT ![i] = l]
      /\ outq' = IF w = "msg" THEN [outq EXCEPT ![i] = t] ELSE outq
  BY DEF StartWrite
<1>2. /\ outq \in [Pipes -> OutQ(Ids)] /\ loc \in [Pipes -> LocType] /\ wr \in [Pipes -> WriterPC]
      /\ Good(q, Ids) /\ (pipe[i].lossy => q.sent = <<>>) /\ r.in_seq \in Nat /\ r.lossy \in BOOLEAN
  BY DEF TInv, DataOK, LInv, Control, PipeInv, Good, PipeType
<1>3. w # "none" /\ (w = "msg" => HasOut(q))
  BY NextWriteProperties
<1>4. w = "msg" => Good(t, Ids) /\ (r.lossy => t.sent = <<>>) /\ Numbered(q) \in Message(Ids)
  BY <1>2, <1>3, TransmitGood, NumberedType
<1> HIDE DEF q, w, t
<1>5. a \in Nat /\ m \in Message(Ids)
  BY <1>2, <1>4, NoMsgType
<1> HIDE DEF a, m
<1>6. l \in LocType
  BY <1>2, <1>5, LocWrite
<1> HIDE DEF l
<1>7. loc' \in [Pipes -> LocType] /\ \A j \in Pipes \ {i} : loc'[j] = loc[j]
  BY <1>1, <1>2, <1>6
<1>8. wr'[i] # "none" /\ \A j \in Pipes \ {i} : wr'[j] = wr[j]
  BY <1>1, <1>2, <1>3
<1>9. /\ outq' \in [Pipes -> OutQ(Ids)] /\ WellNumbered(outq'[i])
      /\ pipe[i].lossy => outq'[i].sent = <<>>
      /\ \A j \in Pipes \ {i} : outq'[j] = outq[j]
  <2>1. CASE w = "msg"
    BY <1>1, <1>2, <1>4, <2>1 DEF Good
  <2>2. CASE w # "msg"
    BY <1>1, <1>2, <2>2 DEF Good, q
  <2> QED BY <2>1, <2>2
<1> QED BY <1>7, <1>8, <1>9

(* A step of the writer of an open Pipe.                                   *)
LEMMA OpenWriterTInv ==
  ASSUME TInv, LInv', DataOK', NEW i \in Pipes, state[i] = "open", wr[i] # "none",
         UNCHANGED <<state, rd>>, NoneUp(sock, sock'), pipe'[i].lossy = pipe[i].lossy,
         WellNumbered(outq'[i]), pipe[i].lossy => outq'[i].sent = <<>>,
         wr'[i] # "none", \A j \in Pipes \ {i} : Same(j)
  PROVE  TInv'
<1>1. PipeInv(i)'
  BY DEF PipeInv, TInv
<1> QED BY <1>1, OnePipeTInv

LEMMA WriterRoundTInv ==
  ASSUME TInv, LInv', NEW i \in Pipes, WriterRound(i)
  PROVE  TInv'
<1>1. /\ wr[i] = "loop" /\ StartWrite(i, 1, pipe[i])
      /\ UNCHANGED <<state, pipe, rd, sock, global_seq, in_q, submitted, delivered, excused, used>>
  BY DEF WriterRound, msgrVars, appVars
<1>2. state[i] = "open"
  <2>1. state[i] \notin {"free", "accepting"} /\ state[i] \in States
    BY <1>1, ThreadsRunning DEF TInv, LInv, Control
  <2> QED BY <2>1 DEF WriterRound, States
<1>3. pipe[i] \in PipeType /\ DataOK
  BY DEF TInv, DataOK
<1>4. /\ outq' \in [Pipes -> OutQ(Ids)] /\ loc' \in [Pipes -> LocType]
      /\ WellNumbered(outq'[i]) /\ (pipe[i].lossy => outq'[i].sent = <<>>)
      /\ wr'[i] # "none"
      /\ \A j \in Pipes \ {i} : outq'[j] = outq[j] /\ loc'[j] = loc[j] /\ wr'[j] = wr[j]
  BY <1>1, <1>2, <1>3, StartWriteData
<1>5. DataOK'
  BY <1>1, <1>3, <1>4 DEF DataOK
<1>6. \A j \in Pipes \ {i} : Same(j)
  BY <1>1, <1>4 DEF Same
<1>7. NoneUp(sock, sock')
  BY <1>1 DEF NoneUp
<1> QED BY <1>1, <1>2, <1>4, <1>5, <1>6, <1>7, OpenWriterTInv

LEMMA WrittenTypes ==
  ASSUME TInv, NEW i \in Pipes, Writing(i)
  PROVE  /\ WriteFrame(i) \in Frames
         /\ AfterWrite(i) \in PipeType /\ AfterWrite(i).lossy = pipe[i].lossy
<1>1. pipe[i] \in PipeType /\ loc[i].seq \in Nat /\ loc[i].msg \in Message(Ids)
  BY DEF TInv, DataOK, LocType
<1>2. wr[i] \in {"keepalive", "keepalive_ack", "ack", "msg"}
  BY WritingParts
<1>3. WriteFrame(i) \in Frames
  BY <1>1, <1>2, FrameTypes DEF WriteFrame
<1>4. AfterWrite(i) \in PipeType /\ AfterWrite(i).lossy = pipe[i].lossy
  <2>1. CASE wr[i] = "keepalive"
    BY <1>1, <2>1, PipeUpdates DEF AfterWrite
  <2>2. CASE wr[i] = "keepalive_ack"
    BY <1>1, <2>2, PipeUpdates DEF AfterWrite
  <2>3. CASE wr[i] = "ack"
    BY <1>1, <2>3, PipeUpdates DEF AfterWrite
  <2>4. CASE wr[i] = "msg"
    BY <1>1, <2>4 DEF AfterWrite
  <2> QED BY <1>2, <2>1, <2>2, <2>3, <2>4
<1> QED BY <1>3, <1>4

LEMMA WroteTInv ==
  ASSUME TInv, LInv', NEW i \in Pipes, Wrote(i)
  PROVE  TInv'
<1> DEFINE f == WriteFrame(i)
           r == AfterWrite(i)
<1>1. /\ Writing(i) /\ sock[i].up /\ sock' = Put(sock, i, f) /\ pipe' = [pipe EXCEPT ![i] = r]
      /\ UNCHANGED <<state, rd, global_seq, in_q, submitted, delivered, excused, used>>
  BY DEF Wrote, msgrVars, appVars
<1>2. PICK k \in 1..4 : StartWrite(i, IF k = 4 THEN 5 ELSE k + 1, r)
  BY DEF Wrote
<1>3. (IF k = 4 THEN 5 ELSE k + 1) \in 1..5
  OBVIOUS
<1>4. state[i] = "open" /\ wr[i] # "none"
  BY <1>1, WritingParts DEF TInv, PipeInv
<1>5. f \in Frames /\ r \in PipeType /\ r.lossy = pipe[i].lossy
  BY <1>1, WrittenTypes
<1> HIDE DEF f, r
<1>6. /\ outq' \in [Pipes -> OutQ(Ids)] /\ loc' \in [Pipes -> LocType]
      /\ WellNumbered(outq'[i]) /\ (pipe[i].lossy => outq'[i].sent = <<>>)
      /\ wr'[i] # "none"
      /\ \A j \in Pipes \ {i} : outq'[j] = outq[j] /\ loc'[j] = loc[j] /\ wr'[j] = wr[j]
  BY <1>2, <1>3, <1>4, <1>5, StartWriteData
<1>7. pipe \in [Pipes -> PipeType] /\ sock \in Socks /\ DataOK
  BY DEF TInv, DataOK, Socks
<1>8. /\ pipe' \in [Pipes -> PipeType] /\ pipe'[i].lossy = pipe[i].lossy
      /\ \A j \in Pipes \ {i} : pipe'[j] = pipe[j]
  BY <1>1, <1>5, <1>7
<1>9. sock' \in Socks /\ NoneUp(sock, sock')
  BY <1>1, <1>5, <1>7, PutType
<1>10. DataOK'
  BY <1>1, <1>6, <1>7, <1>8, <1>9 DEF DataOK, Socks
<1>11. \A j \in Pipes \ {i} : Same(j)
  BY <1>1, <1>6, <1>8 DEF Same
<1> QED BY <1>1, <1>4, <1>6, <1>8, <1>9, <1>10, <1>11, OpenWriterTInv

LEMMA WriteFailsTInv ==
  ASSUME TInv, LInv', NEW i \in Pipes, WriteFails(i)
  PROVE  TInv'
<1> DEFINE m == NoLoc.msg
           l == [loc[i] EXCEPT !.seq = 0, !.msg = m]
<1>1. /\ Writing(i) /\ Fault(i, state[i], FALSE, outq[i])
      /\ wr' = [wr EXCEPT ![i] = "loop"] /\ loc' = [loc EXCEPT ![i] = l]
      /\ UNCHANGED <<rd, global_seq, submitted, delivered, used>>
  BY DEF WriteFails
<1>2. wr[i] # "none"
  BY <1>1, WritingParts
<1>3. loc \in [Pipes -> LocType] /\ wr \in [Pipes -> WriterPC] /\ used \in Budgets
  BY DEF TInv, DataOK, LInv, Control
<1>4. l \in LocType
  <2>1. m \in Message(Ids)
    BY NoMsgType
  <2> HIDE DEF m
  <2> QED BY <1>3, <2>1, LocWrite
<1> HIDE DEF l
<1>5. /\ loc' \in [Pipes -> LocType] /\ wr'[i] = "loop"
      /\ \A j \in Pipes \ {i} : loc'[j] = loc[j] /\ wr'[j] = wr[j]
  BY <1>1, <1>3, <1>4
<1>6. rd[i] \notin {"accept", "reply", "seq"}
  BY <1>2 DEF TInv, PipeInv
<1>7. FaultFrame(i)
  BY <1>1, <1>3, <1>5, <1>6 DEF FaultFrame
<1> QED BY <1>1, <1>2, <1>5, <1>7, FaultRunningTInv
-----------------------------------------------------------------------------
(* The reaper, the application and the network.                            *)

LEMMA ReapTInv ==
  ASSUME TInv, LInv', NEW i \in Pipes, Reap(i)
  PROVE  TInv'
<1>1. /\ pipe' = [pipe EXCEPT ![i] = NoPipe(Owner(i))] /\ outq' = [outq EXCEPT ![i] = EmptyOutQ(0)]
      /\ sock' = Stopped(sock, i) /\ loc' = [loc EXCEPT ![i] = NoLoc]
      /\ state' = [state EXCEPT ![i] = "free"]
      /\ rd' = [rd EXCEPT ![i] = "none"] /\ wr' = [wr EXCEPT ![i] = "none"]
      /\ UNCHANGED <<global_seq, in_q, submitted, delivered, excused, used>>
  BY DEF Reap, appVars
<1>2. /\ pipe \in [Pipes -> PipeType] /\ outq \in [Pipes -> OutQ(Ids)] /\ loc \in [Pipes -> LocType]
      /\ sock \in Socks /\ state \in [Pipes -> States] /\ rd \in [Pipes -> ReaderPC]
      /\ wr \in [Pipes -> WriterPC] /\ DataOK
  BY DEF TInv, DataOK, LInv, Control, Socks
<1>3. NoPipe(Owner(i)) \in PipeType
  BY OwnerIsPeer, NewPipeType
<1>4. EmptyOutQ(0) \in OutQ(Ids) /\ WellNumbered(EmptyOutQ(0)) /\ EmptyOutQ(0).sent = <<>>
  BY EmptyIsGood
<1>5. sock' \in Socks /\ NoneUp(sock, sock')
  BY <1>1, <1>2, StoppedType
<1>6. /\ pipe' \in [Pipes -> PipeType] /\ outq' \in [Pipes -> OutQ(Ids)]
      /\ loc' \in [Pipes -> LocType]
  BY <1>1, <1>2, <1>3, <1>4, NoLocType
<1>7. DataOK'
  BY <1>1, <1>2, <1>5, <1>6 DEF DataOK, Socks
<1>8. \A j \in Pipes \ {i} : Same(j)
  BY <1>1, <1>2 DEF Same
<1>9. PipeInv(i)'
  <2>1. outq'[i] = EmptyOutQ(0) /\ wr'[i] = "none"
    BY <1>1, <1>2
  <2> QED BY <1>4, <2>1, EmptySentInv
<1> QED BY <1>5, <1>7, <1>8, <1>9, OnePipeTInv

LEMMA NetFaultTInv ==
  ASSUME TInv, LInv', NEW i \in Pipes, NetFault(i)
  PROVE  TInv'
<1>1. /\ sock' = Shut(sock, i) /\ used' \in Budgets
      /\ UNCHANGED <<state, pipe, outq, rd, wr, loc, global_seq, in_q, submitted, delivered, excused>>
  BY UsedTypes DEF NetFault, msgrVars, appVars, TInv, DataOK
<1>2. sock' \in Socks /\ NoneUp(sock, sock')
  BY <1>1, ShutType DEF TInv, DataOK, Socks
<1>3. DataOK'
  BY <1>1, <1>2 DEF TInv, DataOK, Socks
<1> QED BY <1>1, <1>2, <1>3, FieldsTInv
LEMMA SubmitTInv ==
  ASSUME TInv, LInv', NEW p \in Peers, Submit(p)
  PROVE  TInv'
<1> DEFINE id == submitted[p] + 1
           m == [id |-> id, seq |-> 0]
           urgent == (id \in Urgent)
           n == FreePipe(p)
<1>1. /\ submitted' = [submitted EXCEPT ![p] = id]
      /\ UNCHANGED <<rd, loc, sock, global_seq, in_q, delivered, used>>
  BY DEF Submit
<1>2. /\ submitted \in [Peers -> Nat] /\ excused \in [Peers -> SUBSET Ids]
      /\ outq \in [Pipes -> OutQ(Ids)] /\ pipe \in [Pipes -> PipeType]
      /\ state \in [Pipes -> States] /\ wr \in [Pipes -> WriterPC] /\ DataOK
  BY DEF TInv, DataOK, LInv, Control
<1>3. id \in Nat /\ submitted' \in [Peers -> Nat]
  BY <1>1, <1>2
<1>4. m \in Message(Ids) /\ m.seq = 0 /\ urgent \in BOOLEAN
  BY <1>3 DEF Message, Ids
<1>5. NoneUp(sock, sock')
  BY <1>1 DEF NoneUp
<1>6. CASE Lookup(p) # None
  <2>1. PICK k \in Pipes : k = Lookup(p)
    BY <1>6, LookupProperties DEF TInv
  <2> DEFINE q == Send(outq[k], m, urgent)
  <2>2. outq' = [outq EXCEPT ![k] = q] /\ UNCHANGED <<state, pipe, wr, excused>>
    BY <1>6, <2>1 DEF Submit
  <2>3. Good(outq[k], Ids)
    BY DEF TInv, DataOK, PipeInv, Good
  <2>4. Good(q, Ids) /\ q.sent = outq[k].sent
    <3> HIDE DEF m, urgent
    <3> QED BY <1>4, <2>3, SendGood
  <2> HIDE DEF q
  <2>5. /\ outq' \in [Pipes -> OutQ(Ids)] /\ WellNumbered(outq'[k]) /\ outq'[k].sent = outq[k].sent
        /\ \A j \in Pipes \ {k} : outq'[j] = outq[j]
    BY <1>2, <2>2, <2>4 DEF Good
  <2>6. DataOK'
    BY <1>1, <1>2, <1>3, <2>2, <2>5 DEF DataOK
  <2>7. \A j \in Pipes \ {k} : Same(j)
    BY <1>1, <2>2, <2>5 DEF Same
  <2>8. PipeInv(k)'
    BY <1>1, <2>2, <2>5 DEF TInv, PipeInv, Writing
  <2> QED BY <1>5, <2>6, <2>7, <2>8, OnePipeTInv
<1>7. CASE Lookup(p) = None /\ Policy[p].server
  <2>1. UNCHANGED <<state, pipe, outq, wr>> /\ excused' = [excused EXCEPT ![p] = @ \cup {id}]
    BY <1>7 DEF Submit
  <2>2. excused' \in [Peers -> SUBSET Ids]
    BY <1>2, <1>3, <2>1 DEF Ids
  <2>3. DataOK'
    BY <1>1, <1>2, <1>3, <2>1, <2>2 DEF DataOK
  <2> QED BY <1>1, <1>5, <2>1, <2>3, FieldsTInv
<1>8. CASE Lookup(p) = None /\ ~Policy[p].server
  <2> DEFINE x == NewPipe(p, FreshId(p))
             q == Send(EmptyOutQ(0), m, urgent)
  <2>1. CanMakePipe(p)
    BY <1>8 DEF Submit
  <2>2. PICK k \in Pipes : k = n /\ state[k] = "free"
    BY <2>1, FreePipeIsFree DEF CanMakePipe
  <2>3. /\ state' = [state EXCEPT ![k] = "connecting"] /\ pipe' = [pipe EXCEPT ![k] = x]
        /\ outq' = [outq EXCEPT ![k] = q] /\ wr' = [wr EXCEPT ![k] = "loop"]
        /\ UNCHANGED excused
    BY <1>8, <2>2 DEF Submit
  <2>4. x \in PipeType
    BY <2>1, FreshIdType, NewPipeType DEF CanMakePipe
  <2>5. Good(q, Ids) /\ q.sent = <<>>
    <3> HIDE DEF m, urgent
    <3>1. Good(EmptyOutQ(0), Ids) /\ EmptyOutQ(0).sent = <<>>
      BY EmptyOutQGood, EmptyIsGood
    <3> QED BY <1>4, <3>1, SendGood
  <2> HIDE DEF x, q
  <2>6. /\ outq' \in [Pipes -> OutQ(Ids)] /\ pipe' \in [Pipes -> PipeType]
        /\ WellNumbered(outq'[k]) /\ outq'[k].sent = <<>> /\ wr'[k] = "loop"
        /\ \A j \in Pipes \ {k} : Same(j)
    BY <1>1, <1>2, <2>3, <2>4, <2>5 DEF Good, Same
  <2>7. DataOK'
    BY <1>1, <1>2, <1>3, <2>3, <2>6 DEF DataOK
  <2>8. rd[k] = "none"
    BY <2>2 DEF TInv, LInv, FreeIsClean
  <2>9. PipeInv(k)'
    BY <1>1, <2>6, <2>8, EmptySentInv
  <2> QED BY <1>5, <2>6, <2>7, <2>9, OnePipeTInv
<1> QED BY <1>6, <1>7, <1>8

LEMMA SendKeepaliveTInv ==
  ASSUME TInv, LInv', NEW p \in Peers, SendKeepalive(p)
  PROVE  TInv'
<1>1. PICK k \in Pipes : k = Lookup(p)
  BY LookupProperties DEF SendKeepalive, TInv
<1> DEFINE r == [pipe[k] EXCEPT !.send_keepalive = TRUE]
<1>2. /\ pipe' = [pipe EXCEPT ![k] = r] /\ used' \in Budgets
      /\ UNCHANGED <<state, outq, rd, wr, loc, sock, global_seq, in_q, submitted, delivered, excused>>
  BY <1>1, UsedTypes DEF SendKeepalive, msgrVars, appVars, TInv, DataOK
<1>3. pipe \in [Pipes -> PipeType] /\ DataOK
  BY DEF TInv, DataOK
<1>4. r \in PipeType /\ r.lossy = pipe[k].lossy
  BY <1>3, PipeUpdates
<1> HIDE DEF r
<1>5. pipe' \in [Pipes -> PipeType] /\ \A j \in Pipes : pipe'[j].lossy = pipe[j].lossy
  BY <1>2, <1>3, <1>4
<1>6. DataOK'
  BY <1>2, <1>3, <1>5 DEF DataOK
<1>7. NoneUp(sock, sock')
  BY <1>2 DEF NoneUp
<1> QED BY <1>2, <1>5, <1>6, <1>7, FieldsTInv

LEMMA StopPipesTInv ==
  ASSUME TInv, LInv', NEW p, NEW S, StopPipes(p, S)
  PROVE  TInv'
<1>1. /\ state' = [i \in Pipes |-> IF i \in S THEN "closed" ELSE state[i]]
      /\ pipe' = [i \in Pipes |-> IF i \in S THEN Detached(pipe[i]) ELSE pipe[i]]
      /\ sock' = Severed(S) /\ used' \in Budgets /\ excused' \in [Peers -> SUBSET Ids]
      /\ UNCHANGED <<outq, rd, wr, loc, global_seq, in_q, submitted, delivered>>
  BY UsedTypes, ExcuseType DEF StopPipes, TInv, DataOK
<1>2. pipe \in [Pipes -> PipeType] /\ DataOK /\ sock \in Socks
  BY DEF TInv, DataOK, Socks
<1>3. /\ sock' \in Socks /\ NoneUp(sock, sock')
      /\ \A i \in Pipes \cap S : ~sock'[i].up
  BY <1>1, <1>2, SeveredType
<1>4. \A r \in PipeType : Detached(r) \in PipeType /\ Detached(r).lossy = r.lossy
  BY DEF Detached, PipeType
<1>5. pipe' \in [Pipes -> PipeType] /\ \A j \in Pipes : pipe'[j].lossy = pipe[j].lossy
  BY <1>1, <1>2, <1>4
<1>6. DataOK'
  BY <1>1, <1>2, <1>3, <1>5 DEF DataOK, Socks
<1>7. ASSUME NEW j \in Pipes \ S PROVE PipeInv(j)'
  <2>1. Same(j)
    BY <1>1, <1>7 DEF Same
  <2> QED BY <1>3, <1>7, <2>1, SamePipeInv DEF TInv, NoneUp
<1>8. ASSUME NEW j \in Pipes \cap S PROVE PipeInv(j)'
  <2>1. state'[j] = "closed" /\ ~sock'[j].up /\ pipe'[j].lossy = pipe[j].lossy
    BY <1>1, <1>3, <1>5, <1>8
  <2> QED BY <1>1, <1>8, <2>1 DEF TInv, PipeInv
<1> QED BY <1>6, <1>7, <1>8 DEF TInv

LEMMA RestartTInv ==
  ASSUME TInv, LInv', NEW p \in Peers, Restart(p)
  PROVE  TInv'
<1> DEFINE mine == {i \in Pipes : Owner(i) = p}
<1>1. /\ state' = [i \in Pipes |-> IF i \in mine THEN "free" ELSE state[i]]
      /\ pipe' = [i \in Pipes |-> IF i \in mine THEN NoPipe(p) ELSE pipe[i]]
      /\ outq' = [i \in Pipes |-> IF i \in mine THEN EmptyOutQ(0) ELSE outq[i]]
      /\ rd' = [i \in Pipes |-> IF i \in mine THEN "none" ELSE rd[i]]
      /\ wr' = [i \in Pipes |-> IF i \in mine THEN "none" ELSE wr[i]]
      /\ loc' = [i \in Pipes |-> IF i \in mine THEN NoLoc ELSE loc[i]]
      /\ sock' = [i \in Pipes |-> IF i \in mine THEN NoSock ELSE Severed(mine)[i]]
      /\ global_seq' = [global_seq EXCEPT ![p] = 0]
      /\ in_q' = [in_q EXCEPT ![p] = [c \in ConnIds |-> <<>>]]
      /\ Excuse(TRUE) /\ used' = [used EXCEPT !.restarts = @ + 1]
      /\ UNCHANGED <<submitted, delivered>>
  BY DEF Restart
<1> HIDE DEF mine
<1>2. /\ pipe \in [Pipes -> PipeType] /\ outq \in [Pipes -> OutQ(Ids)] /\ loc \in [Pipes -> LocType]
      /\ sock \in Socks /\ global_seq \in [Peers -> Nat]
      /\ in_q \in [Peers -> [ConnIds -> Seq(Ids)]] /\ DataOK
  BY DEF TInv, DataOK, Socks
<1>3. /\ NoPipe(p) \in PipeType /\ NoLoc \in LocType /\ NoSock \in SockType /\ ~NoSock.up
      /\ <<>> \in Seq(Ids)
  BY NewPipeType, NoLocType, NoSockType, EmptySeq
<1>4. EmptyOutQ(0) \in OutQ(Ids) /\ WellNumbered(EmptyOutQ(0)) /\ EmptyOutQ(0).sent = <<>>
  BY EmptyIsGood
<1>5. Severed(mine) \in Socks /\ NoneUp(sock, Severed(mine))
  BY <1>2, SeveredType
<1>6. sock' \in Socks /\ NoneUp(sock, sock')
  <2> DEFINE s == Severed(mine)
  <2> HIDE DEF s
  <2>1. s \in Socks /\ NoneUp(sock, s)
    BY <1>5 DEF s
  <2>2. sock' = [i \in Pipes |-> IF i \in mine THEN NoSock ELSE s[i]]
    BY <1>1 DEF s
  <2> QED BY <1>3, <2>1, <2>2 DEF Socks, NoneUp
<1>7. /\ pipe' \in [Pipes -> PipeType] /\ outq' \in [Pipes -> OutQ(Ids)]
      /\ loc' \in [Pipes -> LocType]
  BY <1>1, <1>2, <1>3, <1>4
<1>8. /\ global_seq' \in [Peers -> Nat] /\ in_q' \in [Peers -> [ConnIds -> Seq(Ids)]]
  BY <1>1, <1>2, <1>3
<1>9. excused' \in [Peers -> SUBSET Ids] /\ used' \in Budgets
  BY <1>1, <1>2, ExcuseType, UsedTypes DEF DataOK
<1>10. DataOK'
  BY <1>1, <1>2, <1>6, <1>7, <1>8, <1>9 DEF DataOK, Socks
<1>11. ASSUME NEW j \in Pipes \ mine PROVE PipeInv(j)'
  <2>1. Same(j)
    BY <1>1, <1>11 DEF Same
  <2> QED BY <1>6, <1>11, <2>1, SamePipeInv DEF TInv, NoneUp
<1>12. ASSUME NEW j \in Pipes \cap mine PROVE PipeInv(j)'
  <2>1. outq'[j] = EmptyOutQ(0) /\ wr'[j] = "none"
    BY <1>1, <1>12
  <2> QED BY <1>4, <1>12, <2>1, EmptySentInv
<1> QED BY <1>10, <1>11, <1>12 DEF TInv

LEMMA DeliverTInv ==
  ASSUME TInv, LInv', NEW p \in Peers, Deliver(p)
  PROVE  TInv'
<1>1. PICK c \in ConnIds :
        /\ in_q[p][c] # <<>> /\ in_q' = [in_q EXCEPT ![p][c] = Tail(@)]
        /\ delivered' = [delivered EXCEPT ![p] = Append(@, Head(in_q[p][c]))]
        /\ UNCHANGED <<state, pipe, outq, rd, wr, loc, sock, global_seq, submitted, excused, used>>
  BY DEF Deliver
<1>2. /\ in_q \in [Peers -> [ConnIds -> Seq(Ids)]] /\ delivered \in [Peers -> Seq(Ids)] /\ DataOK
      /\ in_q[p][c] \in Seq(Ids)
  BY DEF TInv, DataOK
<1>3. Head(in_q[p][c]) \in Ids /\ Tail(in_q[p][c]) \in Seq(Ids)
  BY <1>1, <1>2, HeadTailProperties
<1>4. in_q' \in [Peers -> [ConnIds -> Seq(Ids)]]
  BY <1>1, <1>2, <1>3
<1>5. delivered' \in [Peers -> Seq(Ids)]
  <2>1. Append(delivered[p], Head(in_q[p][c])) \in Seq(Ids)
    BY <1>2, <1>3, AppendProperties
  <2> QED BY <1>1, <1>2, <2>1
<1>6. DataOK'
  BY <1>1, <1>2, <1>4, <1>5 DEF DataOK
<1>7. NoneUp(sock, sock')
  BY <1>1 DEF NoneUp
<1> QED BY <1>1, <1>6, <1>7, FieldsTInv

LEMMA InitTInv == Init => TInv
<1> SUFFICES ASSUME Init PROVE TInv
  OBVIOUS
<1>1. /\ \A p \in Peers : NoPipe(p) \in PipeType
      /\ EmptyOutQ(0) \in OutQ(Ids) /\ NoLoc \in LocType /\ NoSock \in SockType /\ ~NoSock.up
      /\ <<>> \in Seq(Ids) /\ WellNumbered(EmptyOutQ(0)) /\ EmptyOutQ(0).sent = <<>>
  BY NewPipeType, NoLocType, NoSockType, EmptyIsGood, EmptySeq
<1>2. DataOK
  BY <1>1, OwnerIsPeer DEF Init, DataOK, Budgets
<1>3. ASSUME NEW i \in Pipes PROVE PipeInv(i)
  BY <1>1 DEF Init, PipeInv, Writing
<1> QED BY <1>2, <1>3, InitLInv DEF TInv

LEMMA NextTInv == TInv /\ [Next]_vars => TInv'
<1> SUFFICES ASSUME TInv, [Next]_vars PROVE TInv'
  OBVIOUS
<1>1. LInv'
  BY NextLInv DEF TInv
<1>2. CASE UNCHANGED vars
  BY <1>1, <1>2 DEF vars, msgrVars, appVars, TInv, DataOK, PipeInv, Writing
<1>3. ASSUME NEW i \in Pipes, Accepting(i) PROVE TInv'
  BY <1>1, <1>3, AcceptStoppedTInv, AcceptRefuseTInv, AcceptNewTInv, AcceptReplaceLossyTInv,
     AcceptReplaceTInv, AcceptRepliedTInv, AcceptFailedTInv DEF Accepting
<1>4. ASSUME NEW i \in Pipes, WriterStep(i) PROVE TInv'
  BY <1>1, <1>4, WriterRoundTInv, WroteTInv, WriteFailsTInv DEF WriterStep
<1>5. ASSUME NEW p \in Peers, Application(p) PROVE TInv'
  BY <1>1, <1>5, SubmitTInv, SendKeepaliveTInv, StopPipesTInv, RestartTInv, DeliverTInv
  DEF Application, MarkDown, MarkDownAll
<1> QED BY <1>1, <1>2, <1>3, <1>4, <1>5, ReadingTInv, ConnectingTInv, ReapTInv, NetFaultTInv
        DEF Next

(* Every variable keeps its type in every behaviour: no frame is read as   *)
(* one of another kind, no counter wraps, a Connection keeps a valid id.   *)
THEOREM TypeCorrect == Spec => []TypeOK
<1> QED BY TypesFromInv, InitTInv, NextTInv, PTL DEF Spec

(* The numbers in every out queue stay consistent with out_seq whatever    *)
(* acks, faults, requeues, takeovers and discards befall it: a message is  *)
(* sent again under its first number, and out_seq never wraps.             *)
THEOREM NumbersConsistent == Spec => []OutQueuesNumbered
<1> QED BY TypesFromInv, InitTInv, NextTInv, PTL DEF Spec
=============================================================================
