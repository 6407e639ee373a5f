----------------------- MODULE PipeSessionWriteProofs -----------------------
(***************************************************************************)
(* The invariant CInv of PipeSessionReadProofs under what the writer       *)
(* writes, what breaks (fault() and the ways connect() and accept() fail), *)
(* the end of connect() and a submission.                                  *)
(***************************************************************************)
EXTENDS PipeSessionReadProofs

(* The writer.                                                             *)

(* Transmit: the message is numbered as it was submitted.                  *)
LEMMA TransmitConsecutive ==
  ASSUME NEW q, Good(q, Ids), HasOut(q), NEW n, Consecutive(q, n)
  PROVE  /\ Consecutive(Transmit(q, FALSE), n)
         /\ Base(Transmit(q, FALSE)) = Base(q) /\ Top(q) <= Top(Transmit(q, FALSE))
         /\ Transmit(q, FALSE).out_seq = q.out_seq + 1
         /\ q.out_seq + 1 <= Top(Transmit(q, FALSE))
         /\ Numbered(q).id = q.out_seq + 1 /\ Numbered(q).seq = q.out_seq + 1
<1>0. Fields(q, Ids)
  BY GoodFields
<1> DEFINE m == Numbered(q)
           t == Append(q.sent, m)
           r == Transmit(q, FALSE)
<1>1. m \in Message(Ids) /\ m.seq = q.out_seq + 1
  BY NumberedType
<1>2. NextOutgoing(q) \in Message(Ids) /\ m.id = NextOutgoing(q).id
  BY PopProperties DEF Numbered, Message
<1>3. PopOutgoing(q) \in OutQ(Ids) /\ PopOutgoing(q).out_seq = q.out_seq /\ PopOutgoing(q).sent = q.sent
  BY PopProperties
<1>4. /\ r.out_seq = q.out_seq + 1 /\ r.sent = t
      /\ r.high = PopOutgoing(q).high /\ r.dflt = PopOutgoing(q).dflt
  BY <1>3 DEF Transmit, OutQ
<1>5. /\ q.high # <<>> => r.high = Tail(q.high) /\ r.dflt = q.dflt /\ NextOutgoing(q) = Head(q.high)
      /\ q.high = <<>> => r.high = <<>> /\ r.dflt = Tail(q.dflt) /\ NextOutgoing(q) = Head(q.dflt)
                          /\ q.dflt # <<>>
  BY <1>0, <1>4 DEF PopOutgoing, NextOutgoing, HasOut, Fields, OutQ
<1> HIDE DEF m, r
<1>6. PICK o \in Nat, s \in Nat, h \in Nat, d \in Nat :
         o = q.out_seq /\ s = Len(q.sent) /\ h = Len(q.high) /\ d = Len(q.dflt)
  BY <1>0 DEF Fields
<1>7. /\ o + h + d = n
      /\ \A k \in 1..s : q.sent[k].id = o - s + k
      /\ \A k \in 1..h : q.high[k].id = o + k /\ q.high[k].seq = o + k
      /\ \A k \in 1..d : q.dflt[k].id = o + h + k
  BY <1>6 DEF Consecutive, Base, Top
<1>8. Len(t) = s + 1 /\ t[s + 1] = m /\ \A k \in 1..s : t[k] = q.sent[k]
  BY <1>0, <1>1, <1>6, AppendOf DEF Fields
<1> HIDE DEF t
<1>9. r.out_seq = o + 1 /\ Len(r.sent) = s + 1 /\ Base(r) = o - s /\ Base(q) = o - s
      /\ Top(q) = o + h
  <2>1. r.out_seq = o + 1 /\ Len(r.sent) = s + 1
    BY <1>4, <1>6, <1>8
  <2>2. Base(q) = o - s /\ Top(q) = o + h
    BY <1>6 DEF Base, Top
  <2>3. Base(r) = (o + 1) - (s + 1)
    BY <2>1 DEF Base
  <2>4. (o + 1) - (s + 1) = o - s
    OBVIOUS
  <2> QED BY <2>1, <2>2, <2>3, <2>4
<1>10. CASE q.high # <<>>
  <2>1. /\ Len(Tail(q.high)) = h - 1 /\ 1 <= h /\ Head(q.high) = q.high[1]
        /\ \A k \in 1..(h - 1) : Tail(q.high)[k] = q.high[k + 1]
    BY <1>0, <1>6, <1>10, TailOf DEF Fields
  <2>2. m.id = o + 1
    BY <1>2, <1>5, <1>7, <1>10, <2>1
  <2>3. Len(r.high) = h - 1 /\ Top(r) = o + h
    <3>1. Len(r.high) = h - 1
      BY <1>5, <1>10, <2>1
    <3>2. o + 1 + (h - 1) = o + h
      OBVIOUS
    <3> QED BY <1>9, <3>1, <3>2 DEF Top
  <2>4. \A k \in 1..(h - 1) : r.high[k].id = o + 1 + k /\ r.high[k].seq = o + 1 + k
    <3> SUFFICES ASSUME NEW k \in 1..(h - 1)
                 PROVE  r.high[k].id = o + 1 + k /\ r.high[k].seq = o + 1 + k
      OBVIOUS
    <3>0. k + 1 \in 1..h
      BY <2>1
    <3>1. k + 1 \in 1..h /\ r.high[k] = q.high[k + 1]
      <4>1. r.high = Tail(q.high) /\ Tail(q.high)[k] = q.high[k + 1]
        BY <1>5, <1>10, <2>1
      <4> QED BY <3>0, <4>1
    <3>2. r.high[k].id = o + (k + 1) /\ r.high[k].seq = o + (k + 1)
      BY <1>7, <3>1
    <3> QED BY <3>2
  <2>5. \A k \in 1..(s + 1) : t[k].id = o - s + k
    <3> SUFFICES ASSUME NEW k \in 1..(s + 1) PROVE t[k].id = o - s + k
      OBVIOUS
    <3>1. CASE k = s + 1
      <4>1. o - s + (s + 1) = o + 1
        OBVIOUS
      <4> QED BY <1>8, <2>2, <3>1, <4>1
    <3>2. CASE k \in 1..s
      BY <1>7, <1>8, <3>2
    <3>3. k = s + 1 \/ k \in 1..s
      OBVIOUS
    <3> QED BY <3>1, <3>2, <3>3
  <2>6. Top(r) + Len(r.dflt) = n /\ \A k \in 1..Len(r.dflt) : r.dflt[k].id = Top(r) + k
    BY <1>5, <1>6, <1>7, <1>10, <2>3
  <2>7. Consecutive(r, n)
    BY <1>4, <1>9, <2>3, <2>4, <2>5, <2>6 DEF Consecutive
  <2>8. Top(q) <= Top(r) /\ o + 1 <= Top(r)
    BY <1>9, <2>1, <2>3
  <2> QED BY <1>1, <1>6, <1>9, <2>2, <2>7, <2>8 DEF m, r
<1>11. CASE q.high = <<>>
  <2>1. /\ Len(Tail(q.dflt)) = d - 1 /\ 1 <= d /\ Head(q.dflt) = q.dflt[1]
        /\ \A k \in 1..(d - 1) : Tail(q.dflt)[k] = q.dflt[k + 1]
    BY <1>0, <1>5, <1>6, <1>11, TailOf DEF Fields
  <2>2. h = 0
    BY <1>6, <1>11, EmptySeq
  <2>3. m.id = o + 1
    BY <1>2, <1>5, <1>7, <1>11, <2>1, <2>2
  <2>4. Len(r.high) = 0 /\ Top(r) = o + 1
    <3>1. r.high = <<>> /\ r.out_seq = o + 1
      BY <1>5, <1>9, <1>11
    <3>2. Len(r.high) = 0
      BY <3>1, EmptySeq
    <3>3. Top(r) = o + 1 + 0
      BY <3>1, <3>2 DEF Top
    <3> QED BY <3>2, <3>3
  <2>5. \A k \in 1..(d - 1) : r.dflt[k].id = o + 1 + k
    <3> SUFFICES ASSUME NEW k \in 1..(d - 1)
                 PROVE  r.dflt[k].id = o + 1 + k
      OBVIOUS
    <3>0. k + 1 \in 1..d
      BY <2>1
    <3>1. k + 1 \in 1..d /\ r.dflt[k] = q.dflt[k + 1]
      <4>1. r.dflt = Tail(q.dflt) /\ Tail(q.dflt)[k] = q.dflt[k + 1]
        BY <1>5, <1>11, <2>1
      <4> QED BY <3>0, <4>1
    <3>2. r.dflt[k].id = o + h + (k + 1)
      BY <1>7, <3>1
    <3> QED BY <2>2, <3>2
  <2>6. \A k \in 1..(s + 1) : t[k].id = o - s + k
    <3> SUFFICES ASSUME NEW k \in 1..(s + 1) PROVE t[k].id = o - s + k
      OBVIOUS
    <3>1. CASE k = s + 1
      <4>1. o - s + (s + 1) = o + 1
        OBVIOUS
      <4> QED BY <1>8, <2>3, <3>1, <4>1
    <3>2. CASE k \in 1..s
      BY <1>7, <1>8, <3>2
    <3>3. k = s + 1 \/ k \in 1..s
      OBVIOUS
    <3> QED BY <3>1, <3>2, <3>3
  <2>7. Len(r.dflt) = d - 1 /\ Top(r) + Len(r.dflt) = n
    <3>1. Len(r.dflt) = d - 1
      BY <1>5, <1>11, <2>1
    <3>2. o + 1 + (d - 1) = n
      BY <1>7, <2>2
    <3> QED BY <2>4, <3>1, <3>2
  <2>8. Consecutive(r, n)
    BY <1>4, <1>9, <2>4, <2>5, <2>6, <2>7 DEF Consecutive
  <2>9. Top(q) <= Top(r) /\ o + 1 <= Top(r)
    BY <1>9, <2>2, <2>4
  <2> QED BY <1>1, <1>6, <1>9, <2>3, <2>8, <2>9 DEF m, r
<1> QED BY <1>10, <1>11

(* A step of the writer of an open Pipe: it may put the frame it has       *)
(* captured into its socket, and captures the next one.                    *)
Writes(i) ==
  /\ state[i] = "open" /\ InLoop(i) /\ wr[i] \notin {"none", "join", "await"}
  /\ wr'[i] \in {"loop", "keepalive", "keepalive_ack", "ack", "msg"}
  /\ state' = state /\ rd' = rd /\ global_seq' = global_seq /\ submitted' = submitted
  /\ in_q' = in_q /\ delivered' = delivered
  /\ \A k \in Pipes : SameFields(pipe'[k], pipe[k])
  /\ \A k \in Pipes \ {i} : wr'[k] = wr[k] /\ loc'[k] = loc[k] /\ outq'[k] = outq[k]
  /\ loc'[i].id = loc[i].id
  /\ wr'[i] = "ack" => loc'[i].seq = pipe[i].in_seq
  /\ wr'[i] # "msg" => outq'[i] = outq[i]
  /\ wr'[i] = "msg" => /\ HasOut(outq[i]) /\ outq'[i] = Transmit(outq[i], FALSE)
                       /\ loc'[i].msg = Numbered(outq[i])
  /\ wr[i] = "loop" => sock' = sock
  /\ wr[i] # "loop" => Writing(i) /\ sock' = Put(sock, i, WriteFrame(i))

(* A round of the writer is such a step, whatever is due.                  *)
LEMMA StartsWrite ==
  ASSUME TInv, WInv, CInv, TInv', NEW i \in Pipes, WriterRound(i) \/ Wrote(i)
  PROVE  Writes(i)
<1>1. /\ rd \in [Pipes -> ReaderPC] /\ wr \in [Pipes -> WriterPC] /\ loc \in [Pipes -> LocType]
      /\ pipe \in [Pipes -> PipeType] /\ state[i] \in States /\ outq \in [Pipes -> OutQ(Ids)]
  BY DEF TInv, LInv, Control, DataOK
<1>2. PICK k, r :
        /\ k \in 1..5 /\ StartWrite(i, k, r) /\ state' = state /\ rd' = rd
        /\ pipe' = [pipe EXCEPT ![i] = r] /\ SameFields(r, pipe[i])
        /\ global_seq' = global_seq /\ submitted' = submitted /\ in_q' = in_q
        /\ delivered' = delivered
        /\ wr[i] = "loop" => sock' = sock
        /\ wr[i] # "loop" => Writing(i) /\ sock' = Put(sock, i, WriteFrame(i))
  <2>1. CASE WriterRound(i)
    <3>1. /\ StartWrite(i, 1, pipe[i]) /\ wr[i] = "loop"
          /\ UNCHANGED <<state, pipe, rd, sock, global_seq, submitted, in_q, delivered>>
      BY <2>1 DEF WriterRound, msgrVars, appVars
    <3>2. pipe' = [pipe EXCEPT ![i] = pipe[i]] /\ 1 \in 1..5
      BY <1>1, <3>1
    <3> QED BY <3>1, <3>2 DEF SameFields
  <2>2. CASE Wrote(i)
    <3>1. /\ Writing(i) /\ sock' = Put(sock, i, WriteFrame(i))
          /\ pipe' = [pipe EXCEPT ![i] = AfterWrite(i)]
          /\ UNCHANGED <<state, rd, global_seq, submitted, in_q, delivered>>
          /\ \E k \in 1..4 : StartWrite(i, IF k = 4 THEN 5 ELSE k + 1, AfterWrite(i))
      BY <2>2 DEF Wrote, msgrVars, appVars
    <3>2. \E k \in 1..5 : StartWrite(i, k, AfterWrite(i))
      <4>1. PICK k \in 1..4 : StartWrite(i, IF k = 4 THEN 5 ELSE k + 1, AfterWrite(i))
        BY <3>1
      <4>2. (IF k = 4 THEN 5 ELSE k + 1) \in 1..5
        OBVIOUS
      <4> QED BY <4>1, <4>2
    <3>3. wr[i] # "loop"
      BY <3>1, WritingParts
    <3>4. SameFields(AfterWrite(i), pipe[i])
      BY <1>1 DEF AfterWrite, SameFields, PipeType
    <3> QED BY <3>1, <3>2, <3>3, <3>4
  <2> QED BY <2>1, <2>2
<1>3. state[i] = "open" /\ InLoop(i) /\ wr[i] \notin {"none", "join", "await"}
  <2>1. CASE Writing(i)
    <3>1. sock[i].up
      BY <2>1, WritingParts DEF WriterRound, Wrote
    <3>2. state[i] = "open"
      BY <2>1, <3>1 DEF TInv, PipeInv
    <3> QED BY <2>1, <3>2, WritingParts DEF InLoop
  <2>2. CASE WriterRound(i)
    <3>1. state[i] # "accepting"
      BY <2>2 DEF WriterRound, TInv, LInv, AcceptingIsIdle
    <3>2. state[i] = "open"
      BY <1>1, <2>2, <3>1 DEF WriterRound, States
    <3> QED BY <2>2, <3>2 DEF WriterRound, InLoop
  <2> QED BY <2>1, <2>2 DEF Wrote
<1>4. PICK w : w = NextWrite(k, r, outq[i])
  OBVIOUS
<1>5. /\ w \in {"loop", "keepalive", "keepalive_ack", "ack", "msg"}
      /\ w = "msg" => HasOut(outq[i])
  BY <1>2, <1>4, NextWriteProperties
<1>6. ~r.lossy /\ r.in_seq = pipe[i].in_seq
  BY <1>2 DEF CInv, PipeOK, SameFields
<1>7. /\ wr' = [wr EXCEPT ![i] = w]
      /\ loc' = [loc EXCEPT ![i].seq = IF w = "ack" THEN r.in_seq ELSE 0,
                            ![i].msg = IF w = "msg" THEN Numbered(outq[i]) ELSE NoLoc.msg]
      /\ outq' = IF w = "msg" THEN [outq EXCEPT ![i] = Transmit(@, FALSE)] ELSE outq
  <2>1. r.lossy = FALSE
    <3>1. r.lossy = pipe[i].lossy /\ pipe[i].lossy \in BOOLEAN
      BY <1>1, <1>2 DEF SameFields, PipeType
    <3> QED BY <1>6, <3>1
  <2>2. /\ wr' = [wr EXCEPT ![i] = w]
        /\ loc' = [loc EXCEPT ![i].seq = IF w = "ack" THEN r.in_seq ELSE 0,
                              ![i].msg = IF w = "msg" THEN Numbered(outq[i]) ELSE NoLoc.msg]
        /\ outq' = IF w = "msg" THEN [outq EXCEPT ![i] = Transmit(@, r.lossy)] ELSE outq
    BY <1>2, <1>4 DEF StartWrite
  <2> QED BY <2>1, <2>2
<1>8. /\ wr'[i] = w
      /\ \A j \in Pipes \ {i} : wr'[j] = wr[j] /\ loc'[j] = loc[j] /\ outq'[j] = outq[j]
      /\ loc'[i].id = loc[i].id
      /\ w = "ack" => loc'[i].seq = r.in_seq
      /\ w = "msg" => loc'[i].msg = Numbered(outq[i]) /\ outq'[i] = Transmit(outq[i], FALSE)
      /\ w # "msg" => outq'[i] = outq[i]
  BY <1>1, <1>5, <1>7 DEF LocType
<1>9. \A j \in Pipes : SameFields(pipe'[j], pipe[j])
  BY <1>1, <1>2 DEF SameFields
<1> QED BY <1>2, <1>3, <1>5, <1>6, <1>8, <1>9 DEF Writes

(* The frame that is written.                                              *)
LEMMA FrameWritten ==
  ASSUME TInv, CInv, NEW i \in Pipes, state[i] = "open", Writing(i), NEW f, f = WriteFrame(i)
  PROVE  /\ f \in Frames /\ f.kind \in {"keepalive", "keepalive_ack", "ack", "msg"}
         /\ f.kind = "msg" <=> wr[i] = "msg"
         /\ wr[i] = "msg" => f.msg.seq = LastWritten(i) + 1
         /\ FrameOK(Other(Owner(i)), f)
<1>1. f \in Frames
  BY WrittenFrame
<1>2. wr[i] \in {"keepalive", "keepalive_ack", "ack", "msg"} /\ PipeOK(i)
  BY WritingParts DEF CInv
<1>3. /\ f.kind = wr[i]
      /\ wr[i] = "ack" => f.seq = loc[i].seq
      /\ wr[i] = "msg" => f.msg = loc[i].msg
  BY <1>2 DEF WriteFrame
<1>4. Other(Other(Owner(i))) = Owner(i)
  BY OwnerIsPeer, OtherPeer
<1>5. FrameOK(Other(Owner(i)), f)
  BY <1>2, <1>3, <1>4 DEF FrameOK, PipeOK
<1>6. outq[i].out_seq \in Nat
  BY SaneNow, QueueNumbers DEF Sane
<1>7. wr[i] = "msg" => f.msg.seq = LastWritten(i) + 1
  BY <1>2, <1>3, <1>6 DEF PipeOK, LastWritten
<1> QED BY <1>1, <1>2, <1>3, <1>5, <1>7

(* What all writes have in common.                                         *)
LEMMA WritesBasics ==
  ASSUME TInv, WInv, CInv, TInv', WInv', NEW i \in Pipes, Writes(i)
  PROVE  /\ StepOf(i) /\ NewFramesOK /\ Grows /\ InUse(i)
         /\ rd[i] \notin {"accept", "reply", "seq"} /\ Severing(sock')
         /\ \A k \in Pipes : sock'[k].peer = sock[k].peer
         /\ \A k \in Pipes \ {i} : Still(k) /\ (k # sock[i].peer => sock'[k].in = sock[k].in)
         /\ sock'[i].in = sock[i].in
         /\ \/ wr[i] = "loop" /\ sock' = sock
            \/ /\ Writing(i)
               /\ Live(sock, i) =>
                    sock'[sock[i].peer].in = Append(sock[sock[i].peer].in, WriteFrame(i))
         /\ outq[i].out_seq \in Nat /\ LastWritten(i)' = outq[i].out_seq
         /\ Consecutive(outq'[i], submitted[Owner(i)])
         /\ Base(outq'[i]) = Base(outq[i]) /\ Top(outq[i]) <= Top(outq'[i])
         /\ wr'[i] = "msg" => /\ loc'[i].msg.id = loc'[i].msg.seq /\ 1 <= loc'[i].msg.seq
                              /\ loc'[i].msg.seq = outq'[i].out_seq
                              /\ loc'[i].msg.seq <= Top(outq'[i])
<1>1. /\ state[i] = "open" /\ InLoop(i) /\ wr[i] \notin {"none", "join", "await"}
      /\ state' = state /\ rd' = rd /\ global_seq' = global_seq /\ submitted' = submitted
      /\ \A k \in Pipes : SameFields(pipe'[k], pipe[k])
      /\ \A k \in Pipes \ {i} : wr'[k] = wr[k] /\ loc'[k] = loc[k] /\ outq'[k] = outq[k]
      /\ wr'[i] # "msg" => outq'[i] = outq[i]
      /\ wr'[i] = "msg" => /\ HasOut(outq[i]) /\ outq'[i] = Transmit(outq[i], FALSE)
                           /\ loc'[i].msg = Numbered(outq[i])
  BY DEF Writes
<1>2. InUse(i) /\ rd[i] \notin {"accept", "reply", "seq"}
  BY <1>1 DEF InUse, TInv, PipeInv
<1>3. /\ Severing(sock') /\ \A k \in Pipes : sock'[k].peer = sock[k].peer
      /\ \A k \in Pipes : k # sock[i].peer => sock'[k].in = sock[k].in
      /\ \/ wr[i] = "loop" /\ sock' = sock
         \/ /\ Writing(i)
            /\ Live(sock, i) =>
                 sock'[sock[i].peer].in = Append(sock[sock[i].peer].in, WriteFrame(i))
  <2>1. CASE sock' = sock
    <3>1. wr[i] = "loop" \/ (Writing(i) /\ sock' = Put(sock, i, WriteFrame(i)))
      BY DEF Writes
    <3>2. Severing(sock')
      BY <2>1 DEF Severing, Live
    <3>3. Writing(i) /\ sock' = Put(sock, i, WriteFrame(i)) =>
            (Live(sock, i) =>
               sock'[sock[i].peer].in = Append(sock[sock[i].peer].in, WriteFrame(i)))
      BY PutEffect
    <3> QED BY <2>1, <3>1, <3>2, <3>3
  <2>2. CASE Writing(i) /\ sock' = Put(sock, i, WriteFrame(i))
    <3>1. /\ \A k \in Pipes : sock'[k].peer = sock[k].peer
          /\ \A k \in Pipes : k # sock[i].peer => sock'[k] = sock[k]
          /\ Live(sock, i) =>
               sock'[sock[i].peer].in = Append(sock[sock[i].peer].in, WriteFrame(i))
      BY <2>2, PutEffect
    <3>2. Severing(sock')
      BY <3>1, PeerIsPipe DEF Severing, Live
    <3> QED BY <2>2, <3>1, <3>2
  <2> QED BY <2>1, <2>2 DEF Writes
<1>4. sock'[i].in = sock[i].in
  <2>1. i # sock[i].peer
    BY NoneIsNoPipe, PeerIsPipe DEF Live
  <2> QED BY <1>3, <2>1
<1>5. \A k \in Pipes \ {i} : Still(k)
  BY <1>1 DEF Still, SameFields
<1>6. /\ outq[i].out_seq \in Nat /\ LastWritten(i)' = outq[i].out_seq
      /\ Consecutive(outq'[i], submitted[Owner(i)])
      /\ Base(outq'[i]) = Base(outq[i]) /\ Top(outq[i]) <= Top(outq'[i])
      /\ wr'[i] = "msg" => /\ loc'[i].msg.id = loc'[i].msg.seq /\ 1 <= loc'[i].msg.seq
                           /\ loc'[i].msg.seq = outq'[i].out_seq
                           /\ loc'[i].msg.seq <= Top(outq'[i])
  <2>1. Good(outq[i], Ids) /\ Consecutive(outq[i], submitted[Owner(i)])
    BY <1>2, SaneNow DEF Sane, CInv, SessionOK
  <2>2. outq[i].out_seq \in Nat /\ Top(outq[i]) \in Nat
    BY <2>1, QueueNumbers
  <2>3. CASE wr'[i] = "msg"
    <3>1. /\ Consecutive(outq'[i], submitted[Owner(i)])
          /\ Base(outq'[i]) = Base(outq[i]) /\ Top(outq[i]) <= Top(outq'[i])
          /\ outq'[i].out_seq = outq[i].out_seq + 1
          /\ outq[i].out_seq + 1 <= Top(outq'[i])
          /\ loc'[i].msg.id = outq[i].out_seq + 1 /\ loc'[i].msg.seq = outq[i].out_seq + 1
      BY <1>1, <2>1, <2>3, TransmitConsecutive
    <3>2. LastWritten(i)' = outq'[i].out_seq - 1
      BY <2>3 DEF LastWritten
    <3>3. 1 <= outq[i].out_seq + 1 /\ (outq[i].out_seq + 1) - 1 = outq[i].out_seq
      BY <2>2
    <3>4. LastWritten(i)' = outq[i].out_seq
      BY <3>1, <3>2, <3>3
    <3> QED BY <2>2, <3>1, <3>3, <3>4
  <2>4. CASE wr'[i] # "msg"
    BY <1>1, <2>1, <2>2, <2>4 DEF LastWritten
  <2> QED BY <2>3, <2>4
<1>7. CarriesOn(i, i)
  <2>1. InUse(i)' /\ ~Tentative(i)'
    BY <1>1, <1>2 DEF InUse, Tentative
  <2>2. pipe'[i].in_seq = pipe[i].in_seq /\ pipe'[i].connect_seq = pipe[i].connect_seq
    BY <1>1 DEF SameFields
  <2>3. pipe[i].in_seq \in Nat
    BY SaneNow DEF Sane
  <2> QED BY <1>6, <2>1, <2>2, <2>3 DEF CarriesOn
<1>8. ASSUME NEW x \in Pipes, Live(sock, i), x = sock[i].peer
      PROVE  rd[x] # "accept" /\ Owner(x) = Other(Owner(i))
  <2>1. Settled(i, x)
    BY <1>1, <1>8, LoopSettled
  <2>2. wr[x] = "await" => rd[x] # "accept"
    BY Waiting
  <2>3. Owner(x) = Other(Owner(i))
    BY <1>8 DEF WInv, LinkInv
  <2> QED BY <2>1, <2>2, <2>3 DEF Settled, Joined
<1>9. StepOf(i)
  <2>1. \A k \in Pipes \ {i} :
         sock'[k].in = sock[k].in \/ (Live(sock', i) /\ k = sock[i].peer /\ rd[k] # "accept")
    <3> SUFFICES ASSUME NEW k \in Pipes \ {i}, sock'[k].in # sock[k].in
                 PROVE  Live(sock', i) /\ k = sock[i].peer /\ rd[k] # "accept"
      OBVIOUS
    <3>1. k = sock[i].peer
      BY <1>3
    <3>2. Live(sock, i) /\ Live(sock', i)
      BY <1>3, <3>1, NoneIsNoPipe DEF Live
    <3> QED BY <1>8, <3>1, <3>2
  <2>2. wr'[i] # "join" /\ ~Attempting(i)'
    BY <1>1 DEF Writes, Attempting
  <2> QED BY <1>1, <1>3, <1>5, <2>1, <2>2 DEF StepOf
<1>10. Grows
  BY <1>7, <1>9, StepGrows
<1>11. NewFramesOK
  <2> SUFFICES ASSUME NEW k \in Pipes, NEW f \in Elements(sock'[k].in)
               PROVE  f \in Elements(sock[k].in) \/ (FrameOK(Owner(k), f)' /\ f.kind # "connect")
    BY DEF NewFramesOK
  <2>1. CASE sock'[k].in = sock[k].in
    BY <2>1
  <2>2. CASE sock'[k].in # sock[k].in
    <3>1. k = sock[i].peer /\ Live(sock, i) /\ Writing(i)
      BY <1>3, <2>2, NoneIsNoPipe DEF Live
    <3>2. PICK g : g = WriteFrame(i)
      OBVIOUS
    <3>3. g \in Frames /\ g.kind # "connect" /\ FrameOK(Owner(k), g)
      <4>1. /\ g \in Frames /\ g.kind \in {"keepalive", "keepalive_ack", "ack", "msg"}
            /\ FrameOK(Other(Owner(i)), g)
        BY <1>1, <3>1, <3>2, FrameWritten
      <4> QED BY <1>8, <3>1, <4>1
    <3>4. FrameOK(Owner(k), g)'
      BY <1>10, <3>3, FrameGrows, OwnerIsPeer
    <3>5. PICK s \in Seq(Frames) : s = sock[k].in
      BY InIsSeq
    <3>6. Elements(Append(s, g)) = Elements(s) \cup {g}
      BY <3>3, ElementsAppend
    <3>7. sock'[k].in = Append(s, g)
      <4>1. wr[i] # "loop"
        BY <3>1, WritingParts
      <4> QED BY <1>3, <3>1, <3>2, <3>5, <4>1
    <3>8. f \in Elements(s) \/ f = g
      BY <3>6, <3>7
    <3> QED BY <3>3, <3>4, <3>5, <3>8
  <2> QED BY <2>1, <2>2
<1> QED BY <1>2, <1>3, <1>4, <1>5, <1>6, <1>9, <1>10, <1>11

(* A write keeps the invariant: what it says is so when it arrives.        *)
LEMMA WritesCInv ==
  ASSUME TInv, WInv, CInv, TInv', WInv', NEW i \in Pipes, Writes(i)
  PROVE  CInv'
<1>1. /\ StepOf(i) /\ NewFramesOK /\ Grows /\ InUse(i)
      /\ rd[i] \notin {"accept", "reply", "seq"} /\ Severing(sock')
      /\ \A k \in Pipes : sock'[k].peer = sock[k].peer
      /\ \A k \in Pipes \ {i} : Still(k) /\ (k # sock[i].peer => sock'[k].in = sock[k].in)
      /\ sock'[i].in = sock[i].in
      /\ \/ wr[i] = "loop" /\ sock' = sock
         \/ /\ Writing(i)
            /\ Live(sock, i) =>
                 sock'[sock[i].peer].in = Append(sock[sock[i].peer].in, WriteFrame(i))
      /\ outq[i].out_seq \in Nat /\ LastWritten(i)' = outq[i].out_seq
      /\ Consecutive(outq'[i], submitted[Owner(i)])
      /\ Base(outq'[i]) = Base(outq[i]) /\ Top(outq[i]) <= Top(outq'[i])
      /\ wr'[i] = "msg" => /\ loc'[i].msg.id = loc'[i].msg.seq /\ 1 <= loc'[i].msg.seq
                           /\ loc'[i].msg.seq = outq'[i].out_seq
                           /\ loc'[i].msg.seq <= Top(outq'[i])
  BY WritesBasics
<1>2. /\ state[i] = "open" /\ InLoop(i) /\ wr[i] \notin {"none", "join", "await"}
      /\ wr'[i] \in {"loop", "keepalive", "keepalive_ack", "ack", "msg"}
      /\ state' = state /\ rd' = rd /\ global_seq' = global_seq /\ submitted' = submitted
      /\ in_q' = in_q /\ delivered' = delivered
      /\ \A k \in Pipes : SameFields(pipe'[k], pipe[k])
      /\ loc'[i].id = loc[i].id
      /\ wr'[i] = "ack" => loc'[i].seq = pipe[i].in_seq
  BY DEF Writes
<1>3. /\ pipe'[i].connect_seq = pipe[i].connect_seq /\ pipe'[i].in_seq = pipe[i].in_seq
      /\ pipe'[i].peer_global_seq = pipe[i].peer_global_seq
      /\ pipe'[i].conn_id = pipe[i].conn_id /\ pipe'[i].lossy = pipe[i].lossy
  BY <1>2 DEF SameFields
<1>4. NoSession' /\ \A p \in Peers : ReceivedOK(p)'
  BY <1>1, <1>2, <1>3, NothingReceived DEF InUse
<1>5. InUse(i)' /\ ~Tentative(i)' /\ ~Attempting(i)'
  BY <1>1, <1>2 DEF InUse, Tentative, Attempting
<1>6. PipeOK(i)'
  <2>1. WriterOK(i)'
    <3>1. InSeq(Owner(i))' = pipe'[i].in_seq /\ Sent(Owner(i))' = Top(outq'[i])
      BY <1>5, PeerValuesLater, OwnerIsPeer
    <3>2. pipe'[i].in_seq \in Nat
      BY SaneLater DEF Sane
    <3>3. wr'[i] = "ack" => loc'[i].seq <= InSeq(Owner(i))'
      BY <1>2, <1>3, <3>1, <3>2
    <3> QED BY <1>1, <1>2, <3>1, <3>3 DEF WriterOK
  <2>2. PipeOK(i)
    BY DEF CInv
  <2>3. ~pipe'[i].lossy /\ pipe'[i].conn_id \in ConnIds
    BY <1>2, <1>3, <2>2 DEF PipeOK
  <2>4. \A f \in Elements(sock'[i].in) : f.kind # "connect"
    BY <1>1, <2>2 DEF PipeOK
  <2> QED BY <1>1, <1>2, <2>1, <2>3, <2>4 DEF PipeOK, WriterOK
<1>7. SessionOK(i)'
  <2>1. SessionOK(i) /\ pipe[i].connect_seq # 0
    <3>1. SessionOK(i)
      BY DEF CInv
    <3> QED BY <1>1, <1>2, <3>1 DEF SessionOK, Fresh
  <2>2. PICK q \in Peers : q = Other(Owner(i))
    BY OwnerIsPeer, OtherPeer
  <2>3. InSeq(q) <= InSeq(q)' /\ Sent(q) <= Sent(q)' /\ (Known(q) => Known(q)')
    BY <1>1 DEF Grows
  <2>4. InSeq(q) \in Nat /\ InSeq(q)' \in Nat /\ Sent(q) \in Nat /\ Sent(q)' \in Nat
    BY PeerTypes, PeerTypesLater
  <2>5. Base(outq[i]) <= InSeq(q) /\ pipe[i].in_seq <= Sent(q) /\ Known(q)
    <3>1. pipe[i].connect_seq > 0
      BY <2>1, SaneNow DEF Sane
    <3> QED BY <1>1, <2>1, <2>2, <3>1 DEF SessionOK
  <2>6. Base(outq[i]) \in Nat /\ pipe[i].in_seq \in Nat
    BY SaneNow, QueueNumbers DEF Sane
  <2>7. Base(outq'[i]) <= InSeq(q)' /\ pipe'[i].in_seq <= Sent(q)'
    <3>1. \A a, b, c \in Nat : a <= b /\ b <= c => a <= c
      OBVIOUS
    <3>2. Base(outq[i]) <= InSeq(q)' /\ pipe[i].in_seq <= Sent(q)'
      BY <2>3, <2>4, <2>5, <2>6, <3>1
    <3> QED BY <1>1, <1>3, <3>2
  <2> QED BY <1>1, <1>2, <1>3, <1>5, <2>1, <2>2, <2>3, <2>5, <2>7 DEF SessionOK
<1>8. NoNewAttempts
  BY <1>1, StepNoNewAttempts
<1>9. NextOnes(i)' /\ Guarded(i)'
  <2>1. NextOnes(i)'
    <3>1. NextOnes(i)
      BY DEF CInv
    <3>2. Listens(i)' \/ Awaits(i)' => Listens(i)
      BY <1>1, <1>2, <1>5 DEF Listens, Awaits
    <3> QED BY <1>1, <1>3, <3>1, <3>2 DEF NextOnes, Climbs
  <2>2. ~Awaits(i)' /\ (Listens(i)' => Listens(i))
    BY <1>1, <1>2 DEF Listens, Awaits
  <2>3. TrustsOpen(i)' => TrustsOpen(i)
    BY <1>1, <1>2, <1>3, <2>2 DEF TrustsOpen, HasMsg, Live
  <2>4. \A b \in Nat : ~TrustsReply(i, b)'
    BY <2>2 DEF TrustsReply
  <2> QED BY <1>3, <1>8, <2>1, <2>3, <2>4, GuardedKept DEF CInv
<1>10. ASSUME NEW x \in Pipes, Live(sock', i), x = sock[i].peer
       PROVE  NextOnes(x)' /\ Guarded(x)' /\ Linked(i, x)' /\ Linked(x, i)'
  <2>1. Live(sock, i)
    BY <1>1, <1>10 DEF Live
  <2>2. x # i /\ sock[x].peer = i /\ Live(sock, x)
    BY <1>10, <2>1, PeerIsPipe
  <2>3. Linked(i, x) /\ Linked(x, i)
    BY <1>10, <2>1, <2>2 DEF CInv, PairOK
  <2>4. Settled(i, x)
    BY <1>2, <1>10, <2>1, LoopSettled
  <2>5. Still(x)
    BY <1>1, <2>2
  <2>6. PICK s \in Seq(Frames), n \in Nat, f \in Frames, m \in Nat :
          /\ s = sock[x].in /\ n = pipe[x].in_seq /\ m = LastWritten(i)
          /\ \/ sock'[x].in = s /\ m = outq[i].out_seq
             \/ /\ sock'[x].in = Append(s, f) /\ f.kind \notin {"connect", "reply", "seq"}
                /\ f.kind # "msg" => m = outq[i].out_seq
                /\ f.kind = "msg" => f.msg.seq = m + 1 /\ m + 1 = outq[i].out_seq
    <3>1. sock[x].in \in Seq(Frames) /\ pipe[x].in_seq \in Nat
      BY SaneNow DEF Sane
    <3>2. LastWritten(i) \in Nat
      BY <1>2, LastIsNat
    <3>3. CASE wr[i] = "loop" /\ sock' = sock
      <4>1. LastWritten(i) = outq[i].out_seq
        BY <3>3 DEF LastWritten
      <4>2. [kind |-> "keepalive"] \in Frames
        BY FrameTypes
      <4> QED BY <3>1, <3>2, <3>3, <4>1, <4>2
    <3>4. CASE Writing(i) /\ sock'[x].in = Append(sock[x].in, WriteFrame(i))
      <4>1. PICK g : g = WriteFrame(i)
        OBVIOUS
      <4>2. /\ g \in Frames /\ g.kind \in {"keepalive", "keepalive_ack", "ack", "msg"}
            /\ g.kind = "msg" <=> wr[i] = "msg"
            /\ wr[i] = "msg" => g.msg.seq = LastWritten(i) + 1
        BY <1>2, <3>4, <4>1, FrameWritten
      <4>3. wr[i] # "msg" => LastWritten(i) = outq[i].out_seq
        BY DEF LastWritten
      <4>4. wr[i] = "msg" => LastWritten(i) + 1 = outq[i].out_seq
        BY <1>1 DEF LastWritten
      <4>5. sock'[x].in = Append(sock[x].in, g)
        BY <3>4, <4>1
      <4> QED BY <3>1, <3>2, <4>2, <4>3, <4>4, <4>5
    <3> QED BY <1>1, <1>10, <2>1, <3>3, <3>4
  <2>7. /\ state'[x] = state[x] /\ rd'[x] = rd[x] /\ wr'[x] = wr[x] /\ loc'[x] = loc[x]
        /\ outq'[x] = outq[x] /\ pipe'[x].in_seq = n
        /\ pipe'[x].peer_global_seq = pipe[x].peer_global_seq
    BY <2>5, <2>6 DEF Still
  <2>8. Listens(x) \/ Awaits(x) => state[x] # "closed"
    BY DEF Listens, Awaits, InUse
  <2>9. state[x] # "closed" => Ends(s, n, m)
    BY <1>2, <2>3, <2>6 DEF Linked
  <2>10. NextOnes(x)'
    <3> SUFFICES ASSUME Listens(x)' \/ Awaits(x)'
                 PROVE  Climbs(sock'[x].in, n)
      BY <2>7 DEF NextOnes, Climbs
    <3>1. Listens(x) \/ Awaits(x)
      BY <2>7 DEF Listens, Awaits, InUse
    <3>2. Climbs(s, n) /\ Ends(s, n, m)
      BY <2>6, <2>8, <2>9, <3>1 DEF CInv, NextOnes
    <3> QED BY <2>6, <3>2, ClimbsAppend
  <2>11. wr[x] = "await" => sock[x].in # <<>> /\ Head(sock'[x].in) = Head(sock[x].in)
                              /\ sock'[x].in # <<>>
    <3> SUFFICES ASSUME wr[x] = "await"
                 PROVE  sock[x].in # <<>> /\ Head(sock'[x].in) = Head(sock[x].in)
                          /\ sock'[x].in # <<>>
      OBVIOUS
    <3>1. sock[x].in # <<>>
      BY <2>4, Waiting DEF Settled, Joined, Opened, Told
    <3> QED BY <2>6, <3>1, OneFrame
  <2>12. Guarded(x)'
    <3>1. TrustsOpen(x)' => TrustsOpen(x)
      <4> SUFFICES ASSUME TrustsOpen(x)', ~TrustsOpen(x) PROVE FALSE
        OBVIOUS
      <4>1. ~(InUse(x)' /\ n > 0)
        BY <2>6, <2>7 DEF TrustsOpen, InUse
      <4>2. ~(Live(sock', x) /\ state'[x] = "open" /\ state'[sock'[x].peer] = "open")
        BY <1>1, <1>2, <2>2, <2>7 DEF TrustsOpen, Live
      <4>3. Listens(x)'
        BY <2>7, <4>1, <4>2 DEF TrustsOpen, InUse
      <4>4. Listens(x)
        BY <2>7, <4>3 DEF Listens, InUse
      <4>5. state[x] = "open"
        <5>1. wr[x] # "await" /\ rd[x] # "sleep" /\ rd[x] # "none"
          BY <4>4, Waiting DEF Listens
        <5> QED BY <2>4, <5>1 DEF Settled, Joined, Opened
      <4> QED BY <1>2, <2>2, <4>5 DEF TrustsOpen
    <3>2. \A b \in Nat : TrustsReply(x, b)' => TrustsReply(x, b)
      BY <1>1, <1>2, <2>2, <2>7, <2>11 DEF TrustsReply, Awaits, Answer, Live
    <3> QED BY <1>8, <2>7, <3>1, <3>2, GuardedKept DEF CInv
  <2>13. Linked(i, x)'
    <3>1. (state[i] = "open" /\ wr[i] # "none" /\ state[x] # "closed"
             => Ends(sock[x].in, pipe[x].in_seq, LastWritten(i)))'
      <4> SUFFICES ASSUME state[x] # "closed"
                   PROVE  (Ends(sock[x].in, pipe[x].in_seq, LastWritten(i)))'
        BY <2>7
      <4>1. Ends(s, n, m)
        BY <2>9
      <4>2. PICK t, k : t = sock'[x].in /\ k = outq[i].out_seq /\ k \in Nat
        BY <1>1
      <4>3. Ends(t, n, k)
        BY <2>6, <4>1, <4>2, EndsAppend
      <4>4. sock'[x].in = t /\ pipe'[x].in_seq = n /\ LastWritten(i)' = k
        BY <1>1, <2>7, <4>2
      <4> QED BY <4>3, <4>4 DEF Ends
    <3>2. wr'[i] \notin {"none", "await"} /\ rd'[i] # "seq"
      BY <1>1, <1>2
    <3>3. Awaits(x) /\ state[i] = "open" =>
            /\ pipe[i].peer_global_seq = loc[x].gseq
            /\ sock[x].in # <<>> /\ Answer(x).tag = "SEQ" => Answer(x).acked = pipe[i].in_seq
      BY <2>3 DEF Linked
    <3>4. (Awaits(x) /\ state[i] = "open" =>
            /\ pipe[i].peer_global_seq = loc[x].gseq
            /\ rd[i] = "reply" /\ loc[i].reply.tag = "SEQ" => loc[i].reply.acked = pipe[i].in_seq
            /\ sock[x].in # <<>> /\ Answer(x).tag = "SEQ" => Answer(x).acked = pipe[i].in_seq)'
      BY <1>1, <1>2, <1>3, <2>7, <2>11, <3>3 DEF Awaits, Answer
    <3> QED BY <3>1, <3>2, <3>4 DEF Linked
  <2>14. Linked(x, i)'
    <3>1. (state[x] = "open" /\ wr[x] # "none" /\ state[i] # "closed"
             => Ends(sock[i].in, pipe[i].in_seq, LastWritten(x)))'
      <4>1. state[x] = "open" /\ wr[x] # "none" /\ state[i] # "closed"
              => Ends(sock[i].in, pipe[i].in_seq, LastWritten(x))
        BY <2>3 DEF Linked
      <4>2. LastWritten(x)' = LastWritten(x)
        BY <2>7 DEF LastWritten
      <4>3. sock'[i].in = sock[i].in /\ pipe'[i].in_seq = pipe[i].in_seq
        BY <1>1, <1>3
      <4>4. state'[x] = state[x] /\ wr'[x] = wr[x] /\ (state[i] = "closed" => state'[i] = "closed")
        BY <1>1, <1>2, <2>7
      <4> QED BY <4>1, <4>2, <4>3, <4>4 DEF Ends
    <3>2. (wr[x] = "none" => Only(sock[i].in, "reply"))'
      <4>1. wr[x] = "none" => Only(sock[i].in, "reply")
        BY <2>3 DEF Linked
      <4> QED BY <1>1, <2>7, <4>1 DEF Only
    <3>3. (wr[x] = "await" => Only(sock[i].in, "connect"))'
      <4>1. wr[x] = "await" => Only(sock[i].in, "connect")
        BY <2>3 DEF Linked
      <4> QED BY <1>1, <2>7, <4>1 DEF Only
    <3>4. ~Awaits(i)'
      BY <1>2 DEF Awaits
    <3>5. (rd[x] = "seq" /\ state[i] # "closed" =>
             \A g \in Elements(sock[x].in) : g.kind = "seq" => g.seq = pipe[i].in_seq)'
      <4> SUFFICES ASSUME rd[x] = "seq", state[i] # "closed", NEW h \in Elements(sock'[x].in),
                          h.kind = "seq"
                   PROVE  h.seq = pipe[i].in_seq
        BY <1>2, <1>3, <2>7
      <4>1. \A g \in Elements(s) : g.kind = "seq" => g.seq = pipe[i].in_seq
        BY <2>3, <2>6 DEF Linked
      <4>2. h \in Elements(s)
        <5>1. Elements(Append(s, f)) = Elements(s) \cup {f}
          BY ElementsAppend
        <5> QED BY <2>6, <5>1
      <4> QED BY <4>1, <4>2
    <3> QED BY <3>1, <3>2, <3>3, <3>4, <3>5 DEF Linked
  <2> QED BY <2>10, <2>12, <2>13, <2>14
<1> QED BY <1>1, <1>4, <1>6, <1>7, <1>9, <1>10, OneStep

(* A step of Pipe i that leaves it without a peer, whatever its threads do *)
(* then.  Its session goes on, unless nobody has been told of it.          *)
Drops(i) ==
  /\ Severing(sock') /\ ~Live(sock', i)
  /\ \A k \in Pipes \ {i} : Still(k) /\ sock'[k].in = sock[k].in
  /\ global_seq' = global_seq /\ submitted' = submitted /\ in_q' = in_q /\ delivered' = delivered
  /\ sock'[i].in = sock[i].in \/ sock'[i].in = <<>>
  /\ rd[i] = "accept" => sock'[i].in = <<>>
  /\ \/ rd'[i] \in {"none", "sleep"} /\ rd[i] # "dispatch"
     \/ rd'[i] = rd[i] /\ rd[i] \in {"none", "sleep", "read", "dispatch"} /\ loc'[i].id = loc[i].id
  /\ \/ wr'[i] \in {"none", "loop"}
     \/ WriterKept(i) /\ wr[i] # "await"
  /\ state'[i] \in {"free", "connecting", "standby", "closed"}
  /\ ~pipe'[i].lossy /\ (state'[i] # "free" => pipe'[i].conn_id \in ConnIds)
  /\ InUse(i)' =>
       /\ InUse(i) /\ wr'[i] # "none" /\ (rd[i] = "none" => rd'[i] = "none")
       /\ pipe'[i].in_seq = pipe[i].in_seq /\ pipe'[i].conn_id = pipe[i].conn_id
       /\ pipe'[i].peer_global_seq = pipe[i].peer_global_seq
       /\ pipe'[i].connect_seq > 0 <=> pipe[i].connect_seq > 0
       /\ Top(outq'[i]) = Top(outq[i]) /\ Consecutive(outq'[i], submitted[Owner(i)])
       /\ Base(outq'[i]) = Base(outq[i]) \/ Base(outq'[i]) <= InSeq(Other(Owner(i)))
  /\ InUse(i) /\ ~InUse(i)' =>
       Tentative(i) /\ pipe[i].in_seq = 0 /\ Top(outq[i]) = 0 /\ submitted[Owner(i)] = 0

(* A list of length 0 is empty.                                            *)
LEMMA NoLength ==
  ASSUME NEW S, NEW s \in Seq(S), Len(s) = 0
  PROVE  s = <<>>
OBVIOUS

(* A session that ends so has received nothing and was to send nothing.    *)
LEMMA EndedReceived ==
  ASSUME TInv, CInv, TInv', NEW i \in Pipes, Drops(i), InUse(i), ~InUse(i)'
  PROVE  NoSession' /\ \A p \in Peers : ReceivedOK(p)'
<1>1. PICK p \in Peers : p = Owner(i)
  BY OwnerIsPeer
<1>2. /\ rd[i] = "reply" /\ pipe[i].in_seq = 0 /\ submitted'[p] = 0
      /\ in_q' = in_q /\ delivered' = delivered /\ submitted' = submitted
      /\ \A k \in Pipes \ {i} : Still(k)
      /\ rd'[i] # "dispatch"
  BY <1>1 DEF Drops, Tentative
<1>3. Lookup(p)' = None
  <2> SUFFICES ASSUME Lookup(p)' # None PROVE FALSE
    OBVIOUS
  <2>1. PICK e : e = Lookup(p)'
    OBVIOUS
  <2>2. e \in Pipes /\ Owner(e) = p /\ InUse(e)'
    BY <2>1, LookupInUseLater
  <2>3. e # i
    BY <2>2
  <2>4. InUse(e)
    BY <1>2, <2>2, <2>3 DEF Still, InUse
  <2> QED BY <1>1, <2>2, <2>3, <2>4, InUseLookup
<1>4. /\ \A c \in ConnIds : in_q[p][c] # <<>> => c = pipe[i].conn_id
      /\ Len(delivered[p]) + Len(in_q[p][pipe[i].conn_id]) + InHand(i) = 0
      /\ \A j \in Pipes : Owner(j) = p /\ rd[j] = "dispatch" => j = i
  <2>1. ReceivedOK(p)
    BY <1>1 DEF CInv
  <2>2. /\ \A c \in ConnIds : in_q[p][c] # <<>> => c = pipe[i].conn_id /\ ~FastDispatch
        /\ \A j \in Pipes : Owner(j) = p /\ rd[j] = "dispatch" => FastDispatch /\ j = i
        /\ Len(delivered[p]) + Len(in_q[p][pipe[i].conn_id]) + InHand(i) = pipe[i].in_seq
    BY <1>1, <2>1, ReceivedBy
  <2> QED BY <1>2, <2>2
<1>5. pipe[i].conn_id \in ConnIds
  BY DEF CInv, PipeOK, InUse
<1>6. delivered[p] = <<>> /\ in_q[p][pipe[i].conn_id] = <<>>
  <2>1. delivered[p] \in Seq(Ids) /\ in_q[p][pipe[i].conn_id] \in Seq(Ids)
    BY <1>5 DEF TInv, DataOK
  <2>2. InHand(i) = 0
    BY <1>2 DEF InHand
  <2>3. PICK a \in Nat, b \in Nat : a = Len(delivered[p]) /\ b = Len(in_q[p][pipe[i].conn_id])
    BY <2>1
  <2>4. a + b + 0 = 0
    BY <1>4, <2>2, <2>3
  <2>5. a = 0 /\ b = 0
    BY <2>4
  <2> QED BY <2>1, <2>3, <2>5, NoLength
<1>7. ReceivedOK(p)'
  <2>1. Numbers(delivered'[p], 0)
    BY <1>2, <1>6 DEF Numbers
  <2>2. \A c \in ConnIds : in_q'[p][c] = <<>>
    BY <1>2, <1>4, <1>6
  <2>3. \A j \in Pipes : Owner(j) = p => rd'[j] # "dispatch"
    BY <1>2, <1>4 DEF Still
  <2> QED BY <1>2, <1>3, <1>6, <2>1, <2>2, <2>3 DEF ReceivedOK, Numbers
<1>8. ASSUME NEW r \in Peers, r # p
      PROVE  ReceivedOK(r)' /\ (Lookup(r)' = None => submitted'[r] = 0)
  <2>1. Lookup(r)' = Lookup(r)
    <3>1. CASE Lookup(r) # None
      <4>1. PICK e : e = Lookup(r)
        OBVIOUS
      <4>2. e \in Pipes /\ Owner(e) = r /\ InUse(e)
        BY <3>1, <4>1, LookupInUse
      <4>3. InUse(e)'
        BY <1>1, <1>2, <1>8, <4>2 DEF Still, InUse
      <4> QED BY <4>1, <4>2, <4>3, InUseLookupLater
    <3>2. CASE Lookup(r)' # None
      <4>1. PICK e : e = Lookup(r)'
        OBVIOUS
      <4>2. e \in Pipes /\ Owner(e) = r /\ InUse(e)'
        BY <3>2, <4>1, LookupInUseLater
      <4>3. InUse(e)
        BY <1>1, <1>2, <1>8, <4>2 DEF Still, InUse
      <4> QED BY <4>1, <4>2, <4>3, InUseLookup
    <3> QED BY <3>1, <3>2
  <2>2. \A k \in Pipes : k = Lookup(r) => Owner(k) = r
    BY LookupInUse, NoneIsNoPipe
  <2>3. \A k \in Pipes : Owner(k) = r => Still(k)
    BY <1>1, <1>2, <1>8
  <2>4. ReceivedOK(r)'
    BY <1>2, <2>1, <2>2, <2>3, ReceivedKept DEF CInv, Still
  <2> QED BY <1>2, <2>1, <2>4 DEF CInv, NoSession
<1> QED BY <1>2, <1>3, <1>7, <1>8 DEF NoSession

(* A Pipe that loses its connection keeps what its peer has not got.       *)
LEMMA DropsCInv ==
  ASSUME TInv, WInv, CInv, TInv', WInv', NEW i \in Pipes, Drops(i)
  PROVE  CInv'
<1>1. PipeOK(i) /\ SessionOK(i) /\ NextOnes(i) /\ Guarded(i)
  BY DEF CInv
<1>2. PICK q \in Peers : q = Other(Owner(i))
  BY OwnerIsPeer, OtherPeer
<1>3. wr'[i] # "await"
  BY DEF Drops, WriterKept
<1>4. StepOf(i)
  <2>1. wr'[i] = "join" => WriterKept(i)
    BY DEF Drops
  <2>2. Attempting(i)' => Attempting(i) /\ wr'[i] = wr[i] /\ loc'[i].gseq = loc[i].gseq
    <3> SUFFICES ASSUME Attempting(i)'
                 PROVE  Attempting(i) /\ wr'[i] = wr[i] /\ loc'[i].gseq = loc[i].gseq
      OBVIOUS
    <3>1. WriterKept(i) /\ wr[i] = "join"
      BY <1>3, <2>1 DEF Attempting, WriterKept
    <3>2. InUse(i)
      BY DEF Attempting, Drops, InUse
    <3>3. state[i] \in {"connecting", "closed"}
      BY <3>1 DEF WInv, EndInv
    <3> QED BY <3>1, <3>2, <3>3 DEF Attempting, WriterKept, InUse
  <2> QED BY <2>1, <2>2 DEF Drops, StepOf, WriterKept
<1>5. NewFramesOK
  <2>1. \A k \in Pipes : sock'[k].in = sock[k].in \/ sock'[k].in = <<>>
    BY DEF Drops
  <2> QED BY <2>1, ElementsEmpty DEF NewFramesOK
<1>6. InUse(i)' => CarriesOn(i, i)
  <2>1. Top(outq[i]) \in Nat /\ pipe[i].in_seq \in Nat
    BY SaneNow, QueueNumbers DEF Sane
  <2>2. rd'[i] # "reply"
    BY DEF Drops
  <2> QED BY <2>1, <2>2 DEF Drops, CarriesOn, Tentative
<1>7. Grows
  BY <1>4, <1>6, StepGrows DEF Drops
<1>8. NoSession' /\ \A p \in Peers : ReceivedOK(p)'
  <2>1. CASE InUse(i) /\ ~InUse(i)'
    BY <2>1, EndedReceived
  <2>2. CASE InUse(i)' <=> InUse(i)
    <3>1. /\ \A k \in Pipes \ {i} : Still(k)
          /\ in_q' = in_q /\ delivered' = delivered /\ submitted' = submitted
          /\ rd'[i] = "dispatch" <=> rd[i] = "dispatch"
          /\ rd[i] = "dispatch" => loc'[i].id = loc[i].id
      BY DEF Drops
    <3>2. InUse(i) => pipe'[i].in_seq = pipe[i].in_seq /\ pipe'[i].conn_id = pipe[i].conn_id
      BY <2>2 DEF Drops
    <3> QED BY <2>2, <3>1, <3>2, NothingReceived
  <2> QED BY <2>1, <2>2 DEF Drops
<1>9. PipeOK(i)'
  <2>1. WriterOK(i)'
    <3>1. CASE wr'[i] \in {"none", "loop"}
      BY <3>1 DEF WriterOK
    <3>2. CASE WriterKept(i)
      BY <1>1, <1>7, <3>2, WriterStays DEF Drops
    <3> QED BY <3>1, <3>2 DEF Drops
  <2>2. \A f \in Elements(sock'[i].in) : f.kind # "connect"
    <3>1. sock'[i].in = <<>> \/ (rd[i] # "accept" /\ sock'[i].in = sock[i].in)
      BY DEF Drops
    <3> QED BY <1>1, <3>1, ElementsEmpty DEF PipeOK
  <2>3. rd'[i] \notin {"accept", "reply", "seq"}
    BY DEF Drops
  <2> QED BY <2>1, <2>2, <2>3 DEF Drops, PipeOK, WriterOK
<1>10. SessionOK(i)'
  <2> SUFFICES ASSUME InUse(i)' PROVE SessionOK(i)'
    BY DEF SessionOK
  <2>1. /\ InUse(i) /\ wr'[i] # "none" /\ (rd[i] = "none" => rd'[i] = "none")
        /\ pipe'[i].in_seq = pipe[i].in_seq
        /\ pipe'[i].connect_seq > 0 <=> pipe[i].connect_seq > 0
        /\ Top(outq'[i]) = Top(outq[i]) /\ Consecutive(outq'[i], submitted[Owner(i)])
        /\ Base(outq'[i]) = Base(outq[i]) \/ Base(outq'[i]) <= InSeq(q)
        /\ submitted' = submitted /\ global_seq' = global_seq
    BY <1>2 DEF Drops
  <2>2. InSeq(q) <= InSeq(q)' /\ Sent(q) <= Sent(q)' /\ (Known(q) => Known(q)')
    BY <1>7 DEF Grows
  <2>3. InSeq(q) \in Nat /\ InSeq(q)' \in Nat /\ Sent(q) \in Nat /\ Sent(q)' \in Nat
    BY PeerTypes, PeerTypesLater
  <2>4. pipe[i].in_seq \in Nat /\ pipe[i].connect_seq \in Nat /\ Base(outq[i]) \in Nat
    BY SaneNow, QueueNumbers DEF Sane
  <2>5. pipe'[i].connect_seq \in Nat
    BY SaneLater DEF Sane
  <2>6. Base(outq[i]) <= InSeq(q) /\ pipe[i].in_seq <= Sent(q)
        /\ (pipe[i].connect_seq > 0 => Known(q)) /\ (pipe[i].connect_seq = 0 => Fresh(i))
    BY <1>1, <1>2, <2>1 DEF SessionOK
  <2>7. Base(outq'[i]) \in Nat
    <3>1. Sane(i)'
      BY SaneLater
    <3>2. PICK s : s = outq'[i]
      OBVIOUS
    <3>3. Good(s, Ids)
      BY <3>1, <3>2 DEF Sane
    <3> QED BY <3>2, <3>3, QueueNumbers
  <2>8. Base(outq'[i]) <= InSeq(q)'
    BY <2>1, <2>2, <2>3, <2>4, <2>6, <2>7
  <2>9. pipe'[i].in_seq <= Sent(q)'
    BY <2>1, <2>2, <2>3, <2>4, <2>6
  <2>10. ~Tentative(i)'
    BY DEF Drops, Tentative
  <2>11. pipe'[i].connect_seq > 0 => Known(q)'
    BY <2>1, <2>2, <2>6
  <2>12. pipe'[i].connect_seq = 0 => Fresh(i)'
    <3> SUFFICES ASSUME pipe'[i].connect_seq = 0 PROVE Fresh(i)'
      OBVIOUS
    <3>1. Fresh(i)
      BY <2>1, <2>4, <2>5, <2>6
    <3>2. state'[i] \in {"connecting", "standby", "wait"}
      BY DEF Drops, InUse
    <3>3. wr'[i] \in {"loop", "join", "await"}
      BY <2>1, <3>1 DEF Drops, WriterKept, Fresh
    <3> QED BY <2>1, <3>1, <3>2, <3>3 DEF Fresh
  <2>13. Attempting(i)' => loc'[i].gseq = global_seq'[Owner(i)]
    BY <1>1, <1>4, <2>1 DEF StepOf, SessionOK
  <2> QED BY <1>2, <2>1, <2>8, <2>9, <2>10, <2>11, <2>12, <2>13 DEF SessionOK
<1>11. ~Awaits(i)'
  BY <1>3 DEF Awaits
<1>12. Listens(i)' => Listens(i) /\ pipe'[i].in_seq = pipe[i].in_seq
  BY DEF Listens, Drops
<1>13. NextOnes(i)'
  <2> SUFFICES ASSUME Listens(i)' PROVE Climbs(sock'[i].in, pipe'[i].in_seq)
    BY <1>11 DEF NextOnes, Climbs
  <2>1. CASE sock'[i].in = sock[i].in
    BY <1>1, <1>12, <2>1 DEF NextOnes
  <2>2. CASE sock'[i].in = <<>>
    <3>1. pipe[i].in_seq \in Nat
      BY SaneNow DEF Sane
    <3>2. PICK n \in Nat : n = pipe[i].in_seq
      BY <3>1
    <3>3. ~HasMsg(<<>>)
      BY ElementsEmpty DEF HasMsg
    <3>4. Climbs(<<>>, n)
      BY <3>2, <3>3, NoMsgs
    <3> QED BY <1>12, <2>2, <3>2, <3>4
  <2> QED BY <2>1, <2>2 DEF Drops
<1>14. NoNewAttempts
  BY <1>4, <1>5, StepNoNewAttempts
<1>15. Guarded(i)'
  <2>1. TrustsOpen(i)' => TrustsOpen(i) /\ pipe'[i].peer_global_seq = pipe[i].peer_global_seq
    <3>1. TrustsOpen(i)' => InUse(i)'
      BY DEF TrustsOpen, Listens, Drops
    <3>2. InUse(i)' => /\ pipe'[i].peer_global_seq = pipe[i].peer_global_seq
                       /\ pipe'[i].in_seq = pipe[i].in_seq /\ InUse(i)
      BY DEF Drops
    <3>3. HasMsg(sock'[i].in) => HasMsg(sock[i].in)
      BY ElementsEmpty DEF Drops, HasMsg
    <3>4. ~Live(sock', i)
      BY DEF Drops
    <3>5. (InUse(i) /\ pipe[i].in_seq > 0)' => TrustsOpen(i)
      BY <3>2 DEF TrustsOpen
    <3>6. (Listens(i) /\ HasMsg(sock[i].in))' => TrustsOpen(i)
      BY <1>12, <3>3 DEF TrustsOpen
    <3>7. TrustsOpen(i)' => (InUse(i) /\ pipe[i].in_seq > 0)' \/ (Listens(i) /\ HasMsg(sock[i].in))'
      BY <3>4 DEF TrustsOpen
    <3> QED BY <3>1, <3>2, <3>5, <3>6, <3>7
  <2>2. \A b \in Nat : ~TrustsReply(i, b)'
    BY <1>11 DEF TrustsReply
  <2> QED BY <1>1, <1>14, <2>1, <2>2, GuardedKept
<1>16. ~Live(sock', i)
  BY DEF Drops
<1> QED BY <1>4, <1>5, <1>7, <1>8, <1>9, <1>10, <1>13, <1>15, <1>16, OneStep

(* What fault() leaves of a Pipe that has lost its connection.             *)
LEMMA FaultDrops ==
  ASSUME TInv, WInv, CInv, NEW i \in Pipes, NEW st, NEW onread, NEW q, Fault(i, st, onread, q),
         ~(st = "connecting" /\ onread), Good(q, Ids), NEW n, Consecutive(q, n) \/ st = "closed",
         st # "closed" => pipe[i].connect_seq > 0 \/ st = "connecting"
  PROVE  /\ Severing(sock') /\ ~Live(sock', i) /\ in_q' = in_q
         /\ \A k \in Pipes \ {i} :
              /\ sock'[k].in = sock[k].in /\ state'[k] = state[k]
              /\ pipe'[k] = pipe[k] /\ outq'[k] = outq[k]
         /\ sock'[i].in = sock[i].in \/ sock'[i].in = <<>>
         /\ st = "closed" => state'[i] = "closed" /\ sock'[i].in = <<>>
         /\ st # "closed" => state'[i] \in {"connecting", "standby"}
         /\ ~pipe'[i].lossy /\ pipe'[i].conn_id = pipe[i].conn_id
         /\ pipe'[i].in_seq = pipe[i].in_seq
         /\ pipe'[i].peer_global_seq = pipe[i].peer_global_seq
         /\ pipe'[i].connect_seq > 0 <=> pipe[i].connect_seq > 0
         /\ st # "closed" => /\ Consecutive(outq'[i], n)
                             /\ Base(outq'[i]) = Base(q) /\ Top(outq'[i]) = Top(q)
<1>1. ~pipe[i].lossy /\ pipe \in [Pipes -> PipeType] /\ outq \in [Pipes -> OutQ(Ids)]
      /\ state \in [Pipes -> States]
  BY DEF CInv, PipeOK, TInv, LInv, Control, DataOK
<1>2. FaultClosed(i, st, q) \/ FaultLossless(i, st, onread, q)
  BY <1>1 DEF Fault, FaultIgnored, FaultLossy
<1>3. pipe[i].connect_seq \in Nat
  BY SaneNow DEF Sane
<1>4. CASE FaultClosed(i, st, q)
  <2>1. /\ st = "closed" /\ state' = [state EXCEPT ![i] = st]
        /\ pipe' = [pipe EXCEPT ![i] = Detached(@)] /\ outq' = [outq EXCEPT ![i] = q]
        /\ sock' = Stopped(sock, i) /\ in_q' = in_q
    BY <1>4 DEF FaultClosed
  <2>2. /\ Severing(sock') /\ ~Live(sock', i)
        /\ \A k \in Pipes \ {i} : sock'[k].in = sock[k].in
    BY <2>1, CutSevers
  <2>3. sock'[i].in = <<>>
    BY <2>1 DEF Stopped, Cut, NoSock
  <2>4. pipe'[i] = Detached(pipe[i])
    BY <1>1, <2>1
  <2>5. SameFields(pipe'[i], pipe[i])
    <3>1. PICK r \in PipeType : r = pipe[i]
      BY <1>1
    <3>2. SameFields(Detached(r), r)
      BY FlagUpdates, FALSE \in BOOLEAN
    <3> QED BY <2>4, <3>1, <3>2
  <2> QED BY <1>1, <2>1, <2>2, <2>3, <2>5 DEF SameFields
<1>5. CASE FaultLossless(i, st, onread, q)
  <2>1. PICK rq : rq = requeue_sent(q)
    OBVIOUS
  <2>2. PICK new : new = FaultState(i, st, rq)
    OBVIOUS
  <2>3. /\ st # "closed" /\ state' = [state EXCEPT ![i] = new] /\ outq' = [outq EXCEPT ![i] = rq]
        /\ pipe' = IF new = "connecting" /\ st # "connecting"
                   THEN [pipe EXCEPT ![i].connect_seq = @ + 1] ELSE pipe
        /\ sock' = Shut(sock, i) /\ in_q' = in_q
    BY <1>5, <2>1, <2>2 DEF FaultLossless
  <2>4. /\ Severing(sock') /\ ~Live(sock', i)
        /\ \A k \in Pipes \ {i} : sock'[k].in = sock[k].in
        /\ sock'[i].in = sock[i].in \/ sock'[i].in = <<>>
    BY <2>3, CutSevers
  <2>5. new \in {"connecting", "standby"}
    BY <2>2 DEF FaultState
  <2>6. Consecutive(rq, n) /\ Base(rq) = Base(q) /\ Top(rq) = Top(q)
    BY <2>1, <2>3, RequeueConsecutive
  <2>7. outq'[i] = rq /\ state'[i] = new
    BY <1>1, <2>3
  <2>8. /\ pipe'[i].in_seq = pipe[i].in_seq /\ pipe'[i].conn_id = pipe[i].conn_id
        /\ pipe'[i].peer_global_seq = pipe[i].peer_global_seq /\ pipe'[i].lossy = pipe[i].lossy
        /\ pipe'[i].connect_seq > 0 <=> pipe[i].connect_seq > 0
        /\ \A k \in Pipes \ {i} : pipe'[k] = pipe[k]
    <3>1. CASE pipe' = pipe
      BY <3>1
    <3>2. CASE pipe' = [pipe EXCEPT ![i].connect_seq = @ + 1] /\ st # "connecting"
      <4>1. pipe'[i] = [pipe[i] EXCEPT !.connect_seq = @ + 1]
        BY <1>1, <3>2
      <4>2. PICK r \in PipeType : r = pipe[i]
        BY <1>1
      <4>3. /\ pipe'[i].in_seq = r.in_seq /\ pipe'[i].conn_id = r.conn_id
            /\ pipe'[i].peer_global_seq = r.peer_global_seq /\ pipe'[i].lossy = r.lossy
            /\ pipe'[i].connect_seq = r.connect_seq + 1
        BY <4>1, <4>2 DEF PipeType
      <4>4. pipe[i].connect_seq > 0
        BY <2>3, <3>2
      <4>5. pipe'[i].connect_seq > 0
        BY <1>3, <4>2, <4>3
      <4> QED BY <3>2, <4>2, <4>3, <4>4, <4>5
    <3> QED BY <2>3, <3>1, <3>2
  <2> QED BY <1>1, <2>3, <2>4, <2>5, <2>6, <2>7, <2>8
<1> QED BY <1>2, <1>4, <1>5

(* The same, with all that Drops asks for.                                 *)
LEMMA DropsByFault ==
  ASSUME TInv, WInv, CInv, NEW i \in Pipes, NEW st, NEW onread, NEW q, Fault(i, st, onread, q),
         ~(st = "connecting" /\ onread), Good(q, Ids), state[i] # "free",
         rd[i] # "none" \/ wr[i] \notin {"none", "loop", "join", "await"} \/ st = "connecting",
         InUse(i) => /\ Consecutive(q, submitted[Owner(i)]) /\ Top(q) = Top(outq[i])
                     /\ Base(q) = Base(outq[i]) \/ Base(q) <= InSeq(Other(Owner(i))),
         st # "closed" => InUse(i) /\ wr'[i] # "none" /\ (rd[i] = "none" => rd'[i] = "none"),
         st = "closed" /\ InUse(i) =>
            Tentative(i) /\ pipe[i].in_seq = 0 /\ Top(outq[i]) = 0 /\ submitted[Owner(i)] = 0,
         rd[i] = "accept" => st = "closed",
         \A k \in Pipes \ {i} : rd'[k] = rd[k] /\ wr'[k] = wr[k] /\ loc'[k] = loc[k],
         global_seq' = global_seq, submitted' = submitted, delivered' = delivered,
         \/ rd'[i] \in {"none", "sleep"} /\ rd[i] # "dispatch"
         \/ rd'[i] = rd[i] /\ rd[i] \in {"none", "sleep", "read", "dispatch"} /\ loc'[i].id = loc[i].id,
         wr'[i] \in {"none", "loop"} \/ (WriterKept(i) /\ wr[i] # "await")
  PROVE  Drops(i)
<1>1. st # "closed" => pipe[i].connect_seq > 0 \/ st = "connecting"
  <2>1. SessionOK(i) /\ pipe[i].connect_seq \in Nat
    BY SaneNow DEF CInv, Sane
  <2> QED BY <2>1 DEF SessionOK, Fresh
<1>2. PICK n : n = submitted[Owner(i)]
  OBVIOUS
<1>3. Consecutive(q, n) \/ st = "closed"
  BY <1>2
<1>4. /\ Severing(sock') /\ ~Live(sock', i) /\ in_q' = in_q
      /\ \A k \in Pipes \ {i} :
           /\ sock'[k].in = sock[k].in /\ state'[k] = state[k]
           /\ pipe'[k] = pipe[k] /\ outq'[k] = outq[k]
      /\ sock'[i].in = sock[i].in \/ sock'[i].in = <<>>
      /\ st = "closed" => state'[i] = "closed" /\ sock'[i].in = <<>>
      /\ st # "closed" => state'[i] \in {"connecting", "standby"}
      /\ ~pipe'[i].lossy /\ pipe'[i].conn_id = pipe[i].conn_id
      /\ pipe'[i].in_seq = pipe[i].in_seq
      /\ pipe'[i].peer_global_seq = pipe[i].peer_global_seq
      /\ pipe'[i].connect_seq > 0 <=> pipe[i].connect_seq > 0
      /\ st # "closed" => /\ Consecutive(outq'[i], n)
                          /\ Base(outq'[i]) = Base(q) /\ Top(outq'[i]) = Top(q)
  BY <1>1, <1>3, FaultDrops
<1>5. pipe'[i].conn_id \in ConnIds
  BY <1>4 DEF CInv, PipeOK
<1>6. \A k \in Pipes \ {i} : Still(k)
  BY <1>4 DEF Still
<1>7. /\ state'[i] \in {"connecting", "standby", "closed"}
      /\ InUse(i)' <=> st # "closed"
  BY <1>4 DEF InUse
<1>8. InUse(i)' =>
        /\ Top(outq'[i]) = Top(outq[i]) /\ Consecutive(outq'[i], submitted[Owner(i)])
        /\ Base(outq'[i]) = Base(outq[i]) \/ Base(outq'[i]) <= InSeq(Other(Owner(i)))
  BY <1>2, <1>4, <1>7
<1>9. rd[i] = "accept" => sock'[i].in = <<>>
  BY <1>4
<1> QED BY <1>4, <1>5, <1>6, <1>7, <1>8, <1>9 DEF Drops

(* The out queue of a Pipe that is in use, as fault() finds it.            *)
LEMMA QueueInUse ==
  ASSUME TInv, CInv, NEW i \in Pipes
  PROVE  /\ Good(outq[i], Ids)
         /\ InUse(i) => Consecutive(outq[i], submitted[Owner(i)])
BY SaneNow DEF Sane, CInv, SessionOK

(* The reader finds the connection broken: fault().                        *)
LEMMA ReadErrorCInv ==
  ASSUME TInv, WInv, CInv, TInv', WInv', NEW i \in Pipes, ReadError(i)
  PROVE  CInv'
<1>1. /\ rd[i] = "read" /\ ~Live(sock, i) /\ Fault(i, state[i], TRUE, outq[i])
      /\ rd' = [rd EXCEPT ![i] = ReaderNext(state'[i])]
      /\ UNCHANGED <<wr, loc, global_seq, submitted, delivered>>
  BY DEF ReadError, Broken
<1>2. rd \in [Pipes -> ReaderPC]
  BY DEF TInv, LInv, Control
<1>3. wr[i] # "await"
  BY <1>1 DEF WInv, EndInv
<1>4. WriterKept(i)
  BY <1>1 DEF WriterKept
<1>5. state[i] # "free" /\ (state[i] # "closed" => InUse(i))
  BY <1>1, RunningInUse DEF TInv, LInv, FreeIsClean
<1>6. CASE state[i] = "connecting"
  <2>1. UNCHANGED <<pipe, sock, in_q>> /\ outq' = [outq EXCEPT ![i] = outq[i]]
        /\ state' = [state EXCEPT ![i] = state[i]]
    BY <1>1, <1>6 DEF Fault, FaultIgnored, FaultClosed, FaultLossy, FaultLossless
  <2>2. outq' = outq /\ state' = state
    BY <2>1 DEF TInv, LInv, Control, DataOK
  <2>3. rd'[i] = "none"
    BY <1>1, <1>2, <1>6, <2>2, ReaderNextValues
  <2>4. \A k \in Pipes \ {i} : Still(k)
    BY <1>1, <2>1, <2>2 DEF Still
  <2>5. Severing(sock') /\ ~Live(sock', i)
    BY <1>1, <2>1 DEF Severing, Live
  <2>6. wr'[i] # "none"
    <3>1. state[i] \notin {"free", "closed"} /\ wr[i] = "none" => rd[i] \in {"accept", "reply", "seq"}
      BY DEF WInv, EndInv
    <3> QED BY <1>1, <1>6, <3>1
  <2>7. ~pipe[i].lossy /\ pipe[i].conn_id \in ConnIds
    BY <1>5 DEF CInv, PipeOK
  <2>8. InUse(i)' <=> InUse(i)
    BY <2>2 DEF InUse
  <2>9. InUse(i) => Consecutive(outq'[i], submitted[Owner(i)]) /\ Top(outq'[i]) = Top(outq[i])
                    /\ Base(outq'[i]) = Base(outq[i])
    BY <2>2, QueueInUse
  <2>10. Drops(i)
    BY <1>1, <1>3, <1>4, <1>6, <2>1, <2>2, <2>3, <2>4, <2>5, <2>6, <2>7, <2>8, <2>9 DEF Drops
  <2> QED BY <2>10, DropsCInv
<1>7. CASE state[i] # "connecting"
  <2>1. rd'[i] \in {"none", "sleep"}
    <3>2. state'[i] \in {"connecting", "standby", "closed"}
      BY <1>1, FaultEffect DEF TInv, LInv
    <3> QED BY <1>1, <1>2, <3>2 DEF ReaderNext
  <2>2. state[i] # "closed" => wr'[i] # "none"
    <3>1. state[i] \notin {"free", "closed"} /\ wr[i] = "none" => rd[i] \in {"accept", "reply", "seq"}
      BY DEF WInv, EndInv
    <3> QED BY <1>1, <1>5, <3>1
  <2>3. \A k \in Pipes \ {i} : rd'[k] = rd[k] /\ wr'[k] = wr[k] /\ loc'[k] = loc[k]
    BY <1>1, <1>2
  <2>4. PICK st : st = state[i]
    OBVIOUS
  <2>5. /\ Fault(i, st, TRUE, outq[i]) /\ ~(st = "connecting" /\ TRUE) /\ Good(outq[i], Ids)
        /\ InUse(i) => /\ Consecutive(outq[i], submitted[Owner(i)]) /\ Top(outq[i]) = Top(outq[i])
                       /\ Base(outq[i]) = Base(outq[i]) \/ Base(outq[i]) <= InSeq(Other(Owner(i)))
        /\ st # "closed" => InUse(i) /\ wr'[i] # "none" /\ (rd[i] = "none" => rd'[i] = "none")
        /\ ~(st = "closed" /\ InUse(i))
    BY <1>1, <1>5, <1>7, <2>2, <2>4, QueueInUse DEF InUse
  <2>6. Drops(i)
    BY <1>1, <1>3, <1>4, <1>5, <2>1, <2>3, <2>5, DropsByFault
  <2> QED BY <2>6, DropsCInv
<1> QED BY <1>6, <1>7

(* The writer finds the connection broken: fault().                        *)
LEMMA WriteFailsCInv ==
  ASSUME TInv, WInv, CInv, TInv', WInv', NEW i \in Pipes, WriteFails(i)
  PROVE  CInv'
<1>1. /\ Writing(i) /\ Fault(i, state[i], FALSE, outq[i])
      /\ wr' = [wr EXCEPT ![i] = "loop"]
      /\ loc' = [loc EXCEPT ![i].seq = 0, ![i].msg = NoLoc.msg]
      /\ UNCHANGED <<rd, global_seq, submitted, delivered>>
  BY DEF WriteFails
<1>2. wr \in [Pipes -> WriterPC] /\ loc \in [Pipes -> LocType]
  BY DEF TInv, LInv, Control, DataOK
<1>3. wr[i] \in {"keepalive", "keepalive_ack", "ack", "msg"}
  BY <1>1, WritingParts
<1>4. rd[i] \in {"none", "sleep", "read", "dispatch"}
  <2>1. rd[i] \notin {"accept", "reply", "seq"}
    BY <1>3 DEF TInv, PipeInv
  <2> QED BY <2>1, SaneNow DEF Sane, ReaderPC
<1>5. state[i] # "free" /\ (state[i] # "closed" => InUse(i))
  BY <1>3, RunningInUse DEF TInv, LInv, FreeIsClean
<1>6. wr'[i] = "loop" /\ rd' = rd /\ loc'[i].id = loc[i].id
  BY <1>1, <1>2 DEF LocType
<1>7. \A k \in Pipes \ {i} : rd'[k] = rd[k] /\ wr'[k] = wr[k] /\ loc'[k] = loc[k]
  BY <1>1, <1>2
<1>8. PICK st : st = state[i]
  OBVIOUS
<1>9. /\ Fault(i, st, FALSE, outq[i]) /\ ~(st = "connecting" /\ FALSE) /\ Good(outq[i], Ids)
      /\ InUse(i) => /\ Consecutive(outq[i], submitted[Owner(i)]) /\ Top(outq[i]) = Top(outq[i])
                     /\ Base(outq[i]) = Base(outq[i]) \/ Base(outq[i]) <= InSeq(Other(Owner(i)))
      /\ st # "closed" => InUse(i) /\ wr'[i] # "none" /\ (rd[i] = "none" => rd'[i] = "none")
      /\ ~(st = "closed" /\ InUse(i))
  BY <1>1, <1>5, <1>6, <1>8, QueueInUse DEF InUse
<1>10. Drops(i)
  BY <1>1, <1>3, <1>4, <1>5, <1>6, <1>7, <1>9, DropsByFault
<1> QED BY <1>10, DropsCInv

(* connect() fails and goes through fault(), or finds the Pipe closed.     *)
LEMMA ConnectFailsCInv ==
  ASSUME TInv, WInv, CInv, TInv', WInv', NEW i \in Pipes, wr[i] \in {"join", "await"},
         NEW q, ConnectFails(i, q), Good(q, Ids), state[i] # "connecting" => ~Live(sock, i),
         wr[i] = "join" => rd[i] \in {"none", "sleep"},
         InUse(i) => /\ Consecutive(q, submitted[Owner(i)]) /\ Top(q) = Top(outq[i])
                     /\ Base(q) = Base(outq[i]) \/ Base(q) <= InSeq(Other(Owner(i)))
  PROVE  CInv'
<1>1. /\ wr' = [wr EXCEPT ![i] = "loop"] /\ loc' = [loc EXCEPT ![i] = NoLoc]
      /\ UNCHANGED <<rd, global_seq, submitted, delivered>>
      /\ IF state[i] = "connecting" THEN Fault(i, "connecting", FALSE, q)
         ELSE UNCHANGED <<state, pipe, outq, sock, rank_pipe, in_q, excused>>
  BY DEF ConnectFails
<1>2. wr \in [Pipes -> WriterPC] /\ loc \in [Pipes -> LocType]
  BY DEF TInv, LInv, Control, DataOK
<1>3. rd[i] \in {"none", "sleep"} /\ state[i] \in {"connecting", "closed"}
  BY DEF WInv, EndInv
<1>4. wr'[i] = "loop" /\ rd' = rd
  BY <1>1, <1>2
<1>5. \A k \in Pipes \ {i} : rd'[k] = rd[k] /\ wr'[k] = wr[k] /\ loc'[k] = loc[k]
  BY <1>1, <1>2
<1>6. CASE state[i] = "connecting"
  <2>1. InUse(i) /\ Fault(i, "connecting", FALSE, q)
    BY <1>1, <1>6 DEF InUse
  <2>2. PICK st : st = "connecting"
    OBVIOUS
  <2>3. /\ Fault(i, st, FALSE, q) /\ ~(st = "connecting" /\ FALSE) /\ state[i] # "free"
        /\ st # "closed" => InUse(i) /\ wr'[i] # "none" /\ (rd[i] = "none" => rd'[i] = "none")
        /\ ~(st = "closed" /\ InUse(i))
    BY <1>4, <1>6, <2>1, <2>2
  <2>4. Drops(i)
    BY <1>1, <1>3, <1>4, <1>5, <2>2, <2>3, DropsByFault
  <2> QED BY <2>4, DropsCInv
<1>7. CASE state[i] # "connecting"
  <2>1. state[i] = "closed" /\ UNCHANGED <<state, pipe, outq, sock, in_q>> /\ ~Live(sock, i)
    BY <1>1, <1>3, <1>7
  <2>2. \A k \in Pipes \ {i} : Still(k)
    BY <1>1, <1>5, <2>1 DEF Still
  <2>3. Severing(sock') /\ ~Live(sock', i)
    BY <2>1 DEF Severing, Live
  <2>4. ~pipe[i].lossy /\ pipe[i].conn_id \in ConnIds
    BY <2>1 DEF CInv, PipeOK
  <2>5. ~InUse(i)' /\ ~InUse(i)
    BY <2>1 DEF InUse
  <2>6. Drops(i)
    BY <1>1, <1>3, <1>4, <2>1, <2>2, <2>3, <2>4, <2>5 DEF Drops
  <2> QED BY <2>6, DropsCInv
<1> QED BY <1>6, <1>7

(* A closed Pipe is reaped; it has no session any more.                    *)
LEMMA ReapCInv ==
  ASSUME TInv, WInv, CInv, TInv', WInv', NEW i \in Pipes, Reap(i)
  PROVE  CInv'
<1>1. /\ state[i] # "free" /\ ReaderGone(i) /\ WriterGone(i)
      /\ rd' = [rd EXCEPT ![i] = "none"] /\ wr' = [wr EXCEPT ![i] = "none"]
      /\ state' = [state EXCEPT ![i] = "free"]
      /\ pipe' = [pipe EXCEPT ![i] = NoPipe(Owner(i))]
      /\ outq' = [outq EXCEPT ![i] = EmptyOutQ(0)]
      /\ sock' = Stopped(sock, i)
      /\ loc' = [loc EXCEPT ![i] = NoLoc]
      /\ UNCHANGED <<global_seq, in_q, submitted, delivered>>
  BY DEF Reap, appVars
<1>2. /\ rd \in [Pipes -> ReaderPC] /\ wr \in [Pipes -> WriterPC] /\ loc \in [Pipes -> LocType]
      /\ pipe \in [Pipes -> PipeType] /\ state \in [Pipes -> States] /\ outq \in [Pipes -> OutQ(Ids)]
  BY DEF TInv, LInv, Control, DataOK
<1>3. state[i] = "closed"
  BY <1>1, AssertsFromWInv DEF ReapAssert
<1>4. \A k \in Pipes \ {i} : Still(k)
  BY <1>1, <1>2 DEF Still
<1>5. /\ rd'[i] = "none" /\ wr'[i] = "none" /\ state'[i] = "free"
      /\ pipe'[i] = NoPipe(Owner(i))
  BY <1>1, <1>2
<1>6. /\ Severing(sock') /\ ~Live(sock', i)
      /\ \A k \in Pipes \ {i} : sock'[k].in = sock[k].in
  BY <1>1, CutSevers
<1>7. sock'[i].in = <<>>
  BY <1>1 DEF Stopped, Cut, NoSock
<1>8. ~pipe'[i].lossy
  BY <1>5, OwnerIsPeer DEF NoPipe, Detached, NewPipe, CInv, LosslessPeers
<1>9. ~InUse(i) /\ ~InUse(i)'
  BY <1>3, <1>5 DEF InUse
<1>10. rd[i] # "dispatch"
  BY <1>1 DEF ReaderGone
<1>11. Drops(i)
  BY <1>1, <1>4, <1>5, <1>6, <1>7, <1>8, <1>9, <1>10 DEF Drops
<1> QED BY <1>11, DropsCInv

(* connect() stops at stop_locked or finds the Pipe closed: the writer     *)
(* goes back to its loop and the connection, if it holds, is of no use.    *)
Quits(i) ==
  /\ rd[i] \in {"none", "sleep"} /\ wr[i] \in {"join", "await"}
  /\ \/ state[i] = "closed" /\ state'[i] = "closed"
     \/ /\ state[i] = "connecting" /\ state'[i] \in {"connecting", "wait"}
        /\ \A x \in Pipes : Live(sock, i) /\ x = sock[i].peer => state[x] # "open" /\ rd[x] # "seq"
  /\ \A k \in Pipes \ {i} : state'[k] = state[k]
  /\ wr' = [wr EXCEPT ![i] = "loop"] /\ loc' = [loc EXCEPT ![i] = NoLoc]
  /\ UNCHANGED <<pipe, outq, rd, global_seq, submitted, in_q, delivered>>
  /\ sock' = sock \/ (sock[i].in # <<>> /\ sock' = Took(sock, i))

(* What the ways to give up an attempt have in common.                     *)
LEMMA QuitsBasics ==
  ASSUME TInv, WInv, CInv, TInv', NEW i \in Pipes, Quits(i)
  PROVE  /\ StepOf(i) /\ NewFramesOK /\ Grows
         /\ NoSession' /\ \A p \in Peers : ReceivedOK(p)'
         /\ \A k \in Pipes : sock'[k].peer = sock[k].peer
         /\ \A k \in Pipes \ {i} : PairStill(k)
         /\ Elements(sock'[i].in) \subseteq Elements(sock[i].in)
         /\ wr'[i] = "loop" /\ loc'[i] = NoLoc /\ (InUse(i)' <=> InUse(i))
<1>1. wr \in [Pipes -> WriterPC] /\ loc \in [Pipes -> LocType]
  BY DEF TInv, LInv, Control, DataOK
<1>2. /\ wr'[i] = "loop" /\ loc'[i] = NoLoc /\ wr[i] \in {"join", "await"}
      /\ UNCHANGED <<pipe, outq, rd, global_seq, submitted, in_q, delivered>>
      /\ \A k \in Pipes \ {i} : Still(k)
  BY <1>1 DEF Quits, Still
<1>3. /\ Severing(sock') /\ NewFramesOK
      /\ \A k \in Pipes : sock'[k].peer = sock[k].peer
      /\ \A k \in Pipes \ {i} : sock'[k].in = sock[k].in
      /\ Elements(sock'[i].in) \subseteq Elements(sock[i].in)
  <2>1. CASE sock' = sock
    BY <2>1 DEF Severing, NewFramesOK, Live
  <2>2. CASE sock[i].in # <<>> /\ sock' = Took(sock, i)
    BY <2>2, TakeBuffers
  <2> QED BY <2>1, <2>2 DEF Quits
<1>4. \A k \in Pipes \ {i} : PairStill(k)
  BY <1>2, <1>3 DEF PairStill
<1>5. InUse(i)' <=> InUse(i)
  BY DEF Quits, InUse
<1>6. StepOf(i)
  BY <1>2, <1>3 DEF StepOf, Attempting
<1>7. Grows
  <2>1. InUse(i) => CarriesOn(i, i)
    <3>1. Sane(i)
      BY SaneNow
    <3>2. Top(outq[i]) \in Nat
      BY <3>1, QueueNumbers DEF Sane
    <3>3. ~Tentative(i)'
      BY <1>2 DEF Quits, Tentative
    <3> QED BY <1>2, <1>5, <3>1, <3>2, <3>3 DEF CarriesOn, Sane
  <2> QED BY <1>6, <2>1, StepGrows
<1>8. NoSession' /\ \A p \in Peers : ReceivedOK(p)'
  <2>1. rd[i] # "dispatch" /\ rd'[i] = rd[i]
    BY <1>2 DEF Quits
  <2> QED BY <1>2, <1>5, <2>1, NothingReceived
<1> QED BY <1>2, <1>3, <1>4, <1>5, <1>6, <1>7, <1>8

(* Giving up an attempt loses no message.                                  *)
LEMMA QuitsCInv ==
  ASSUME TInv, WInv, CInv, TInv', WInv', NEW i \in Pipes, Quits(i)
  PROVE  CInv'
<1>1. /\ StepOf(i) /\ NewFramesOK /\ Grows
      /\ NoSession' /\ \A p \in Peers : ReceivedOK(p)'
      /\ \A k \in Pipes : sock'[k].peer = sock[k].peer
      /\ \A k \in Pipes \ {i} : PairStill(k)
      /\ Elements(sock'[i].in) \subseteq Elements(sock[i].in)
      /\ wr'[i] = "loop" /\ loc'[i] = NoLoc /\ (InUse(i)' <=> InUse(i))
  BY QuitsBasics
<1>2. /\ rd[i] \in {"none", "sleep"} /\ wr[i] \in {"join", "await"} /\ rd' = rd
      /\ state[i] \in {"closed", "connecting"} /\ state'[i] \in {"closed", "connecting", "wait"}
      /\ state'[i] # "closed" => state[i] = "connecting"
      /\ UNCHANGED <<pipe, outq, submitted>>
  BY DEF Quits
<1>4. PipeOK(i)'
  <2>1. PipeOK(i)
    BY DEF CInv
  <2>2. state[i] # "free" => pipe[i].conn_id \in ConnIds
    BY <2>1 DEF PipeOK
  <2> QED BY <1>1, <1>2, <2>1, <2>2 DEF PipeOK
<1>5. SessionOK(i)'
  <2> SUFFICES ASSUME InUse(i)' PROVE SessionOK(i)'
    BY DEF SessionOK
  <2>1. /\ Consecutive(outq[i], submitted[Owner(i)])
        /\ pipe[i].connect_seq = 0 => Fresh(i)
        /\ Base(outq[i]) <= InSeq(Other(Owner(i)))
        /\ pipe[i].in_seq <= Sent(Other(Owner(i)))
        /\ pipe[i].connect_seq > 0 => Known(Other(Owner(i)))
    BY <1>1 DEF CInv, SessionOK
  <2>2. Other(Owner(i)) \in Peers
    BY OwnerIsPeer, OtherPeer
  <2>3. PICK p \in Peers : p = Other(Owner(i))
    BY <2>2
  <2>4. /\ InSeq(p) \in Nat /\ InSeq(p)' \in Nat /\ Sent(p) \in Nat /\ Sent(p)' \in Nat
        /\ InSeq(p) <= InSeq(p)' /\ Sent(p) <= Sent(p)' /\ (Known(p) => Known(p)')
    BY <1>1, PeerTypes, PeerTypesLater DEF Grows
  <2>5. Sane(i)
    BY SaneNow
  <2>6. Base(outq[i]) \in Nat
    BY <2>5, QueueNumbers DEF Sane
  <2>7. Base(outq'[i]) <= InSeq(p)'
    <3>1. Base(outq'[i]) = Base(outq[i])
      BY <1>2
    <3> QED BY <2>1, <2>3, <2>4, <2>6, <3>1
  <2>8. pipe'[i].in_seq <= Sent(p)'
    BY <1>2, <2>1, <2>3, <2>4, <2>5 DEF Sane
  <2>9. pipe'[i].connect_seq = 0 => Fresh(i)'
    BY <1>1, <1>2, <2>1 DEF Fresh, InUse
  <2>10. ~Attempting(i)' /\ ~Tentative(i)'
    BY <1>1, <1>2 DEF Attempting, Tentative
  <2> QED BY <1>1, <1>2, <2>1, <2>3, <2>4, <2>7, <2>8, <2>9, <2>10 DEF SessionOK
<1>6. NextOnes(i)'
  BY <1>1, <1>2 DEF NextOnes, Listens, Awaits
<1>7. NoNewAttempts
  BY <1>1, StepNoNewAttempts
<1>8. Guarded(i)'
  <2>1. TrustsOpen(i)' => TrustsOpen(i) /\ pipe'[i].peer_global_seq = pipe[i].peer_global_seq
    BY <1>1, <1>2 DEF TrustsOpen, Listens
  <2>2. \A b \in Nat : ~TrustsReply(i, b)'
    BY <1>1 DEF TrustsReply, Awaits
  <2> QED BY <1>7, <2>1, <2>2, GuardedKept DEF CInv
<1>9. ASSUME NEW x \in Pipes, Live(sock', i), x = sock[i].peer
      PROVE  NextOnes(x)' /\ Guarded(x)' /\ Linked(i, x)' /\ Linked(x, i)'
  <2>1. Live(sock, i)
    BY <1>1, <1>9 DEF Live
  <2>2. x # i /\ sock[x].peer = i /\ Live(sock, x)
    BY <1>9, <2>1, PeerIsPipe
  <2>3. PairStill(x)
    BY <1>1, <2>2
  <2>4. NextOnes(x)'
    BY <2>3, NextKept DEF CInv
  <2>5. Guarded(x)'
    <3>1. \A j \in Pipes : Live(sock', x) /\ j = sock[x].peer =>
            /\ state'[j] = "open" /\ state[x] = "open" => state[j] = "open"
            /\ rd'[j] = "reply" => rd[j] = "reply" /\ loc'[j].reply = loc[j].reply
      BY <1>2, <2>2
    <3>2. Severing(sock')
      BY <1>1 DEF StepOf
    <3>3. /\ TrustsOpen(x)' => TrustsOpen(x) /\ pipe'[x].peer_global_seq = pipe[x].peer_global_seq
          /\ \A b \in Nat : TrustsReply(x, b)' => TrustsReply(x, b)
      BY <2>2, <2>3, <3>1, <3>2, TrustKept
    <3> QED BY <1>7, <3>3, GuardedKept DEF CInv
  <2>6. Linked(i, x)'
    BY <1>1, <1>2 DEF Linked
  <2>7. Linked(x, i)'
    <3>1. state'[i] # "closed" => state'[x] # "open" /\ rd'[x] # "seq"
      BY <1>2, <1>9, <2>1, <2>3 DEF Quits, PairStill, Still
    <3>2. Linked(x, i)
      BY <2>2 DEF CInv, PairOK
    <3>3. wr[x] = "none" => Only(sock[i].in, "reply")
      BY <3>2 DEF Linked
    <3>4. wr[x] = "await" => Only(sock[i].in, "connect")
      BY <3>2 DEF Linked
    <3>5. wr'[x] = wr[x]
      BY <2>3 DEF PairStill, Still
    <3>6. wr'[x] = "none" => Only(sock'[i].in, "reply")
      BY <1>1, <3>3, <3>5 DEF Only
    <3>7. wr'[x] = "await" => Only(sock'[i].in, "connect")
      BY <1>1, <3>4, <3>5 DEF Only
    <3>8. ~Awaits(i)'
      BY <1>1 DEF Awaits
    <3> QED BY <3>1, <3>6, <3>7, <3>8 DEF Linked
  <2> QED BY <2>4, <2>5, <2>6, <2>7
<1> QED BY <1>1, <1>4, <1>5, <1>6, <1>8, <1>9, OneStep

(* The connection is refused.                                              *)
LEMMA ConnectRefusedCInv ==
  ASSUME TInv, WInv, CInv, TInv', WInv', NEW i \in Pipes, ConnectRefused(i)
  PROVE  CInv'
<1>1. wr[i] = "join" /\ ReaderGone(i) /\ ConnectFails(i, outq[i])
  BY DEF ConnectRefused
<1>2. rd[i] \in {"none", "sleep"}
  BY <1>1 DEF ReaderGone
<1>3. CASE state[i] = "connecting"
  <2>1. PICK q : q = outq[i]
    OBVIOUS
  <2>2. /\ ConnectFails(i, q) /\ Good(q, Ids)
        /\ InUse(i) => /\ Consecutive(q, submitted[Owner(i)]) /\ Top(q) = Top(outq[i])
                       /\ Base(q) = Base(outq[i]) \/ Base(q) <= InSeq(Other(Owner(i)))
    BY <1>1, <2>1, QueueInUse
  <2> QED BY <1>1, <1>2, <1>3, <2>2, ConnectFailsCInv
<1>4. CASE state[i] # "connecting"
  <2>1. state[i] = "closed"
    BY <1>1, <1>4 DEF WInv, EndInv
  <2>2. Quits(i)
    BY <1>1, <1>2, <1>4, <2>1 DEF ConnectFails, Quits
  <2> QED BY <2>2, QuitsCInv
<1> QED BY <1>3, <1>4

(* The connection breaks, or the peer rejects the request.                 *)
LEMMA ConnectBrokenCInv ==
  ASSUME TInv, WInv, CInv, TInv', WInv', NEW i \in Pipes,
         ConnectBroken(i) \/ ConnectRejected(i)
  PROVE  CInv'
<1>1. /\ wr[i] = "await" /\ ConnectFails(i, outq[i])
      /\ state[i] # "connecting" => ~Live(sock, i)
  BY DEF ConnectBroken, Broken, ConnectRejected, Answers, Answered
<1>2. PICK q : q = outq[i]
  OBVIOUS
<1>3. /\ ConnectFails(i, q) /\ Good(q, Ids)
      /\ InUse(i) => /\ Consecutive(q, submitted[Owner(i)]) /\ Top(q) = Top(outq[i])
                     /\ Base(q) = Base(outq[i]) \/ Base(q) <= InSeq(Other(Owner(i)))
  BY <1>1, <1>2, QueueInUse
<1> QED BY <1>1, <1>3, ConnectFailsCInv

(* A granting answer: what it acknowledges was sent.                       *)
LEMMA GrantedAnswer ==
  ASSUME TInv, WInv, CInv, NEW i \in Pipes, Answers(i, {"READY", "SEQ"}), NEW q, q = outq[i]
  PROVE  /\ wr[i] = "await" /\ state[i] = "connecting" /\ InUse(i)
         /\ sock[i].in # <<>> /\ Answer(i) \in Frames /\ Answer(i).kind = "reply"
         /\ FrameOK(Owner(i), Answer(i)) /\ Answer(i) \in Elements(sock[i].in)
         /\ Answer(i).acked \in Nat /\ Answer(i).gseq \in Nat /\ Answer(i).lossy = FALSE
         /\ Good(q, Ids) /\ q.sent = <<>> /\ Consecutive(q, submitted[Owner(i)])
         /\ Base(q) = q.out_seq
         /\ Answer(i).tag = "SEQ" => /\ Answer(i).acked <= InSeq(Other(Owner(i)))
                                     /\ Answer(i).acked <= Top(q)
<1>1. /\ wr[i] = "await" /\ state[i] = "connecting" /\ sock[i].in # <<>>
      /\ Answer(i).kind = "reply" /\ Answer(i).tag \in {"READY", "SEQ"}
  BY DEF Answers, Answered, Arrived, Answer
<1>2. PICK s \in Seq(Frames) : s = sock[i].in
  BY InIsSeq
<1>3. Head(s) \in Frames /\ Head(s) \in Elements(s)
  BY <1>1, <1>2, TailOf, ElementsTail
<1>4. Answer(i) \in Frames /\ Answer(i) \in Elements(sock[i].in)
  BY <1>2, <1>3 DEF Answer
<1>5. FrameOK(Owner(i), Answer(i))
  BY <1>4 DEF CInv, FramesOK
<1>6. PICK f \in Frames : f = Answer(i)
  BY <1>4
<1>7. f.acked \in Nat /\ f.gseq \in Nat /\ f.lossy \in BOOLEAN
  BY <1>1, <1>6, FrameFields
<1>8. ReplyOK(f, Other(Owner(i)))
  BY <1>1, <1>5, <1>6 DEF FrameOK
<1>9. InUse(i)
  BY <1>1 DEF InUse
<1>10. Good(q, Ids) /\ Consecutive(q, submitted[Owner(i)])
  BY <1>9, QueueInUse
<1>11. q.sent = <<>>
  BY <1>1 DEF TInv, PipeInv
<1>12. Base(q) = q.out_seq /\ Top(q) \in Nat
  BY <1>10, <1>11, QueueNumbers
<1>13. f.tag = "SEQ" => f.acked <= InSeq(Other(Owner(i)))
  BY <1>8 DEF ReplyOK
<1>14. InSeq(Other(Owner(i))) <= Top(q)
  <2>1. PICK x \in Peers : x = Other(Owner(i))
    BY OwnerIsPeer, OtherPeer
  <2>2. CASE Lookup(x) = None
    BY <1>12, <2>1, <2>2 DEF InSeq
  <2>3. CASE Lookup(x) # None
    <3>1. PICK j \in Pipes : j = Lookup(x) /\ InUse(j) /\ Owner(j) = x
      BY <2>3, LookupInUse
    <3>2. pipe[j].in_seq <= Sent(Other(Owner(j)))
      BY <3>1 DEF CInv, SessionOK
    <3>3. Other(Owner(j)) = Owner(i)
      BY <2>1, <3>1, OwnerIsPeer, OtherPeer
    <3>4. Sent(Owner(i)) = Top(q)
      BY <1>9, PeerValues
    <3>5. InSeq(x) = pipe[j].in_seq
      BY <3>1, PeerValues
    <3> QED BY <2>1, <3>2, <3>3, <3>4, <3>5
  <2> QED BY <2>2, <2>3
<1>15. f.tag = "SEQ" => f.acked <= Top(q)
  <2>1. InSeq(Other(Owner(i))) \in Nat
    BY PeerTypes, OwnerIsPeer, OtherPeer
  <2> QED BY <1>7, <1>12, <1>13, <1>14, <2>1
<1>16. f.lossy = FALSE
  BY <1>7, <1>8 DEF ReplyOK
<1> QED BY <1>1, <1>4, <1>5, <1>6, <1>7, <1>9, <1>10, <1>11, <1>12, <1>13, <1>15, <1>16

(* It breaks when connect() has discarded and writes its in_seq.           *)
LEMMA ConnectSeqFailsCInv ==
  ASSUME TInv, WInv, CInv, TInv', WInv', NEW i \in Pipes, ConnectSeqFails(i)
  PROVE  CInv'
<1>1. Answers(i, {"SEQ"}) /\ ConnectFails(i, discard_acked(outq[i], Answer(i).acked))
  BY DEF ConnectSeqFails
<1>2. Answers(i, {"READY", "SEQ"}) /\ Answer(i).tag = "SEQ"
  BY <1>1 DEF Answers
<1>3. PICK o : o = outq[i]
  OBVIOUS
<1>4. /\ wr[i] = "await" /\ state[i] = "connecting" /\ InUse(i)
      /\ Answer(i).acked \in Nat
      /\ Good(o, Ids) /\ o.sent = <<>> /\ Consecutive(o, submitted[Owner(i)])
      /\ Base(o) = o.out_seq
      /\ Answer(i).acked <= InSeq(Other(Owner(i)))
      /\ Answer(i).acked <= Top(o)
  BY <1>2, <1>3, GrantedAnswer
<1>5. PICK a \in Nat : a = Answer(i).acked
  BY <1>4
<1>6. PICK q : q = discard_acked(o, a)
  OBVIOUS
<1>7. /\ Consecutive(q, submitted[Owner(i)]) /\ Top(q) = Top(o) /\ Base(q) = q.out_seq
      /\ q.out_seq = o.out_seq \/ q.out_seq = a
  BY <1>4, <1>5, <1>6, DiscardAckedConsecutive
<1>8. Good(q, Ids)
  BY <1>4, <1>5, <1>6, DiscardAckedGood
<1>9. ConnectFails(i, q)
  BY <1>1, <1>3, <1>5, <1>6
<1>10. Base(q) = Base(outq[i]) \/ Base(q) <= InSeq(Other(Owner(i)))
  BY <1>3, <1>4, <1>5, <1>7
<1> QED BY <1>3, <1>4, <1>7, <1>8, <1>9, <1>10, ConnectFailsCInv

(* connect() stops: the Pipe was replaced, or is to WAIT.                  *)
LEMMA ConnectStopsCInv ==
  ASSUME TInv, WInv, CInv, TInv', WInv', NEW i \in Pipes, ConnectStops(i)
  PROVE  CInv'
<1>1. /\ Answered(i) /\ sock' = Took(sock, i)
      /\ state' = IF Answers(i, {"WAIT"}) THEN [state EXCEPT ![i] = "wait"] ELSE state
      /\ wr' = [wr EXCEPT ![i] = "loop"] /\ loc' = [loc EXCEPT ![i] = NoLoc]
      /\ UNCHANGED <<pipe, outq, rd, global_seq, submitted, in_q, delivered>>
      /\ state[i] = "connecting" => Answer(i).tag \notin Granting
  BY DEF ConnectStops, Answers, msgrVars, appVars, Granting
<1>2. /\ wr[i] = "await" /\ sock[i].in # <<>>
  BY <1>1 DEF Answered, Arrived
<1>3. /\ rd[i] \in {"none", "sleep"} /\ state[i] \in {"connecting", "closed"}
  BY <1>2 DEF WInv, EndInv
<1>4. state \in [Pipes -> States]
  BY DEF TInv, LInv, Control
<1>5. Quits(i)
  <2>1. CASE state[i] = "closed"
    <3>1. state' = state
      BY <1>1, <2>1 DEF Answers
    <3> QED BY <1>1, <1>2, <1>3, <2>1, <3>1 DEF Quits
  <2>2. CASE state[i] = "connecting"
    <3>1. /\ state'[i] \in {"connecting", "wait"}
          /\ \A k \in Pipes \ {i} : state'[k] = state[k]
      BY <1>1, <1>4, <2>2
    <3>2. \A x \in Pipes : Live(sock, i) /\ x = sock[i].peer => state[x] # "open" /\ rd[x] # "seq"
      BY <1>1, <2>2, AnsweredPair DEF Refused, Undecided
    <3> QED BY <1>1, <1>2, <1>3, <2>2, <3>1, <3>2 DEF Quits
  <2> QED BY <1>3, <2>1, <2>2
<1> QED BY <1>5, QuitsCInv

(* accept() fails before or after the Pipe has opened.                     *)
LEMMA AcceptFailedCInv ==
  ASSUME TInv, WInv, CInv, TInv', WInv', NEW i \in Pipes, AcceptFailed(i)
  PROVE  CInv'
<1>1. /\ rd[i] \in {"accept", "reply", "seq"} /\ ~Live(sock, i)
      /\ loc' = [loc EXCEPT ![i] = NoLoc]
      /\ rd' = [rd EXCEPT ![i] = ReaderNext(state'[i])]
      /\ UNCHANGED <<global_seq, submitted, delivered>>
  BY DEF AcceptFailed, Broken
<1>2. /\ state[i] = "closed" => UNCHANGED <<state, pipe, outq, wr, sock, in_q>>
      /\ state[i] # "closed" =>
           /\ Fault(i, AcceptFailState(i), FALSE, outq[i])
           /\ wr' = IF IsQueued(pipe[i], outq[i]) \/ loc[i].replaced
                    THEN [wr EXCEPT ![i] = "loop"] ELSE wr
  BY DEF AcceptFailed
<1>3. /\ rd \in [Pipes -> ReaderPC] /\ wr \in [Pipes -> WriterPC] /\ loc \in [Pipes -> LocType]
      /\ wr[i] = "none" /\ state[i] # "free"
  BY <1>1 DEF TInv, LInv, Control, DataOK, PipeInv, FreeIsClean
<1>4. PipeOK(i) /\ SessionOK(i)
  BY DEF CInv
<1>5. rd'[i] = ReaderNext(state'[i])
  BY <1>1, <1>3
<1>6. CASE state[i] = "closed"
  <2>1. rd[i] # "accept"
    BY <1>4, <1>6 DEF PipeOK
  <2>2. rd'[i] = "none" /\ wr'[i] = "none" /\ state' = state
    BY <1>2, <1>3, <1>5, <1>6 DEF ReaderNext
  <2>3. \A k \in Pipes \ {i} : Still(k)
    BY <1>1, <1>2, <1>3, <1>6 DEF Still
  <2>4. Severing(sock') /\ ~Live(sock', i)
    BY <1>1, <1>2, <1>6 DEF Severing, Live
  <2>5. ~pipe[i].lossy /\ pipe[i].conn_id \in ConnIds
    BY <1>3, <1>4 DEF PipeOK
  <2>6. ~InUse(i) /\ ~InUse(i)'
    BY <1>6, <2>2 DEF InUse
  <2>7. Drops(i)
    BY <1>1, <1>2, <1>6, <2>1, <2>2, <2>3, <2>4, <2>5, <2>6 DEF Drops
  <2> QED BY <2>7, DropsCInv
<1>7. CASE state[i] # "closed"
  <2>1. PICK st : st = AcceptFailState(i)
    OBVIOUS
  <2>2. ~Policy[Owner(i)].server
    BY OwnerIsPeer DEF CInv, LosslessPeers
  <2>3. st = IF IsQueued(pipe[i], outq[i]) THEN "connecting"
             ELSE IF loc[i].replaced THEN "standby" ELSE "closed"
    BY <1>7, <2>1, <2>2 DEF AcceptFailState
  <2>4. Fault(i, st, FALSE, outq[i]) /\ ~(st = "connecting" /\ FALSE)
    BY <1>2, <1>7, <2>1
  <2>5. wr'[i] \in {"none", "loop"} /\ (st # "closed" => wr'[i] = "loop")
    BY <1>2, <1>3, <1>7, <2>3
  <2>6. \A k \in Pipes \ {i} : rd'[k] = rd[k] /\ wr'[k] = wr[k] /\ loc'[k] = loc[k]
    BY <1>1, <1>2, <1>3, <1>7
  <2>7. state'[i] \in {"connecting", "standby", "closed"}
    BY <2>2, <2>4, FaultEnd
  <2>8. rd'[i] \in {"none", "sleep"}
    BY <1>5, <2>7 DEF ReaderNext
  <2>9. CASE rd[i] = "accept"
    <3>1. state[i] = "accepting"
      BY <1>4, <2>9 DEF PipeOK
    <3>2. ~IsQueued(pipe[i], outq[i]) /\ ~loc[i].replaced /\ ~InUse(i)
      BY <3>1 DEF TInv, LInv, AcceptingIsIdle, NoLoc, InUse
    <3>3. st = "closed"
      BY <2>3, <3>2
    <3>4. Good(outq[i], Ids)
      BY QueueInUse
    <3>5. Drops(i)
      BY <1>1, <1>3, <2>4, <2>5, <2>6, <2>8, <2>9, <3>2, <3>3, <3>4, DropsByFault
    <3> QED BY <3>5, DropsCInv
  <2>10. CASE rd[i] \in {"reply", "seq"}
    <3>1. InUse(i)
      BY <1>7, <2>10, RunningInUse
    <3>2. Good(outq[i], Ids) /\ Consecutive(outq[i], submitted[Owner(i)])
      BY <3>1, QueueInUse
    <3>3. st = "closed" =>
             Tentative(i) /\ pipe[i].in_seq = 0 /\ Top(outq[i]) = 0 /\ submitted[Owner(i)] = 0
      <4> SUFFICES ASSUME st = "closed"
                   PROVE  Tentative(i) /\ pipe[i].in_seq = 0 /\ Top(outq[i]) = 0
                          /\ submitted[Owner(i)] = 0
        OBVIOUS
      <4>1. ~loc[i].replaced /\ ~IsQueued(pipe[i], outq[i])
        BY <2>3
      <4>2. Tentative(i)
        BY <1>4, <2>10, <4>1 DEF PipeOK, Tentative
      <4>3. pipe[i].in_seq = 0 /\ Top(outq[i]) = 0
        BY <1>4, <3>1, <4>1, <4>2 DEF PipeOK, SessionOK, Tentative
      <4>4. Len(outq[i].dflt) = 0
        BY <4>1 DEF IsQueued, HasOut
      <4>5. Top(outq[i]) + Len(outq[i].dflt) = submitted[Owner(i)]
        BY <3>2 DEF Consecutive
      <4> QED BY <4>2, <4>3, <4>4, <4>5
    <3>4. PICK q : q = outq[i]
      OBVIOUS
    <3>5. Good(q, Ids) /\ Consecutive(q, submitted[Owner(i)]) /\ Top(q) = Top(outq[i])
          /\ Base(q) = Base(outq[i])
      BY <3>2, <3>4
    <3>6. /\ st # "closed" => InUse(i) /\ wr'[i] # "none" /\ (rd[i] = "none" => rd'[i] = "none")
          /\ rd[i] \notin {"none", "accept", "dispatch"}
      BY <2>5, <2>10, <3>1
    <3>7. Fault(i, st, FALSE, q)
      BY <2>4, <3>4
    <3>8. Drops(i)
      BY <1>1, <1>3, <2>5, <2>6, <2>8, <3>3, <3>5, <3>6, <3>7, DropsByFault
    <3> QED BY <3>8, DropsCInv
  <2> QED BY <1>1, <2>9, <2>10
<1> QED BY <1>6, <1>7

(* connect() reads a granting answer and opens.                            *)
LEMMA ReadyQueue ==
  ASSUME TInv, WInv, CInv, NEW i \in Pipes, ConnectReady(i)
  PROVE  /\ Consecutive(outq'[i], submitted[Owner(i)]) /\ Top(outq'[i]) = Top(outq[i])
         /\ Base(outq'[i]) = outq'[i].out_seq /\ Base(outq[i]) = outq[i].out_seq
         /\ outq[i].out_seq \in Nat
         /\ Answer(i).tag = "SEQ" =>
              /\ outq'[i].out_seq = outq[i].out_seq \/ outq'[i].out_seq = Answer(i).acked
              /\ outq[i].out_seq <= Answer(i).acked => outq'[i].out_seq = Answer(i).acked
         /\ Answer(i).tag # "SEQ" => outq'[i] = outq[i]
         /\ \A k \in Pipes \ {i} : outq'[k] = outq[k]
<1>1. /\ Answers(i, {"READY", "SEQ"})
      /\ outq' = IF Answer(i).tag = "SEQ"
                 THEN [outq EXCEPT ![i] = discard_acked(@, Answer(i).acked)] ELSE outq
  BY DEF ConnectReady
<1>2. outq \in [Pipes -> OutQ(Ids)]
  BY DEF TInv, DataOK
<1>3. PICK q : q = outq[i]
  OBVIOUS
<1>4. /\ Good(q, Ids) /\ q.sent = <<>> /\ Consecutive(q, submitted[Owner(i)])
      /\ Base(q) = q.out_seq /\ Answer(i).acked \in Nat
      /\ Answer(i).tag = "SEQ" => Answer(i).acked <= Top(q)
  BY <1>1, <1>3, GrantedAnswer
<1>5. q.out_seq \in Nat
  BY <1>4, QueueNumbers
<1>6. CASE Answer(i).tag = "SEQ"
  <2>1. PICK a \in Nat : a = Answer(i).acked
    BY <1>4
  <2>2. PICK r : r = discard_acked(q, a)
    OBVIOUS
  <2>3. outq'[i] = r /\ \A k \in Pipes \ {i} : outq'[k] = outq[k]
    BY <1>1, <1>2, <1>3, <1>6, <2>1, <2>2
  <2>4. /\ Consecutive(r, submitted[Owner(i)]) /\ Top(r) = Top(q) /\ Base(r) = r.out_seq
        /\ r.out_seq = q.out_seq \/ r.out_seq = a
        /\ q.out_seq <= a => r.out_seq = a
    BY <1>4, <1>6, <2>1, <2>2, DiscardAckedConsecutive
  <2> QED BY <1>3, <1>4, <1>5, <1>6, <2>1, <2>3, <2>4
<1>7. CASE Answer(i).tag # "SEQ"
  BY <1>1, <1>3, <1>4, <1>5, <1>7
<1> QED BY <1>6, <1>7

(* What connect() leaves of its Pipe when the peer has accepted, ...       *)
LEMMA ReadyEnd ==
  ASSUME TInv, WInv, CInv, NEW i \in Pipes, ConnectReady(i)
  PROVE  /\ wr[i] = "await" /\ state[i] = "connecting" /\ rd[i] \in {"none", "sleep"} /\ InUse(i)
         /\ state'[i] = "open" /\ rd'[i] = "read" /\ wr'[i] = "loop" /\ InUse(i)'
         /\ pipe'[i].in_seq = pipe[i].in_seq /\ pipe'[i].conn_id = pipe[i].conn_id
         /\ pipe'[i].lossy = FALSE /\ pipe'[i].peer_global_seq = Answer(i).gseq
         /\ pipe'[i].connect_seq = loc[i].cseq + 1 /\ loc[i].cseq \in Nat
         /\ loc[i].cseq = pipe[i].connect_seq
         /\ \A k \in Pipes \ {i} : Still(k)
         /\ UNCHANGED <<global_seq, submitted, in_q, delivered>>
<1>1. /\ Answers(i, {"READY", "SEQ"})
      /\ pipe' = [pipe EXCEPT ![i].peer_global_seq = Answer(i).gseq, ![i].lossy = Answer(i).lossy,
                              ![i].connect_seq = loc[i].cseq + 1]
      /\ state' = [state EXCEPT ![i] = "open"]
      /\ rd' = [rd EXCEPT ![i] = "read"]
      /\ wr' = [wr EXCEPT ![i] = "loop"]
      /\ loc' = [loc EXCEPT ![i] = NoLoc]
      /\ UNCHANGED <<global_seq, submitted, in_q, delivered>>
  BY DEF ConnectReady, msgrVars, appVars
<1>2. /\ wr[i] = "await" /\ state[i] = "connecting" /\ InUse(i) /\ Answer(i).lossy = FALSE
  BY <1>1, GrantedAnswer
<1>3. rd[i] \in {"none", "sleep"} /\ loc[i].cseq = pipe[i].connect_seq
  BY <1>2 DEF WInv, EndInv
<1>4. /\ rd \in [Pipes -> ReaderPC] /\ wr \in [Pipes -> WriterPC] /\ loc \in [Pipes -> LocType]
      /\ pipe \in [Pipes -> PipeType] /\ state \in [Pipes -> States]
  BY DEF TInv, LInv, Control, DataOK
<1>5. /\ state'[i] = "open" /\ rd'[i] = "read" /\ wr'[i] = "loop"
  BY <1>1, <1>4
<1>6. /\ pipe'[i].in_seq = pipe[i].in_seq /\ pipe'[i].conn_id = pipe[i].conn_id
      /\ pipe'[i].lossy = FALSE /\ pipe'[i].peer_global_seq = Answer(i).gseq
      /\ pipe'[i].connect_seq = loc[i].cseq + 1
  BY <1>1, <1>2, <1>4 DEF PipeType
<1>7. loc[i].cseq \in Nat
  BY SaneNow DEF Sane
<1>8. \A k \in Pipes \ {i} : Still(k)
  BY <1>1, <1>4, ReadyQueue DEF Still
<1>9. InUse(i)'
  BY <1>5 DEF InUse
<1> QED BY <1>1, <1>2, <1>3, <1>5, <1>6, <1>7, <1>8, <1>9

SeqFrame(n) == [kind |-> "seq", seq |-> n]

(* ... what it finds at the other end, ...                                 *)
LEMMA ReadyPair ==
  ASSUME TInv, WInv, CInv, NEW i \in Pipes, ConnectReady(i), NEW x \in Pipes, Live(sock, i),
         x = sock[i].peer
  PROVE  /\ x # i /\ sock[x].peer = i /\ Live(sock, x) /\ Owner(x) = Other(Owner(i))
         /\ Other(Owner(x)) = Owner(i)
         /\ state[x] = "open" /\ InUse(x) /\ rd[x] \notin {"accept", "reply"} /\ wr[x] # "await"
         /\ sock[x].in = <<>>
         /\ Linked(i, x) /\ Linked(x, i)
<1>1. Answered(i) /\ Answer(i).tag \in Granting /\ wr[i] = "await"
  BY DEF ConnectReady, Answers, Granting, Answered
<1>2. Told(i, x)
  BY <1>1, AnsweredPair
<1>3. x # i /\ sock[x].peer = i /\ Live(sock, x)
  BY PeerIsPipe
<1>4. Owner(x) = Other(Owner(i)) /\ Other(Owner(x)) = Owner(i)
  BY OwnerIsPeer, OtherPeer DEF WInv, LinkInv
<1>5. state[x] = "open" /\ rd[x] \notin {"accept", "reply"}
  BY <1>2 DEF Told, Opened
<1>6. wr[x] # "await"
  BY <1>5, Waiting
<1>7. Linked(i, x) /\ Linked(x, i)
  BY <1>3 DEF CInv, PairOK
<1>8. sock[x].in = <<>>
  <2>1. Only(sock[x].in, "connect")
    BY <1>1, <1>7 DEF Linked
  <2>2. \A f \in Elements(sock[x].in) : f.kind # "connect"
    BY <1>5 DEF CInv, PipeOK
  <2>3. PICK s \in Seq(Frames) : s = sock[x].in
    BY InIsSeq
  <2>4. s # <<>> => Head(s) \in Elements(s)
    BY <2>3, ElementsTail
  <2> QED BY <2>1, <2>2, <2>3, <2>4 DEF Only
<1> QED BY <1>3, <1>4, <1>5, <1>6, <1>7, <1>8 DEF InUse

(* ... and what it writes.                                                 *)
LEMMA ReadySock ==
  ASSUME TInv, WInv, CInv, NEW i \in Pipes, ConnectReady(i)
  PROVE  /\ \A k \in Pipes : sock'[k].peer = sock[k].peer
         /\ \A k \in Pipes \ {i} : k # sock[i].peer => sock'[k].in = sock[k].in
         /\ sock'[i].in = Tail(sock[i].in)
         /\ Live(sock, i) =>
              \/ Answer(i).tag # "SEQ" /\ sock'[sock[i].peer].in = <<>>
              \/ Answer(i).tag = "SEQ"
                 /\ sock'[sock[i].peer].in = Append(<<>>, SeqFrame(pipe[i].in_seq))
         /\ Severing(sock')
<1>1. sock' = IF Answer(i).tag = "SEQ" THEN Put(Took(sock, i), i, SeqFrame(pipe[i].in_seq))
              ELSE Took(sock, i)
  BY DEF ConnectReady, SeqFrame
<1>2. Live(sock, i) => sock[i].peer \in Pipes /\ sock[i].peer # i /\ sock[sock[i].peer].in = <<>>
  BY PeerIsPipe, ReadyPair
<1>3. CASE Answer(i).tag = "SEQ"
  <2>1. /\ \A k \in Pipes : sock'[k].peer = sock[k].peer
        /\ \A k \in Pipes \ {i} : k # sock[i].peer => sock'[k] = sock[k]
        /\ sock'[i].in = Tail(sock[i].in)
        /\ Live(sock, i) =>
             sock'[sock[i].peer].in = Append(sock[sock[i].peer].in, SeqFrame(pipe[i].in_seq))
    <3>1. PICK f, new : f = SeqFrame(pipe[i].in_seq) /\ new = Put(Took(sock, i), i, f)
      OBVIOUS
    <3>2. sock' = new
      BY <1>1, <1>3, <3>1
    <3>3. AnsweredWith(new, i, f)
      BY <3>1, AnswerEffect
    <3> QED BY <3>1, <3>2, <3>3 DEF AnsweredWith
  <2>2. Severing(sock')
    BY <2>1 DEF Severing, Live
  <2> QED BY <1>2, <1>3, <2>1, <2>2
<1>4. CASE Answer(i).tag # "SEQ"
  <2>1. /\ \A k \in Pipes : sock'[k].peer = sock[k].peer
        /\ \A k \in Pipes \ {i} : sock'[k] = sock[k]
        /\ sock'[i].in = Tail(sock[i].in)
    BY <1>1, <1>4, TookEffect
  <2>2. Severing(sock')
    BY <2>1 DEF Severing, Live
  <2> QED BY <1>2, <1>4, <2>1, <2>2
<1> QED BY <1>3, <1>4

(* It carries the session on ...                                           *)
LEMMA ReadyBasics ==
  ASSUME TInv, WInv, CInv, TInv', NEW i \in Pipes, ConnectReady(i)
  PROVE  /\ StepOf(i) /\ NewFramesOK /\ Grows
         /\ NoSession' /\ \A p \in Peers : ReceivedOK(p)'
         /\ Elements(sock'[i].in) \subseteq Elements(sock[i].in)
<1>1. /\ wr[i] = "await" /\ state[i] = "connecting" /\ rd[i] \in {"none", "sleep"} /\ InUse(i)
      /\ state'[i] = "open" /\ rd'[i] = "read" /\ wr'[i] = "loop" /\ InUse(i)'
      /\ pipe'[i].in_seq = pipe[i].in_seq /\ pipe'[i].conn_id = pipe[i].conn_id
      /\ pipe'[i].connect_seq = loc[i].cseq + 1 /\ loc[i].cseq \in Nat
      /\ \A k \in Pipes \ {i} : Still(k)
      /\ UNCHANGED <<global_seq, submitted, in_q, delivered>>
  BY ReadyEnd
<1>2. /\ \A k \in Pipes : sock'[k].peer = sock[k].peer
      /\ \A k \in Pipes \ {i} : k # sock[i].peer => sock'[k].in = sock[k].in
      /\ sock'[i].in = Tail(sock[i].in)
      /\ Severing(sock')
  BY ReadySock
<1>3. sock[i].in \in Seq(Frames) /\ sock[i].in # <<>>
  BY InIsSeq, GrantedAnswer DEF ConnectReady
<1>4. Elements(sock'[i].in) \subseteq Elements(sock[i].in)
  BY <1>2, <1>3, ElementsTail
<1>5. StepOf(i)
  <2>1. \A k \in Pipes \ {i} :
          sock'[k].in = sock[k].in \/ (Live(sock', i) /\ k = sock[i].peer /\ rd[k] # "accept")
    <3>1. ASSUME NEW k \in Pipes \ {i}, sock'[k].in # sock[k].in
          PROVE  Live(sock', i) /\ k = sock[i].peer /\ rd[k] # "accept"
      <4>1. k = sock[i].peer
        BY <1>2, <3>1
      <4>2. Live(sock, i)
        BY <4>1, NoneIsNoPipe DEF Live
      <4> QED BY <1>2, <4>1, <4>2, ReadyPair DEF Live
    <3> QED BY <3>1
  <2> QED BY <1>1, <1>2, <2>1 DEF StepOf, Attempting
<1>6. Grows
  <2>1. Sane(i)
    BY SaneNow
  <2>2. Top(outq[i]) \in Nat
    BY <2>1, QueueNumbers DEF Sane
  <2>3. Top(outq'[i]) = Top(outq[i])
    BY ReadyQueue
  <2>4. ~Tentative(i)' /\ pipe'[i].connect_seq > 0
    BY <1>1 DEF Tentative
  <2>5. CarriesOn(i, i)
    BY <1>1, <2>1, <2>2, <2>3, <2>4 DEF CarriesOn, Sane
  <2> QED BY <1>5, <2>5, StepGrows
<1>7. NewFramesOK
  <2> SUFFICES ASSUME NEW k \in Pipes, NEW f \in Elements(sock'[k].in), f \notin Elements(sock[k].in)
               PROVE  FrameOK(Owner(k), f)' /\ f.kind # "connect"
    BY DEF NewFramesOK
  <2>1. k # i /\ k = sock[i].peer
    BY <1>2, <1>4
  <2>2. Live(sock, i)
    BY <2>1, NoneIsNoPipe DEF Live
  <2>3. Other(Owner(k)) = Owner(i)
    BY <2>1, <2>2, ReadyPair
  <2>4. pipe[i].in_seq \in Nat
    BY SaneNow DEF Sane
  <2>5. f = SeqFrame(pipe[i].in_seq)
    <3>1. SeqFrame(pipe[i].in_seq) \in Frames
      BY <2>4, FrameTypes DEF SeqFrame
    <3>2. \/ sock'[k].in = <<>>
          \/ sock'[k].in = Append(<<>>, SeqFrame(pipe[i].in_seq))
      BY <2>1, <2>2, ReadySock
    <3> QED BY <3>1, <3>2, OneElement, ElementsEmpty
  <2>6. f.kind = "seq" /\ f.seq = pipe[i].in_seq
    BY <2>5 DEF SeqFrame
  <2>7. InSeq(Owner(i))' = pipe[i].in_seq
    BY <1>1, PeerValuesLater
  <2>8. FrameOK(Owner(k), f)'
    BY <2>3, <2>4, <2>6, <2>7 DEF FrameOK
  <2> QED BY <2>6, <2>8
<1>8. NoSession' /\ \A p \in Peers : ReceivedOK(p)'
  BY <1>1, NothingReceived
<1> QED BY <1>4, <1>5, <1>6, <1>7, <1>8

(* What a granting answer says of the session it opens.                    *)
LEMMA ReadyFacts ==
  ASSUME TInv, WInv, CInv, NEW i \in Pipes, ConnectReady(i)
  PROVE  /\ sock[i].in # <<>> /\ Answer(i) \in Frames /\ Answer(i).kind = "reply"
         /\ Answer(i) = Head(sock[i].in) /\ Answer(i).gseq \in Nat /\ Answer(i).acked \in Nat
         /\ Answer(i).tag \in Granting /\ Awaits(i) /\ Attempting(i)
         /\ Known(Other(Owner(i))) /\ Counts(Other(Owner(i)))
         /\ Answer(i).tag = "SEQ" => Answer(i).acked <= InSeq(Other(Owner(i)))
         /\ Answer(i).tag # "SEQ" => pipe[i].connect_seq = 0 /\ Fresh(i) /\ outq[i].out_seq = 0
                                     /\ Top(outq[i]) = 0
<1>1. Answers(i, {"READY", "SEQ"})
  BY DEF ConnectReady
<1>2. /\ wr[i] = "await" /\ state[i] = "connecting" /\ InUse(i)
      /\ sock[i].in # <<>> /\ Answer(i) \in Frames /\ Answer(i).kind = "reply"
      /\ FrameOK(Owner(i), Answer(i))
      /\ Answer(i).acked \in Nat /\ Answer(i).gseq \in Nat
      /\ Answer(i).tag = "SEQ" => Answer(i).acked <= InSeq(Other(Owner(i)))
  BY <1>1, GrantedAnswer
<1>3. Answer(i).tag \in Granting /\ Awaits(i) /\ Attempting(i) /\ Answer(i) = Head(sock[i].in)
  BY <1>1, <1>2 DEF Answers, Granting, Awaits, Attempting, Answer
<1>4. Known(Other(Owner(i))) /\ Counts(Other(Owner(i))) /\ ReplyOK(Answer(i), Other(Owner(i)))
  BY <1>2, <1>3 DEF FrameOK
<1>5. Answer(i).tag # "SEQ" => pipe[i].connect_seq = 0 /\ Fresh(i) /\ outq[i].out_seq = 0
                               /\ Top(outq[i]) = 0
  <2> SUFFICES ASSUME Answer(i).tag # "SEQ"
               PROVE  pipe[i].connect_seq = 0 /\ Fresh(i) /\ outq[i].out_seq = 0
                      /\ Top(outq[i]) = 0
    OBVIOUS
  <2>1. Answer(i).cseq = 1
    BY <1>3, <1>4 DEF ReplyOK, Granting
  <2>2. Answer(i).cseq = loc[i].cseq + 1
    BY <1>2, <1>3 DEF WInv, EndInv, ExpectedAnswer
  <2>3. loc[i].cseq = pipe[i].connect_seq /\ loc[i].cseq \in Nat
    BY <1>2, SaneNow DEF WInv, EndInv, Sane
  <2>4. pipe[i].connect_seq = 0
    BY <2>1, <2>2, <2>3
  <2>5. Fresh(i)
    BY <1>2, <2>4 DEF CInv, SessionOK
  <2>6. Top(outq[i]) = 0
    BY <2>5 DEF Fresh
  <2>7. outq[i].out_seq \in Nat /\ outq[i].out_seq <= Top(outq[i])
    BY QueueInUse, QueueNumbers
  <2> QED BY <2>4, <2>5, <2>6, <2>7
<1> QED BY <1>2, <1>3, <1>4, <1>5

(* ... from where it stopped ...                                           *)
LEMMA ReadyOwn ==
  ASSUME TInv, WInv, CInv, TInv', NEW i \in Pipes, ConnectReady(i)
  PROVE  PipeOK(i)' /\ SessionOK(i)' /\ NextOnes(i)' /\ Guarded(i)'
<1>1. /\ wr[i] = "await" /\ state[i] = "connecting" /\ rd[i] \in {"none", "sleep"} /\ InUse(i)
      /\ state'[i] = "open" /\ rd'[i] = "read" /\ wr'[i] = "loop" /\ InUse(i)'
      /\ pipe'[i].in_seq = pipe[i].in_seq /\ pipe'[i].conn_id = pipe[i].conn_id
      /\ pipe'[i].lossy = FALSE /\ pipe'[i].peer_global_seq = Answer(i).gseq
      /\ pipe'[i].connect_seq = loc[i].cseq + 1 /\ loc[i].cseq \in Nat
      /\ UNCHANGED <<global_seq, submitted, in_q, delivered>>
  BY ReadyEnd
<1>2. /\ StepOf(i) /\ NewFramesOK /\ Grows
      /\ Elements(sock'[i].in) \subseteq Elements(sock[i].in)
  BY ReadyBasics
<1>3. sock'[i].in = Tail(sock[i].in)
  BY ReadySock
<1>4. /\ sock[i].in # <<>> /\ Answer(i).kind = "reply" /\ Answer(i) = Head(sock[i].in)
      /\ Answer(i).gseq \in Nat /\ Answer(i).acked \in Nat
      /\ Answer(i).tag \in Granting /\ Awaits(i)
      /\ Known(Other(Owner(i)))
      /\ Answer(i).tag = "SEQ" => Answer(i).acked <= InSeq(Other(Owner(i)))
  BY ReadyFacts
<1>5. PipeOK(i) /\ SessionOK(i) /\ NextOnes(i) /\ Guarded(i)
  BY DEF CInv
<1>6. PipeOK(i)'
  <2>1. pipe[i].conn_id \in ConnIds /\ \A f \in Elements(sock[i].in) : f.kind # "connect"
    BY <1>1, <1>5 DEF PipeOK
  <2> QED BY <1>1, <1>2, <2>1 DEF PipeOK
<1>7. SessionOK(i)'
  <2>1. PICK p \in Peers : p = Other(Owner(i))
    BY OwnerIsPeer, OtherPeer
  <2>2. /\ InSeq(p) \in Nat /\ InSeq(p)' \in Nat /\ Sent(p) \in Nat /\ Sent(p)' \in Nat
        /\ InSeq(p) <= InSeq(p)' /\ Sent(p) <= Sent(p)' /\ (Known(p) => Known(p)')
    BY <1>2, PeerTypes, PeerTypesLater DEF Grows
  <2>3. Base(outq[i]) <= InSeq(p) /\ pipe[i].in_seq <= Sent(p)
    BY <1>1, <1>5, <2>1 DEF SessionOK
  <2>4. /\ Consecutive(outq'[i], submitted[Owner(i)])
        /\ Base(outq'[i]) = outq'[i].out_seq /\ Base(outq[i]) = outq[i].out_seq
        /\ outq[i].out_seq \in Nat
        /\ outq'[i].out_seq = outq[i].out_seq
           \/ (Answer(i).tag = "SEQ" /\ outq'[i].out_seq = Answer(i).acked)
    BY ReadyQueue
  <2>5. Base(outq'[i]) <= InSeq(p)'
    BY <1>4, <2>1, <2>2, <2>3, <2>4
  <2>6. pipe'[i].in_seq <= Sent(p)'
    <3>1. pipe[i].in_seq \in Nat
      BY SaneNow DEF Sane
    <3> QED BY <1>1, <2>2, <2>3, <3>1
  <2>7. pipe'[i].connect_seq > 0 /\ ~Attempting(i)' /\ ~Tentative(i)'
    BY <1>1 DEF Attempting, Tentative
  <2> QED BY <1>1, <1>4, <2>1, <2>2, <2>4, <2>5, <2>6, <2>7 DEF SessionOK
<1>8. NextOnes(i)'
  <2>1. PICK s \in Seq(Frames) : s = sock[i].in
    BY InIsSeq
  <2>2. PICK n \in Nat : n = pipe[i].in_seq
    BY SaneNow DEF Sane
  <2>3. Climbs(s, n)
    BY <1>4, <1>5, <2>1, <2>2 DEF NextOnes
  <2>4. Climbs(Tail(s), n)
    BY <1>4, <2>1, <2>3, ClimbsTail
  <2> QED BY <1>1, <1>3, <2>1, <2>2, <2>4 DEF NextOnes
<1>9. Guarded(i)'
  <2>1. PICK b \in Nat : b = Answer(i).gseq
    BY <1>4
  <2>2. TrustsReply(i, b)
    BY <1>4, <2>1 DEF TrustsReply
  <2>3. PICK p \in Peers : p = Owner(i)
    BY OwnerIsPeer
  <2>4. ZerosBelow(p, b)
    BY <1>5, <2>2, <2>3 DEF Guarded
  <2>5. NoNewAttempts
    BY <1>2, StepNoNewAttempts
  <2>6. ZerosBelow(p, b)'
    BY <2>4, <2>5, ZerosKept
  <2>7. ZerosBelow(Owner(i), pipe[i].peer_global_seq)'
    BY <1>1, <2>1, <2>3, <2>6 DEF ZerosBelow
  <2>8. \A c \in Nat : ~TrustsReply(i, c)'
    BY <1>1 DEF TrustsReply, Awaits
  <2> QED BY <2>7, <2>8 DEF Guarded
<1> QED BY <1>6, <1>7, <1>8, <1>9

(* No attempt of the same messenger is as new as the one that was granted. *)
LEMMA ReadyIsNewest ==
  ASSUME TInv, WInv, CInv, NEW i \in Pipes, ConnectReady(i), NEW x \in Pipes, Live(sock, i),
         x = sock[i].peer
  PROVE  ZerosBelow(Owner(x), pipe[x].peer_global_seq)
<1>1. /\ x # i /\ Owner(x) = Other(Owner(i)) /\ Other(Owner(x)) = Owner(i)
      /\ state[x] = "open" /\ sock[x].in = <<>> /\ Linked(x, i)
  BY ReadyPair
<1>2. Attempting(i) /\ Awaits(i)
  BY ReadyFacts
<1>3. pipe[x].peer_global_seq = loc[i].gseq
  BY <1>1, <1>2 DEF Linked
<1>4. InUse(i) /\ wr[i] = "await"
  BY ReadyEnd
<1>5. loc[i].gseq = global_seq[Owner(i)]
  BY <1>2, <1>4 DEF CInv, SessionOK
<1>6. loc[i].gseq \in Nat
  BY SaneNow DEF Sane
<1>7. Newest(i)
  BY DEF CInv
<1>8. ASSUME NEW k \in Pipes, NEW f \in Elements(sock[k].in),
             Owner(k) = Owner(x), f.kind = "connect"
      PROVE  f.gseq < loc[i].gseq
  <2>1. FrameOK(Owner(k), f)
    BY DEF CInv, FramesOK
  <2>2. f.gseq <= global_seq[Owner(i)]
    BY <1>1, <1>8, <2>1 DEF FrameOK
  <2>3. f.gseq \in Nat
    BY <1>8, ArrivedIsFrame, FrameFields
  <2>4. f.gseq # loc[i].gseq
    <3> SUFFICES ASSUME f.gseq = loc[i].gseq PROVE FALSE
      OBVIOUS
    <3>1. Owner(k) = Other(Owner(i))
      BY <1>1, <1>8
    <3>2. k = x
      BY <1>2, <1>7, <1>8, <3>1 DEF Newest
    <3> QED BY <1>1, <3>2, ElementsEmpty
  <2> QED BY <1>5, <1>6, <2>2, <2>3, <2>4
<1>9. ASSUME NEW j \in Pipes, Owner(j) = Other(Owner(x)), wr[j] = "join"
      PROVE  loc[j].gseq < loc[i].gseq
  BY <1>1, <1>2, <1>4, <1>7, <1>9 DEF Newest
<1> QED BY <1>3, <1>8, <1>9 DEF ZerosBelow

(* ... and from where the peer stopped, ...                                *)
LEMMA ReadyLinks ==
  ASSUME TInv, WInv, CInv, TInv', NEW i \in Pipes, ConnectReady(i),
         NEW x \in Pipes, Live(sock', i), x = sock[i].peer
  PROVE  NextOnes(x)' /\ Guarded(x)' /\ Linked(i, x)' /\ Linked(x, i)'
<1>1. /\ wr[i] = "await" /\ state[i] = "connecting" /\ rd[i] \in {"none", "sleep"} /\ InUse(i)
      /\ state'[i] = "open" /\ rd'[i] = "read" /\ wr'[i] = "loop" /\ InUse(i)'
      /\ pipe'[i].in_seq = pipe[i].in_seq
      /\ \A k \in Pipes \ {i} : Still(k)
  BY ReadyEnd
<1>2. /\ \A k \in Pipes : sock'[k].peer = sock[k].peer
      /\ sock'[i].in = Tail(sock[i].in)
  BY ReadySock
<1>3. Live(sock, i)
  BY <1>2 DEF Live
<1>4. /\ x # i /\ Owner(x) = Other(Owner(i)) /\ Other(Owner(x)) = Owner(i)
      /\ state[x] = "open" /\ InUse(x) /\ rd[x] \notin {"accept", "reply"} /\ wr[x] # "await"
      /\ sock[x].in = <<>> /\ Linked(i, x) /\ Linked(x, i)
  BY <1>3, ReadyPair
<1>5. Still(x)
  BY <1>1, <1>4
<1>6. /\ state'[x] = "open" /\ rd'[x] = rd[x] /\ wr'[x] = wr[x] /\ outq'[x] = outq[x]
      /\ pipe'[x].in_seq = pipe[x].in_seq
      /\ pipe'[x].peer_global_seq = pipe[x].peer_global_seq
  BY <1>4, <1>5 DEF Still
<1>7. PICK n \in Nat : n = pipe[i].in_seq
  BY SaneNow DEF Sane
<1>8. PICK m \in Nat : m = pipe[x].in_seq
  BY SaneNow DEF Sane
<1>9. /\ \A f \in Elements(sock'[x].in) : f.kind = "seq" /\ f.seq = n
      /\ ~HasMsg(sock'[x].in)
  <2>1. SeqFrame(n) \in Frames
    BY FrameTypes DEF SeqFrame
  <2>2. sock'[x].in = <<>> \/ sock'[x].in = Append(<<>>, SeqFrame(n))
    BY <1>3, <1>7, ReadySock
  <2>3. \A f \in Elements(sock'[x].in) : f = SeqFrame(n)
    BY <2>1, <2>2, OneElement, ElementsEmpty
  <2>4. SeqFrame(n).kind = "seq" /\ SeqFrame(n).seq = n
    BY DEF SeqFrame
  <2> QED BY <2>3, <2>4 DEF HasMsg
<1>10. Climbs(sock'[x].in, m) /\ Ends(sock'[x].in, m, m)
  BY <1>9, NoMsgs
<1>11. NextOnes(x)'
  BY <1>6, <1>8, <1>10 DEF NextOnes
<1>12. Guarded(x)'
  <2>1. PICK b \in Nat : b = pipe[x].peer_global_seq
    BY SaneNow DEF Sane
  <2>2. PICK p \in Peers : p = Owner(x)
    BY OwnerIsPeer
  <2>3. ZerosBelow(p, b)
    BY <1>3, <2>1, <2>2, ReadyIsNewest
  <2>4. NoNewAttempts
    BY ReadyBasics, StepNoNewAttempts
  <2>5. ZerosBelow(p, b)'
    BY <2>3, <2>4, ZerosKept
  <2>6. ZerosBelow(Owner(x), pipe[x].peer_global_seq)'
    BY <1>6, <2>1, <2>2, <2>5 DEF ZerosBelow
  <2>7. \A c \in Nat : ~TrustsReply(x, c)'
    BY <1>6 DEF TrustsReply, Awaits
  <2> QED BY <2>6, <2>7 DEF Guarded
<1>13. outq'[i].out_seq = m
  <2>1. /\ Base(outq[i]) = outq[i].out_seq /\ outq[i].out_seq \in Nat
        /\ Answer(i).tag = "SEQ" =>
             (outq[i].out_seq <= Answer(i).acked => outq'[i].out_seq = Answer(i).acked)
        /\ Answer(i).tag # "SEQ" => outq'[i] = outq[i]
    BY ReadyQueue
  <2>2. SessionOK(i) /\ SessionOK(x)
    BY DEF CInv
  <2>3. InSeq(Other(Owner(i))) = m /\ Sent(Other(Owner(x))) = Top(outq[i])
    BY <1>1, <1>4, <1>8, PeerValues
  <2>4. CASE Answer(i).tag = "SEQ"
    <3>1. sock[i].in # <<>> /\ Awaits(i)
      BY ReadyFacts
    <3>2. Answer(i).acked = m
      BY <1>4, <1>8, <2>4, <3>1 DEF Linked
    <3>3. Base(outq[i]) <= m
      BY <1>1, <2>2, <2>3 DEF SessionOK
    <3> QED BY <2>1, <2>4, <3>2, <3>3
  <2>5. CASE Answer(i).tag # "SEQ"
    <3>1. outq[i].out_seq = 0 /\ Top(outq[i]) = 0
      BY <2>5, ReadyFacts
    <3>2. pipe[x].in_seq <= 0
      BY <1>4, <2>2, <2>3, <3>1 DEF SessionOK
    <3> QED BY <1>8, <2>1, <2>5, <3>1, <3>2
  <2> QED BY <2>4, <2>5
<1>14. Linked(i, x)'
  <2>1. LastWritten(i)' = m
    BY <1>1, <1>13 DEF LastWritten
  <2>2. Ends(sock'[x].in, pipe'[x].in_seq, LastWritten(i)')
    BY <1>6, <1>8, <1>10, <2>1
  <2> QED BY <1>1, <1>6, <2>2 DEF Linked, Awaits
<1>15. Linked(x, i)'
  <2>1. wr[x] # "none" => Ends(sock'[i].in, n, LastWritten(x))
    <3> SUFFICES ASSUME wr[x] # "none" PROVE Ends(sock'[i].in, n, LastWritten(x))
      OBVIOUS
    <3>1. Ends(sock[i].in, n, LastWritten(x))
      BY <1>1, <1>4, <1>7 DEF Linked
    <3>2. PICK s \in Seq(Frames) : s = sock[i].in
      BY InIsSeq
    <3>3. s # <<>> /\ Head(s).kind = "reply" /\ Awaits(i)
      BY <3>2, ReadyFacts
    <3>4. Climbs(s, n)
      BY <1>7, <3>2, <3>3 DEF CInv, NextOnes
    <3>5. PICK l \in Nat : l = LastWritten(x)
      BY <1>4, LastIsNat
    <3>6. Ends(Tail(s), n, l)
      BY <3>1, <3>2, <3>3, <3>4, <3>5, EndsTail
    <3> QED BY <1>2, <3>2, <3>5, <3>6
  <2>2. LastWritten(x)' = LastWritten(x)
    BY <1>6 DEF LastWritten
  <2>3. wr'[x] # "none" => Ends(sock'[i].in, pipe'[i].in_seq, LastWritten(x)')
    BY <1>1, <1>6, <1>7, <2>1, <2>2
  <2>4. wr'[x] = "none" => Only(sock'[i].in, "reply")
    <3>1. wr[x] = "none" => Only(sock[i].in, "reply")
      BY <1>4 DEF Linked
    <3>2. Elements(sock'[i].in) \subseteq Elements(sock[i].in)
      BY ReadyBasics
    <3> QED BY <1>6, <3>1, <3>2 DEF Only
  <2>5. wr'[x] # "await" /\ ~Awaits(i)'
    BY <1>1, <1>4, <1>6 DEF Awaits
  <2>6. \A f \in Elements(sock'[x].in) : f.seq = pipe'[i].in_seq
    BY <1>1, <1>7, <1>9
  <2> QED BY <2>3, <2>4, <2>5, <2>6 DEF Linked
<1> QED BY <1>11, <1>12, <1>14, <1>15

(* ... which keeps the invariant.                                          *)
LEMMA ConnectReadyCInv ==
  ASSUME TInv, WInv, CInv, TInv', WInv', NEW i \in Pipes, ConnectReady(i)
  PROVE  CInv'
<1>1. /\ StepOf(i) /\ NewFramesOK /\ Grows
      /\ NoSession' /\ \A p \in Peers : ReceivedOK(p)'
  BY ReadyBasics
<1>2. PipeOK(i)' /\ SessionOK(i)' /\ NextOnes(i)' /\ Guarded(i)'
  BY ReadyOwn
<1>3. \A x \in Pipes : Live(sock', i) /\ x = sock[i].peer =>
        NextOnes(x)' /\ Guarded(x)' /\ Linked(i, x)' /\ Linked(x, i)'
  BY ReadyLinks
<1> QED BY <1>1, <1>2, <1>3, OneStep

(* _send_message() on a registered Pipe, and connect_rank() when there is  *)
(* none.                                                                   *)
LEMMA FreeUnlinked ==
  ASSUME TInv, WInv, NEW j \in Pipes, state[j] = "free"
  PROVE  /\ ~Live(sock, j) /\ ~InUse(j) /\ rd[j] = "none" /\ wr[j] = "none"
         /\ \A k \in Pipes : Live(sock, k) => sock[k].peer # j
<1>1. rd[j] = "none" /\ wr[j] = "none" /\ ~InUse(j)
  BY DEF TInv, LInv, FreeIsClean, InUse
<1>2. ~Live(sock, j)
  <2> SUFFICES ASSUME Live(sock, j) PROVE FALSE
    OBVIOUS
  <2>1. PICK x : x = sock[j].peer
    OBVIOUS
  <2>2. Paired(j, x)
    BY <2>1 DEF WInv, LinkInv
  <2> QED BY <1>1, <2>2 DEF Paired, Calling, Asked, Refused, Granted, Told, Undecided, Opened,
               GaveUp, Joined
<1>3. \A k \in Pipes : Live(sock, k) => sock[k].peer # j
  BY <1>2, PeerIsPipe
<1> QED BY <1>1, <1>2, <1>3

Queued(q, m) == Send(q, m, FALSE)

(* A submitted message is the last in line.                                *)
LEMMA QueuedConsecutive ==
  ASSUME NEW q, Good(q, Ids), NEW n \in Nat, Consecutive(q, n), NEW m \in Message(Ids), m.id = n + 1,
         NEW r, r = Queued(q, m)
  PROVE  /\ Consecutive(r, n + 1) /\ Base(r) = Base(q) /\ Top(r) = Top(q)
         /\ r.out_seq = q.out_seq
BY SendConsecutive DEF Queued

(* A message is submitted to the session there is.                         *)
LEMMA SendsCInv ==
  ASSUME TInv, WInv, CInv, TInv', WInv', NEW p \in Peers, Submit(p), Lookup(p) # None
  PROVE  CInv'
<1>1. PICK i \in Pipes : i = Lookup(p) /\ Owner(i) = p /\ InUse(i)
  BY LookupInUse
<1>2. PICK m \in Message(Ids) : m = [id |-> submitted[p] + 1, seq |-> 0]
  <2>1. PICK n \in Nat : n = submitted[p]
    BY SeqTypes
  <2>2. [id |-> n + 1, seq |-> 0] \in Message(Ids)
    BY DEF Message, Ids
  <2> QED BY <2>1, <2>2
<1>3. /\ submitted' = [submitted EXCEPT ![p] = @ + 1]
      /\ outq' = [outq EXCEPT ![i] = Queued(@, m)]
      /\ UNCHANGED <<state, pipe, wr, rd, loc, sock, global_seq, in_q, delivered>>
  <2>1. submitted[p] + 1 \notin Urgent
    BY DEF CInv, LosslessPeers
  <2> QED BY <1>1, <1>2, <2>1 DEF Submit, Queued, Send
<1>4. outq \in [Pipes -> OutQ(Ids)] /\ submitted \in [Peers -> Nat]
  BY DEF TInv, DataOK
<1>5. PICK n \in Nat : n = submitted[p]
  BY <1>4
<1>6. submitted'[p] = n + 1 /\ \A q \in Peers \ {p} : submitted'[q] = submitted[q]
  BY <1>3, <1>4, <1>5
<1>7. PICK q : q = outq[i]
  OBVIOUS
<1>8. Good(q, Ids) /\ Consecutive(q, n)
  BY <1>1, <1>5, <1>7, QueueInUse
<1>9. /\ outq'[i] = Queued(q, m) /\ \A k \in Pipes \ {i} : outq'[k] = outq[k]
  BY <1>3, <1>4, <1>7
<1>10. m.id = n + 1
  BY <1>2, <1>5
<1>11. PICK r : r = Queued(q, m)
  OBVIOUS
<1>12. Consecutive(r, n + 1) /\ Base(r) = Base(q) /\ Top(r) = Top(q) /\ r.out_seq = q.out_seq
  BY <1>8, <1>10, <1>11, QueuedConsecutive
<1>13. /\ Consecutive(outq'[i], submitted'[Owner(i)]) /\ Base(outq'[i]) = Base(outq[i])
       /\ Top(outq'[i]) = Top(outq[i]) /\ outq'[i].out_seq = outq[i].out_seq
  BY <1>1, <1>6, <1>7, <1>9, <1>11, <1>12
<1>14. \A k \in Pipes \ {i} : PairStill(k)
  BY <1>3, <1>9 DEF PairStill, Still
<1>15. StepOf(i) /\ NewFramesOK
  <2>1. ASSUME NEW k \in Pipes \ {i}, InUse(k) PROVE submitted'[Owner(k)] = submitted[Owner(k)]
    <3>1. Owner(k) # p
      BY <1>1, <2>1, InUseLookup
    <3> QED BY <1>6, <3>1, OwnerIsPeer
  <2>2. Severing(sock')
    BY <1>3 DEF Severing, Live
  <2>3. StepOf(i)
    BY <1>3, <1>14, <2>1, <2>2 DEF StepOf, PairStill, Attempting
  <2>4. NewFramesOK
    BY <1>3 DEF NewFramesOK
  <2> QED BY <2>3, <2>4
<1>16. Grows
  <2>1. Sane(i) /\ Top(outq[i]) \in Nat
    BY SaneNow, QueueInUse, QueueNumbers
  <2>2. CarriesOn(i, i)
    BY <1>1, <1>3, <1>13, <2>1 DEF CarriesOn, InUse, Tentative, Sane
  <2> QED BY <1>15, <2>2, StepGrows
<1>17. \A k \in Pipes : InUse(k)' <=> InUse(k)
  BY <1>3 DEF InUse
<1>18. NoSession' /\ \A x \in Peers : ReceivedOK(x)'
  <2>1. \A x \in Peers : Lookup(x)' = Lookup(x)
    BY <1>17, LookupSame
  <2>2. NoSession'
    BY <1>6, <2>1 DEF NoSession, CInv
  <2>3. ASSUME NEW x \in Peers PROVE ReceivedOK(x)'
    <3>1. ReceivedOK(x)
      BY DEF CInv
    <3> QED BY <1>3, <2>1, <3>1, ReceivedKept
  <2> QED BY <2>2, <2>3
<1>19. PipeOK(i) /\ SessionOK(i) /\ NextOnes(i) /\ Guarded(i)
  BY DEF CInv
<1>20. PipeOK(i)'
  <2>1. WriterOK(i)'
    BY <1>3, <1>13, <1>16, <1>19, WriterStays DEF WriterKept
  <2>2. (rd[i] = "reply" => ReplyOK(loc[i].reply, Owner(i)))'
    <3> SUFFICES ASSUME rd'[i] = "reply" PROVE ReplyOK(loc[i].reply, Owner(i))'
      OBVIOUS
    <3>1. PICK f \in Replies : f = loc[i].reply
      BY SaneNow DEF Sane
    <3>2. f.acked \in Nat
      BY <3>1 DEF Replies
    <3>3. ReplyOK(f, p)
      BY <1>1, <1>3, <1>19, <3>1 DEF PipeOK
    <3>4. ReplyOK(f, p)'
      BY <1>16, <3>2, <3>3, ReplyGrows
    <3> QED BY <1>1, <1>3, <3>1, <3>4
  <2> QED BY <1>3, <1>19, <2>1, <2>2 DEF PipeOK, WriterOK
<1>21. SessionOK(i)'
  <2>1. PICK x \in Peers : x = Other(Owner(i))
    BY OwnerIsPeer, OtherPeer
  <2>2. /\ InSeq(x) \in Nat /\ InSeq(x)' \in Nat /\ Sent(x) \in Nat /\ Sent(x)' \in Nat
        /\ InSeq(x) <= InSeq(x)' /\ Sent(x) <= Sent(x)' /\ (Known(x) => Known(x)')
    BY <1>16, PeerTypes, PeerTypesLater DEF Grows
  <2>3. /\ Base(outq[i]) <= InSeq(x) /\ pipe[i].in_seq <= Sent(x)
        /\ pipe[i].connect_seq = 0 => Fresh(i)
        /\ Attempting(i) => loc[i].gseq = global_seq[Owner(i)]
        /\ Tentative(i) => Top(outq[i]) = 0
        /\ pipe[i].connect_seq > 0 => Known(x)
    BY <1>1, <1>19, <2>1 DEF SessionOK
  <2>4. Base(outq[i]) \in Nat /\ pipe[i].in_seq \in Nat
    BY QueueInUse, QueueNumbers, SaneNow DEF Sane
  <2>5. Base(outq'[i]) <= InSeq(x)' /\ pipe'[i].in_seq <= Sent(x)'
    BY <1>3, <1>13, <2>2, <2>3, <2>4
  <2>6. pipe'[i].connect_seq = 0 => Fresh(i)'
    BY <1>3, <1>13, <2>3 DEF Fresh
  <2>7. /\ Attempting(i)' => loc'[i].gseq = global_seq'[Owner(i)]
        /\ Tentative(i)' => Top(outq'[i]) = 0
    BY <1>3, <1>13, <2>3 DEF Attempting, Tentative
  <2>8. pipe'[i].connect_seq > 0 => Known(x)'
    BY <1>3, <2>2, <2>3
  <2> QED BY <1>13, <2>1, <2>5, <2>6, <2>7, <2>8 DEF SessionOK
<1>22. NextOnes(i)'
  BY <1>3, <1>19 DEF NextOnes, Listens, Awaits, InUse
<1>23. NoNewAttempts
  BY <1>15, StepNoNewAttempts
<1>24. \A x \in Pipes : Guarded(x)'
  <2> SUFFICES ASSUME NEW x \in Pipes PROVE Guarded(x)'
    OBVIOUS
  <2>1. Guarded(x)
    BY DEF CInv
  <2>2. TrustsOpen(x)' => TrustsOpen(x) /\ pipe'[x].peer_global_seq = pipe[x].peer_global_seq
    BY <1>3, <1>17 DEF TrustsOpen, Listens, Live, HasMsg
  <2>3. \A b \in Nat : TrustsReply(x, b)' => TrustsReply(x, b)
    BY <1>3 DEF TrustsReply, Awaits, Live, Answer
  <2> QED BY <1>23, <2>1, <2>2, <2>3, GuardedKept
<1>25. ASSUME NEW x \in Pipes, Live(sock', i), x = sock[i].peer
       PROVE  NextOnes(x)' /\ Guarded(x)' /\ Linked(i, x)' /\ Linked(x, i)'
  <2>1. x # i /\ sock[x].peer = i /\ Live(sock, x) /\ Live(sock, i)
    BY <1>3, <1>25, PeerIsPipe DEF Live
  <2>2. NextOnes(x)'
    BY <1>14, <2>1, NextKept DEF CInv
  <2>3. Linked(i, x) /\ Linked(x, i)
    BY <1>25, <2>1 DEF CInv, PairOK
  <2>4. LastWritten(i)' = LastWritten(i) /\ LastWritten(x)' = LastWritten(x)
    BY <1>3, <1>9, <1>13, <2>1 DEF LastWritten
  <2>5. Linked(i, x)'
    BY <1>3, <2>3, <2>4 DEF Linked, Only, Awaits, Answer, Ends
  <2>6. Linked(x, i)'
    BY <1>3, <2>3, <2>4 DEF Linked, Only, Awaits, Answer, Ends
  <2> QED BY <1>24, <2>2, <2>5, <2>6
<1> QED BY <1>15, <1>16, <1>18, <1>20, <1>21, <1>22, <1>24, <1>25, OneStep

(* The first message makes a Pipe ...                                      *)
LEMMA NewSessionValues ==
  ASSUME TInv, WInv, CInv, NEW p \in Peers, Submit(p), Lookup(p) = None
  PROVE  \E i \in Pipes : \E q :
           /\ Owner(i) = p /\ state[i] = "free" /\ rd[i] = "none" /\ wr[i] = "none"
           /\ state'[i] = "connecting" /\ wr'[i] = "loop" /\ outq'[i] = q
           /\ Good(q, Ids) /\ Consecutive(q, 1) /\ Base(q) = 0 /\ Top(q) = 0
           /\ pipe'[i].in_seq = 0 /\ pipe'[i].connect_seq = 0 /\ pipe'[i].lossy = FALSE
           /\ pipe'[i].conn_id \in ConnIds
           /\ submitted'[p] = 1 /\ \A r \in Peers \ {p} : submitted'[r] = submitted[r]
           /\ \A k \in Pipes \ {i} : state'[k] = state[k] /\ pipe'[k] = pipe[k]
                                     /\ outq'[k] = outq[k] /\ wr'[k] = wr[k]
           /\ \A r \in Peers \ {p} : rank_pipe'[r] = rank_pipe[r]
           /\ UNCHANGED <<rd, loc, sock, global_seq, in_q, delivered>>
<1>1. ~Policy[p].server /\ ~Policy[p].lossy /\ submitted[p] + 1 \notin Urgent /\ submitted[p] = 0
  BY DEF CInv, LosslessPeers, NoSession
<1>2. PICK i : i = FreePipe(p)
  OBVIOUS
<1>3. PICK m : m = [id |-> 1, seq |-> 0]
  OBVIOUS
<1>4. /\ CanMakePipe(p)
      /\ submitted' = [submitted EXCEPT ![p] = 1]
      /\ state' = [state EXCEPT ![i] = "connecting"]
      /\ pipe' = [pipe EXCEPT ![i] = NewPipe(p, FreshId(p))]
      /\ outq' = [outq EXCEPT ![i] = Queued(EmptyOutQ(0), m)]
      /\ wr' = [wr EXCEPT ![i] = "loop"]
      /\ rank_pipe' = [rank_pipe EXCEPT ![p] = i]
      /\ UNCHANGED <<rd, loc, sock, global_seq, in_q, delivered>>
  BY <1>1, <1>2, <1>3 DEF Submit, Queued, Send
<1>5. i \in Pipes /\ state[i] = "free" /\ Owner(i) = p
  BY <1>2, <1>4, FreePipeIsFree DEF CanMakePipe
<1>6. FreshId(p) \in ConnIds
  BY <1>4, FreshIdType DEF CanMakePipe
<1>7. /\ NewPipe(p, FreshId(p)).in_seq = 0 /\ NewPipe(p, FreshId(p)).connect_seq = 0
      /\ NewPipe(p, FreshId(p)).lossy = Policy[p].lossy
      /\ NewPipe(p, FreshId(p)).conn_id \in ConnIds
  BY <1>6 DEF NewPipe
<1>8. /\ wr \in [Pipes -> WriterPC] /\ pipe \in [Pipes -> PipeType] /\ state \in [Pipes -> States]
      /\ outq \in [Pipes -> OutQ(Ids)] /\ submitted \in [Peers -> Nat]
      /\ rank_pipe \in [Peers -> Pipes \cup {None}]
  BY DEF TInv, LInv, Control, DataOK
<1>9. PICK e : e = EmptyOutQ(0)
  OBVIOUS
<1>10. PICK q : q = Queued(e, m)
  OBVIOUS
<1>11. m \in Message(Ids) /\ m.id = 1 /\ m.seq = 0
  BY <1>3 DEF Message, Ids
<1>12. Good(e, Ids) /\ Consecutive(e, 0) /\ Base(e) = 0 /\ Top(e) = 0
  BY <1>9, EmptyOutQGood, EmptyConsecutive DEF Ids
<1>13. Consecutive(q, 1) /\ Base(q) = 0 /\ Top(q) = 0
  <2>1. 0 + 1 = 1 /\ 0 \in Nat
    OBVIOUS
  <2>2. PICK z \in Nat : z = 0
    BY <2>1
  <2>3. Consecutive(q, z + 1) /\ Base(q) = Base(e) /\ Top(q) = Top(e)
    BY <1>10, <1>11, <1>12, <2>2, QueuedConsecutive
  <2> QED BY <1>12, <2>1, <2>2, <2>3
<1>14. Good(q, Ids)
  BY <1>10, <1>11, <1>12, SendGood DEF Queued
<1>15. rd[i] = "none" /\ wr[i] = "none"
  BY <1>5 DEF TInv, LInv, FreeIsClean
<1>16. outq'[i] = q
  BY <1>4, <1>5, <1>8, <1>9, <1>10
<1>17. /\ state'[i] = "connecting" /\ wr'[i] = "loop" /\ pipe'[i] = NewPipe(p, FreshId(p))
       /\ submitted'[p] = 1 /\ \A r \in Peers \ {p} : submitted'[r] = submitted[r]
       /\ \A k \in Pipes \ {i} : state'[k] = state[k] /\ pipe'[k] = pipe[k]
                                 /\ outq'[k] = outq[k] /\ wr'[k] = wr[k]
       /\ \A r \in Peers \ {p} : rank_pipe'[r] = rank_pipe[r]
  BY <1>4, <1>5, <1>8
<1>18. /\ pipe'[i].in_seq = 0 /\ pipe'[i].connect_seq = 0 /\ pipe'[i].lossy = FALSE
       /\ pipe'[i].conn_id \in ConnIds
  <2>1. Policy[p].lossy = FALSE
    BY <1>1, PolicyTypes
  <2> QED BY <1>7, <1>17, <2>1
<1> QED BY <1>4, <1>5, <1>13, <1>14, <1>15, <1>16, <1>17, <1>18

(* ... with a session on which nothing has happened.                       *)
LEMMA NewSessionCInv ==
  ASSUME TInv, WInv, CInv, TInv', WInv', NEW p \in Peers, Submit(p), Lookup(p) = None
  PROVE  CInv'
<1>1. PICK i \in Pipes : \E q :
        /\ Owner(i) = p /\ state[i] = "free" /\ rd[i] = "none" /\ wr[i] = "none"
        /\ state'[i] = "connecting" /\ wr'[i] = "loop" /\ outq'[i] = q
        /\ Good(q, Ids) /\ Consecutive(q, 1) /\ Base(q) = 0 /\ Top(q) = 0
        /\ pipe'[i].in_seq = 0 /\ pipe'[i].connect_seq = 0 /\ pipe'[i].lossy = FALSE
        /\ pipe'[i].conn_id \in ConnIds
        /\ submitted'[p] = 1 /\ \A r \in Peers \ {p} : submitted'[r] = submitted[r]
        /\ \A k \in Pipes \ {i} : state'[k] = state[k] /\ pipe'[k] = pipe[k]
                                  /\ outq'[k] = outq[k] /\ wr'[k] = wr[k]
        /\ \A r \in Peers \ {p} : rank_pipe'[r] = rank_pipe[r]
        /\ UNCHANGED <<rd, loc, sock, global_seq, in_q, delivered>>
  BY NewSessionValues
<1>2. /\ ~Live(sock, i) /\ ~InUse(i)
      /\ \A k \in Pipes : Live(sock, k) => sock[k].peer # i
  BY <1>1, FreeUnlinked
<1>3. \A k \in Pipes \ {i} : PairStill(k)
  BY <1>1 DEF PairStill, Still
<1>4. InUse(i)' /\ p = Owner(i)
  BY <1>1 DEF InUse
<1>5. ~Live(sock', i)
  BY <1>1, <1>2 DEF Live
<1>6. StepOf(i) /\ NewFramesOK
  <2>1. ASSUME NEW k \in Pipes \ {i}, InUse(k) PROVE submitted'[Owner(k)] = submitted[Owner(k)]
    <3>1. Owner(k) # p
      BY <2>1, InUseLookup
    <3> QED BY <1>1, <3>1, OwnerIsPeer
  <2>2. Severing(sock')
    BY <1>1 DEF Severing, Live
  <2>3. StepOf(i)
    BY <1>1, <1>3, <2>1, <2>2 DEF StepOf, PairStill, Attempting
  <2>4. NewFramesOK
    BY <1>1 DEF NewFramesOK
  <2> QED BY <2>3, <2>4
<1>7. Grows
  BY <1>2, <1>6, StepGrows
<1>8. ReceivedOK(p)
  BY DEF CInv
<1>9. /\ delivered'[p] = <<>>
      /\ \A c \in ConnIds : in_q'[p][c] = <<>>
      /\ \A j \in Pipes : Owner(j) = p => rd'[j] # "dispatch"
  <2>1. \A j \in Pipes : Owner(j) = p /\ rd[j] = "dispatch" => j = None
    BY <1>8 DEF ReceivedOK
  <2>2. delivered[p] = <<>> /\ \A c \in ConnIds : in_q[p][c] = <<>>
    BY <1>8 DEF ReceivedOK
  <2> QED BY <1>1, <2>1, <2>2, NoneIsNoPipe
<1>10. ReceivedOK(p)'
  <2>1. PICK c \in ConnIds : c = pipe'[i].conn_id
    BY <1>1
  <2>2. Numbers(delivered'[p], 0) /\ Numbers(in_q'[p][c], Len(delivered'[p]))
    BY <1>9 DEF Numbers
  <2>3. InHand(i)' = 0 /\ Len(delivered'[p]) = 0 /\ Len(in_q'[p][c]) = 0
    BY <1>1, <1>9 DEF InHand
  <2>4. Len(delivered'[p]) + Len(in_q'[p][c]) + InHand(i)' = pipe'[i].in_seq
    BY <1>1, <2>3
  <2> QED BY <1>1, <1>4, <1>9, <2>1, <2>2, <2>4, ReceivedByLater
<1>11. \A r \in Peers \ {p} : Lookup(r)' = Lookup(r)
  <2> SUFFICES ASSUME NEW r \in Peers \ {p} PROVE Lookup(r)' = Lookup(r)
    OBVIOUS
  <2>1. rank_pipe'[r] = rank_pipe[r]
    BY <1>1
  <2>2. rank_pipe[r] # None => rank_pipe[r] \in Pipes /\ rank_pipe[r] # i
    BY <1>1 DEF TInv, LInv, Control, Registered
  <2> QED BY <1>1, <2>1, <2>2 DEF Lookup
<1>12. NoSession' /\ \A r \in Peers : ReceivedOK(r)'
  <2>1. Lookup(p)' # None
    BY <1>4, InUseLookupLater
  <2>2. NoSession'
    BY <1>1, <1>11, <2>1 DEF CInv, NoSession
  <2>3. ASSUME NEW r \in Peers \ {p} PROVE ReceivedOK(r)'
    <3>1. ReceivedOK(r)
      BY DEF CInv
    <3>2. \A k \in Pipes : k = Lookup(r) =>
            pipe'[k].in_seq = pipe[k].in_seq /\ pipe'[k].conn_id = pipe[k].conn_id
      <4> SUFFICES ASSUME NEW k \in Pipes, k = Lookup(r)
                   PROVE  pipe'[k].in_seq = pipe[k].in_seq /\ pipe'[k].conn_id = pipe[k].conn_id
        OBVIOUS
      <4>1. k # i
        BY <1>2, LookupInUse, NoneIsNoPipe
      <4> QED BY <1>1, <4>1
    <3> QED BY <1>1, <1>11, <3>1, <3>2, ReceivedKept
  <2> QED BY <1>10, <2>2, <2>3
<1>13. PipeOK(i)'
  <2>1. \A f \in Elements(sock[i].in) : f.kind # "connect"
    BY <1>1 DEF CInv, PipeOK
  <2> QED BY <1>1, <2>1 DEF PipeOK
<1>14. SessionOK(i)'
  <2>1. PICK x \in Peers : x = Other(Owner(i))
    BY OwnerIsPeer, OtherPeer
  <2>2. InSeq(x)' \in Nat /\ Sent(x)' \in Nat
    BY PeerTypesLater
  <2>3. Fresh(i)'
    BY <1>1 DEF Fresh
  <2>4. Base(outq'[i]) <= InSeq(x)' /\ pipe'[i].in_seq <= Sent(x)'
    BY <1>1, <2>2
  <2>5. ~Attempting(i)' /\ ~Tentative(i)'
    BY <1>1 DEF Attempting, Tentative
  <2>6. Consecutive(outq'[i], submitted'[Owner(i)])
    BY <1>1
  <2>7. ~(pipe'[i].connect_seq > 0)
    BY <1>1
  <2> QED BY <2>1, <2>3, <2>4, <2>5, <2>6, <2>7 DEF SessionOK
<1>15. NextOnes(i)'
  BY <1>1 DEF NextOnes, Listens, Awaits
<1>16. Guarded(i)'
  <2>1. ~TrustsOpen(i)'
    BY <1>1, <1>5 DEF TrustsOpen, Listens
  <2>2. \A b \in Nat : ~TrustsReply(i, b)'
    BY <1>1 DEF TrustsReply, Awaits
  <2> QED BY <2>1, <2>2 DEF Guarded
<1> QED BY <1>5, <1>6, <1>7, <1>12, <1>13, <1>14, <1>15, <1>16, OneStep

(* A message is submitted.                                                 *)
LEMMA SubmitCInv ==
  ASSUME TInv, WInv, CInv, TInv', WInv', NEW p \in Peers, Submit(p)
  PROVE  CInv'
BY SendsCInv, NewSessionCInv
=============================================================================
