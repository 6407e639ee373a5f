---------------------- MODULE PipeSessionChannelProofs ----------------------
(***************************************************************************)
(* The invariant CInv of PipeSessionReadProofs under a new attempt to      *)
(* connect and under what accept() makes of one; that it always holds; and *)
(* what follows: nothing is lost, sessions resume where they stopped, and  *)
(* the messengers implement ReliableChannel.                               *)
(***************************************************************************)
EXTENDS PipeSessionWriteProofs

(* A Pipe trusts only a session that its peer has opened before.           *)
LEMMA SentCounts ==
  ASSUME TInv, WInv, CInv, NEW p \in Peers, Sent(p) > 0
  PROVE  Counts(p)
<1>1. Lookup(p) # None
  BY DEF Sent
<1>2. PICK j \in Pipes : j = Lookup(p) /\ InUse(j) /\ Owner(j) = p
  BY <1>1, LookupInUse
<1>3. Top(outq[j]) > 0
  BY <1>2, PeerValues
<1>4. pipe[j].connect_seq # 0
  BY <1>2, <1>3 DEF CInv, SessionOK, Fresh
<1>5. pipe[j].connect_seq \in Nat
  BY SaneNow DEF Sane
<1> QED BY <1>1, <1>2, <1>4, <1>5 DEF Counts

(* The session of an open Pipe has been opened.                            *)
LEMMA OpenCounts ==
  ASSUME TInv, WInv, CInv, NEW j \in Pipes, state[j] = "open"
  PROVE  Counts(Owner(j))
<1>1. InUse(j)
  BY DEF InUse
<1>2. pipe[j].connect_seq # 0
  BY <1>1 DEF CInv, SessionOK, Fresh
<1>3. pipe[j].connect_seq \in Nat
  BY SaneNow DEF Sane
<1> QED BY <1>1, <1>2, <1>3, PeerValues

(* What a Pipe relies on shows that its peer has opened the session, ...   *)
LEMMA TrustCounts ==
  ASSUME TInv, WInv, CInv, NEW x \in Pipes
  PROVE  /\ TrustsOpen(x) => Counts(Other(Owner(x)))
         /\ \A b \in Nat : TrustsReply(x, b) => Counts(Other(Owner(x)))
<1>1. PICK p \in Peers : p = Other(Owner(x))
  BY OwnerIsPeer, OtherPeer
<1>2. Sent(p) \in Nat /\ pipe[x].in_seq \in Nat
  BY PeerTypes, SaneNow DEF Sane
<1>3. ASSUME InUse(x), pipe[x].in_seq > 0 PROVE Counts(p)
  <2>1. pipe[x].in_seq <= Sent(p)
    BY <1>1, <1>3 DEF CInv, SessionOK
  <2> QED BY <1>2, <1>3, <2>1, SentCounts
<1>4. ASSUME HasMsg(sock[x].in) PROVE Counts(p)
  <2>1. PICK f \in Elements(sock[x].in) : f.kind = "msg"
    BY <1>4 DEF HasMsg
  <2>2. FrameOK(Owner(x), f)
    BY DEF CInv, FramesOK
  <2>3. 1 <= f.msg.seq /\ f.msg.seq <= Sent(p)
    BY <1>1, <2>1, <2>2 DEF FrameOK
  <2>4. f.msg.seq \in Nat
    <3>1. f \in Frames
      BY ArrivedIsFrame
    <3> QED BY <2>1, <3>1, FrameFields DEF Message
  <2>5. Sent(p) > 0
    BY <1>2, <2>3, <2>4
  <2> QED BY <2>5, SentCounts
<1>5. ASSUME NEW j \in Pipes, Live(sock, x), j = sock[x].peer
      PROVE  Owner(j) = p
  BY <1>1, <1>5 DEF WInv, LinkInv
<1>6. Live(sock, x) => sock[x].peer \in Pipes
  BY PeerIsPipe
<1>7. ASSUME Live(sock, x), state[sock[x].peer] = "open" PROVE Counts(p)
  BY <1>5, <1>6, <1>7, OpenCounts
<1>8. ASSUME Awaits(x), sock[x].in # <<>>, Answer(x).tag \in Granting PROVE Counts(p)
  <2>1. ExpectedAnswer(x)
    BY <1>8 DEF WInv, EndInv, Awaits
  <2>2. Answer(x).kind = "reply"
    BY <2>1 DEF ExpectedAnswer
  <2>3. PICK s \in Seq(Frames) : s = sock[x].in
    BY InIsSeq
  <2>4. Head(s) \in Elements(s)
    BY <1>8, <2>3, ElementsTail
  <2>5. FrameOK(Owner(x), Answer(x))
    BY <2>3, <2>4 DEF CInv, FramesOK, Answer
  <2> QED BY <1>1, <1>8, <2>2, <2>5 DEF FrameOK
<1>9. ASSUME Awaits(x), Live(sock, x), rd[sock[x].peer] = "reply" PROVE Counts(p)
  <2>1. PICK j \in Pipes : j = sock[x].peer
    BY <1>6, <1>9
  <2>2. Calling(x, j)
    BY <1>9, <2>1, CallerPair DEF Awaits
  <2>3. state[j] = "open"
    BY <1>9, <2>1, <2>2 DEF Calling, Asked, Refused, Granted, Told, Undecided, Opened
  <2> QED BY <1>7, <1>9, <2>1, <2>3
<1>10. TrustsOpen(x) => Counts(p)
  BY <1>3, <1>4, <1>7 DEF TrustsOpen
<1>11. \A b \in Nat : TrustsReply(x, b) => Counts(p)
  BY <1>8, <1>9 DEF TrustsReply
<1> QED BY <1>1, <1>10, <1>11

(* An attempt numbered g at a new session with p is under way.             *)
ZeroAttempt(p, g) ==
  \/ \E k \in Pipes : \E f \in Elements(sock[k].in) :
       Owner(k) = p /\ f.kind = "connect" /\ f.cseq = 0 /\ f.gseq = g
  \/ \E j \in Pipes : Owner(j) = Other(p) /\ wr[j] = "join" /\ loc[j].cseq = 0 /\ loc[j].gseq = g

NewZeros ==
  \A p \in Peers : \A g : ZeroAttempt(p, g)' => ZeroAttempt(p, g) \/ ~Counts(Other(p))

(* The attempts at a new session that are under way, one by one, ...       *)
LEMMA ZerosAreBelow ==
  ASSUME NEW p, NEW b
  PROVE  ZerosBelow(p, b) <=> \A g : ZeroAttempt(p, g) => g < b
<1>1. ASSUME ZerosBelow(p, b), NEW g, ZeroAttempt(p, g) PROVE g < b
  <2>1. CASE \E k \in Pipes : \E f \in Elements(sock[k].in) :
               Owner(k) = p /\ f.kind = "connect" /\ f.cseq = 0 /\ f.gseq = g
    <3>1. PICK k \in Pipes : \E f \in Elements(sock[k].in) :
               Owner(k) = p /\ f.kind = "connect" /\ f.cseq = 0 /\ f.gseq = g
      BY <2>1
    <3>2. PICK f \in Elements(sock[k].in) :
               Owner(k) = p /\ f.kind = "connect" /\ f.cseq = 0 /\ f.gseq = g
      BY <3>1
    <3>3. f.gseq < b
      BY <1>1, <3>2 DEF ZerosBelow
    <3> QED BY <3>2, <3>3
  <2>2. CASE \E j \in Pipes :
               Owner(j) = Other(p) /\ wr[j] = "join" /\ loc[j].cseq = 0 /\ loc[j].gseq = g
    <3>1. PICK j \in Pipes :
               Owner(j) = Other(p) /\ wr[j] = "join" /\ loc[j].cseq = 0 /\ loc[j].gseq = g
      BY <2>2
    <3>2. loc[j].gseq < b
      BY <1>1, <3>1 DEF ZerosBelow
    <3> QED BY <3>1, <3>2
  <2> QED BY <1>1, <2>1, <2>2 DEF ZeroAttempt
<1>2. ASSUME \A g : ZeroAttempt(p, g) => g < b PROVE ZerosBelow(p, b)
  <2>1. ASSUME NEW i \in Pipes, NEW f \in Elements(sock[i].in),
               Owner(i) = p, f.kind = "connect", f.cseq = 0
        PROVE  f.gseq < b
    <3>1. ZeroAttempt(p, f.gseq)
      BY <2>1 DEF ZeroAttempt
    <3> QED BY <1>2, <3>1
  <2>2. ASSUME NEW j \in Pipes, Owner(j) = Other(p), wr[j] = "join", loc[j].cseq = 0
        PROVE  loc[j].gseq < b
    <3>1. ZeroAttempt(p, loc[j].gseq)
      BY <2>2 DEF ZeroAttempt
    <3> QED BY <1>2, <3>1
  <2> QED BY <2>1, <2>2 DEF ZerosBelow
<1> QED BY <1>1, <1>2

(* ... and after a step.                                                   *)
LEMMA ZerosAreBelowLater ==
  ASSUME NEW p, NEW b, \A g : ZeroAttempt(p, g)' => g < b
  PROVE  ZerosBelow(p, b)'
<1>1. ASSUME NEW i \in Pipes, NEW f \in Elements(sock'[i].in),
             Owner(i) = p, f.kind = "connect", f.cseq = 0
      PROVE  f.gseq < b
  <2>1. PICK g : g = f.gseq
    OBVIOUS
  <2>2. ZeroAttempt(p, g)'
    BY <1>1, <2>1 DEF ZeroAttempt
  <2> QED BY <2>1, <2>2
<1>2. ASSUME NEW j \in Pipes, Owner(j) = Other(p), wr'[j] = "join", loc'[j].cseq = 0
      PROVE  loc'[j].gseq < b
  <2>1. PICK g : g = loc'[j].gseq
    OBVIOUS
  <2>2. ZeroAttempt(p, g)'
    BY <1>2, <2>1 DEF ZeroAttempt
  <2> QED BY <2>1, <2>2
<1> QED BY <1>1, <1>2 DEF ZerosBelow

(* An attempt at a new session that begins endangers no other session.     *)
LEMMA GuardedAnew ==
  ASSUME TInv, WInv, CInv, NewZeros, NEW x \in Pipes,
         TrustsOpen(x)' => TrustsOpen(x) /\ pipe'[x].peer_global_seq = pipe[x].peer_global_seq,
         \A b \in Nat : TrustsReply(x, b)' => TrustsReply(x, b)
  PROVE  Guarded(x)'
<1>1. PICK p \in Peers : p = Owner(x)
  BY OwnerIsPeer
<1>2. Guarded(x)
  BY DEF CInv
<1>3. ASSUME NEW b, ZerosBelow(p, b), Counts(Other(p)) PROVE ZerosBelow(p, b)'
  <2>1. \A g : ZeroAttempt(p, g)' => g < b
    BY <1>3, ZerosAreBelow DEF NewZeros
  <2> QED BY <2>1, ZerosAreBelowLater
<1>4. TrustsOpen(x)' => ZerosBelow(Owner(x), pipe[x].peer_global_seq)'
  <2> SUFFICES ASSUME TrustsOpen(x)' PROVE ZerosBelow(Owner(x), pipe[x].peer_global_seq)'
    OBVIOUS
  <2>1. PICK b : b = pipe[x].peer_global_seq
    OBVIOUS
  <2>2. TrustsOpen(x) /\ pipe'[x].peer_global_seq = b
    BY <2>1
  <2>3. Counts(Other(p))
    BY <1>1, <2>2, TrustCounts
  <2>4. ZerosBelow(p, b)
    BY <1>1, <1>2, <2>1, <2>2 DEF Guarded
  <2>5. ZerosBelow(p, b)'
    BY <1>3, <2>3, <2>4
  <2> QED BY <1>1, <2>2, <2>5 DEF ZerosBelow
<1>5. ASSUME NEW b \in Nat, TrustsReply(x, b)' PROVE ZerosBelow(Owner(x), b)'
  <2>1. TrustsReply(x, b)
    BY <1>5
  <2>2. Counts(Other(p))
    BY <1>1, <2>1, TrustCounts
  <2>3. ZerosBelow(p, b)
    BY <1>1, <1>2, <2>1 DEF Guarded
  <2>4. ZerosBelow(p, b)'
    BY <1>3, <2>2, <2>3
  <2> QED BY <1>1, <2>4
<1> QED BY <1>4, <1>5 DEF Guarded

(* connect() takes a global_seq.                                           *)
LEMMA ConnectValues ==
  ASSUME TInv, WInv, CInv, NEW i \in Pipes, Connect(i), NEW p, p = Owner(i)
  PROVE  /\ p \in Peers /\ InUse(i) /\ state[i] \in {"connecting", "standby"} /\ wr[i] = "loop"
         /\ rd[i] \notin {"accept", "reply", "seq"}
         /\ state'[i] = "connecting" /\ wr'[i] = "join" /\ global_seq[p] \in Nat
         /\ global_seq'[p] = global_seq[p] + 1 /\ global_seq'[Other(p)] = global_seq[Other(p)]
         /\ loc'[i].cseq = pipe[i].connect_seq /\ loc'[i].gseq = global_seq[p] + 1
         /\ loc'[i].id = loc[i].id /\ loc'[i].reply = loc[i].reply
         /\ loc'[i].replaced = loc[i].replaced
         /\ UNCHANGED <<pipe, outq, rd, sock, in_q, submitted, delivered>>
         /\ \A k \in Pipes \ {i} : PairStill(k)
         /\ \A k \in Pipes : InUse(k)' <=> InUse(k)
<1>1. /\ wr[i] = "loop" /\ MayConnect(i)
      /\ state' = [state EXCEPT ![i] = "connecting"]
      /\ global_seq' = [global_seq EXCEPT ![p] = @ + 1]
      /\ loc' = [loc EXCEPT ![i].cseq = pipe[i].connect_seq,
                            ![i].gseq = global_seq[p] + 1, ![i].bad_auth = FALSE]
      /\ wr' = [wr EXCEPT ![i] = "join"]
      /\ UNCHANGED <<pipe, outq, rd, sock, in_q, submitted, delivered>>
  BY DEF Connect, appVars
<1>2. /\ wr \in [Pipes -> WriterPC] /\ state \in [Pipes -> States]
      /\ loc \in [Pipes -> LocType] /\ global_seq \in [Peers -> Nat]
  BY DEF TInv, LInv, Control, DataOK
<1>3. p \in Peers /\ Other(p) \in Peers /\ Other(p) # p
  BY OwnerIsPeer, OtherPeer
<1>4. state[i] \in {"connecting", "standby"} /\ InUse(i)
  BY <1>1 DEF MayConnect, InUse
<1>5. rd[i] \notin {"accept", "reply", "seq"}
  BY <1>1 DEF TInv, PipeInv
<1>6. /\ state'[i] = "connecting" /\ wr'[i] = "join"
      /\ global_seq'[p] = global_seq[p] + 1 /\ global_seq'[Other(p)] = global_seq[Other(p)]
      /\ global_seq[p] \in Nat
  BY <1>1, <1>2, <1>3
<1>7. /\ loc'[i].cseq = pipe[i].connect_seq /\ loc'[i].gseq = global_seq[p] + 1
      /\ loc'[i].id = loc[i].id /\ loc'[i].reply = loc[i].reply
      /\ loc'[i].replaced = loc[i].replaced
  BY <1>1, <1>2 DEF LocType
<1>8. \A k \in Pipes \ {i} : PairStill(k)
  BY <1>1, <1>2 DEF PairStill, Still
<1>9. \A k \in Pipes : InUse(k)' <=> InUse(k)
  BY <1>4, <1>6, <1>8 DEF PairStill, Still, InUse
<1> QED BY <1>1, <1>3, <1>4, <1>5, <1>6, <1>7, <1>8, <1>9

(* connect() begins: the sessions and what was said of them stay, ...      *)
LEMMA ConnectGrows ==
  ASSUME TInv, WInv, CInv, TInv', NEW i \in Pipes, Connect(i)
  PROVE  Grows /\ NoSession' /\ (\A p \in Peers : ReceivedOK(p)') /\ FramesOK'
<1>1. PICK p : p = Owner(i)
  OBVIOUS
<1>2. /\ p \in Peers /\ InUse(i) /\ wr[i] = "loop"
      /\ rd[i] \notin {"accept", "reply", "seq"}
      /\ state'[i] = "connecting" /\ wr'[i] = "join" /\ global_seq[p] \in Nat
      /\ global_seq'[p] = global_seq[p] + 1 /\ global_seq'[Other(p)] = global_seq[Other(p)]
      /\ loc'[i].id = loc[i].id
      /\ UNCHANGED <<pipe, outq, rd, sock, in_q, submitted, delivered>>
      /\ \A k \in Pipes \ {i} : PairStill(k)
      /\ \A k \in Pipes : InUse(k)' <=> InUse(k)
  BY <1>1, ConnectValues
<1>3. Grows
  <2>1. \A r \in Peers : global_seq[r] <= global_seq'[r]
    <3> SUFFICES ASSUME NEW r \in Peers PROVE global_seq[r] <= global_seq'[r]
      OBVIOUS
    <3>1. r = p \/ r = Other(p)
      BY <1>2 DEF Peers, Other
    <3>2. global_seq[r] \in Nat
      BY SeqTypes
    <3> QED BY <1>2, <3>1, <3>2
  <2>2. ASSUME NEW k \in Pipes, InUse(k) PROVE CarriesOn(k, k)
    <3>1. CASE k # i
      BY <1>2, <2>2, <3>1, StillCarriesOn DEF PairStill
    <3>2. CASE k = i
      <4>1. Sane(i) /\ Top(outq[i]) \in Nat
        BY SaneNow, QueueInUse, QueueNumbers
      <4>2. ~Tentative(i)'
        BY <1>2 DEF Tentative
      <4>3. CarriesOn(i, i)
        BY <1>2, <4>1, <4>2 DEF CarriesOn, Sane
      <4> QED BY <3>2, <4>3
    <3> QED BY <3>1, <3>2
  <2>3. \A k \in Pipes : InUse(k) => \E j \in Pipes : CarriesOn(k, j)
    BY <2>2
  <2> QED BY <2>1, <2>3, GrowsBy
<1>4. FramesOK'
  <2>1. \A k \in Pipes : \A f \in Elements(sock'[k].in) : f \in Elements(sock[k].in)
    BY <1>2
  <2> QED BY <1>3, <2>1, FramesKept
<1>5. NoSession' /\ \A r \in Peers : ReceivedOK(r)'
  <2>1. \A k \in Pipes \ {i} : Still(k)
    BY <1>2 DEF PairStill
  <2>2. \A r \in Peers : submitted'[r] = submitted[r]
    BY <1>2
  <2> QED BY <1>2, <2>1, <2>2, NothingReceived
<1> QED BY <1>3, <1>4, <1>5

(* ... and what every Pipe says and has, ...                               *)
LEMMA ConnectSessions ==
  ASSUME TInv, WInv, CInv, TInv', NEW i \in Pipes, Connect(i), NEW k \in Pipes
  PROVE  PipeOK(k)' /\ SessionOK(k)' /\ NextOnes(k)'
<1>1. PICK p : p = Owner(i)
  OBVIOUS
<1>2. /\ p \in Peers /\ InUse(i) /\ state[i] \in {"connecting", "standby"} /\ wr[i] = "loop"
      /\ rd[i] \notin {"accept", "reply", "seq"}
      /\ state'[i] = "connecting" /\ wr'[i] = "join" /\ global_seq[p] \in Nat
      /\ global_seq'[p] = global_seq[p] + 1 /\ global_seq'[Other(p)] = global_seq[Other(p)]
      /\ loc'[i].cseq = pipe[i].connect_seq /\ loc'[i].gseq = global_seq[p] + 1
      /\ UNCHANGED <<pipe, outq, rd, sock, in_q, submitted, delivered>>
      /\ \A j \in Pipes \ {i} : PairStill(j)
      /\ \A j \in Pipes : InUse(j)' <=> InUse(j)
  BY <1>1, ConnectValues
<1>3. Grows
  BY ConnectGrows
<1>4. PipeOK(k) /\ SessionOK(k) /\ NextOnes(k)
  BY DEF CInv
<1>5. CASE k # i
  <2>1. PairStill(k) /\ Still(k)
    BY <1>2, <1>5 DEF PairStill
  <2>2. sock'[k].in = sock[k].in
    BY <1>2
  <2>3. rd[k] = "accept" => Len(sock'[k].in) <= 1
    BY <1>4, <2>2 DEF PipeOK
  <2>4. PipeOK(k)'
    BY <1>3, <1>4, <2>1, <2>2, <2>3, PipeKept
  <2>5. Attempting(k) => global_seq'[Owner(k)] = global_seq[Owner(k)]
    <3> SUFFICES ASSUME Attempting(k) PROVE global_seq'[Owner(k)] = global_seq[Owner(k)]
      OBVIOUS
    <3>1. InUse(k)
      BY DEF Attempting, InUse
    <3>2. Owner(k) # p
      BY <1>1, <1>2, <1>5, <3>1, InUseLookup
    <3>3. Owner(k) = Other(p)
      BY <1>2, <3>2, OwnerIsPeer DEF Peers, Other
    <3> QED BY <1>2, <3>3
  <2>6. SessionOK(k)'
    BY <1>2, <1>3, <1>4, <2>1, <2>5, SessionKept
  <2>7. NextOnes(k)'
    BY <1>4, <2>1, NextKept
  <2> QED BY <2>4, <2>6, <2>7
<1>6. CASE k = i
  <2>1. Sane(i)
    BY SaneNow
  <2>2. PICK x \in Peers : x = Other(Owner(i))
    BY OwnerIsPeer, OtherPeer
  <2>3. /\ InSeq(x) \in Nat /\ InSeq(x)' \in Nat /\ Sent(x) \in Nat /\ Sent(x)' \in Nat
        /\ InSeq(x) <= InSeq(x)' /\ Sent(x) <= Sent(x)' /\ (Known(x) => Known(x)')
    BY <1>3, PeerTypes, PeerTypesLater DEF Grows
  <2>4. SessionOK(i) /\ PipeOK(i) /\ NextOnes(i)
    BY <1>4, <1>6
  <2>5. /\ Base(outq[i]) <= InSeq(x) /\ pipe[i].in_seq <= Sent(x)
        /\ pipe[i].connect_seq = 0 => Fresh(i)
        /\ Consecutive(outq[i], submitted[Owner(i)])
        /\ pipe[i].connect_seq > 0 => Known(x)
    BY <1>2, <2>2, <2>4 DEF SessionOK
  <2>6. ~Tentative(i)' /\ Known(Owner(i))'
    <3>1. ~Tentative(i)'
      BY <1>2 DEF Tentative
    <3>2. InUse(i)'
      BY <1>2
    <3> QED BY <3>1, <3>2, PeerValuesLater
  <2>7. PipeOK(i)'
    <3>1. /\ ~pipe[i].lossy /\ pipe[i].conn_id \in ConnIds
          /\ \A f \in Elements(sock[i].in) : f.kind # "connect"
      BY <1>2, <2>4 DEF PipeOK
    <3>2. loc'[i].gseq <= global_seq'[Owner(i)]
      BY <1>1, <1>2
    <3>3. loc'[i].cseq > 0 => Known(x)'
      BY <1>2, <2>3, <2>5
    <3>4. rd'[i] = rd[i] /\ sock'[i].in = sock[i].in /\ pipe'[i] = pipe[i]
      BY <1>2
    <3> QED BY <1>2, <2>2, <2>6, <3>1, <3>2, <3>3, <3>4 DEF PipeOK
  <2>8. SessionOK(i)'
    <3>1. Base(outq[i]) \in Nat /\ pipe[i].in_seq \in Nat
      BY <2>1, QueueInUse, QueueNumbers DEF Sane
    <3>2. Base(outq'[i]) <= InSeq(x)' /\ pipe'[i].in_seq <= Sent(x)'
      BY <1>2, <2>3, <2>5, <3>1
    <3>3. pipe'[i].connect_seq = 0 => Fresh(i)'
      BY <1>2, <2>5 DEF Fresh
    <3>4. loc'[i].gseq = global_seq'[Owner(i)]
      BY <1>1, <1>2
    <3>5. Consecutive(outq'[i], submitted'[Owner(i)])
      BY <1>2, <2>5
    <3>6. pipe'[i].connect_seq > 0 => Known(x)'
      BY <1>2, <2>3, <2>5
    <3> QED BY <2>2, <2>6, <3>2, <3>3, <3>4, <3>5, <3>6 DEF SessionOK
  <2>9. NextOnes(i)'
    <3>1. ~Awaits(i)' /\ (Listens(i)' => Listens(i))
      BY <1>2 DEF Awaits, Listens
    <3> QED BY <1>2, <2>4, <3>1 DEF NextOnes
  <2> QED BY <1>6, <2>7, <2>8, <2>9
<1> QED BY <1>5, <1>6

(* ... and how the ends of connections are linked, ...                     *)
LEMMA ConnectPairs ==
  ASSUME TInv, WInv, CInv, TInv', NEW i \in Pipes, Connect(i)
  PROVE  \A k \in Pipes : PairOK(k)'
<1>1. PICK p : p = Owner(i)
  OBVIOUS
<1>2. /\ state[i] \in {"connecting", "standby"} /\ wr[i] = "loop"
      /\ rd[i] \notin {"accept", "reply", "seq"}
      /\ state'[i] = "connecting" /\ wr'[i] = "join"
      /\ UNCHANGED <<pipe, outq, rd, sock>>
      /\ \A k \in Pipes \ {i} : PairStill(k)
  BY <1>1, ConnectValues
<1>3. Severing(sock')
  BY <1>2 DEF Severing, Live
<1>4. ASSUME NEW j \in Pipes, Live(sock, i), j = sock[i].peer
      PROVE  Linked(i, j)' /\ Linked(j, i)'
  <2>1. GaveUp(i, j)
    BY <1>2, <1>4, CallerPair
  <2>2. Undecided(j) /\ sock[j].in = <<>>
    BY <1>2, <2>1 DEF GaveUp
  <2>3. j # i /\ sock[j].peer = i /\ Live(sock, j)
    BY <1>4, PeerIsPipe
  <2>4. state'[j] = "accepting" /\ rd'[j] = "accept" /\ wr'[j] = wr[j]
    BY <1>2, <2>2, <2>3 DEF Undecided, PairStill, Still
  <2>5. Linked(i, j)'
    BY <1>2, <2>4 DEF Linked, Awaits
  <2>6. Linked(j, i)
    BY <2>3 DEF CInv, PairOK
  <2>7. wr[j] = "none"
    BY <2>2 DEF Undecided, TInv, LInv, AcceptingIsIdle
  <2>8. Only(sock[i].in, "reply")
    BY <2>6, <2>7 DEF Linked
  <2>9. Only(sock'[i].in, "reply")
    BY <1>2, <2>8 DEF Only
  <2>10. Linked(j, i)'
    BY <1>2, <2>4, <2>7, <2>9 DEF Linked, Awaits
  <2> QED BY <2>5, <2>10
<1>5. ASSUME NEW k \in Pipes, NEW j \in Pipes, Live(sock', k), j = sock[k].peer
      PROVE  (PairStill(k) /\ PairStill(j)) \/ Linked(k, j)'
  <2>1. Live(sock, k)
    BY <1>2, <1>5 DEF Live
  <2>2. sock[j].peer = k /\ Live(sock, j)
    BY <1>5, <2>1, PeerIsPipe
  <2>3. CASE k = i
    BY <1>4, <1>5, <2>1, <2>3
  <2>4. CASE j = i
    BY <1>4, <2>2, <2>4
  <2> QED BY <1>2, <2>3, <2>4
<1> QED BY <1>3, <1>5, PairsKept

(* ... the attempt is the newest, ...                                      *)
LEMMA ConnectNewest ==
  ASSUME TInv, WInv, CInv, NEW i \in Pipes, Connect(i)
  PROVE  \A k \in Pipes : Newest(k)'
<1>1. PICK p : p = Owner(i)
  OBVIOUS
<1>2. /\ p \in Peers /\ InUse(i) /\ state[i] \in {"connecting", "standby"} /\ wr[i] = "loop"
      /\ state'[i] = "connecting" /\ wr'[i] = "join" /\ global_seq[p] \in Nat
      /\ loc'[i].gseq = global_seq[p] + 1 /\ sock' = sock
      /\ \A k \in Pipes \ {i} : PairStill(k)
  BY <1>1, ConnectValues
<1>3. Other(p) \in Peers /\ Other(Other(p)) = p
  BY <1>2, OtherPeer
<1>4. \A k \in Pipes \ {i} : wr'[k] = wr[k] /\ loc'[k] = loc[k] /\ state'[k] = state[k]
  BY <1>2 DEF PairStill, Still
<1>5. ASSUME NEW k \in Pipes, k # i, Attempting(k)' PROVE Newest(k)'
  <2>1. Attempting(k) /\ InUse(k)
    BY <1>4, <1>5 DEF Attempting, InUse
  <2>2. Owner(k) # Owner(i)
    BY <1>2, <1>5, <2>1, InUseLookup
  <2>3. Newest(k)
    BY DEF CInv
  <2>4. \A j \in Pipes \ {k} : Owner(j) = Owner(k) => wr'[j] = wr[j] /\ loc'[j] = loc[j]
    BY <1>4, <2>2
  <2>5. wr'[k] = wr[k] /\ loc'[k] = loc[k]
    BY <1>4, <1>5
  <2> QED BY <1>2, <2>1, <2>3, <2>4, <2>5 DEF Newest, Live
<1>6. ASSUME NEW k \in Pipes, NEW f \in Elements(sock[k].in), Owner(k) = Other(p),
             f.kind = "connect"
      PROVE  f.gseq # loc'[i].gseq
  <2>1. FrameOK(Owner(k), f)
    BY DEF CInv, FramesOK
  <2>2. f.gseq <= global_seq[p]
    BY <1>3, <1>6, <2>1 DEF FrameOK
  <2>3. f.gseq \in Nat
    BY <1>6, ArrivedIsFrame, FrameFields
  <2> QED BY <1>2, <2>2, <2>3
<1>7. ASSUME NEW k \in Pipes, NEW f \in Elements(sock[k].in), f.kind = "connect"
      PROVE  sock[i].peer # k
  <2> SUFFICES ASSUME sock[i].peer = k PROVE FALSE
    OBVIOUS
  <2>1. Live(sock, i)
    BY NoneIsNoPipe DEF Live
  <2>2. GaveUp(i, k)
    BY <1>2, <2>1, CallerPair
  <2>3. sock[k].in = <<>>
    BY <1>2, <2>2 DEF GaveUp
  <2> QED BY <2>3, ElementsEmpty
<1>8. ASSUME NEW j \in Pipes \ {i}, Owner(j) = p, wr'[j] = "join"
      PROVE  loc'[j].gseq < loc'[i].gseq
  <2>1. wr[j] = "join" /\ loc'[j] = loc[j]
    BY <1>4, <1>8
  <2>2. loc[j].gseq <= global_seq[p]
    BY <1>8, <2>1 DEF CInv, PipeOK
  <2>3. loc[j].gseq \in Nat
    BY SaneNow DEF Sane
  <2> QED BY <1>2, <2>1, <2>2, <2>3
<1>9. Newest(i)'
  BY <1>1, <1>2, <1>6, <1>7, <1>8 DEF Newest
<1>10. \A k \in Pipes : ~Attempting(k)' => Newest(k)'
  BY DEF Newest
<1> QED BY <1>5, <1>9, <1>10

(* ... and endangers no session, ...                                       *)
LEMMA ConnectGuards ==
  ASSUME TInv, WInv, CInv, NEW i \in Pipes, Connect(i)
  PROVE  \A x \in Pipes : Guarded(x)'
<1>1. PICK p : p = Owner(i)
  OBVIOUS
<1>2. /\ p \in Peers /\ InUse(i) /\ state[i] \in {"connecting", "standby"} /\ wr[i] = "loop"
      /\ rd[i] \notin {"accept", "reply", "seq"}
      /\ state'[i] = "connecting" /\ wr'[i] = "join"
      /\ loc'[i].cseq = pipe[i].connect_seq
      /\ UNCHANGED <<pipe, rd, sock>>
      /\ \A k \in Pipes \ {i} : PairStill(k)
      /\ \A k \in Pipes : InUse(k)' <=> InUse(k)
  BY <1>1, ConnectValues
<1>3. \A k \in Pipes \ {i} : wr'[k] = wr[k] /\ loc'[k] = loc[k] /\ state'[k] = state[k]
  BY <1>2 DEF PairStill, Still
<1>4. Other(p) \in Peers /\ Other(Other(p)) = p
  BY <1>2, OtherPeer
<1>5. NewZeros
  <2> SUFFICES ASSUME NEW r \in Peers, NEW g, ZeroAttempt(r, g)', ~ZeroAttempt(r, g)
               PROVE  ~Counts(Other(r))
    BY DEF NewZeros
  <2>1. PICK j \in Pipes : /\ Owner(j) = Other(r) /\ wr'[j] = "join" /\ loc'[j].cseq = 0
                           /\ loc'[j].gseq = g
    BY <1>2 DEF ZeroAttempt
  <2>2. j = i
    BY <1>3, <2>1 DEF ZeroAttempt
  <2>3. Other(r) = p /\ pipe[i].connect_seq = 0
    BY <1>1, <1>2, <2>1, <2>2
  <2> QED BY <1>1, <1>2, <2>3, PeerValues
<1>6. Severing(sock')
  BY <1>2 DEF Severing, Live
<1>7. ASSUME NEW x \in Pipes, x # i PROVE Guarded(x)'
  <2>1. PairStill(x) /\ (Live(sock, x) => sock[x].peer \in Pipes)
    BY <1>2, <1>7, PeerIsPipe
  <2>2. \A j \in Pipes : Live(sock', x) /\ j = sock[x].peer =>
            /\ state'[j] = "open" /\ state[x] = "open" => state[j] = "open"
            /\ rd'[j] = "reply" => rd[j] = "reply" /\ loc'[j].reply = loc[j].reply
    BY <1>2, <1>3
  <2>3. /\ TrustsOpen(x)' => TrustsOpen(x) /\ pipe'[x].peer_global_seq = pipe[x].peer_global_seq
        /\ \A b \in Nat : TrustsReply(x, b)' => TrustsReply(x, b)
    BY <1>6, <2>1, <2>2, TrustKept
  <2> QED BY <1>5, <2>3, GuardedAnew
<1>8. Guarded(i)'
  <2>1. TrustsOpen(i)' => TrustsOpen(i) /\ pipe'[i].peer_global_seq = pipe[i].peer_global_seq
    BY <1>2 DEF TrustsOpen, Listens
  <2>2. \A b \in Nat : TrustsReply(i, b)' => TrustsReply(i, b)
    BY <1>2 DEF TrustsReply, Awaits
  <2> QED BY <1>5, <2>1, <2>2, GuardedAnew
<1> QED BY <1>7, <1>8

(* ... which keeps the invariant.                                          *)
LEMMA ConnectCInv ==
  ASSUME TInv, WInv, CInv, TInv', NEW i \in Pipes, Connect(i)
  PROVE  CInv'
<1>1. LosslessPeers'
  BY DEF CInv, LosslessPeers
<1>2. NoSession' /\ (\A p \in Peers : ReceivedOK(p)') /\ FramesOK'
  BY ConnectGrows
<1>3. \A k \in Pipes : PipeOK(k)' /\ SessionOK(k)' /\ NextOnes(k)'
  BY ConnectSessions
<1>4. \A k \in Pipes : PairOK(k)' /\ Newest(k)' /\ Guarded(k)'
  BY ConnectPairs, ConnectNewest, ConnectGuards
<1> QED BY <1>1, <1>2, <1>3, <1>4 DEF CInv

(* A list of one frame.                                                    *)
LEMMA SingleElement == \A f : Elements(<<f>>) = {f} /\ Len(<<f>>) = 1
BY DEF Elements

(* What connect() opens: a new socket, whose other end is a new Pipe.      *)
Opens(i, j, f) ==
  /\ state[j] = "free" /\ rd[j] = "none" /\ wr[j] = "none" /\ i # j
  /\ Owner(j) = Other(Owner(i))
  /\ f.kind = "connect" /\ f.cseq = loc[i].cseq /\ f.gseq = loc[i].gseq
  /\ state[i] \in {"connecting", "closed"} /\ wr[i] = "join" /\ rd[i] \in {"none", "sleep"}
  /\ state'[i] = state[i] /\ rd'[i] = rd[i] /\ wr'[i] = "await"
  /\ pipe'[i] = pipe[i] /\ outq' = outq /\ loc' = loc
  /\ state'[j] = "accepting" /\ rd'[j] = "accept" /\ wr'[j] = "none"
  /\ pipe'[j].in_seq = 0 /\ pipe'[j].lossy = FALSE /\ pipe'[j].conn_id \in ConnIds
  /\ sock'[i].peer = j /\ sock'[i].in = <<>> /\ sock'[j].peer = i /\ sock'[j].in = <<f>>
  /\ \A k \in Pipes \ {i, j} : PairStill(k) /\ pipe'[k] = pipe[k]
  /\ \A k \in Pipes \ {i, j} : Live(sock', k) =>
       /\ Live(sock, k) /\ sock'[k].peer = sock[k].peer
       /\ sock[k].peer \in Pipes \ {i, j}
  /\ UNCHANGED <<rank_pipe, global_seq, in_q, submitted, delivered>>

(* What connect() does when it opens its connection.                       *)
LEMMA OpensValues ==
  ASSUME TInv, WInv, CInv, NEW i \in Pipes, ConnectOpens(i)
  PROVE  \E j \in Pipes : \E f \in Frames : Opens(i, j, f)
<1>1. PICK q \in Peers : q = Other(Owner(i)) /\ Other(q) = Owner(i)
  BY OwnerIsPeer, OtherPeer
<1>2. PICK j \in Pipes : j = FreePipe(q) /\ state[j] = "free" /\ Owner(j) = q
  BY <1>1, FreePipeIsFree DEF ConnectOpens, CanMakePipe
<1>3. PICK c : c = Cut(sock, i)
  OBVIOUS
<1>4. PICK f : f = Attempt(loc[i].cseq, loc[i].gseq)
  OBVIOUS
<1>5. PICK r : r = NewPipe(q, FreshId(q))
  OBVIOUS
<1>6. /\ state' = [state EXCEPT ![j] = "accepting"]
      /\ pipe' = [pipe EXCEPT ![j] = r]
      /\ rd' = [rd EXCEPT ![j] = "accept"] /\ wr' = [wr EXCEPT ![i] = "await"]
      /\ sock' = [c EXCEPT ![i] = [peer |-> j, up |-> TRUE, in |-> <<>>],
                           ![j] = [peer |-> i, up |-> TRUE, in |-> <<f>>]]
      /\ wr[i] = "join" /\ ReaderGone(i) /\ FreeIds(q) # {}
      /\ UNCHANGED <<outq, loc, rank_pipe, global_seq, in_q, submitted, delivered>>
  BY <1>1, <1>2, <1>3, <1>4, <1>5 DEF ConnectOpens, CanMakePipe, msgrVars, appVars
<1>7. /\ pipe \in [Pipes -> PipeType] /\ sock \in Socks /\ EndInv(i)
      /\ state \in [Pipes -> States] /\ rd \in [Pipes -> ReaderPC] /\ wr \in [Pipes -> WriterPC]
  BY DEF TInv, DataOK, LInv, Control, Socks, WInv
<1>8. /\ f \in Frames /\ f.kind = "connect" /\ f.cseq = loc[i].cseq /\ f.gseq = loc[i].gseq
  <2>1. Sane(i)
    BY SaneNow
  <2> QED BY <1>4, <2>1, AttemptType DEF Attempt, Sane
<1>9. r.in_seq = 0 /\ r.lossy = FALSE /\ r.conn_id \in ConnIds
  <2>1. FreshId(q) \in ConnIds
    BY <1>6, FreshIdType
  <2>2. Policy[q].lossy = FALSE
    BY PolicyTypes DEF CInv, LosslessPeers
  <2> QED BY <1>5, <2>1, <2>2 DEF NewPipe
<1>10. rd[j] = "none" /\ wr[j] = "none" /\ i # j
  BY <1>2, <1>6, FreeUnlinked
<1>11. /\ DOMAIN c = Pipes /\ Severing(c) /\ ~Live(c, i)
       /\ \A k \in Pipes \ {i} : c[k].in = sock[k].in
  BY <1>3, CutSevers DEF Cut
<1>12. /\ state'[i] = state[i] /\ rd'[i] = rd[i] /\ wr'[i] = "await" /\ pipe'[i] = pipe[i]
       /\ state'[j] = "accepting" /\ rd'[j] = "accept" /\ wr'[j] = "none" /\ pipe'[j] = r
       /\ \A k \in Pipes \ {i, j} : /\ state'[k] = state[k] /\ rd'[k] = rd[k] /\ wr'[k] = wr[k]
                                    /\ pipe'[k] = pipe[k] /\ sock'[k] = c[k]
       /\ sock'[i].peer = j /\ sock'[i].in = <<>> /\ sock'[j].peer = i /\ sock'[j].in = <<f>>
  BY <1>6, <1>7, <1>10, <1>11
<1>13. \A k \in Pipes \ {i, j} : PairStill(k) /\ pipe'[k] = pipe[k]
  BY <1>6, <1>11, <1>12 DEF PairStill, Still
<1>14. ASSUME NEW k \in Pipes \ {i, j}, Live(sock', k)
       PROVE  /\ Live(sock, k) /\ sock'[k].peer = sock[k].peer
              /\ sock[k].peer \in Pipes \ {i, j}
  <2>1. Live(c, k) /\ sock'[k].peer = c[k].peer
    BY <1>12, <1>14 DEF Live
  <2>2. c[k].peer = sock[k].peer /\ Live(sock, k)
    BY <1>11, <2>1 DEF Severing, Live
  <2>3. PICK m \in Pipes : m = sock[k].peer
    BY <2>2, PeerIsPipe
  <2>4. sock[m].peer = k /\ Live(sock, m)
    BY <2>2, <2>3, PeerIsPipe
  <2>5. m # i
    <3> SUFFICES ASSUME m = i PROVE FALSE
      OBVIOUS
    <3>1. ~Live(c, sock[i].peer)
      BY <1>11, <2>4 DEF Severing
    <3> QED BY <2>1, <2>4, <3>1
  <2>6. m # j
    BY <1>2, <2>2, <2>3, FreeUnlinked
  <2> QED BY <2>1, <2>2, <2>3, <2>5, <2>6
<1>15. state[i] \in {"connecting", "closed"} /\ rd[i] \in {"none", "sleep"}
  BY <1>6, <1>7 DEF EndInv, ReaderGone
<1>16. pipe'[j].in_seq = 0 /\ pipe'[j].lossy = FALSE /\ pipe'[j].conn_id \in ConnIds
  BY <1>9, <1>12
<1>17. Opens(i, j, f)
  BY <1>1, <1>2, <1>6, <1>8, <1>10, <1>12, <1>13, <1>14, <1>15, <1>16 DEF Opens
<1> QED BY <1>8, <1>17

(* The sessions and what was said of them stay, ...                        *)
LEMMA OpensGrows ==
  ASSUME TInv, WInv, CInv, TInv', NEW i \in Pipes, NEW j \in Pipes, NEW f \in Frames, Opens(i, j, f)
  PROVE  /\ Grows /\ NoSession' /\ (\A p \in Peers : ReceivedOK(p)') /\ FramesOK'
         /\ \A k \in Pipes : InUse(k)' <=> InUse(k)
<1>1. \A k \in Pipes \ {i, j} : Still(k) /\ sock'[k].in = sock[k].in
  BY DEF Opens, PairStill
<1>2. \A k \in Pipes : InUse(k) => k # j
  BY DEF Opens, InUse
<1>3. \A k \in Pipes : InUse(k)' <=> InUse(k)
  BY <1>1 DEF Opens, InUse, Still
<1>4. \A p \in Peers : Lookup(p)' = Lookup(p)
  BY <1>3, LookupSame
<1>5. Grows
  <2>1. ASSUME NEW k \in Pipes, InUse(k) PROVE CarriesOn(k, k)
    <3>1. CASE k # i
      BY <1>1, <1>2, <2>1, <3>1, StillCarriesOn
    <3>2. CASE k = i
      <4>1. Sane(i) /\ Top(outq[i]) \in Nat
        BY <2>1, <3>2, SaneNow, QueueInUse, QueueNumbers
      <4>2. InUse(i)' /\ (Tentative(i)' => Tentative(i))
        BY <1>3, <2>1, <3>2 DEF Tentative, Opens
      <4>3. pipe'[i] = pipe[i] /\ outq'[i] = outq[i]
        BY DEF Opens
      <4>4. CarriesOn(i, i)
        BY <4>1, <4>2, <4>3 DEF CarriesOn, Sane
      <4> QED BY <3>2, <4>4
    <3> QED BY <3>1, <3>2
  <2>2. \A k \in Pipes : InUse(k) => \E m \in Pipes : CarriesOn(k, m)
    BY <2>1
  <2>3. \A p \in Peers : global_seq[p] <= global_seq'[p]
    BY SeqTypes DEF Opens
  <2> QED BY <2>2, <2>3, GrowsBy
<1>6. FramesOK'
  <2>1. PICK p \in Peers : p = Owner(i) /\ Owner(j) = Other(p) /\ Other(Other(p)) = p
    BY OwnerIsPeer, OtherPeer DEF Opens
  <2>2. Other(p) \in Peers
    BY OtherPeer
  <2>3. /\ Known(p) /\ loc[i].gseq <= global_seq[p]
        /\ loc[i].cseq > 0 => Known(Other(p))
    BY <2>1 DEF Opens, CInv, PipeOK
  <2>4. Known(p)' /\ (loc[i].cseq > 0 => Known(Other(p))')
    BY <1>5, <2>2, <2>3 DEF Grows
  <2>5. f.gseq <= global_seq'[p] /\ f.cseq = loc[i].cseq /\ f.kind = "connect"
    BY <2>3 DEF Opens
  <2>6. FrameOK(Other(p), f)'
    BY <2>1, <2>4, <2>5 DEF FrameOK
  <2>7. ASSUME NEW k \in Pipes, NEW g \in Elements(sock'[k].in)
        PROVE  g \in Elements(sock[k].in) \/ FrameOK(Owner(k), g)'
    <3>1. CASE k \notin {i, j}
      BY <1>1, <2>7, <3>1
    <3>2. CASE k = i
      BY <2>7, <3>2, ElementsEmpty DEF Opens
    <3>3. CASE k = j
      <4>1. sock'[j].in = <<f>>
        BY DEF Opens
      <4>2. g = f
        BY <2>7, <3>3, <4>1, SingleElement
      <4> QED BY <2>1, <2>6, <3>3, <4>2
    <3> QED BY <3>1, <3>2, <3>3
  <2> QED BY <1>5, <2>7, FramesKept
<1>7. ASSUME NEW p \in Peers PROVE ReceivedOK(p)'
  <2>1. ReceivedOK(p)
    BY DEF CInv
  <2>2. \A k \in Pipes : /\ rd'[k] = "dispatch" <=> rd[k] = "dispatch"
                         /\ rd[k] = "dispatch" => loc'[k].id = loc[k].id
    BY <1>1 DEF Opens, Still
  <2>3. ASSUME NEW k \in Pipes, k = Lookup(p)
        PROVE  pipe'[k].in_seq = pipe[k].in_seq /\ pipe'[k].conn_id = pipe[k].conn_id
    <3>1. k # j
      BY <1>2, <2>3, NoneIsNoPipe, LookupInUse
    <3> QED BY <1>1, <3>1 DEF Opens, Still
  <2>4. in_q'[p] = in_q[p] /\ delivered'[p] = delivered[p]
    BY DEF Opens
  <2> QED BY <1>4, <2>1, <2>2, <2>3, <2>4, ReceivedKept
<1>8. NoSession'
  <2>1. ASSUME NEW p \in Peers, Lookup(p)' = None PROVE submitted'[p] = 0
    <3>1. Lookup(p) = None
      BY <1>4, <2>1
    <3> QED BY <3>1 DEF CInv, NoSession, Opens
  <2> QED BY <2>1 DEF NoSession
<1> QED BY <1>3, <1>5, <1>6, <1>7, <1>8

(* ... and what every Pipe says and has, ...                               *)
LEMMA OpensSessions ==
  ASSUME TInv, WInv, CInv, TInv', NEW i \in Pipes, NEW j \in Pipes, NEW f \in Frames, Opens(i, j, f),
         NEW k \in Pipes
  PROVE  PipeOK(k)' /\ SessionOK(k)' /\ NextOnes(k)'
<1>1. Grows /\ \A m \in Pipes : InUse(m)' <=> InUse(m)
  BY OpensGrows
<1>2. PipeOK(k) /\ SessionOK(k) /\ NextOnes(k)
  BY DEF CInv
<1>3. CASE k \notin {i, j}
  <2>1. PairStill(k) /\ Still(k) /\ sock'[k].in = sock[k].in
    BY <1>3 DEF PairStill, Opens
  <2>2. rd[k] = "accept" => Len(sock'[k].in) <= 1
    BY <1>2, <2>1 DEF PipeOK
  <2>3. PipeOK(k)'
    BY <1>1, <1>2, <2>1, <2>2, PipeKept
  <2>4. global_seq' = global_seq /\ submitted' = submitted
    BY DEF Opens
  <2>5. SessionOK(k)'
    BY <1>1, <1>2, <2>1, <2>4, SessionKept
  <2>6. NextOnes(k)'
    BY <1>2, <2>1, NextKept
  <2> QED BY <2>3, <2>5, <2>6
<1>4. CASE k = j
  <2>1. /\ state'[j] = "accepting" /\ rd'[j] = "accept" /\ wr'[j] = "none"
        /\ pipe'[j].in_seq = 0 /\ pipe'[j].lossy = FALSE /\ pipe'[j].conn_id \in ConnIds
        /\ sock'[j].in = <<f>>
    BY DEF Opens
  <2>2. Len(sock'[j].in) <= 1
    BY <2>1, SingleElement
  <2>3. PipeOK(j)'
    BY <2>1, <2>2 DEF PipeOK
  <2>4. SessionOK(j)'
    BY <2>1 DEF SessionOK, InUse
  <2>5. NextOnes(j)'
    BY <2>1 DEF NextOnes, Listens, Awaits
  <2> QED BY <1>4, <2>3, <2>4, <2>5
<1>5. CASE k = i
  <2>1. /\ state[i] \in {"connecting", "closed"} /\ wr[i] = "join" /\ rd[i] \in {"none", "sleep"}
        /\ state'[i] = state[i] /\ rd'[i] = rd[i] /\ wr'[i] = "await"
        /\ pipe'[i] = pipe[i] /\ outq' = outq /\ loc' = loc /\ sock'[i].in = <<>>
        /\ global_seq' = global_seq /\ submitted' = submitted
    BY DEF Opens
  <2>2. PICK p \in Peers : p = Owner(i)
    BY OwnerIsPeer
  <2>3. PICK x \in Peers : x = Other(p)
    BY OtherPeer
  <2>4. /\ InSeq(x) \in Nat /\ InSeq(x)' \in Nat /\ Sent(x) \in Nat /\ Sent(x)' \in Nat
        /\ InSeq(x) <= InSeq(x)' /\ Sent(x) <= Sent(x)' /\ (Known(x) => Known(x)')
        /\ Known(p) => Known(p)'
    BY <1>1, PeerTypes, PeerTypesLater DEF Grows
  <2>5. SessionOK(i) /\ PipeOK(i)
    BY <1>2, <1>5
  <2>6. PipeOK(i)'
    <3>1. /\ ~pipe[i].lossy /\ pipe[i].conn_id \in ConnIds
          /\ Known(p) /\ loc[i].gseq <= global_seq[p]
      BY <2>1, <2>2, <2>5 DEF PipeOK
    <3>2. \A g \in Elements(sock'[i].in) : g.kind # "connect"
      BY <2>1, ElementsEmpty
    <3> QED BY <2>1, <2>2, <2>4, <3>1, <3>2 DEF PipeOK
  <2>7. SessionOK(i)'
    <3> SUFFICES ASSUME InUse(i)' PROVE SessionOK(i)'
      BY DEF SessionOK
    <3>1. InUse(i)
      BY <1>1
    <3>2. /\ Consecutive(outq[i], submitted[p])
          /\ pipe[i].connect_seq = 0 => Fresh(i)
          /\ Attempting(i) => loc[i].gseq = global_seq[p]
          /\ Base(outq[i]) <= InSeq(x) /\ pipe[i].in_seq <= Sent(x)
          /\ Tentative(i) => Top(outq[i]) = 0
          /\ pipe[i].connect_seq > 0 => Known(x)
      BY <2>2, <2>3, <2>5, <3>1 DEF SessionOK
    <3>3. Base(outq[i]) \in Nat /\ pipe[i].in_seq \in Nat
      BY <3>1, SaneNow, QueueInUse, QueueNumbers DEF Sane
    <3>4. Base(outq[i]) <= InSeq(x)' /\ pipe[i].in_seq <= Sent(x)'
      BY <2>4, <3>2, <3>3
    <3>5. pipe[i].connect_seq = 0 => Fresh(i)'
      BY <2>1, <3>2 DEF Fresh
    <3>6. Attempting(i)' => Attempting(i)
      BY <2>1 DEF Attempting
    <3>7. Tentative(i)' => Tentative(i)
      BY <2>1 DEF Tentative
    <3> QED BY <2>1, <2>2, <2>3, <2>4, <3>2, <3>4, <3>5, <3>6, <3>7 DEF SessionOK
  <2>8. NextOnes(i)'
    <3>1. Climbs(<<>>, pipe[i].in_seq)
      BY DEF Climbs
    <3> QED BY <2>1, <3>1 DEF NextOnes
  <2> QED BY <1>5, <2>6, <2>7, <2>8
<1> QED BY <1>3, <1>4, <1>5

(* ... the new ends are linked, ...                                        *)
LEMMA OpensPairs ==
  ASSUME TInv, WInv, CInv, TInv', NEW i \in Pipes, NEW j \in Pipes, NEW f \in Frames, Opens(i, j, f)
  PROVE  \A k \in Pipes : PairOK(k)'
<1>1. /\ i # j /\ f.kind = "connect" /\ state'[i] \in {"connecting", "closed"}
      /\ rd'[i] \in {"none", "sleep"} /\ wr'[i] = "await"
      /\ state'[j] = "accepting" /\ rd'[j] = "accept" /\ wr'[j] = "none"
      /\ sock'[i].peer = j /\ sock'[i].in = <<>> /\ sock'[j].peer = i /\ sock'[j].in = <<f>>
  BY DEF Opens
<1>2. Linked(i, j)'
  <2>1. Only(sock'[j].in, "connect")
    BY <1>1, SingleElement DEF Only
  <2> QED BY <1>1, <2>1 DEF Linked, Awaits
<1>3. Linked(j, i)'
  <2>1. Only(sock'[i].in, "reply")
    BY <1>1, ElementsEmpty DEF Only
  <2> QED BY <1>1, <2>1 DEF Linked, Awaits
<1>4. ASSUME NEW k \in Pipes \ {i, j} PROVE PairOK(k)'
  <2> SUFFICES ASSUME Live(sock', k) PROVE Linked(k, sock[k].peer)' /\ sock'[k].peer = sock[k].peer
    BY DEF PairOK
  <2>1. /\ Live(sock, k) /\ sock'[k].peer = sock[k].peer
        /\ sock[k].peer \in Pipes \ {i, j}
    BY <1>4 DEF Opens
  <2>2. PICK m \in Pipes \ {i, j} : m = sock[k].peer
    BY <2>1
  <2>3. Linked(k, m)
    BY <2>1, <2>2 DEF CInv, PairOK
  <2>4. PairStill(k) /\ PairStill(m)
    BY <1>4, <2>2 DEF Opens
  <2>5. Linked(k, m)'
    BY <2>3, <2>4, LinkedKept
  <2> QED BY <2>1, <2>2, <2>5
<1>5. PairOK(i)' /\ PairOK(j)'
  BY <1>1, <1>2, <1>3 DEF PairOK
<1> QED BY <1>4, <1>5

(* ... the attempt is still the newest, ...                                *)
LEMMA OpensNewest ==
  ASSUME TInv, WInv, CInv, NEW i \in Pipes, NEW j \in Pipes, NEW f \in Frames, Opens(i, j, f)
  PROVE  \A k \in Pipes : Newest(k)'
<1>1. /\ i # j /\ Owner(j) = Other(Owner(i)) /\ wr[i] = "join" /\ wr[j] = "none"
      /\ f.kind = "connect" /\ f.gseq = loc[i].gseq /\ loc' = loc
      /\ state'[i] = state[i] /\ wr'[i] = "await" /\ wr'[j] = "none"
      /\ sock'[i].peer = j /\ sock'[i].in = <<>> /\ sock'[j].in = <<f>>
      /\ \A k \in Pipes \ {i, j} : PairStill(k)
      /\ \A k \in Pipes \ {i, j} : Live(sock', k) =>
           Live(sock, k) /\ sock'[k].peer = sock[k].peer /\ sock[k].peer \in Pipes \ {i, j}
  BY DEF Opens
<1>2. \A k \in Pipes \ {i, j} : /\ wr'[k] = wr[k] /\ state'[k] = state[k]
                                /\ sock'[k].in = sock[k].in
  BY <1>1 DEF PairStill, Still
<1>3. ASSUME NEW k \in Pipes, NEW g \in Elements(sock'[k].in)
      PROVE  (k \notin {i, j} /\ g \in Elements(sock[k].in)) \/ (k = j /\ g = f)
  <2>1. CASE k \notin {i, j}
    BY <1>2, <1>3, <2>1
  <2>2. CASE k = i
    BY <1>1, <1>3, <2>2, ElementsEmpty
  <2>3. CASE k = j
    <3>1. g \in Elements(<<f>>)
      BY <1>1, <1>3, <2>3
    <3>2. Elements(<<f>>) = {f}
      BY SingleElement
    <3>3. g = f
      BY <3>1, <3>2
    <3> QED BY <2>3, <3>3
  <2> QED BY <2>1, <2>2, <2>3
<1>4. ASSUME Attempting(i)' PROVE Newest(i)'
  <2>1. Attempting(i) /\ Newest(i)
    BY <1>1, <1>4 DEF Attempting, CInv
  <2>2. ASSUME NEW k \in Pipes, NEW g \in Elements(sock'[k].in),
               Owner(k) = Other(Owner(i)), g.kind = "connect"
        PROVE  /\ g.gseq = loc'[i].gseq => k = sock'[i].peer
               /\ sock'[i].peer = k => g.gseq = loc'[i].gseq
    <3>1. CASE k \notin {i, j} /\ g \in Elements(sock[k].in)
      <4>1. g.gseq # loc[i].gseq
        BY <1>1, <2>1, <2>2, <3>1 DEF Newest
      <4> QED BY <1>1, <3>1, <4>1
    <3>2. CASE k = j /\ g = f
      BY <1>1, <3>2
    <3> QED BY <1>3, <2>2, <3>1, <3>2
  <2>3. ASSUME NEW m \in Pipes \ {i}, Owner(m) = Owner(i), wr'[m] = "join"
        PROVE  loc'[m].gseq < loc'[i].gseq
    <3>1. m # j /\ wr[m] = "join"
      BY <1>1, <1>2, <2>3
    <3> QED BY <1>1, <2>1, <2>3, <3>1 DEF Newest
  <2> QED BY <1>1, <2>2, <2>3 DEF Newest
<1>5. ASSUME NEW a \in Pipes \ {i, j}, Attempting(a)' PROVE Newest(a)'
  <2>1. Attempting(a) /\ Newest(a) /\ wr'[a] = wr[a]
    BY <1>2, <1>5 DEF Attempting, CInv
  <2>2. ASSUME NEW k \in Pipes, NEW g \in Elements(sock'[k].in),
               Owner(k) = Other(Owner(a)), g.kind = "connect"
        PROVE  /\ g.gseq = loc'[a].gseq => wr'[a] = "await" /\ (Live(sock', a) => k = sock'[a].peer)
               /\ Live(sock', a) /\ sock'[a].peer = k => g.gseq = loc'[a].gseq
    <3>1. CASE k \notin {i, j} /\ g \in Elements(sock[k].in)
      <4>1. /\ g.gseq = loc[a].gseq => wr[a] = "await" /\ (Live(sock, a) => k = sock[a].peer)
            /\ sock[a].peer = k => g.gseq = loc[a].gseq
        BY <2>1, <2>2, <3>1 DEF Newest
      <4> QED BY <1>1, <2>1, <4>1
    <3>2. CASE k = j /\ g = f
      <4>1. Owner(a) = Owner(i)
        <5>1. Other(Owner(i)) = Other(Owner(a)) /\ Owner(i) \in Peers /\ Owner(a) \in Peers
          BY <1>1, <2>2, <3>2, OwnerIsPeer
        <5> QED BY <5>1, OtherPeer
      <4>2. loc[i].gseq < loc[a].gseq
        BY <1>1, <2>1, <4>1 DEF Newest
      <4>3. loc[i].gseq \in Nat /\ loc[a].gseq \in Nat
        BY SaneNow DEF Sane
      <4>4. g.gseq # loc'[a].gseq
        BY <1>1, <3>2, <4>2, <4>3
      <4>5. Live(sock', a) => sock'[a].peer # k
        BY <1>1, <3>2
      <4> QED BY <4>4, <4>5
    <3> QED BY <1>3, <2>2, <3>1, <3>2
  <2>3. ASSUME NEW m \in Pipes \ {a}, Owner(m) = Owner(a), wr'[m] = "join"
        PROVE  loc'[m].gseq < loc'[a].gseq
    <3>1. wr[m] = "join"
      BY <1>1, <1>2, <2>3
    <3> QED BY <1>1, <2>1, <2>3, <3>1 DEF Newest
  <2>4. \A k \in Pipes : sock'[a].peer = k => Live(sock', a)
    BY NoneIsNoPipe DEF Live
  <2> QED BY <2>2, <2>3, <2>4 DEF Newest
<1>6. ~Attempting(j)'
  BY <1>1 DEF Attempting
<1> QED BY <1>4, <1>5, <1>6 DEF Newest

(* ... and endangers no session, ...                                       *)
LEMMA OpensGuards ==
  ASSUME TInv, WInv, CInv, NEW i \in Pipes, NEW j \in Pipes, NEW f \in Frames, Opens(i, j, f)
  PROVE  \A x \in Pipes : Guarded(x)'
<1>1. /\ i # j /\ Owner(j) = Other(Owner(i)) /\ wr[i] = "join"
      /\ f.kind = "connect" /\ f.gseq = loc[i].gseq /\ f.cseq = loc[i].cseq /\ loc' = loc
      /\ state[i] \in {"connecting", "closed"} /\ state'[i] = state[i] /\ pipe'[i] = pipe[i]
      /\ wr'[i] = "await" /\ wr'[j] = "none" /\ rd'[j] = "accept" /\ state'[j] = "accepting"
      /\ sock'[i].peer = j /\ sock'[i].in = <<>> /\ sock'[j].in = <<f>>
      /\ \A k \in Pipes \ {i, j} : PairStill(k)
      /\ \A k \in Pipes \ {i, j} : Live(sock', k) =>
           Live(sock, k) /\ sock'[k].peer = sock[k].peer /\ sock[k].peer \in Pipes \ {i, j}
  BY DEF Opens
<1>2. NewZeros
  <2> SUFFICES ASSUME NEW r \in Peers, NEW g, ZeroAttempt(r, g)' PROVE ZeroAttempt(r, g)
    BY DEF NewZeros
  <2>1. CASE \E k \in Pipes : \E h \in Elements(sock'[k].in) :
               Owner(k) = r /\ h.kind = "connect" /\ h.cseq = 0 /\ h.gseq = g
    <3>0. PICK k \in Pipes : \E h \in Elements(sock'[k].in) :
               Owner(k) = r /\ h.kind = "connect" /\ h.cseq = 0 /\ h.gseq = g
      BY <2>1
    <3>1. PICK h \in Elements(sock'[k].in) :
               Owner(k) = r /\ h.kind = "connect" /\ h.cseq = 0 /\ h.gseq = g
      BY <3>0
    <3>2. CASE k \notin {i, j}
      <4>1. h \in Elements(sock[k].in)
        BY <1>1, <3>1, <3>2 DEF PairStill
      <4> QED BY <3>1, <4>1 DEF ZeroAttempt
    <3>3. CASE k = i
      BY <1>1, <3>1, <3>3, ElementsEmpty
    <3>4. CASE k = j
      <4>1. h \in Elements(<<f>>)
        BY <1>1, <3>1, <3>4
      <4>2. h = f
        BY <4>1, SingleElement
      <4>3. Owner(i) = Other(r)
        <5>1. r = Other(Owner(i)) /\ Owner(i) \in Peers
          BY <1>1, <3>1, <3>4, OwnerIsPeer
        <5> QED BY <5>1, OtherPeer
      <4> QED BY <1>1, <3>1, <4>2, <4>3 DEF ZeroAttempt
    <3> QED BY <3>2, <3>3, <3>4
  <2>2. CASE \E m \in Pipes : Owner(m) = Other(r) /\ wr'[m] = "join" /\ loc'[m].cseq = 0
                              /\ loc'[m].gseq = g
    <3>1. PICK m \in Pipes : Owner(m) = Other(r) /\ wr'[m] = "join" /\ loc'[m].cseq = 0
                             /\ loc'[m].gseq = g
      BY <2>2
    <3>2. wr[m] = "join" /\ loc[m] = loc'[m]
      BY <1>1, <3>1 DEF PairStill, Still
    <3> QED BY <3>1, <3>2 DEF ZeroAttempt
  <2> QED BY <2>1, <2>2 DEF ZeroAttempt
<1>3. ASSUME NEW x \in Pipes \ {i, j} PROVE Guarded(x)'
  <2>1. PairStill(x)
    BY <1>1
  <2>2. ASSUME Live(sock', x)
        PROVE  \E m \in Pipes : /\ Live(sock, x) /\ m = sock'[x].peer /\ m = sock[x].peer
                                /\ state'[m] = state[m] /\ rd'[m] = rd[m] /\ loc'[m] = loc[m]
    <3>1. PICK m \in Pipes \ {i, j} : m = sock[x].peer /\ Live(sock, x) /\ sock'[x].peer = m
      BY <1>1, <1>3, <2>2
    <3>2. PairStill(m)
      BY <1>1, <3>1
    <3> QED BY <3>1, <3>2 DEF PairStill, Still
  <2>3. TrustsOpen(x)' => TrustsOpen(x) /\ pipe'[x].peer_global_seq = pipe[x].peer_global_seq
    <3> SUFFICES ASSUME TrustsOpen(x)' PROVE TrustsOpen(x)
      BY <2>1 DEF PairStill, Still
    <3>1. CASE InUse(x)' /\ pipe'[x].in_seq > 0
      BY <2>1, <3>1 DEF TrustsOpen, PairStill, Still, InUse
    <3>2. CASE Listens(x)' /\ HasMsg(sock'[x].in)
      BY <2>1, <3>2 DEF TrustsOpen, PairStill, Still, Listens, InUse
    <3>3. CASE Live(sock', x) /\ state'[x] = "open" /\ state'[sock'[x].peer] = "open"
      BY <2>1, <2>2, <3>3 DEF TrustsOpen, PairStill, Still
    <3> QED BY <3>1, <3>2, <3>3 DEF TrustsOpen
  <2>4. \A b \in Nat : TrustsReply(x, b)' => TrustsReply(x, b)
    <3> SUFFICES ASSUME NEW b \in Nat, TrustsReply(x, b)' PROVE TrustsReply(x, b)
      OBVIOUS
    <3>1. Awaits(x)
      BY <2>1 DEF TrustsReply, Awaits, PairStill, Still
    <3>2. CASE sock'[x].in # <<>> /\ Head(sock'[x].in).tag \in Granting /\ b = Head(sock'[x].in).gseq
      <4>1. sock'[x].in = sock[x].in
        BY <2>1 DEF PairStill
      <4> QED BY <3>1, <3>2, <4>1 DEF TrustsReply, Answer
    <3>3. CASE Live(sock', x) /\ rd'[sock'[x].peer] = "reply"
               /\ b = loc'[sock'[x].peer].reply.gseq
      BY <2>2, <3>1, <3>3 DEF TrustsReply
    <3> QED BY <3>2, <3>3 DEF TrustsReply, Answer
  <2> QED BY <1>2, <2>3, <2>4, GuardedAnew
<1>4. Guarded(i)'
  <2>1. TrustsOpen(i)' => TrustsOpen(i) /\ pipe'[i].peer_global_seq = pipe[i].peer_global_seq
    <3>1. ~HasMsg(sock'[i].in)
      BY <1>1, ElementsEmpty DEF HasMsg
    <3> QED BY <1>1, <3>1 DEF TrustsOpen, InUse
  <2>2. \A b \in Nat : ~TrustsReply(i, b)'
    BY <1>1 DEF TrustsReply
  <2> QED BY <1>2, <2>1, <2>2, GuardedAnew
<1>5. Guarded(j)'
  <2>1. ~TrustsOpen(j)'
    BY <1>1 DEF TrustsOpen, InUse, Listens
  <2>2. \A b \in Nat : ~TrustsReply(j, b)'
    BY <1>1 DEF TrustsReply, Awaits
  <2> QED BY <1>2, <2>1, <2>2, GuardedAnew
<1> QED BY <1>3, <1>4, <1>5

(* ... which keeps the invariant.                                          *)
LEMMA ConnectOpensCInv ==
  ASSUME TInv, WInv, CInv, TInv', NEW i \in Pipes, ConnectOpens(i)
  PROVE  CInv'
<1>1. LosslessPeers'
  BY DEF CInv, LosslessPeers
<1>2. PICK j \in Pipes : \E f \in Frames : Opens(i, j, f)
  BY OpensValues
<1>3. PICK f \in Frames : Opens(i, j, f)
  BY <1>2
<1>4. NoSession' /\ (\A p \in Peers : ReceivedOK(p)') /\ FramesOK'
  BY <1>3, OpensGrows
<1>5. \A k \in Pipes : PipeOK(k)' /\ SessionOK(k)' /\ NextOnes(k)'
  BY <1>3, OpensSessions
<1>6. \A k \in Pipes : PairOK(k)' /\ Newest(k)' /\ Guarded(k)'
  BY <1>3, OpensPairs, OpensNewest, OpensGuards
<1> QED BY <1>1, <1>4, <1>5, <1>6 DEF CInv

(* connect() goes round again, with the numbers c and g.                   *)
Retries(i, c, g, f) ==
  /\ state[i] = "connecting" /\ wr[i] = "await" /\ rd[i] \in {"none", "sleep"}
  /\ f.kind = "connect" /\ f.cseq = c /\ f.gseq = g /\ c \in Nat /\ g \in Nat
  /\ pipe[i].connect_seq <= c
  /\ c > 0 => Known(Other(Owner(i)))
  /\ global_seq'[Owner(i)] = g /\ loc[i].gseq = global_seq[Owner(i)] /\ loc[i].gseq <= g
  /\ global_seq'[Other(Owner(i))] = global_seq[Other(Owner(i))]
  /\ state' = state /\ rd' = rd /\ wr' = wr /\ outq' = outq
  /\ loc'[i].gseq = g /\ loc'[i].cseq = c /\ loc'[i].id = loc[i].id
  /\ pipe'[i].connect_seq = c /\ pipe'[i].in_seq = pipe[i].in_seq
  /\ pipe'[i].peer_global_seq = pipe[i].peer_global_seq
  /\ pipe'[i].conn_id = pipe[i].conn_id /\ pipe'[i].lossy = pipe[i].lossy
  /\ sock'[i].in = <<>> /\ \A k \in Pipes : sock'[k].peer = sock[k].peer
  /\ \A k \in Pipes \ {i} : /\ Still(k)
                            /\ k # sock[i].peer => sock'[k].in = sock[k].in
  /\ \A x \in Pipes : Live(sock, i) /\ x = sock[i].peer =>
        x # i /\ Undecided(x) /\ sock[x].in = <<>> /\ sock'[x].in = <<f>>
  /\ UNCHANGED <<rank_pipe, in_q, submitted, delivered>>

(* The numbers with which connect() goes round its loop again.             *)
LEMMA RetriesNumbers ==
  ASSUME TInv, WInv, CInv, NEW i \in Pipes,
         ConnectRetriesAuth(i) \/ ConnectRetriesGlobal(i) \/ ConnectRetriesSession(i)
  PROVE  \E c \in Nat : \E g \in Nat : \E b :
           /\ Again(i, c, g, b) /\ Answered(i) /\ state[i] = "connecting"
           /\ Answer(i).tag \notin Granting
           /\ pipe[i].connect_seq <= c
           /\ c > 0 => Known(Other(Owner(i)))
           /\ global_seq'[Owner(i)] = g /\ loc[i].gseq = global_seq[Owner(i)] /\ loc[i].gseq <= g
           /\ global_seq'[Other(Owner(i))] = global_seq[Other(Owner(i))]
           /\ pipe' = pipe \/ pipe' = [pipe EXCEPT ![i].connect_seq = c]
           /\ pipe'[i].connect_seq = c
           /\ outq' = outq /\ in_q' = in_q
<1>1. /\ Answered(i) /\ state[i] = "connecting"
      /\ Answer(i).tag \in {"BADAUTHORIZER", "RETRY_GLOBAL", "RETRY_SESSION"}
  BY DEF ConnectRetriesAuth, ConnectRetriesGlobal, ConnectRetriesSession, Answers
<1>2. /\ pipe \in [Pipes -> PipeType] /\ loc[i] \in LocType /\ global_seq \in [Peers -> Nat]
      /\ loc[i].cseq \in Nat /\ loc[i].gseq \in Nat
      /\ Answer(i).gseq \in Nat /\ Answer(i).cseq \in Nat
      /\ Owner(i) \in Peers /\ Other(Owner(i)) \in Peers /\ Other(Owner(i)) # Owner(i)
  BY <1>1, ConnectingPipe, OwnerIsPeer, OtherPeer DEF TInv, DataOK, LocType
<1>3. pipe[i].connect_seq = loc[i].cseq /\ Answer(i).tag \notin Granting
  BY <1>1 DEF WInv, EndInv, Answered, Granting
<1>4. InUse(i) /\ Attempting(i)
  BY <1>1 DEF InUse, Attempting, Answered
<1>5. /\ loc[i].gseq = global_seq[Owner(i)]
      /\ pipe[i].connect_seq > 0 => Known(Other(Owner(i)))
  BY <1>4 DEF CInv, SessionOK
<1>6. CASE ConnectRetriesAuth(i)
  <2>1. /\ Again(i, loc[i].cseq, loc[i].gseq, TRUE)
        /\ pipe' = pipe /\ outq' = outq /\ in_q' = in_q /\ global_seq' = global_seq
    BY <1>6 DEF ConnectRetriesAuth
  <2>2. /\ pipe[i].connect_seq <= loc[i].cseq /\ pipe'[i].connect_seq = loc[i].cseq
        /\ global_seq'[Owner(i)] = loc[i].gseq /\ loc[i].gseq <= loc[i].gseq
        /\ loc[i].cseq > 0 => Known(Other(Owner(i)))
        /\ global_seq'[Other(Owner(i))] = global_seq[Other(Owner(i))]
    BY <1>2, <1>3, <1>5, <2>1
  <2> QED BY <1>1, <1>2, <1>3, <1>5, <2>1, <2>2
<1>7. CASE ConnectRetriesGlobal(i)
  <2>1. PICK g : /\ g = NextGlobalSeq(Owner(i), Answer(i).gseq)
                 /\ Again(i, loc[i].cseq, g, loc[i].bad_auth) /\ pipe' = pipe
                 /\ global_seq' = [global_seq EXCEPT ![Owner(i)] = g]
                 /\ outq' = outq /\ in_q' = in_q
    BY <1>7 DEF ConnectRetriesGlobal
  <2>2. g \in Nat /\ global_seq[Owner(i)] <= g
    BY <1>2, <2>1 DEF NextGlobalSeq
  <2>3. /\ pipe[i].connect_seq <= loc[i].cseq /\ pipe'[i].connect_seq = loc[i].cseq
        /\ loc[i].cseq > 0 => Known(Other(Owner(i)))
    BY <1>2, <1>3, <1>5, <2>1
  <2>4. /\ global_seq'[Owner(i)] = g
        /\ global_seq'[Other(Owner(i))] = global_seq[Other(Owner(i))]
    BY <1>2, <2>1
  <2> QED BY <1>1, <1>2, <1>3, <1>5, <2>1, <2>2, <2>3, <2>4
<1>8. CASE ConnectRetriesSession(i)
  <2>1. /\ Again(i, Answer(i).cseq, loc[i].gseq, loc[i].bad_auth)
        /\ pipe' = [pipe EXCEPT ![i].connect_seq = Answer(i).cseq]
        /\ global_seq' = global_seq /\ outq' = outq /\ in_q' = in_q
        /\ Answer(i).tag = "RETRY_SESSION"
    BY <1>8 DEF ConnectRetriesSession, Answers
  <2>2. pipe'[i].connect_seq = Answer(i).cseq
    BY <1>2, <2>1 DEF PipeType
  <2>3. ExpectedAnswer(i) /\ sock[i].in \in Seq(Frames) /\ sock[i].in # <<>>
    BY <1>1, AnsweredPair
  <2>4. pipe[i].connect_seq <= Answer(i).cseq
    BY <1>2, <1>3, <2>1, <2>3 DEF ExpectedAnswer
  <2>5. Known(Other(Owner(i)))
    <3>1. FrameOK(Owner(i), Answer(i))
      BY <2>3, ElementsTail DEF CInv, FramesOK, Answer
    <3> QED BY <2>1, <2>3, <3>1 DEF FrameOK, ExpectedAnswer
  <2>6. /\ global_seq'[Owner(i)] = loc[i].gseq /\ loc[i].gseq <= loc[i].gseq
        /\ global_seq'[Other(Owner(i))] = global_seq[Other(Owner(i))]
    BY <1>2, <1>5, <2>1
  <2> QED BY <1>1, <1>2, <1>3, <1>5, <2>1, <2>2, <2>4, <2>5, <2>6
<1> QED BY <1>6, <1>7, <1>8

(* What it does when it goes round.                                        *)
LEMMA RetriesValues ==
  ASSUME TInv, WInv, CInv, NEW i \in Pipes,
         ConnectRetriesAuth(i) \/ ConnectRetriesGlobal(i) \/ ConnectRetriesSession(i)
  PROVE  \E c \in Nat : \E g \in Nat : \E f \in Frames : Retries(i, c, g, f)
<1>1. PICK c \in Nat, g \in Nat : \E b :
           /\ Again(i, c, g, b) /\ Answered(i) /\ state[i] = "connecting"
           /\ Answer(i).tag \notin Granting
           /\ pipe[i].connect_seq <= c
           /\ c > 0 => Known(Other(Owner(i)))
           /\ global_seq'[Owner(i)] = g /\ loc[i].gseq = global_seq[Owner(i)] /\ loc[i].gseq <= g
           /\ global_seq'[Other(Owner(i))] = global_seq[Other(Owner(i))]
           /\ pipe' = pipe \/ pipe' = [pipe EXCEPT ![i].connect_seq = c]
           /\ pipe'[i].connect_seq = c
           /\ outq' = outq /\ in_q' = in_q
  BY RetriesNumbers
<1>2. PICK b : Again(i, c, g, b)
  BY <1>1
<1>3. PICK f \in Frames : f = Attempt(c, g) /\ f.kind = "connect" /\ f.cseq = c /\ f.gseq = g
  BY AttemptType DEF Attempt
<1>4. /\ sock' = Put(Took(sock, i), i, f)
      /\ UNCHANGED <<state, rd, wr, rank_pipe, submitted, delivered>>
      /\ loc' = [loc EXCEPT ![i].cseq = c, ![i].gseq = g, ![i].bad_auth = b]
  BY <1>2, <1>3 DEF Again
<1>5. pipe \in [Pipes -> PipeType] /\ loc \in [Pipes -> LocType]
  BY DEF TInv, DataOK
<1>6. /\ loc'[i].cseq = c /\ loc'[i].gseq = g /\ loc'[i].id = loc[i].id
      /\ \A k \in Pipes \ {i} : loc'[k] = loc[k]
  BY <1>4, <1>5 DEF LocType
<1>7. /\ pipe'[i].in_seq = pipe[i].in_seq
      /\ pipe'[i].peer_global_seq = pipe[i].peer_global_seq
      /\ pipe'[i].conn_id = pipe[i].conn_id /\ pipe'[i].lossy = pipe[i].lossy
      /\ \A k \in Pipes \ {i} : pipe'[k] = pipe[k]
  BY <1>1, <1>5 DEF PipeType
<1>15. /\ \A k \in Pipes : sock'[k].peer = sock[k].peer
       /\ \A k \in Pipes \ {i} : k # sock[i].peer => sock'[k] = sock[k]
       /\ sock'[i].in = Tail(sock[i].in)
       /\ Live(sock, i) => sock'[sock[i].peer].in = Append(sock[sock[i].peer].in, f)
  <2>1. PICK new : new = Put(Took(sock, i), i, f)
    OBVIOUS
  <2>2. AnsweredWith(new, i, f)
    BY <2>1, AnswerEffect
  <2>3. sock' = new
    BY <1>4, <2>1
  <2> QED BY <2>2, <2>3 DEF AnsweredWith
<1>8. \A k \in Pipes : sock'[k].peer = sock[k].peer
  BY <1>15
<1>9. \A k \in Pipes \ {i} : k # sock[i].peer => sock'[k] = sock[k]
  BY <1>15
<1>10. sock'[i].in = <<>>
  BY <1>1, <1>15, AnsweredPair
<1>11. ASSUME NEW x \in Pipes, Live(sock, i), x = sock[i].peer
       PROVE  x # i /\ Undecided(x) /\ sock[x].in = <<>> /\ sock'[x].in = <<f>>
  <2>1. Refused(i, x) /\ x # i
    BY <1>1, <1>11, AnsweredPair, PeerIsPipe
  <2>2. sock'[x].in = Append(sock[x].in, f)
    BY <1>11, <1>15
  <2> QED BY <2>1, <2>2 DEF Refused
<1>12. \A k \in Pipes \ {i} : /\ Still(k)
                              /\ k # sock[i].peer => sock'[k].in = sock[k].in
  BY <1>1, <1>4, <1>6, <1>7, <1>9 DEF Still
<1>13. rd[i] \in {"none", "sleep"} /\ wr[i] = "await"
  BY <1>1, AnsweredPair DEF Answered
<1>14. Retries(i, c, g, f)
  BY <1>1, <1>3, <1>4, <1>6, <1>7, <1>8, <1>10, <1>11, <1>12, <1>13 DEF Retries
<1> QED BY <1>14

(* Where the frames that have arrived after it come from.                  *)
LEMMA RetriesFrames ==
  ASSUME TInv, WInv, CInv, NEW i \in Pipes, NEW c, NEW g, NEW f \in Frames, Retries(i, c, g, f),
         NEW k \in Pipes, NEW h \in Elements(sock'[k].in)
  PROVE  \/ k # i /\ h \in Elements(sock[k].in) /\ (Live(sock, i) => k # sock[i].peer)
         \/ h = f /\ Owner(k) = Other(Owner(i)) /\ Live(sock, i) /\ k = sock[i].peer /\ k # i
<1>1. CASE k = i
  BY <1>1, ElementsEmpty DEF Retries
<1>2. CASE k # i /\ Live(sock, i) /\ k = sock[i].peer
  <2>1. sock'[k].in = <<f>>
    BY <1>2 DEF Retries
  <2>2. Elements(<<f>>) = {f}
    BY SingleElement
  <2>3. h = f
    BY <2>1, <2>2
  <2>4. Owner(k) = Other(Owner(i))
    BY <1>2 DEF WInv, LinkInv
  <2> QED BY <1>2, <2>3, <2>4
<1>3. CASE k # i /\ ~(Live(sock, i) /\ k = sock[i].peer)
  <2>1. k # sock[i].peer
    BY <1>3, NoneIsNoPipe DEF Live
  <2> QED BY <1>3, <2>1 DEF Retries
<1> QED BY <1>1, <1>2, <1>3

(* The sessions and what was said of them stay, ...                        *)
LEMMA RetriesGrows ==
  ASSUME TInv, WInv, CInv, TInv', NEW i \in Pipes, NEW c, NEW g, NEW f \in Frames,
         Retries(i, c, g, f)
  PROVE  Grows /\ NoSession' /\ (\A p \in Peers : ReceivedOK(p)') /\ FramesOK'
<1>1. PICK p \in Peers : p = Owner(i)
  BY OwnerIsPeer
<1>2. PICK q \in Peers : q = Other(p) /\ Other(q) = p /\ \A r \in Peers : r = p \/ r = q
  BY OtherPeer DEF Peers, Other
<1>3. \A k \in Pipes \ {i} : Still(k)
  BY DEF Retries
<1>4. InUse(i)' /\ InUse(i)
  BY DEF Retries, InUse
<1>5. Grows
  <2>1. \A r \in Peers : global_seq[r] <= global_seq'[r]
    <3>1. global_seq[p] <= global_seq'[p] /\ global_seq'[q] = global_seq[q]
      BY <1>1, <1>2 DEF Retries
    <3> QED BY <1>2, <3>1, SeqTypes
  <2>2. ASSUME NEW k \in Pipes, InUse(k) PROVE CarriesOn(k, k)
    <3>1. CASE k # i
      BY <1>3, <2>2, <3>1, StillCarriesOn
    <3>2. CASE k = i
      <4>1. Sane(i) /\ Top(outq[i]) \in Nat
        BY <1>4, SaneNow, QueueInUse, QueueNumbers
      <4>2. ~Tentative(i)'
        BY DEF Tentative, Retries
      <4>3. /\ pipe[i].in_seq <= pipe'[i].in_seq /\ Top(outq[i]) <= Top(outq'[i])
            /\ pipe[i].connect_seq > 0 => pipe'[i].connect_seq > 0
        BY <4>1 DEF Retries, Sane
      <4> QED BY <1>4, <3>2, <4>2, <4>3 DEF CarriesOn
    <3> QED BY <3>1, <3>2
  <2>3. \A k \in Pipes : InUse(k) => \E j \in Pipes : CarriesOn(k, j)
    BY <2>2
  <2> QED BY <2>1, <2>3, GrowsBy
<1>6. FramesOK'
  <2>1. Known(p)
    BY <1>1 DEF CInv, PipeOK, Retries
  <2>2. c > 0 => Known(q)
    BY <1>1, <1>2 DEF Retries
  <2>3. Known(p)' /\ (c > 0 => Known(q)')
    BY <1>5, <2>1, <2>2 DEF Grows
  <2>4. f.gseq <= global_seq'[p] /\ f.cseq = c /\ f.kind = "connect"
    BY <1>1 DEF Retries
  <2>5. FrameOK(q, f)'
    BY <1>2, <2>3, <2>4 DEF FrameOK
  <2>6. ASSUME NEW k \in Pipes, NEW h \in Elements(sock'[k].in)
        PROVE  h \in Elements(sock[k].in) \/ FrameOK(Owner(k), h)'
    <3>1. CASE h = f /\ Owner(k) = Other(Owner(i))
      BY <1>1, <1>2, <2>5, <3>1
    <3> QED BY <3>1, RetriesFrames
  <2> QED BY <1>5, <2>6, FramesKept
<1>7. NoSession' /\ \A r \in Peers : ReceivedOK(r)'
  <2>1. \A r \in Peers : submitted'[r] = submitted[r]
    BY DEF Retries
  <2>2. /\ in_q' = in_q /\ delivered' = delivered /\ rd' = rd /\ loc'[i].id = loc[i].id
        /\ pipe'[i].in_seq = pipe[i].in_seq /\ pipe'[i].conn_id = pipe[i].conn_id
    BY DEF Retries
  <2> QED BY <1>3, <1>4, <2>1, <2>2, NothingReceived
<1> QED BY <1>5, <1>6, <1>7

(* ... and what every Pipe says and has, ...                               *)
LEMMA RetriesSessions ==
  ASSUME TInv, WInv, CInv, TInv', NEW i \in Pipes, NEW c, NEW g, NEW f \in Frames,
         Retries(i, c, g, f), NEW k \in Pipes
  PROVE  PipeOK(k)' /\ SessionOK(k)' /\ NextOnes(k)'
<1>1. Grows
  BY RetriesGrows
<1>2. PipeOK(k) /\ SessionOK(k) /\ NextOnes(k)
  BY DEF CInv
<1>3. PICK p \in Peers : p = Owner(i)
  BY OwnerIsPeer
<1>4. PICK q \in Peers : q = Other(p) /\ \A r \in Peers : r = p \/ r = q
  BY OtherPeer DEF Peers, Other
<1>5. CASE k # i
  <2>1. Still(k)
    BY <1>5 DEF Retries
  <2>2. \/ sock'[k].in = sock[k].in
        \/ Undecided(k) /\ sock'[k].in = <<f>>
    BY <1>5, NoneIsNoPipe DEF Retries, Live
  <2>3. PipeOK(k)'
    <3>0. rd[k] = "accept" => Len(sock[k].in) <= 1
      BY <1>2 DEF PipeOK
    <3>1. rd[k] = "accept" => Len(sock'[k].in) <= 1
      <4>1. CASE sock'[k].in = sock[k].in
        BY <3>0, <4>1
      <4>2. CASE sock'[k].in = <<f>>
        <5>1. Len(<<f>>) = 1
          BY SingleElement
        <5>2. Len(sock'[k].in) = 1
          BY <4>2, <5>1
        <5> QED BY <5>2
      <4> QED BY <2>2, <4>1, <4>2
    <3>2. rd[k] # "accept" => sock'[k].in = sock[k].in
      BY <2>2 DEF Undecided
    <3> QED BY <1>1, <1>2, <2>1, <3>1, <3>2, PipeKept
  <2>4. Attempting(k) => global_seq'[Owner(k)] = global_seq[Owner(k)]
    <3> SUFFICES ASSUME Attempting(k) PROVE global_seq'[Owner(k)] = global_seq[Owner(k)]
      OBVIOUS
    <3>1. InUse(k) /\ InUse(i)
      BY DEF Attempting, InUse, Retries
    <3>2. Owner(k) = q
      BY <1>3, <1>4, <1>5, <3>1, InUseLookup, OwnerIsPeer
    <3> QED BY <1>3, <1>4, <3>2 DEF Retries
  <2>5. SessionOK(k)'
    BY <1>1, <1>2, <2>1, <2>4, SessionKept DEF Retries
  <2>6. NextOnes(k)'
    <3>1. CASE sock'[k].in = sock[k].in
      BY <1>2, <2>1, <3>1, NextKept DEF PairStill
    <3>2. CASE Undecided(k)
      BY <2>1, <3>2 DEF Undecided, Still, NextOnes, Listens, InUse, Awaits
    <3> QED BY <2>2, <3>1, <3>2
  <2> QED BY <2>3, <2>5, <2>6
<1>6. CASE k = i
  <2>1. /\ state[i] = "connecting" /\ wr[i] = "await" /\ rd[i] \in {"none", "sleep"}
        /\ state' = state /\ rd' = rd /\ wr' = wr /\ outq' = outq
        /\ loc'[i].gseq = g /\ loc'[i].cseq = c /\ global_seq'[p] = g
        /\ pipe'[i].connect_seq = c /\ pipe'[i].in_seq = pipe[i].in_seq
        /\ pipe'[i].conn_id = pipe[i].conn_id /\ pipe'[i].lossy = pipe[i].lossy
        /\ sock'[i].in = <<>> /\ submitted' = submitted
        /\ c \in Nat /\ g \in Nat /\ pipe[i].connect_seq <= c
        /\ c > 0 => Known(q)
    BY <1>3, <1>4 DEF Retries
  <2>2. /\ InSeq(q) \in Nat /\ InSeq(q)' \in Nat /\ Sent(q) \in Nat /\ Sent(q)' \in Nat
        /\ InSeq(q) <= InSeq(q)' /\ Sent(q) <= Sent(q)' /\ (Known(q) => Known(q)')
        /\ Known(p) => Known(p)'
    BY <1>1, PeerTypes, PeerTypesLater DEF Grows
  <2>3. SessionOK(i) /\ PipeOK(i)
    BY <1>2, <1>6
  <2>4. Known(p)'
    BY <1>3, <2>1, <2>2, <2>3 DEF PipeOK
  <2>5. PipeOK(i)'
    <3>1. ~pipe[i].lossy /\ pipe[i].conn_id \in ConnIds
      BY <2>1, <2>3 DEF PipeOK
    <3>2. \A h \in Elements(sock'[i].in) : h.kind # "connect"
      BY <2>1, ElementsEmpty
    <3>3. g <= g
      BY <2>1
    <3> QED BY <1>3, <2>1, <2>4, <3>1, <3>2, <3>3 DEF PipeOK
  <2>6. SessionOK(i)'
    <3>1. InUse(i)
      BY <2>1 DEF InUse
    <3>2. /\ Consecutive(outq[i], submitted[p])
          /\ pipe[i].connect_seq = 0 => Fresh(i)
          /\ Base(outq[i]) <= InSeq(q) /\ pipe[i].in_seq <= Sent(q)
      BY <1>3, <1>4, <2>3, <3>1 DEF SessionOK
    <3>3. Base(outq[i]) \in Nat /\ pipe[i].in_seq \in Nat /\ pipe[i].connect_seq \in Nat
      BY <3>1, SaneNow, QueueInUse, QueueNumbers DEF Sane
    <3>4. Base(outq[i]) <= InSeq(q)' /\ pipe[i].in_seq <= Sent(q)'
      BY <2>2, <3>2, <3>3
    <3>5. c = 0 => Fresh(i)
      BY <2>1, <3>2, <3>3
    <3>6. pipe'[i].connect_seq = 0 => Fresh(i)'
      BY <2>1, <3>5 DEF Fresh
    <3>7. ~Tentative(i)'
      BY <2>1 DEF Tentative
    <3>8. c > 0 => Known(q)'
      BY <2>1, <2>2
    <3> QED BY <1>3, <1>4, <2>1, <3>2, <3>4, <3>6, <3>7, <3>8 DEF SessionOK
  <2>7. NextOnes(i)'
    <3>1. Climbs(<<>>, pipe[i].in_seq)
      BY DEF Climbs
    <3> QED BY <2>1, <3>1 DEF NextOnes
  <2> QED BY <1>6, <2>5, <2>6, <2>7
<1> QED BY <1>5, <1>6

(* ... and how the ends of connections are linked, ...                     *)
LEMMA RetriesPairs ==
  ASSUME TInv, WInv, CInv, TInv', NEW i \in Pipes, NEW c, NEW g, NEW f \in Frames,
         Retries(i, c, g, f)
  PROVE  \A k \in Pipes : PairOK(k)'
<1>1. /\ state[i] = "connecting" /\ wr[i] = "await" /\ rd[i] \in {"none", "sleep"}
      /\ f.kind = "connect" /\ state' = state /\ rd' = rd /\ wr' = wr /\ sock'[i].in = <<>>
      /\ \A k \in Pipes : sock'[k].peer = sock[k].peer
      /\ \A k \in Pipes \ {i} : /\ Still(k)
                                /\ k # sock[i].peer => sock'[k].in = sock[k].in
  BY DEF Retries
<1>2. Severing(sock')
  BY <1>1, PeerIsPipe DEF Severing, Live
<1>3. ASSUME NEW x \in Pipes, Live(sock, i), x = sock[i].peer
      PROVE  Linked(i, x)' /\ Linked(x, i)' /\ x # i /\ sock[x].peer = i
  <2>1. x # i /\ Undecided(x) /\ sock'[x].in = <<f>>
    BY <1>3 DEF Retries
  <2>2. sock[x].peer = i
    BY <1>3, PeerIsPipe
  <2>3. Only(sock'[x].in, "connect")
    BY <1>1, <2>1, SingleElement DEF Only
  <2>4. Only(sock'[i].in, "reply")
    BY <1>1, ElementsEmpty DEF Only
  <2>5. wr[x] = "none"
    BY <2>1 DEF Undecided, TInv, LInv, AcceptingIsIdle
  <2>6. Linked(i, x)'
    BY <1>1, <2>1, <2>3 DEF Linked, Undecided, Awaits
  <2>7. Linked(x, i)'
    BY <1>1, <2>1, <2>4, <2>5 DEF Linked, Undecided, Awaits
  <2> QED BY <2>1, <2>2, <2>6, <2>7
<1>4. ASSUME NEW k \in Pipes, NEW m \in Pipes, Live(sock', k), m = sock[k].peer
      PROVE  (PairStill(k) /\ PairStill(m)) \/ Linked(k, m)'
  <2>1. Live(sock, k)
    BY <1>1, <1>4 DEF Live
  <2>2. sock[m].peer = k /\ Live(sock, m)
    BY <1>4, <2>1, PeerIsPipe
  <2>3. CASE k = i
    BY <1>3, <1>4, <2>1, <2>3
  <2>4. CASE m = i
    BY <1>3, <2>2, <2>4
  <2>5. CASE k # i /\ m # i
    <3>1. k # sock[i].peer /\ m # sock[i].peer
      <4>1. CASE Live(sock, i)
        BY <1>3, <1>4, <2>2, <2>5, <4>1
      <4>2. CASE ~Live(sock, i)
        BY <4>2, NoneIsNoPipe DEF Live
      <4> QED BY <4>1, <4>2
    <3> QED BY <1>1, <2>5, <3>1 DEF PairStill
  <2> QED BY <2>3, <2>4, <2>5
<1> QED BY <1>2, <1>4, PairsKept

(* ... the attempt is the newest again, ...                                *)
LEMMA RetriesNewest ==
  ASSUME TInv, WInv, CInv, NEW i \in Pipes, NEW c, NEW g, NEW f \in Frames, Retries(i, c, g, f)
  PROVE  \A k \in Pipes : Newest(k)'
<1>1. /\ state[i] = "connecting" /\ wr[i] = "await" /\ wr' = wr /\ state' = state
      /\ f.kind = "connect" /\ f.gseq = g /\ loc'[i].gseq = g /\ g \in Nat
      /\ loc[i].gseq = global_seq[Owner(i)] /\ loc[i].gseq <= g
      /\ \A k \in Pipes : sock'[k].peer = sock[k].peer
      /\ \A k \in Pipes \ {i} : loc'[k] = loc[k]
  BY DEF Retries, Still
<1>2. InUse(i) /\ Attempting(i) /\ Newest(i) /\ Owner(i) \in Peers
  BY <1>1, OwnerIsPeer DEF InUse, Attempting, CInv
<1>3. loc[i].gseq \in Nat
  BY SaneNow DEF Sane
<1>4. Newest(i)'
  <2>1. ASSUME NEW k \in Pipes, NEW h \in Elements(sock'[k].in),
               Owner(k) = Other(Owner(i)), h.kind = "connect"
        PROVE  /\ h.gseq = g => (Live(sock, i) => k = sock[i].peer)
               /\ sock[i].peer = k => h.gseq = g
    <3>1. CASE k # i /\ h \in Elements(sock[k].in) /\ (Live(sock, i) => k # sock[i].peer)
      <4>1. h.gseq = loc[i].gseq => (Live(sock, i) => k = sock[i].peer)
        BY <1>2, <2>1, <3>1 DEF Newest
      <4>2. h.gseq \in Nat /\ h.gseq <= loc[i].gseq
        <5>1. h \in Frames
          BY <3>1, ArrivedIsFrame
        <5>2. FrameOK(Owner(k), h)
          BY <3>1 DEF CInv, FramesOK
        <5>3. Other(Owner(k)) = Owner(i)
          BY <1>2, <2>1, OtherPeer
        <5> QED BY <1>1, <2>1, <5>1, <5>2, <5>3, FrameFields DEF FrameOK
      <4>3. h.gseq = g => h.gseq = loc[i].gseq
        BY <1>1, <1>3, <4>2
      <4>4. sock[i].peer # k
        BY <3>1, NoneIsNoPipe DEF Live
      <4> QED BY <4>1, <4>3, <4>4
    <3>2. CASE h = f /\ Live(sock, i) /\ k = sock[i].peer
      BY <1>1, <3>2
    <3> QED BY <3>1, <3>2, RetriesFrames
  <2>2. ASSUME NEW m \in Pipes \ {i}, Owner(m) = Owner(i), wr'[m] = "join"
        PROVE  loc'[m].gseq < loc'[i].gseq
    <3>1. loc[m].gseq < loc[i].gseq
      BY <1>1, <1>2, <2>2 DEF Newest
    <3>2. loc[m].gseq \in Nat
      BY SaneNow DEF Sane
    <3> QED BY <1>1, <1>3, <3>1, <3>2
  <2> QED BY <1>1, <2>1, <2>2 DEF Newest, Live
<1>5. ASSUME NEW a \in Pipes \ {i}, Attempting(a)' PROVE Newest(a)'
  <2>1. Attempting(a) /\ Newest(a) /\ InUse(a)
    BY <1>1, <1>5 DEF Attempting, CInv, InUse
  <2>2. Owner(a) # Owner(i) /\ Owner(a) \in Peers
    BY <1>2, <1>5, <2>1, InUseLookup, OwnerIsPeer
  <2>3. Owner(a) = Other(Owner(i))
    BY <1>2, <2>2 DEF Peers, Other
  <2>4. ASSUME NEW k \in Pipes, NEW h \in Elements(sock'[k].in), Owner(k) = Other(Owner(a))
        PROVE  h \in Elements(sock[k].in)
    <3>1. Owner(k) # Other(Owner(i))
      BY <2>2, <2>3, <2>4, OtherPeer
    <3> QED BY <3>1, RetriesFrames
  <2>5. \A m \in Pipes : Owner(m) = Owner(a) => loc'[m] = loc[m]
    BY <1>1, <2>2
  <2> QED BY <1>1, <2>1, <2>4, <2>5 DEF Newest, Live
<1> QED BY <1>4, <1>5 DEF Newest

(* ... and endangers no session, ...                                       *)
LEMMA RetriesGuards ==
  ASSUME TInv, WInv, CInv, NEW i \in Pipes, NEW c, NEW g, NEW f \in Frames, Retries(i, c, g, f)
  PROVE  \A x \in Pipes : Guarded(x)'
<1>1. /\ state[i] = "connecting" /\ wr[i] = "await" /\ rd[i] \in {"none", "sleep"}
      /\ wr' = wr /\ state' = state /\ rd' = rd
      /\ f.kind = "connect" /\ f.cseq = c /\ c \in Nat /\ pipe[i].connect_seq <= c
      /\ pipe'[i].in_seq = pipe[i].in_seq /\ pipe'[i].peer_global_seq = pipe[i].peer_global_seq
      /\ sock'[i].in = <<>>
      /\ \A k \in Pipes : sock'[k].peer = sock[k].peer
      /\ \A k \in Pipes \ {i} : /\ Still(k) /\ loc'[k] = loc[k]
                                /\ k # sock[i].peer => sock'[k].in = sock[k].in
  BY DEF Retries, Still
<1>2. Severing(sock')
  BY <1>1, PeerIsPipe DEF Severing, Live
<1>3. NewZeros
  <2> SUFFICES ASSUME NEW r \in Peers, NEW n, ZeroAttempt(r, n)', ~ZeroAttempt(r, n)
               PROVE  ~Counts(Other(r))
    BY DEF NewZeros
  <2>1. CASE \E k \in Pipes : \E h \in Elements(sock'[k].in) :
               Owner(k) = r /\ h.kind = "connect" /\ h.cseq = 0 /\ h.gseq = n
    <3>0. PICK k \in Pipes : \E h \in Elements(sock'[k].in) :
               Owner(k) = r /\ h.kind = "connect" /\ h.cseq = 0 /\ h.gseq = n
      BY <2>1
    <3>1. PICK h \in Elements(sock'[k].in) :
               Owner(k) = r /\ h.kind = "connect" /\ h.cseq = 0 /\ h.gseq = n
      BY <3>0
    <3>2. h \notin Elements(sock[k].in)
      BY <3>1 DEF ZeroAttempt
    <3>3. h = f /\ Owner(k) = Other(Owner(i))
      BY <3>2, RetriesFrames
    <3>4. Other(r) = Owner(i)
      BY <3>1, <3>3, OwnerIsPeer, OtherPeer
    <3>5. pipe[i].connect_seq = 0
      <4>1. pipe[i].connect_seq \in Nat
        BY SaneNow DEF Sane
      <4> QED BY <1>1, <3>1, <3>3, <4>1
    <3>6. InUse(i)
      BY <1>1 DEF InUse
    <3> QED BY <3>4, <3>5, <3>6, PeerValues
  <2>2. CASE \E m \in Pipes : Owner(m) = Other(r) /\ wr'[m] = "join" /\ loc'[m].cseq = 0
                              /\ loc'[m].gseq = n
    <3>1. PICK m \in Pipes : Owner(m) = Other(r) /\ wr'[m] = "join" /\ loc'[m].cseq = 0
                             /\ loc'[m].gseq = n
      BY <2>2
    <3>2. m # i
      BY <1>1, <3>1
    <3>3. wr[m] = "join" /\ loc'[m] = loc[m]
      BY <1>1, <3>1, <3>2
    <3> QED BY <3>1, <3>3 DEF ZeroAttempt
  <2> QED BY <2>1, <2>2 DEF ZeroAttempt
<1>4. ASSUME NEW x \in Pipes, x # i, ~(Live(sock, i) /\ x = sock[i].peer) PROVE Guarded(x)'
  <2>1. x # sock[i].peer
    BY <1>4, NoneIsNoPipe DEF Live
  <2>2. PairStill(x) /\ (Live(sock, x) => sock[x].peer \in Pipes)
    BY <1>1, <1>4, <2>1, PeerIsPipe DEF PairStill
  <2>3. \A j \in Pipes : Live(sock', x) /\ j = sock[x].peer =>
            /\ state'[j] = "open" /\ state[x] = "open" => state[j] = "open"
            /\ rd'[j] = "reply" => rd[j] = "reply" /\ loc'[j].reply = loc[j].reply
    <3> SUFFICES ASSUME NEW j \in Pipes, Live(sock', x), j = sock[x].peer
                 PROVE  rd'[j] = "reply" => rd[j] = "reply" /\ loc'[j].reply = loc[j].reply
      BY <1>1
    <3> QED BY <1>1
  <2>4. /\ TrustsOpen(x)' => TrustsOpen(x) /\ pipe'[x].peer_global_seq = pipe[x].peer_global_seq
        /\ \A b \in Nat : TrustsReply(x, b)' => TrustsReply(x, b)
    BY <1>2, <2>2, <2>3, TrustKept
  <2> QED BY <1>3, <2>4, GuardedAnew
<1>5. ASSUME NEW x \in Pipes, Live(sock, i), x = sock[i].peer PROVE Guarded(x)'
  <2>1. state'[x] = "accepting"
    BY <1>1, <1>5 DEF Retries, Undecided
  <2>2. ~TrustsOpen(x)' /\ \A b \in Nat : ~TrustsReply(x, b)'
    BY <2>1 DEF TrustsOpen, TrustsReply, InUse, Listens, Awaits
  <2> QED BY <1>3, <2>2, GuardedAnew
<1>6. Guarded(i)'
  <2>1. TrustsOpen(i)' => TrustsOpen(i) /\ pipe'[i].peer_global_seq = pipe[i].peer_global_seq
    BY <1>1 DEF TrustsOpen, InUse, Listens
  <2>2. \A b \in Nat : ~TrustsReply(i, b)'
    <3> SUFFICES ASSUME NEW b \in Nat, TrustsReply(i, b)' PROVE FALSE
      OBVIOUS
    <3>1. Live(sock, i) /\ rd[sock[i].peer] = "reply"
      BY <1>1 DEF TrustsReply, Live
    <3>2. PICK x \in Pipes : x = sock[i].peer
      BY <3>1, PeerIsPipe
    <3>3. rd[x] = "accept"
      BY <3>1, <3>2 DEF Retries, Undecided
    <3> QED BY <3>1, <3>2, <3>3
  <2> QED BY <1>3, <2>1, <2>2, GuardedAnew
<1> QED BY <1>4, <1>5, <1>6

(* ... which keeps the invariant.                                          *)
LEMMA ConnectRetriesCInv ==
  ASSUME TInv, WInv, CInv, TInv', NEW i \in Pipes,
         ConnectRetriesAuth(i) \/ ConnectRetriesGlobal(i) \/ ConnectRetriesSession(i)
  PROVE  CInv'
<1>1. LosslessPeers'
  BY DEF CInv, LosslessPeers
<1>2. PICK c \in Nat, g \in Nat, f \in Frames : Retries(i, c, g, f)
  BY RetriesValues
<1>3. NoSession' /\ (\A p \in Peers : ReceivedOK(p)') /\ FramesOK'
  BY <1>2, RetriesGrows
<1>4. \A k \in Pipes : PipeOK(k)' /\ SessionOK(k)' /\ NextOnes(k)'
  BY <1>2, RetriesSessions
<1>5. \A k \in Pipes : PairOK(k)' /\ Newest(k)' /\ Guarded(k)'
  BY <1>2, RetriesPairs, RetriesNewest, RetriesGuards
<1> QED BY <1>1, <1>3, <1>4, <1>5 DEF CInv

(* Nobody asks for a reset.                                                *)
LEMMA NeverResets ==
  ASSUME TInv, WInv, CInv, NEW i \in Pipes
  PROVE  ~ConnectResets(i)
<1> SUFFICES ASSUME ConnectResets(i) PROVE FALSE
  OBVIOUS
<1>1. Answered(i) /\ Answer(i).tag = "RESETSESSION"
  BY DEF ConnectResets, Answers
<1>2. ExpectedAnswer(i) /\ sock[i].in \in Seq(Frames) /\ sock[i].in # <<>>
  BY <1>1, AnsweredPair
<1>3. FrameOK(Owner(i), Answer(i))
  BY <1>2, ElementsTail DEF CInv, FramesOK, Answer
<1> QED BY <1>1, <1>2, <1>3 DEF FrameOK, ReplyOK, ExpectedAnswer

(* accept() opens Pipe i, which takes over the session of e, if there is   *)
(* one: its request f is answered with tag.                                *)
Admits(i, e, f, tag, acked) ==
  /\ Deciding(i) /\ e = Lookup(Owner(i)) /\ f = Request(i)
  /\ AcceptOpened(i, e, tag, acked)
  /\ tag \in Granting /\ acked \in Nat
  /\ tag = "SEQ" => acked = InSeq(Owner(i)) /\ e # None
  /\ tag = "READY" => f.cseq = 0
  /\ e # None => /\ pipe[e].peer_global_seq <= f.gseq
                 /\ pipe'[e].in_seq = pipe[e].in_seq /\ pipe'[e].lossy = pipe[e].lossy
                 /\ pipe'[e].conn_id = pipe[i].conn_id
  /\ pipe'[i].connect_seq = f.cseq + 1 /\ pipe'[i].peer_global_seq = f.gseq
  /\ pipe'[i].in_seq = InSeq(Owner(i)) /\ pipe'[i].lossy = pipe[i].lossy
  /\ pipe'[i].conn_id = IF e = None THEN pipe[i].conn_id ELSE pipe[e].conn_id
  /\ Consecutive(outq'[i], submitted[Owner(i)]) /\ Top(outq'[i]) = Sent(Owner(i))
  /\ Base(outq'[i]) <= InSeq(Other(Owner(i)))
  /\ \A k \in Pipes \ {i, e} : pipe'[k] = pipe[k] /\ outq'[k] = outq[k]
  /\ in_q' = in_q

(* accept() opens a session for a peer without one.                        *)
LEMMA AcceptNewAdmits ==
  ASSUME TInv, WInv, CInv, NEW i \in Pipes, AcceptNew(i)
  PROVE  Admits(i, None, Request(i), "READY", 0)
<1>1. /\ Deciding(i) /\ DecidedAs(i) = "open" /\ AcceptOpened(i, None, "READY", 0)
      /\ pipe' = [pipe EXCEPT ![i].connect_seq = Request(i).cseq + 1,
                              ![i].peer_global_seq = Request(i).gseq]
      /\ outq' = outq /\ in_q' = in_q
  BY DEF AcceptNew
<1>2. PICK p \in Peers : p = Owner(i) /\ Other(p) \in Peers
  BY OwnerIsPeer, OtherPeer
<1>3. Lookup(p) = None /\ Request(i).cseq = 0
  BY <1>1, <1>2, LosslessVerdict
<1>4. outq[i] = EmptyOutQ(0) /\ pipe[i].in_seq = 0
  <2>1. PipeOK(i)
    BY DEF CInv
  <2> QED BY <1>1, <2>1, DecidingPipe DEF PipeOK
<1>5. InSeq(p) = 0 /\ Sent(p) = 0 /\ submitted[p] = 0
  BY <1>3 DEF InSeq, Sent, CInv, NoSession
<1>6. /\ Consecutive(outq'[i], 0) /\ Top(outq'[i]) = 0 /\ Base(outq'[i]) = 0
  BY <1>1, <1>4, EmptyConsecutive
<1>7. Base(outq'[i]) <= InSeq(Other(p))
  <2>1. InSeq(Other(p)) \in Nat
    BY <1>2, PeerTypes
  <2> QED BY <1>6, <2>1
<1>8. pipe \in [Pipes -> PipeType]
  BY DEF TInv, DataOK
<1>9. /\ pipe'[i].connect_seq = Request(i).cseq + 1 /\ pipe'[i].peer_global_seq = Request(i).gseq
      /\ pipe'[i].in_seq = pipe[i].in_seq /\ pipe'[i].lossy = pipe[i].lossy
      /\ pipe'[i].conn_id = pipe[i].conn_id
      /\ \A k \in Pipes \ {i} : pipe'[k] = pipe[k]
  BY <1>1, <1>8 DEF PipeType
<1> QED BY <1>1, <1>2, <1>3, <1>4, <1>5, <1>6, <1>7, <1>9 DEF Admits, Granting

(* The Pipe that is replaced.                                              *)
LEMMA TakesSession ==
  ASSUME TInv, WInv, CInv, NEW i \in Pipes, Deciding(i), NEW e, e = Lookup(Owner(i)), e # None,
         NEW hard \in BOOLEAN, hard => pipe[e].in_seq = 0,
         TakeOver(i, e, pipe[e], outq[e], hard)
  PROVE  /\ e \in Pipes /\ InSeq(Owner(i)) = pipe[e].in_seq
         /\ pipe'[e].in_seq = pipe[e].in_seq /\ pipe'[e].lossy = pipe[e].lossy
         /\ pipe'[e].conn_id = pipe[i].conn_id
         /\ pipe'[i].connect_seq = Request(i).cseq + 1
         /\ pipe'[i].peer_global_seq = Request(i).gseq
         /\ pipe'[i].in_seq = pipe[e].in_seq /\ pipe'[i].lossy = pipe[i].lossy
         /\ pipe'[i].conn_id = pipe[e].conn_id
         /\ Consecutive(outq'[i], submitted[Owner(i)]) /\ Top(outq'[i]) = Sent(Owner(i))
         /\ Base(outq'[i]) <= InSeq(Other(Owner(i)))
         /\ \A k \in Pipes \ {i, e} : pipe'[k] = pipe[k] /\ outq'[k] = outq[k]
<1>1. PICK p \in Peers : p = Owner(i)
  BY OwnerIsPeer
<1>2. e \in Pipes /\ Owner(e) = p /\ InUse(e) /\ e # i /\ Good(outq[e], Ids)
  BY <1>1, LookupInUse, ReplacedPipe
<1>3. InSeq(p) = pipe[e].in_seq /\ Sent(p) = Top(outq[e])
  BY <1>1, <1>2, PeerValues
<1>4. Consecutive(outq[e], submitted[p]) /\ Base(outq[e]) <= InSeq(Other(p))
  BY <1>2 DEF CInv, SessionOK
<1>5. PICK q : q = requeue_sent(outq[e])
  OBVIOUS
<1>6. Consecutive(q, submitted[p]) /\ Base(q) = Base(outq[e]) /\ Top(q) = Top(outq[e])
  BY <1>2, <1>4, <1>5, RequeueConsecutive
<1>7. PICK n : n = IF hard THEN 0 ELSE pipe[e].in_seq
  OBVIOUS
<1>8. n = pipe[e].in_seq
  BY <1>7
<1>9. PICK z : z = EmptyOutQ(q.out_seq)
  OBVIOUS
<1>10. outq' = [outq EXCEPT ![i] = q, ![e] = z]
  BY <1>5, <1>9 DEF TakeOver, Stolen
<1>11. pipe' = [pipe EXCEPT
           ![i] = [@ EXCEPT !.connect_seq = Request(i).cseq + 1,
                            !.peer_global_seq = Request(i).gseq,
                            !.in_seq = n, !.in_seq_acked = n,
                            !.conn_id = pipe[e].conn_id],
           ![e] = [Detached(pipe[e]) EXCEPT !.conn_id = pipe[i].conn_id]]
  BY <1>7 DEF TakeOver
<1>12. pipe \in [Pipes -> PipeType] /\ outq \in [Pipes -> OutQ(Ids)]
  BY DEF TInv, DataOK
<1>13. /\ outq'[i] = q /\ \A k \in Pipes \ {i, e} : outq'[k] = outq[k]
  BY <1>2, <1>10, <1>12
<1>14. PICK b : b = Detached(pipe[e])
  OBVIOUS
<1>15. b \in PipeType /\ b.in_seq = pipe[e].in_seq /\ b.lossy = pipe[e].lossy
  <2>1. pipe[e] \in PipeType
    BY <1>2, <1>12
  <2>2. b \in PipeType /\ b.lossy = pipe[e].lossy
    <3>1. 0 \in Nat /\ TRUE \in BOOLEAN
      OBVIOUS
    <3> QED BY <1>14, <2>1, <3>1, PipeUpdates
  <2>3. b.in_seq = pipe[e].in_seq
    BY <1>14, <2>1 DEF Detached, PipeType
  <2> QED BY <2>2, <2>3
<1>16. /\ pipe'[e].in_seq = b.in_seq /\ pipe'[e].lossy = b.lossy
       /\ pipe'[e].conn_id = pipe[i].conn_id
  <2>1. pipe'[e] = [b EXCEPT !.conn_id = pipe[i].conn_id]
    BY <1>2, <1>11, <1>12, <1>14
  <2> QED BY <1>15, <2>1 DEF PipeType
<1>17. /\ pipe'[i].connect_seq = Request(i).cseq + 1
       /\ pipe'[i].peer_global_seq = Request(i).gseq
       /\ pipe'[i].in_seq = n /\ pipe'[i].lossy = pipe[i].lossy
       /\ pipe'[i].conn_id = pipe[e].conn_id
  <2>1. pipe'[i] = [pipe[i] EXCEPT !.connect_seq = Request(i).cseq + 1,
                            !.peer_global_seq = Request(i).gseq,
                            !.in_seq = n, !.in_seq_acked = n,
                            !.conn_id = pipe[e].conn_id]
    BY <1>2, <1>11, <1>12
  <2>2. pipe[i] \in PipeType
    BY <1>12
  <2> QED BY <2>1, <2>2 DEF PipeType
<1>18. \A k \in Pipes \ {i, e} : pipe'[k] = pipe[k]
  BY <1>2, <1>11, <1>12
<1> QED BY <1>1, <1>2, <1>3, <1>4, <1>6, <1>8, <1>13, <1>15, <1>16, <1>17, <1>18

(* accept() replaces a Pipe by that of a reconnecting peer.                *)
LEMMA AcceptReplacesAdmits ==
  ASSUME TInv, WInv, CInv, NEW i \in Pipes, AcceptReplace(i) \/ AcceptReplaceReset(i)
  PROVE  \E e : \E tag : \E acked : Admits(i, e, Request(i), tag, acked)
<1>1. PICK p \in Peers : p = Owner(i)
  BY OwnerIsPeer
<1>2. PICK e : e = Lookup(p)
  OBVIOUS
<1>3. Deciding(i) /\ DecidedAs(i) \in {"replace", "replace_reset"}
  BY DEF AcceptReplace, AcceptReplaceReset
<1>4. e # None /\ pipe[e].peer_global_seq <= Request(i).gseq
  <2>1. e # None /\ Request(i).gseq >= pipe[e].peer_global_seq
    BY <1>1, <1>2, <1>3, LosslessVerdict
  <2>2. e \in Pipes
    BY <1>2, <2>1, LookupInUse
  <2>3. pipe[e].peer_global_seq \in Nat /\ Request(i).gseq \in Nat
    BY <1>3, <2>2, SaneNow, DecidingPipe DEF Sane
  <2> QED BY <2>1, <2>3
<1>5. e \in Pipes /\ InUse(e) /\ Owner(e) = p /\ pipe[e].in_seq \in Nat
  BY <1>2, <1>4, LookupInUse, SaneNow DEF Sane
<1>6. CASE AcceptReplace(i)
  <2>1. /\ AcceptOpened(i, e, "SEQ", pipe[e].in_seq) /\ TakeOver(i, e, pipe[e], outq[e], FALSE)
        /\ in_q' = in_q
    BY <1>1, <1>2, <1>6 DEF AcceptReplace
  <2>2. PICK hard \in BOOLEAN : hard = FALSE
    OBVIOUS
  <2>3. TakeOver(i, e, pipe[e], outq[e], hard) /\ (hard => pipe[e].in_seq = 0)
    BY <2>1, <2>2
  <2>4. /\ InSeq(p) = pipe[e].in_seq
        /\ pipe'[e].in_seq = pipe[e].in_seq /\ pipe'[e].lossy = pipe[e].lossy
        /\ pipe'[e].conn_id = pipe[i].conn_id
        /\ pipe'[i].connect_seq = Request(i).cseq + 1
        /\ pipe'[i].peer_global_seq = Request(i).gseq
        /\ pipe'[i].in_seq = pipe[e].in_seq /\ pipe'[i].lossy = pipe[i].lossy
        /\ pipe'[i].conn_id = pipe[e].conn_id
        /\ Consecutive(outq'[i], submitted[p]) /\ Top(outq'[i]) = Sent(p)
        /\ Base(outq'[i]) <= InSeq(Other(p))
        /\ \A k \in Pipes \ {i, e} : pipe'[k] = pipe[k] /\ outq'[k] = outq[k]
    BY <1>1, <1>2, <1>3, <1>4, <2>3, TakesSession
  <2>5. Admits(i, e, Request(i), "SEQ", pipe[e].in_seq)
    BY <1>1, <1>2, <1>3, <1>4, <1>5, <2>1, <2>4 DEF Admits, Granting
  <2> QED BY <2>5
<1>7. CASE AcceptReplaceReset(i)
  <2>1. Request(i).cseq = 0
    BY <1>1, <1>2, <1>7, LosslessVerdict DEF AcceptReplaceReset
  <2>2. ~Policy[p].resetcheck
    BY DEF CInv, LosslessPeers
  <2>3. /\ AcceptOpened(i, e, "READY", 0) /\ TakeOver(i, e, pipe[e], outq[e], TRUE)
        /\ in_q' = in_q
    BY <1>1, <1>2, <1>7, <2>2 DEF AcceptReplaceReset
  <2>4. pipe[e].in_seq = 0
    <3> SUFFICES ASSUME pipe[e].in_seq > 0 PROVE FALSE
      BY <1>5
    <3>1. ZerosBelow(p, pipe[e].peer_global_seq)
      BY <1>5 DEF CInv, Guarded, TrustsOpen
    <3>2. /\ Request(i) \in Elements(sock[i].in) /\ Request(i).kind = "connect"
          /\ Request(i).gseq \in Nat
      BY <1>3, RequestArrived DEF Deciding
    <3>3. Request(i).gseq < pipe[e].peer_global_seq
      BY <1>1, <2>1, <3>1, <3>2 DEF ZerosBelow
    <3>4. pipe[e].peer_global_seq \in Nat
      BY <1>5, SaneNow DEF Sane
    <3> QED BY <1>4, <3>2, <3>3, <3>4
  <2>5. PICK hard \in BOOLEAN : hard = TRUE
    OBVIOUS
  <2>6. TakeOver(i, e, pipe[e], outq[e], hard) /\ (hard => pipe[e].in_seq = 0)
    BY <2>3, <2>4, <2>5
  <2>7. /\ InSeq(p) = pipe[e].in_seq
        /\ pipe'[e].in_seq = pipe[e].in_seq /\ pipe'[e].lossy = pipe[e].lossy
        /\ pipe'[e].conn_id = pipe[i].conn_id
        /\ pipe'[i].connect_seq = Request(i).cseq + 1
        /\ pipe'[i].peer_global_seq = Request(i).gseq
        /\ pipe'[i].in_seq = pipe[e].in_seq /\ pipe'[i].lossy = pipe[i].lossy
        /\ pipe'[i].conn_id = pipe[e].conn_id
        /\ Consecutive(outq'[i], submitted[p]) /\ Top(outq'[i]) = Sent(p)
        /\ Base(outq'[i]) <= InSeq(Other(p))
        /\ \A k \in Pipes \ {i, e} : pipe'[k] = pipe[k] /\ outq'[k] = outq[k]
    BY <1>1, <1>2, <1>3, <1>4, <2>6, TakesSession
  <2>8. Admits(i, e, Request(i), "READY", 0)
    BY <1>1, <1>2, <1>3, <1>4, <2>1, <2>3, <2>7 DEF Admits, Granting
  <2> QED BY <2>8
<1> QED BY <1>6, <1>7

(* What the step does to the Pipes: r is the reply that is to be written.  *)
Takes(i, e, f, r) ==
  /\ state[i] = "accepting" /\ rd[i] = "accept" /\ wr[i] = "none"
  /\ e = Lookup(Owner(i))
  /\ e # None => e \in Pipes /\ e # i /\ Owner(e) = Owner(i) /\ InUse(e) /\ rd[e] # "dispatch"
  /\ f = Request(i) /\ f \in Elements(sock[i].in)
  /\ f.kind = "connect" /\ FrameOK(Owner(i), f) /\ f.gseq \in Nat /\ f.cseq \in Nat
  /\ r.kind = "reply" /\ r.tag \in Granting /\ ~r.lossy
  /\ r.cseq = f.cseq + 1 /\ r.gseq = global_seq[Owner(i)] + 1
  /\ r.tag = "SEQ" => r.acked = InSeq(Owner(i)) /\ e # None
  /\ r.tag = "READY" => f.cseq = 0
  /\ state'[i] = "open" /\ rd'[i] = "reply" /\ wr'[i] = "none"
  /\ loc'[i].reply = r /\ (loc'[i].replaced <=> e # None)
  /\ sock'[i].in = <<>>
  /\ e # None => /\ state'[e] = "closed" /\ rd'[e] = rd[e] /\ wr'[e] = wr[e]
                 /\ loc'[e] = loc[e] /\ sock'[e].in = <<>>
  /\ \A k \in Pipes \ {i, e} : PairStill(k)
  /\ \A k \in Pipes : sock'[k].peer = IF e \in Pipes /\ (k = e \/ sock[k].peer = e) THEN None
                                      ELSE sock[k].peer
  /\ Severing(sock')
  /\ global_seq'[Owner(i)] = r.gseq
  /\ global_seq'[Other(Owner(i))] = global_seq[Other(Owner(i))]
  /\ submitted' = submitted /\ delivered' = delivered

(* Either way Pipe i takes the session there is or a new one.              *)
LEMMA AdmitsTakes ==
  ASSUME TInv, WInv, CInv, NEW i \in Pipes, NEW e, NEW f, NEW tag, NEW acked,
         Admits(i, e, f, tag, acked)
  PROVE  \E r : Takes(i, e, f, r)
<1>1. /\ Deciding(i) /\ e = Lookup(Owner(i)) /\ f = Request(i)
      /\ AcceptOpened(i, e, tag, acked) /\ tag \in Granting /\ acked \in Nat
      /\ tag = "SEQ" => acked = InSeq(Owner(i)) /\ e # None
      /\ tag = "READY" => f.cseq = 0
      /\ \A k \in Pipes \ {i, e} : pipe'[k] = pipe[k] /\ outq'[k] = outq[k]
  BY DEF Admits
<1>2. PICK r : r = Reply(tag, global_seq[Owner(i)] + 1, f.cseq + 1, acked,
                         Policy[Owner(i)].lossy)
  OBVIOUS
<1>3. PICK p \in Peers : p = Owner(i)
  BY OwnerIsPeer
<1>4. ~Policy[p].lossy
  BY DEF CInv, LosslessPeers
<1>5. /\ r.kind = "reply" /\ r.tag = tag /\ ~r.lossy /\ r.acked = acked
      /\ r.cseq = f.cseq + 1 /\ r.gseq = global_seq[p] + 1
  BY <1>2, <1>3, <1>4 DEF Reply
<1>6. /\ state[i] = "accepting" /\ rd[i] = "accept" /\ wr[i] = "none" /\ AtConnect(i)
      /\ sock[i].in # <<>>
  BY <1>1, DecidingPipe DEF Deciding, AtConnect, Arrived
<1>7. /\ f \in Elements(sock[i].in) /\ f.kind = "connect" /\ FrameOK(p, f)
      /\ f.gseq \in Nat /\ f.cseq \in Nat
  BY <1>1, <1>3, <1>6, RequestArrived
<1>8. e # None => e \in Pipes /\ e # i /\ Owner(e) = p /\ InUse(e) /\ rd[e] # "dispatch"
  BY <1>1, <1>3, <1>6, LookupInUse DEF Deciding, InUse
<1>9. e # i
  BY <1>8, NoneIsNoPipe
<1>10. /\ state' = [StoppedState(state, e) EXCEPT ![i] = "open"]
       /\ sock' = IF e = None THEN Took(sock, i) ELSE Stopped(Took(sock, i), e)
       /\ global_seq' = [global_seq EXCEPT ![p] = @ + 1]
       /\ rd' = [rd EXCEPT ![i] = "reply"]
       /\ loc' = [loc EXCEPT ![i].reply = r, ![i].replaced = (e # None)]
       /\ wr' = wr /\ submitted' = submitted /\ delivered' = delivered
  BY <1>1, <1>2, <1>3 DEF AcceptOpened
<1>11. /\ state \in [Pipes -> States] /\ rd \in [Pipes -> ReaderPC] /\ wr \in [Pipes -> WriterPC]
       /\ loc \in [Pipes -> LocType] /\ global_seq \in [Peers -> Nat]
  BY DEF TInv, LInv, Control, DataOK
<1>12. /\ state'[i] = "open" /\ rd'[i] = "reply" /\ wr'[i] = "none"
       /\ loc'[i].reply = r /\ (loc'[i].replaced <=> e # None)
  BY <1>6, <1>8, <1>10, <1>11 DEF StoppedState, LocType
<1>13. /\ \A k \in Pipes \ {i, e} : /\ state'[k] = state[k] /\ rd'[k] = rd[k]
                                    /\ wr'[k] = wr[k] /\ loc'[k] = loc[k]
       /\ e # None => state'[e] = "closed" /\ rd'[e] = rd[e] /\ wr'[e] = wr[e]
                      /\ loc'[e] = loc[e]
  BY <1>8, <1>9, <1>10, <1>11 DEF StoppedState
<1>14. /\ \A k \in Pipes : sock'[k].peer = IF e \in Pipes /\ (k = e \/ sock[k].peer = e) THEN None
                                          ELSE sock[k].peer
       /\ \A k \in Pipes \ {i, e} : sock'[k].in = sock[k].in
       /\ e # None => sock'[e].in = <<>>
  <2>1. CASE e = None
    BY <1>10, <2>1, TookEffect, NoneIsNoPipe
  <2>2. CASE e # None
    BY <1>6, <1>8, <1>10, <2>2, TookStopped
  <2> QED BY <2>1, <2>2
<1>15. sock'[i].in = <<>>
  <2>1. Len(sock[i].in) <= 1 /\ sock[i].in \in Seq(Frames)
    BY <1>6, SaneNow DEF CInv, PipeOK, Sane
  <2>2. Tail(sock[i].in) = <<>>
    BY <1>6, <2>1, TailOf, OneFrame
  <2>3. PICK t : t = Took(sock, i)
    OBVIOUS
  <2>4. t[i].in = Tail(sock[i].in)
    BY <2>3, TookEffect
  <2>5. CASE e = None
    BY <1>10, <2>2, <2>3, <2>4, <2>5
  <2>6. CASE e # None
    <3>1. t \in Socks
      BY <1>6, <2>3, TookType DEF TInv, DataOK, Socks
    <3>2. sock' = Stopped(t, e)
      BY <1>10, <2>3, <2>6
    <3>3. t[i].in = <<>>
      BY <2>2, <2>4
    <3>4. sock'[i].in = t[i].in
      BY <1>8, <2>6, <3>1, <3>2 DEF Stopped, Cut, Socks, SockType
    <3> QED BY <3>3, <3>4
  <2> QED BY <2>5, <2>6
<1>16. Severing(sock')
  BY <1>14, PeerIsPipe DEF Severing, Live
<1>17. \A k \in Pipes \ {i, e} : PairStill(k)
  BY <1>1, <1>13, <1>14 DEF PairStill, Still
<1>18. /\ global_seq'[p] = r.gseq
       /\ global_seq'[Other(p)] = global_seq[Other(p)]
  BY <1>3, <1>5, <1>10, <1>11, OtherPeer
<1>19. Takes(i, e, f, r)
  <2>1. /\ state[i] = "accepting" /\ rd[i] = "accept" /\ wr[i] = "none"
        /\ e = Lookup(Owner(i))
        /\ e # None => e \in Pipes /\ e # i /\ Owner(e) = Owner(i) /\ InUse(e) /\ rd[e] # "dispatch"
        /\ f = Request(i) /\ f \in Elements(sock[i].in)
        /\ f.kind = "connect" /\ FrameOK(Owner(i), f) /\ f.gseq \in Nat /\ f.cseq \in Nat
    BY <1>1, <1>3, <1>6, <1>7, <1>8
  <2>2. /\ r.kind = "reply" /\ r.tag \in Granting /\ ~r.lossy
        /\ r.cseq = f.cseq + 1 /\ r.gseq = global_seq[Owner(i)] + 1
        /\ r.tag = "SEQ" => r.acked = InSeq(Owner(i)) /\ e # None
        /\ r.tag = "READY" => f.cseq = 0
    BY <1>1, <1>3, <1>5
  <2> QED BY <1>3, <1>10, <1>12, <1>13, <1>14, <1>15, <1>16, <1>17, <1>18, <2>1, <2>2 DEF Takes
<1> QED BY <1>19

(* Pipe i is the session of its messenger; the other messenger's is        *)
(* where it was.                                                           *)
LEMMA TakesLookup ==
  ASSUME TInv, CInv, TInv', NEW i \in Pipes, NEW e, NEW f, NEW r, Takes(i, e, f, r),
         NEW p \in Peers, p = Owner(i), NEW q \in Peers, q = Other(p)
  PROVE  /\ InUse(i)' /\ Lookup(p)' = i /\ i # None
         /\ Lookup(q)' = Lookup(q)
         /\ e # None => ~InUse(e)'
         /\ \A k \in Pipes : Owner(k) = q => k # i /\ k # e /\ PairStill(k)
         /\ \A k \in Pipes \ {i, e} : Owner(k) = p => ~InUse(k) /\ ~InUse(k)'
<1>1. InUse(i)' /\ (e # None => ~InUse(e)' /\ Owner(e) = p)
  BY DEF Takes, InUse
<1>2. Lookup(p)' = i /\ i # None
  BY <1>1, InUseLookupLater
<1>3. p # q
  BY OtherPeer
<1>4. \A k \in Pipes : Owner(k) = q => k # i /\ k # e /\ PairStill(k)
  BY <1>1, <1>3, NoneIsNoPipe DEF Takes
<1>5. \A k \in Pipes : Owner(k) = q => (InUse(k)' <=> InUse(k))
  BY <1>4 DEF PairStill, Still, InUse
<1>6. Lookup(q)' = Lookup(q)
  <2>1. CASE Lookup(q) # None
    <3>1. PICK x \in Pipes : x = Lookup(q) /\ Owner(x) = q /\ InUse(x)
      BY <2>1, LookupInUse
    <3>2. InUse(x)'
      BY <1>5, <3>1
    <3> QED BY <3>1, <3>2, InUseLookupLater
  <2>2. CASE Lookup(q)' # None
    <3>1. PICK x \in Pipes : x = Lookup(q)' /\ Owner(x) = q /\ InUse(x)'
      BY <2>2, LookupInUseLater
    <3>2. InUse(x)
      BY <1>5, <3>1
    <3> QED BY <3>1, <3>2, InUseLookup
  <2> QED BY <2>1, <2>2
<1>7. ASSUME NEW k \in Pipes \ {i, e}, Owner(k) = p
      PROVE  ~InUse(k) /\ ~InUse(k)'
  <2>1. ~InUse(k)
    <3>1. Lookup(p) = e
      BY DEF Takes
    <3> QED BY <1>7, <3>1, InUseLookup
  <2>2. ~InUse(k)'
    BY <1>2, <1>7, InUseLookupLater
  <2> QED BY <2>1, <2>2
<1> QED BY <1>1, <1>2, <1>4, <1>6, <1>7

(* The sessions carry on and what was said of them stays so, ...           *)
LEMMA AdmitsGrows ==
  ASSUME TInv, WInv, CInv, TInv', NEW i \in Pipes, NEW e, NEW f, NEW tag, NEW acked,
         Admits(i, e, f, tag, acked), NEW r, Takes(i, e, f, r)
  PROVE  Grows /\ NoNewAttempts /\ FramesOK'
<1>1. PICK p \in Peers : p = Owner(i)
  BY OwnerIsPeer
<1>2. PICK q \in Peers : q = Other(p) /\ Other(q) = p /\ \A h \in Peers : h = p \/ h = q
  BY OtherPeer DEF Peers, Other
<1>3. /\ state[i] = "accepting" /\ e = Lookup(p)
      /\ e # None => e \in Pipes /\ e # i /\ Owner(e) = p /\ InUse(e)
      /\ loc'[i].replaced <=> e # None
      /\ global_seq'[p] = global_seq[p] + 1 /\ global_seq'[q] = global_seq[q]
      /\ f.cseq \in Nat
  BY <1>1, <1>2 DEF Takes
<1>4. /\ pipe'[i].connect_seq = f.cseq + 1 /\ pipe'[i].in_seq = InSeq(p)
      /\ Top(outq'[i]) = Sent(p)
  BY <1>1 DEF Admits
<1>5. \A k \in Pipes \ {i, e} : PairStill(k)
  BY DEF Takes
<1>6. InUse(i)'
  BY <1>1, <1>2, TakesLookup
<1>7. Grows
  <2>1. \A h \in Peers : global_seq[h] <= global_seq'[h]
    <3>1. global_seq[p] <= global_seq[p] + 1 /\ global_seq[q] <= global_seq[q]
      BY SeqTypes
    <3> QED BY <1>2, <1>3, <3>1
  <2>2. ASSUME NEW k \in Pipes, InUse(k)
        PROVE  \E j \in Pipes : CarriesOn(k, j)
    <3>1. CASE k = e
      <4>1. e # None
        BY <3>1, NoneIsNoPipe
      <4>2. InSeq(p) = pipe[e].in_seq /\ Sent(p) = Top(outq[e])
        BY <1>3, <4>1, PeerValues
      <4>3. pipe[e].in_seq \in Nat /\ Top(outq[e]) \in Nat
        BY <1>3, <4>1, SaneNow, QueueInUse, QueueNumbers DEF Sane
      <4>4. ~Tentative(i)'
        BY <1>3, <4>1 DEF Tentative
      <4>5. pipe'[i].connect_seq > 0
        BY <1>3, <1>4
      <4>6. /\ pipe[e].in_seq <= pipe'[i].in_seq
            /\ Top(outq[e]) <= Top(outq'[i])
        BY <1>4, <4>2, <4>3
      <4>7. CarriesOn(e, i)
        BY <1>1, <1>3, <1>6, <4>1, <4>4, <4>5, <4>6 DEF CarriesOn
      <4> QED BY <3>1, <4>7
    <3>2. CASE k = i
      BY <1>3, <2>2, <3>2 DEF InUse
    <3>3. CASE k \notin {i, e}
      <4>1. Still(k)
        BY <1>5, <3>3 DEF PairStill
      <4>2. CarriesOn(k, k)
        BY <2>2, <4>1, StillCarriesOn
      <4> QED BY <4>2
    <3> QED BY <3>1, <3>2, <3>3
  <2> QED BY <2>1, <2>2, GrowsBy
<1>8. \A k \in Pipes : \A g \in Elements(sock'[k].in) : g \in Elements(sock[k].in)
  <2>1. sock'[i].in = <<>> /\ (e # None => sock'[e].in = <<>>)
    BY DEF Takes
  <2>2. \A k \in Pipes \ {i, e} : sock'[k].in = sock[k].in
    BY <1>5 DEF PairStill
  <2> QED BY <2>1, <2>2, ElementsEmpty, NoneIsNoPipe
<1>9. NoNewAttempts
  <2>1. /\ wr'[i] = "none"
        /\ e # None => wr'[e] = wr[e] /\ loc'[e] = loc[e]
    BY DEF Takes
  <2>2. \A k \in Pipes \ {i, e} : wr'[k] = wr[k] /\ loc'[k] = loc[k]
    BY <1>5 DEF PairStill, Still
  <2>3. \A k \in Pipes : wr'[k] = "join" => wr[k] = "join" /\ loc'[k] = loc[k]
    BY <2>1, <2>2, NoneIsNoPipe
  <2> QED BY <1>8, <2>3 DEF NoNewAttempts
<1>10. FramesOK'
  BY <1>7, <1>8, FramesKept
<1> QED BY <1>7, <1>9, <1>10

(* ... what was received stays received, ...                               *)
LEMMA AdmitsReceived ==
  ASSUME TInv, WInv, CInv, TInv', NEW i \in Pipes, NEW e, NEW f, NEW tag, NEW acked,
         Admits(i, e, f, tag, acked), NEW r, Takes(i, e, f, r)
  PROVE  NoSession' /\ \A h \in Peers : ReceivedOK(h)'
<1>1. PICK p \in Peers : p = Owner(i)
  BY OwnerIsPeer
<1>2. PICK q \in Peers : q = Other(p) /\ q # p /\ \A h \in Peers : h = p \/ h = q
  BY OtherPeer DEF Peers, Other
<1>3. /\ e = Lookup(p)
      /\ e # None => e \in Pipes /\ e # i /\ Owner(e) = p /\ InUse(e) /\ rd[e] # "dispatch"
      /\ rd'[i] = "reply" /\ rd[i] = "accept"
      /\ e # None => rd'[e] = rd[e]
      /\ submitted' = submitted /\ delivered' = delivered
  BY <1>1 DEF Takes
<1>4. /\ pipe'[i].in_seq = InSeq(p) /\ in_q' = in_q
      /\ e # None => pipe'[i].conn_id = pipe[e].conn_id
  BY <1>1 DEF Admits
<1>5. /\ InUse(i)' /\ Lookup(p)' = i /\ i # None
      /\ Lookup(q)' = Lookup(q)
      /\ \A k \in Pipes : Owner(k) = q => k # i /\ k # e /\ PairStill(k)
      /\ \A k \in Pipes \ {i, e} : Owner(k) = p => ~InUse(k) /\ ~InUse(k)'
  BY <1>1, <1>2, TakesLookup
<1>6. NoSession'
  BY <1>2, <1>3, <1>5 DEF CInv, NoSession
<1>7. ReceivedOK(q)'
  <2>1. ReceivedOK(q) /\ in_q'[q] = in_q[q] /\ delivered'[q] = delivered[q]
    BY <1>3, <1>4 DEF CInv
  <2>2. \A k \in Pipes : Owner(k) = q => Still(k)
    BY <1>5 DEF PairStill
  <2>3. \A k \in Pipes : Owner(k) = q =>
            /\ rd'[k] = "dispatch" <=> rd[k] = "dispatch"
            /\ rd[k] = "dispatch" => loc'[k].id = loc[k].id
    BY <2>2 DEF Still
  <2>4. \A k \in Pipes : k = Lookup(q) =>
            pipe'[k].in_seq = pipe[k].in_seq /\ pipe'[k].conn_id = pipe[k].conn_id
    <3>1. \A k \in Pipes : k = Lookup(q) => Owner(k) = q
      BY LookupInUse, NoneIsNoPipe
    <3> QED BY <2>2, <3>1 DEF Still
  <2> QED BY <1>5, <2>1, <2>3, <2>4, ReceivedKept
<1>8. ReceivedOK(p)'
  <2>1. ReceivedOK(p)
    BY DEF CInv
  <2>2. /\ Numbers(delivered[p], 0)
        /\ \A c \in ConnIds : in_q[p][c] # <<>> =>
             Lookup(p) # None /\ c = pipe[Lookup(p)].conn_id /\ ~FastDispatch
        /\ \A j \in Pipes : Owner(j) = p /\ rd[j] = "dispatch" => j = Lookup(p)
        /\ Lookup(p) = None => delivered[p] = <<>>
    BY <2>1 DEF ReceivedOK
  <2>3. \A j \in Pipes : Owner(j) = p => rd[j] # "dispatch" /\ rd'[j] # "dispatch"
    <3> SUFFICES ASSUME NEW j \in Pipes, Owner(j) = p
                 PROVE  rd[j] # "dispatch" /\ rd'[j] # "dispatch"
      OBVIOUS
    <3>1. rd[j] # "dispatch"
      <4> SUFFICES ASSUME rd[j] = "dispatch" PROVE FALSE
        OBVIOUS
      <4>1. j = e
        BY <1>3, <2>2
      <4>2. e # None
        BY <4>1, NoneIsNoPipe
      <4> QED BY <1>3, <4>1, <4>2
    <3>2. j \notin {i, e} => rd'[j] = rd[j]
      BY DEF Takes, PairStill, Still
    <3> QED BY <1>3, <3>1, <3>2, NoneIsNoPipe
  <2>4. PICK n : n = pipe'[i].in_seq
    OBVIOUS
  <2>5. PICK d \in ConnIds : d = pipe'[i].conn_id
    <3>1. PipeOK(i) /\ state[i] # "free"
      BY DEF CInv, Takes
    <3>2. e # None => PipeOK(e) /\ state[e] # "free"
      BY <1>3 DEF CInv, InUse
    <3>3. e = None => pipe'[i].conn_id = pipe[i].conn_id
      BY DEF Admits
    <3> QED BY <1>4, <3>1, <3>2, <3>3 DEF PipeOK
  <2>6. PICK s : s = in_q[p][d]
    OBVIOUS
  <2>7. \A c \in ConnIds : in_q[p][c] # <<>> => c = d /\ ~FastDispatch
    BY <1>3, <1>4, <2>2, <2>5
  <2>8. Numbers(s, Len(delivered[p])) /\ Len(delivered[p]) + Len(s) = n
    <3>1. CASE e = None
      <4>1. s = <<>> /\ delivered[p] = <<>> /\ n = 0
        BY <1>3, <1>4, <2>2, <2>4, <2>6, <3>1 DEF InSeq
      <4> QED BY <4>1 DEF Numbers
    <3>2. CASE e # None
      <4>1. InSeq(p) = pipe[e].in_seq
        BY <1>3, <3>2, PeerValues
      <4>2. s = in_q[p][pipe[e].conn_id] /\ n = pipe[e].in_seq
        BY <1>4, <2>4, <2>5, <2>6, <3>2, <4>1
      <4>3. /\ Numbers(s, Len(delivered[p]))
            /\ Len(delivered[p]) + Len(s) + InHand(e) = pipe[e].in_seq
        BY <1>3, <2>1, <3>2, <4>2 DEF ReceivedOK
      <4>4. InHand(e) = 0
        BY <1>3, <3>2 DEF InHand
      <4>5. PICK a \in Nat, b \in Nat : a = Len(delivered[p]) /\ b = Len(s)
        <5>1. s \in Seq(Ids) /\ delivered[p] \in Seq(Ids)
          BY <2>6 DEF TInv, DataOK
        <5> QED BY <5>1, LenProperties
      <4>6. a + b + 0 = n
        BY <4>2, <4>3, <4>4, <4>5
      <4>7. a + b = n
        BY <4>6
      <4> QED BY <4>3, <4>5, <4>7
    <3> QED BY <3>1, <3>2
  <2>9. PICK D : D = delivered[p]
    OBVIOUS
  <2>10. /\ Numbers(D, 0) /\ Numbers(s, Len(D)) /\ Len(D) + Len(s) + 0 = n
    <3>1. PICK a \in Nat, b \in Nat : a = Len(D) /\ b = Len(s)
      <4>1. s \in Seq(Ids) /\ D \in Seq(Ids)
        BY <2>6, <2>9 DEF TInv, DataOK
      <4> QED BY <4>1, LenProperties
    <3> QED BY <2>2, <2>8, <2>9, <3>1
  <2>11. delivered'[p] = D /\ in_q'[p][d] = s /\ \A c \in ConnIds : in_q'[p][c] = in_q[p][c]
    BY <1>3, <1>4, <2>6, <2>9
  <2>12. InHand(i)' = 0
    BY <1>3 DEF InHand
  <2>13. /\ \A c \in ConnIds : in_q'[p][c] # <<>> =>
              Lookup(p)' # None /\ c = pipe'[i].conn_id /\ ~FastDispatch
         /\ \A j \in Pipes : Owner(j) = p => rd'[j] # "dispatch"
    BY <1>5, <2>3, <2>5, <2>7, <2>11
  <2> HIDE <1>3, <1>4
  <2> QED BY <1>3, <1>5, <2>4, <2>5, <2>10, <2>11, <2>12, <2>13 DEF ReceivedOK, Numbers
<1> QED BY <1>2, <1>6, <1>7, <1>8

(* ... what every Pipe is about to say is so, ...                          *)
LEMMA AdmitsPipes ==
  ASSUME TInv, WInv, CInv, TInv', NEW i \in Pipes, NEW e, NEW f, NEW tag, NEW acked,
         Admits(i, e, f, tag, acked), NEW r, Takes(i, e, f, r), NEW k \in Pipes
  PROVE  PipeOK(k)'
<1>1. Grows
  BY AdmitsGrows
<1>2. PICK p \in Peers : p = Owner(i)
  BY OwnerIsPeer
<1>3. PipeOK(k)
  BY DEF CInv
<1>4. CASE k \notin {i, e}
  <2>1. Still(k) /\ sock'[k].in = sock[k].in
    BY <1>4 DEF Takes, PairStill
  <2>2. rd[k] = "accept" => Len(sock[k].in) <= 1
    BY <1>3 DEF PipeOK
  <2> QED BY <1>1, <1>3, <2>1, <2>2, PipeKept
<1>5. CASE k = e
  <2>1. e # None
    BY <1>5, NoneIsNoPipe
  <2>2. /\ InUse(e) /\ state'[e] = "closed" /\ rd'[e] = rd[e] /\ wr'[e] = wr[e]
        /\ loc'[e] = loc[e] /\ sock'[e].in = <<>> /\ Owner(e) = p /\ e \in Pipes
        /\ state[i] = "accepting"
    BY <1>2, <2>1 DEF Takes
  <2>3. /\ pipe'[e].in_seq = pipe[e].in_seq /\ pipe'[e].lossy = pipe[e].lossy
        /\ pipe'[e].conn_id = pipe[i].conn_id
    BY <2>1 DEF Admits
  <2>4. WriterOK(e)'
    <3>1. WriterKept(e)
      BY <2>2 DEF WriterKept
    <3>2. state'[e] # "open"
      BY <2>2
    <3> QED BY <1>1, <1>3, <1>5, <2>2, <3>1, <3>2, WriterStays
  <2>5. rd[e] # "accept"
    BY <1>3, <1>5, <2>2 DEF PipeOK, InUse
  <2>6. PipeOK(i)
    BY DEF CInv
  <2>7. ~pipe'[e].lossy /\ pipe'[e].conn_id \in ConnIds
    BY <1>3, <1>5, <2>2, <2>3, <2>6 DEF PipeOK
  <2>8. rd[e] = "reply" =>
          /\ ReplyOK(loc[e].reply, p)' /\ (loc[e].reply.tag = "SEQ" => loc[e].replaced)
          /\ (~loc[e].replaced => pipe[e].in_seq = 0)
    <3> SUFFICES ASSUME rd[e] = "reply"
                 PROVE  /\ ReplyOK(loc[e].reply, p)'
                        /\ (loc[e].reply.tag = "SEQ" => loc[e].replaced)
                        /\ (~loc[e].replaced => pipe[e].in_seq = 0)
      OBVIOUS
    <3>1. PICK h : h = loc[e].reply
      OBVIOUS
    <3>2. /\ ReplyOK(h, p) /\ (h.tag = "SEQ" => loc[e].replaced)
          /\ (~loc[e].replaced => pipe[e].in_seq = 0)
      BY <1>3, <1>5, <2>2, <3>1 DEF PipeOK
    <3>3. h.acked \in Nat
      BY <2>2, <3>1, SaneNow DEF Sane, Replies
    <3>4. ReplyOK(h, p)'
      BY <1>1, <3>2, <3>3, ReplyGrows
    <3>5. loc'[e].reply = h
      BY <2>2, <3>1
    <3> QED BY <3>1, <3>2, <3>4, <3>5
  <2>9. rd[e] = "seq" => loc[e].replaced
    BY <1>3, <1>5 DEF PipeOK
  <2>10. \A g \in Elements(sock'[e].in) : g.kind # "connect"
    BY <2>2, ElementsEmpty
  <2>11. PICK l : l = loc[e]
    OBVIOUS
  <2>12. loc'[e] = l
    BY <2>2, <2>11
  <2>13. rd'[e] = "reply" =>
          /\ ReplyOK(loc[e].reply, p)' /\ (loc'[e].reply.tag = "SEQ" => loc'[e].replaced)
          /\ (~loc'[e].replaced => pipe'[e].in_seq = 0)
    BY <2>2, <2>3, <2>8
  <2>14. rd'[e] = "seq" => loc'[e].replaced
    BY <2>2, <2>9
  <2> QED BY <1>2, <1>5, <2>2, <2>4, <2>5, <2>7, <2>10, <2>13, <2>14 DEF PipeOK, WriterOK
<1>6. CASE k = i
  <2>1. /\ state'[i] = "open" /\ rd'[i] = "reply" /\ wr'[i] = "none"
        /\ loc'[i].reply = r /\ (loc'[i].replaced <=> e # None)
        /\ state[i] = "accepting" /\ sock'[i].in = <<>>
        /\ r.tag \in Granting /\ ~r.lossy /\ r.cseq = f.cseq + 1
        /\ r.tag = "SEQ" => r.acked = InSeq(p) /\ e # None
        /\ r.tag = "READY" => f.cseq = 0
        /\ e = Lookup(p)
        /\ e # None => e \in Pipes /\ InUse(e) /\ Owner(e) = p
    BY <1>2 DEF Takes
  <2>2. /\ pipe'[i].in_seq = InSeq(p) /\ pipe'[i].lossy = pipe[i].lossy
        /\ pipe'[i].conn_id = IF e = None THEN pipe[i].conn_id ELSE pipe[e].conn_id
    BY <1>2 DEF Admits
  <2>3. ~pipe'[i].lossy /\ pipe'[i].conn_id \in ConnIds
    <3>1. e # None => PipeOK(e) /\ state[e] # "free"
      BY <2>1 DEF CInv, InUse
    <3> QED BY <1>3, <1>6, <2>1, <2>2, <3>1 DEF PipeOK
  <2>4. InSeq(p)' = pipe'[i].in_seq
    <3>1. InUse(i)'
      BY <2>1 DEF InUse
    <3> QED BY <1>2, <3>1, PeerValuesLater
  <2>5. ReplyOK(r, p)'
    <3>1. InSeq(p) <= InSeq(p)'
      BY <1>1 DEF Grows
    <3>2. r.tag # "RESETSESSION" /\ (r.tag = "READY" => r.cseq = 1)
      BY <2>1 DEF Granting
    <3> QED BY <2>1, <3>1, <3>2 DEF ReplyOK
  <2>6. ReplyOK(loc[i].reply, Owner(i))'
    BY <1>2, <2>1, <2>5
  <2>7. ~loc'[i].replaced => pipe'[i].in_seq = 0
    BY <2>1, <2>2 DEF InSeq
  <2>8. \A g \in Elements(sock'[i].in) : g.kind # "connect"
    BY <2>1, ElementsEmpty
  <2>9. loc'[i].reply.tag = "SEQ" => loc'[i].replaced
    BY <2>1
  <2> QED BY <1>6, <2>1, <2>3, <2>6, <2>7, <2>8, <2>9 DEF PipeOK
<1> QED BY <1>4, <1>5, <1>6

(* ... every session is what it was, ...                                   *)
LEMMA AdmitsSessions ==
  ASSUME TInv, WInv, CInv, TInv', NEW i \in Pipes, NEW e, NEW f, NEW tag, NEW acked,
         Admits(i, e, f, tag, acked), NEW r, Takes(i, e, f, r), NEW k \in Pipes
  PROVE  SessionOK(k)' /\ NextOnes(k)'
<1>1. Grows
  BY AdmitsGrows
<1>2. PICK p \in Peers : p = Owner(i)
  BY OwnerIsPeer
<1>3. PICK q \in Peers : q = Other(p) /\ Other(q) = p /\ \A h \in Peers : h = p \/ h = q
  BY OtherPeer DEF Peers, Other
<1>4. /\ InUse(i)' /\ Lookup(p)' = i
      /\ \A j \in Pipes \ {i, e} : Owner(j) = p => ~InUse(j) /\ ~InUse(j)'
  BY <1>2, <1>3, TakesLookup
<1>5. SessionOK(k) /\ NextOnes(k)
  BY DEF CInv
<1>6. CASE k \notin {i, e}
  <2>1. PairStill(k) /\ Still(k)
    BY <1>6 DEF Takes, PairStill
  <2>2. NextOnes(k)'
    BY <1>5, <2>1, NextKept
  <2>3. SessionOK(k)'
    <3>1. CASE Owner(k) = p
      BY <1>4, <1>6, <3>1 DEF SessionOK
    <3>2. CASE Owner(k) = q
      <4>1. global_seq'[q] = global_seq[q] /\ submitted' = submitted
        BY <1>2, <1>3 DEF Takes
      <4> QED BY <1>1, <1>5, <2>1, <3>2, <4>1, SessionKept
    <3> QED BY <1>3, <3>1, <3>2, OwnerIsPeer
  <2> QED BY <2>2, <2>3
<1>7. CASE k = e
  <2>1. e # None
    BY <1>7, NoneIsNoPipe
  <2>2. state'[e] = "closed"
    BY <2>1 DEF Takes
  <2> QED BY <1>7, <2>2 DEF SessionOK, NextOnes, InUse, Listens, Awaits
<1>8. CASE k = i
  <2>1. /\ state'[i] = "open" /\ rd'[i] = "reply" /\ wr'[i] = "none"
        /\ (loc'[i].replaced <=> e # None) /\ sock'[i].in = <<>>
        /\ f.kind = "connect" /\ FrameOK(p, f) /\ f.cseq \in Nat
        /\ e = Lookup(p) /\ submitted' = submitted
    BY <1>2 DEF Takes
  <2>2. NextOnes(i)'
    <3>1. Climbs(<<>>, pipe'[i].in_seq)
      BY DEF Climbs
    <3> QED BY <2>1, <3>1 DEF NextOnes
  <2>3. /\ Consecutive(outq'[i], submitted[p]) /\ Top(outq'[i]) = Sent(p)
        /\ Base(outq'[i]) <= InSeq(q)
        /\ pipe'[i].connect_seq = f.cseq + 1 /\ pipe'[i].in_seq = InSeq(p)
    BY <1>2, <1>3 DEF Admits
  <2>4. InSeq(q) <= InSeq(q)' /\ InSeq(q) \in Nat /\ InSeq(q)' \in Nat
    BY <1>1, PeerTypes, PeerTypesLater DEF Grows
  <2>5. Base(outq'[i]) \in Nat
    <3>1. Good(outq'[i], Ids)
      BY SaneLater DEF Sane
    <3> QED BY <3>1, QueueNumbers
  <2>6. Base(outq'[i]) <= InSeq(q)'
    BY <2>3, <2>4, <2>5
  <2>7. pipe'[i].in_seq <= Sent(q)'
    <3>1. InSeq(p) <= Sent(q)
      <4>1. CASE e = None
        <5>1. InSeq(p) = 0 /\ Sent(q) \in Nat
          BY <2>1, <4>1, PeerTypes DEF InSeq
        <5> QED BY <5>1
      <4>2. CASE e # None
        <5>1. e \in Pipes /\ InUse(e) /\ Owner(e) = p
          BY <1>2, <4>2 DEF Takes
        <5>2. pipe[e].in_seq <= Sent(q)
          BY <1>3, <5>1 DEF CInv, SessionOK
        <5>3. InSeq(p) = pipe[e].in_seq
          BY <5>1, PeerValues
        <5> QED BY <5>2, <5>3
      <4> QED BY <4>1, <4>2
    <3>2. Sent(q) <= Sent(q)' /\ Sent(q) \in Nat /\ Sent(q)' \in Nat /\ InSeq(p) \in Nat
      BY <1>1, PeerTypes, PeerTypesLater DEF Grows
    <3> QED BY <2>3, <3>1, <3>2
  <2>8. Tentative(i)' => Top(outq'[i]) = 0
    BY <2>1, <2>3 DEF Tentative, Sent
  <2>9. Known(q)'
    BY <1>1, <1>3, <2>1 DEF FrameOK, Grows
  <2>10. pipe'[i].connect_seq # 0
    BY <2>1, <2>3
  <2>11. ~Attempting(i)'
    BY <2>1 DEF Attempting
  <2>12. SessionOK(i)'
    BY <1>2, <1>3, <2>1, <2>3, <2>6, <2>7, <2>8, <2>9, <2>10, <2>11 DEF SessionOK
  <2> QED BY <1>8, <2>2, <2>12
<1> QED BY <1>6, <1>7, <1>8

(* The connecting end awaits the answer.                                   *)
LEMMA TakesCaller ==
  ASSUME TInv, WInv, CInv, NEW i \in Pipes, NEW e, NEW f, NEW tag, NEW acked,
         Admits(i, e, f, tag, acked), NEW r, Takes(i, e, f, r),
         NEW x \in Pipes, Live(sock, i), x = sock[i].peer
  PROVE  /\ x # i /\ Owner(x) = Other(Owner(i)) /\ x \notin {i, e} /\ PairStill(x)
         /\ sock[x].peer = i /\ Live(sock, x)
         /\ wr[x] = "await" /\ sock[x].in = <<>> /\ sock'[x].in = <<>>
         /\ rd[x] \in {"none", "sleep"} /\ state[x] \in {"connecting", "closed"}
         /\ state[x] = "connecting" => f.gseq = loc[x].gseq
<1>1. PICK p \in Peers : p = Owner(i) /\ Other(p) # p /\ Other(Other(p)) = p
  BY OwnerIsPeer, OtherPeer
<1>2. x # i /\ sock[x].peer = i /\ Live(sock, x) /\ Owner(x) = Other(p)
  BY <1>1, PeerIsPipe DEF WInv, LinkInv
<1>3. x # e
  BY <1>1, <1>2, NoneIsNoPipe DEF Takes
<1>4. PairStill(x)
  BY <1>2, <1>3 DEF Takes
<1>5. wr[x] = "await" /\ sock[x].in = <<>>
  <2>1. AtConnect(i) /\ state[i] = "accepting"
    BY DEF Admits, Deciding
  <2> QED BY <2>1, PendingRequest DEF Calling, Asked
<1>6. rd[x] \in {"none", "sleep"} /\ state[x] \in {"connecting", "closed"}
  BY <1>5, Waiting
<1>7. sock'[x].in = <<>>
  BY <1>4, <1>5 DEF PairStill
<1>8. state[x] = "connecting" => f.gseq = loc[x].gseq
  <2> SUFFICES ASSUME state[x] = "connecting" PROVE f.gseq = loc[x].gseq
    OBVIOUS
  <2>1. Attempting(x) /\ Newest(x)
    BY <1>5 DEF Attempting, CInv
  <2>2. f \in Elements(sock[i].in) /\ f.kind = "connect" /\ Owner(i) = Other(Owner(x))
    BY <1>1, <1>2 DEF Takes
  <2> QED BY <1>2, <2>1, <2>2 DEF Newest
<1> QED BY <1>1, <1>2, <1>3, <1>4, <1>5, <1>6, <1>7, <1>8

(* ... the ends of connections are linked, ...                             *)
LEMMA AdmitsPairs ==
  ASSUME TInv, WInv, CInv, NEW i \in Pipes, NEW e, NEW f, NEW tag, NEW acked,
         Admits(i, e, f, tag, acked), NEW r, Takes(i, e, f, r)
  PROVE  \A k \in Pipes : PairOK(k)' /\ Newest(k)'
<1>1. /\ state'[i] = "open" /\ rd'[i] = "reply" /\ wr'[i] = "none" /\ loc'[i].reply = r
      /\ r.tag = "SEQ" => r.acked = InSeq(Owner(i))
      /\ sock'[i].in = <<>> /\ Severing(sock')
      /\ e # None => state'[e] = "closed"
      /\ \A k \in Pipes \ {i, e} : PairStill(k)
      /\ \A k \in Pipes : sock'[k].peer = IF e \in Pipes /\ (k = e \/ sock[k].peer = e) THEN None
                                          ELSE sock[k].peer
  BY DEF Takes
<1>2. pipe'[i].peer_global_seq = f.gseq /\ pipe'[i].in_seq = InSeq(Owner(i))
  BY DEF Admits
<1>3. ASSUME NEW x \in Pipes, Live(sock, i), x = sock[i].peer
      PROVE  Linked(i, x)' /\ Linked(x, i)' /\ sock[x].peer = i /\ Live(sock, x)
  <2>1. /\ PairStill(x) /\ sock[x].peer = i /\ Live(sock, x)
        /\ wr[x] = "await" /\ sock'[x].in = <<>>
        /\ rd[x] \in {"none", "sleep"} /\ state[x] \in {"connecting", "closed"}
        /\ state[x] = "connecting" => f.gseq = loc[x].gseq
    BY <1>3, TakesCaller
  <2>2. state'[x] = state[x] /\ rd'[x] = rd[x] /\ wr'[x] = wr[x] /\ loc'[x] = loc[x]
    BY <2>1 DEF PairStill, Still
  <2>3. Only(sock'[x].in, "reply") /\ Only(sock'[i].in, "connect")
    BY <1>1, <2>1, ElementsEmpty DEF Only
  <2>4. Linked(i, x)'
    BY <1>1, <1>2, <2>1, <2>2, <2>3 DEF Linked, Awaits
  <2>5. Linked(x, i)'
    BY <1>1, <2>1, <2>2, <2>3 DEF Linked, Awaits
  <2> QED BY <2>1, <2>4, <2>5
<1>4. ASSUME NEW k \in Pipes, NEW m \in Pipes, Live(sock', k), m = sock[k].peer
      PROVE  (PairStill(k) /\ PairStill(m)) \/ Linked(k, m)'
  <2>1. Live(sock, k) /\ (e \in Pipes => k # e /\ m # e)
    BY <1>1, <1>4 DEF Live
  <2>2. sock[m].peer = k /\ Live(sock, m)
    BY <1>4, <2>1, PeerIsPipe
  <2>3. CASE k = i
    BY <1>3, <1>4, <2>1, <2>3
  <2>4. CASE m = i
    BY <1>3, <2>2, <2>4
  <2>5. CASE k # i /\ m # i
    BY <1>1, <2>1, <2>5, NoneIsNoPipe
  <2> QED BY <2>3, <2>4, <2>5
<1>5. \A k \in Pipes : PairOK(k)'
  BY <1>1, <1>4, PairsKept
<1>6. ASSUME NEW a \in Pipes, Attempting(a)'
      PROVE  Attempting(a) /\ wr'[a] = wr[a] /\ loc'[a].gseq = loc[a].gseq
  <2>1. a # i /\ a # e
    BY <1>1, <1>6, NoneIsNoPipe DEF Attempting
  <2> QED BY <1>1, <1>6, <2>1 DEF Attempting, PairStill, Still
<1>7. ASSUME NEW a \in Pipes PROVE Newest(a)'
  <2>1. Newest(a) /\ NoNewAttempts
    <3>2. Newest(a)
      BY DEF CInv
    <3>3. NoNewAttempts
      <4>1. \A k \in Pipes : \A g \in Elements(sock'[k].in) : g \in Elements(sock[k].in)
        <5>1. e # None => sock'[e].in = <<>>
          BY DEF Takes
        <5>2. \A k \in Pipes \ {i, e} : sock'[k].in = sock[k].in
          BY <1>1 DEF PairStill
        <5> QED BY <1>1, <5>1, <5>2, ElementsEmpty, NoneIsNoPipe
      <4>2. \A k \in Pipes : wr'[k] = "join" => wr[k] = "join" /\ loc'[k] = loc[k]
        <5>1. e # None => wr'[e] = wr[e] /\ loc'[e] = loc[e]
          BY DEF Takes
        <5>2. \A k \in Pipes \ {i, e} : wr'[k] = wr[k] /\ loc'[k] = loc[k]
          BY <1>1 DEF PairStill, Still
        <5> QED BY <1>1, <5>1, <5>2, NoneIsNoPipe
      <4> QED BY <4>1, <4>2 DEF NoNewAttempts
    <3> QED BY <3>2, <3>3
  <2> QED BY <1>1, <1>6, <2>1, NewestKept
<1> QED BY <1>5, <1>7

(* ... and no session is endangered, ...                                   *)
LEMMA AdmitsGuards ==
  ASSUME TInv, WInv, CInv, TInv', NEW i \in Pipes, NEW e, NEW f, NEW tag, NEW acked,
         Admits(i, e, f, tag, acked), NEW r, Takes(i, e, f, r), NEW k \in Pipes
  PROVE  Guarded(k)'
<1>1. /\ state'[i] = "open" /\ rd'[i] = "reply" /\ wr'[i] = "none" /\ loc'[i].reply = r
      /\ r.gseq = global_seq[Owner(i)] + 1
      /\ sock'[i].in = <<>> /\ Severing(sock')
      /\ e # None => state'[e] = "closed"
      /\ \A j \in Pipes \ {i, e} : PairStill(j)
      /\ \A j \in Pipes : sock'[j].peer = IF e \in Pipes /\ (j = e \/ sock[j].peer = e) THEN None
                                          ELSE sock[j].peer
  BY DEF Takes
<1>2. NoNewAttempts
  BY AdmitsGrows
<1>3. Guarded(k)
  BY DEF CInv
<1>4. CASE k = e
  <2>1. state'[e] = "closed"
    BY <1>1, <1>4, NoneIsNoPipe
  <2> QED BY <1>4, <2>1 DEF Guarded, TrustsOpen, TrustsReply, InUse, Listens, Awaits
<1>5. CASE k = i
  <2>1. \A b \in Nat : ~TrustsReply(i, b)'
    BY <1>1 DEF TrustsReply, Awaits
  <2>2. ASSUME TrustsOpen(i)' PROVE ZerosBelow(Owner(i), pipe[i].peer_global_seq)'
    <3>1. ~HasMsg(sock'[i].in)
      BY <1>1, ElementsEmpty DEF HasMsg
    <3>2. ~(Live(sock', i) /\ state'[sock'[i].peer] = "open")
      <4> SUFFICES ASSUME Live(sock', i) PROVE state'[sock'[i].peer] # "open"
        OBVIOUS
      <4>1. Live(sock, i) /\ sock'[i].peer = sock[i].peer
        BY <1>1 DEF Live
      <4>2. PICK x \in Pipes : x = sock[i].peer
        BY <4>1, PeerIsPipe
      <4>3. state[x] # "open" /\ PairStill(x)
        BY <4>1, <4>2, TakesCaller
      <4> QED BY <4>1, <4>2, <4>3 DEF PairStill, Still
    <3>3. pipe'[i].in_seq > 0
      BY <2>2, <3>1, <3>2 DEF TrustsOpen
    <3>4. PICK p \in Peers : p = Owner(i)
      BY OwnerIsPeer
    <3>5. /\ pipe'[i].in_seq = InSeq(p) /\ pipe'[i].peer_global_seq = f.gseq
          /\ e # None => pipe[e].peer_global_seq <= f.gseq
          /\ e = Lookup(p)
      BY <3>4 DEF Admits
    <3>6. e # None
      BY <3>3, <3>5 DEF InSeq
    <3>7. e \in Pipes /\ InUse(e) /\ Owner(e) = p /\ f.gseq \in Nat
      BY <3>4, <3>6 DEF Takes
    <3>8. pipe[e].in_seq > 0
      BY <3>3, <3>5, <3>7, PeerValues
    <3>9. ZerosBelow(p, pipe[e].peer_global_seq)
      BY <3>7, <3>8 DEF CInv, Guarded, TrustsOpen
    <3>10. pipe[e].peer_global_seq \in Nat
      BY <3>7, SaneNow DEF Sane
    <3>11. PICK c \in Nat : c = f.gseq
      BY <3>7
    <3>12. pipe[e].peer_global_seq <= c
      BY <3>5, <3>6, <3>11
    <3>13. ZerosBelow(p, c)'
      BY <1>2, <3>9, <3>10, <3>12, ZerosKept
    <3>14. pipe'[i].peer_global_seq = c /\ p = Owner(i)
      BY <3>4, <3>5, <3>11
    <3> QED BY <3>13, <3>14
  <2> QED BY <1>5, <2>1, <2>2 DEF Guarded
<1>6. CASE k \notin {i, e} /\ ~(Live(sock, i) /\ k = sock[i].peer)
  <2>1. PairStill(k)
    BY <1>1, <1>6
  <2>2. ASSUME NEW j \in Pipes, Live(sock', k), j = sock[k].peer
        PROVE  /\ state'[j] = "open" /\ state[k] = "open" => state[j] = "open"
               /\ rd'[j] = "reply" => rd[j] = "reply" /\ loc'[j].reply = loc[j].reply
    <3>1. Live(sock, k) /\ j # e
      BY <1>1, <2>2 DEF Live
    <3>2. j # i
      BY <1>6, <2>2, <3>1, PeerIsPipe
    <3>3. PairStill(j)
      BY <1>1, <3>1, <3>2
    <3> QED BY <3>3 DEF PairStill, Still
  <2>3. Live(sock, k) => sock[k].peer \in Pipes
    BY PeerIsPipe
  <2>4. /\ TrustsOpen(k)' => TrustsOpen(k) /\ pipe'[k].peer_global_seq = pipe[k].peer_global_seq
        /\ \A b \in Nat : TrustsReply(k, b)' => TrustsReply(k, b)
    BY <1>1, <2>1, <2>2, <2>3, TrustKept
  <2> QED BY <1>2, <1>3, <2>4, GuardedKept
<1>7. CASE Live(sock, i) /\ k = sock[i].peer
  <2>1. PICK p \in Peers : p = Owner(i)
    BY OwnerIsPeer
  <2>2. PICK q \in Peers : q = Other(p) /\ Other(q) = p
    BY OtherPeer
  <2>3. /\ Owner(k) = q /\ PairStill(k) /\ sock[k].peer = i
        /\ wr[k] = "await" /\ sock'[k].in = <<>>
        /\ rd[k] \in {"none", "sleep"} /\ state[k] \in {"connecting", "closed"}
    BY <1>7, <2>1, <2>2, TakesCaller
  <2>4. Still(k)
    BY <2>3 DEF PairStill
  <2>5. ASSUME TrustsOpen(k)' PROVE ZerosBelow(Owner(k), pipe[k].peer_global_seq)'
    <3>1. InUse(k)' /\ pipe'[k].in_seq > 0
      BY <2>3, <2>4, <2>5 DEF TrustsOpen, Still, Listens
    <3>2. TrustsOpen(k)
      BY <2>4, <3>1 DEF TrustsOpen, Still, InUse
    <3>3. ZerosBelow(q, pipe[k].peer_global_seq)
      BY <1>3, <2>3, <3>2 DEF Guarded
    <3>4. PICK c \in Nat : c = pipe[k].peer_global_seq
      BY SaneNow DEF Sane
    <3>5. c <= c
      BY <3>4
    <3>6. ZerosBelow(q, c)'
      BY <1>2, <3>3, <3>4, <3>5, ZerosKept
    <3>7. pipe'[k].peer_global_seq = c
      BY <2>4, <3>4 DEF Still
    <3> QED BY <2>3, <3>6, <3>7
  <2>6. ASSUME NEW b \in Nat, TrustsReply(k, b)' PROVE ZerosBelow(Owner(k), b)'
    <3>1. b = global_seq[p] + 1
      <4>1. Live(sock', k) /\ b = loc'[sock'[k].peer].reply.gseq
        BY <2>3, <2>6 DEF TrustsReply
      <4>2. sock'[k].peer = i
        BY <1>1, <2>3, <4>1 DEF Live
      <4> QED BY <1>1, <2>1, <4>1, <4>2
    <3>2. ZerosBelow(q, b)
      <4>1. global_seq[p] \in Nat
        BY SeqTypes
      <4>2. ASSUME NEW m \in Pipes, NEW h \in Elements(sock[m].in), Owner(m) = q,
                   h.kind = "connect"
            PROVE  h.gseq < b
        <5>1. h.gseq <= global_seq[p]
          BY <2>2, <4>2 DEF CInv, FramesOK, FrameOK
        <5>2. h.gseq \in Nat
          BY <4>2, ArrivedIsFrame, FrameFields
        <5> QED BY <3>1, <4>1, <5>1, <5>2
      <4>3. ASSUME NEW m \in Pipes, Owner(m) = p, wr[m] = "join"
            PROVE  loc[m].gseq < b
        <5>1. loc[m].gseq <= global_seq[p]
          BY <4>3 DEF CInv, PipeOK
        <5>2. loc[m].gseq \in Nat
          BY SaneNow DEF Sane
        <5> QED BY <3>1, <4>1, <5>1, <5>2
      <4> QED BY <2>2, <4>2, <4>3 DEF ZerosBelow
    <3>3. b <= b
      OBVIOUS
    <3>4. ZerosBelow(q, b)'
      BY <1>2, <3>2, <3>3, ZerosKept
    <3> QED BY <2>3, <3>4
  <2> QED BY <2>5, <2>6 DEF Guarded
<1> QED BY <1>4, <1>5, <1>6, <1>7

(* accept() opens the Pipe.                                                *)
LEMMA AdmitsCInv ==
  ASSUME TInv, WInv, CInv, TInv', NEW i \in Pipes, NEW e, NEW f, NEW tag, NEW acked,
         Admits(i, e, f, tag, acked)
  PROVE  CInv'
<1>1. LosslessPeers'
  BY DEF CInv, LosslessPeers
<1>2. PICK r : Takes(i, e, f, r)
  BY AdmitsTakes
<1>3. FramesOK'
  BY <1>2, AdmitsGrows
<1>4. NoSession' /\ \A h \in Peers : ReceivedOK(h)'
  BY <1>2, AdmitsReceived
<1>5. \A k \in Pipes : PipeOK(k)' /\ SessionOK(k)' /\ NextOnes(k)'
  BY <1>2, AdmitsPipes, AdmitsSessions
<1>6. \A k \in Pipes : PairOK(k)' /\ Newest(k)' /\ Guarded(k)'
  BY <1>2, AdmitsPairs, AdmitsGuards
<1> QED BY <1>1, <1>3, <1>4, <1>5, <1>6 DEF CInv

(* ... which keeps the invariant.                                          *)
LEMMA AcceptOpensCInv ==
  ASSUME TInv, WInv, CInv, TInv', NEW i \in Pipes,
         AcceptNew(i) \/ AcceptReplace(i) \/ AcceptReplaceReset(i)
  PROVE  CInv'
<1>1. CASE AcceptNew(i)
  BY <1>1, AcceptNewAdmits, AdmitsCInv
<1>2. CASE AcceptReplace(i) \/ AcceptReplaceReset(i)
  <2>1. PICK e : \E tag : \E acked : Admits(i, e, Request(i), tag, acked)
    BY <1>2, AcceptReplacesAdmits
  <2>2. PICK tag : \E acked : Admits(i, e, Request(i), tag, acked)
    BY <2>1
  <2>3. PICK acked : Admits(i, e, Request(i), tag, acked)
    BY <2>2
  <2> QED BY <2>3, AdmitsCInv
<1> QED BY <1>1, <1>2
-----------------------------------------------------------------------------
(* The invariant holds at the start, ...                                   *)
LEMMA InitCInv ==
  ASSUME LosslessPeers, Init
  PROVE  CInv
<1>1. \A i \in Pipes : /\ state[i] = "free" /\ rd[i] = "none" /\ wr[i] = "none"
                       /\ sock[i] = NoSock /\ pipe[i] = NoPipe(Owner(i))
  BY DEF Init
<1>2. \A i \in Pipes : sock[i].in = <<>> /\ ~Live(sock, i)
  BY <1>1 DEF NoSock, Live
<1>3. \A p \in Peers : Lookup(p) = None
  BY DEF Init, Lookup
<1>4. FramesOK
  BY <1>2, ElementsEmpty DEF FramesOK
<1>5. NoSession
  BY DEF Init, NoSession
<1>6. ASSUME NEW i \in Pipes
      PROVE  PipeOK(i) /\ SessionOK(i) /\ NextOnes(i)
  <2>1. ~pipe[i].lossy
    <3>1. Owner(i) \in Peers
      BY OwnerIsPeer
    <3>2. ~Policy[Owner(i)].lossy
      BY <3>1 DEF LosslessPeers
    <3>3. pipe[i].lossy = Policy[Owner(i)].lossy
      BY <1>1 DEF NoPipe, Detached, NewPipe
    <3> QED BY <3>2, <3>3
  <2>2. \A f \in Elements(sock[i].in) : f.kind # "connect"
    BY <1>2, ElementsEmpty
  <2>3. PipeOK(i)
    BY <1>1, <2>1, <2>2 DEF PipeOK
  <2>4. SessionOK(i) /\ NextOnes(i)
    BY <1>1 DEF SessionOK, NextOnes, Listens, Awaits, InUse
  <2> QED BY <2>3, <2>4
<1>7. ASSUME NEW i \in Pipes
      PROVE  PairOK(i) /\ Newest(i) /\ Guarded(i)
  <2>1. PairOK(i) /\ Newest(i)
    BY <1>1, <1>2 DEF PairOK, Newest, Attempting
  <2>2. Guarded(i)
    BY <1>1, <1>2 DEF Guarded, TrustsOpen, TrustsReply, InUse, Listens, Awaits
  <2> QED BY <2>1, <2>2
<1>8. ASSUME NEW p \in Peers PROVE ReceivedOK(p)
  <2>1. delivered[p] = <<>> /\ \A c \in ConnIds : in_q[p][c] = <<>>
    BY DEF Init
  <2>2. Numbers(<<>>, 0)
    BY DEF Numbers
  <2>3. \A j \in Pipes : rd[j] # "dispatch"
    BY <1>1
  <2> QED BY <1>3, <2>1, <2>2, <2>3 DEF ReceivedOK
<1> QED BY <1>4, <1>5, <1>6, <1>7, <1>8 DEF CInv

(* What cannot happen: both ends keep the session and nobody marks it down *)
(* or dies.                                                                *)
LEMMA NeverHappens ==
  ASSUME TInv, WInv, CInv, NEW i \in Pipes, NEW p \in Peers
  PROVE  /\ ~AcceptStopped(i) /\ ~AcceptReplaceLossy(i) /\ ~ConnectResets(i)
         /\ ~MarkDown(p) /\ ~MarkDownAll(p) /\ ~Restart(p)
<1>1. ~AcceptStopped(i)
  <2>1. rd[i] = "accept" => state[i] = "accepting"
    BY DEF CInv, PipeOK
  <2> QED BY <2>1 DEF AcceptStopped, AtConnect
<1>2. ~AcceptReplaceLossy(i)
  <2>1. Deciding(i) => DecidedAs(i) # "replace_lossy"
    BY LosslessVerdict
  <2> QED BY <2>1 DEF AcceptReplaceLossy
<1>3. ~MarkDown(p) /\ ~MarkDownAll(p) /\ ~Restart(p)
  <2>1. used.downs \in Nat /\ used.restarts \in Nat
    BY DEF TInv, DataOK, Budgets
  <2>2. MaxMarkDowns = 0 /\ MaxRestarts = 0
    BY DEF CInv, LosslessPeers
  <2>3. MarkDown(p) \/ MarkDownAll(p) => used.downs < MaxMarkDowns
    BY DEF MarkDown, MarkDownAll, StopPipes
  <2>4. Restart(p) => used.restarts < MaxRestarts
    BY DEF Restart
  <2> QED BY <2>1, <2>2, <2>3, <2>4
<1> QED BY <1>1, <1>2, <1>3, NeverResets

(* ... every step keeps it, ...                                            *)
LEMMA NextCInv ==
  ASSUME TInv, WInv, CInv, [Next]_vars
  PROVE  CInv'
<1>1. TInv' /\ WInv'
  BY NextTInv, NextWInv
<1>2. CASE UNCHANGED vars
  <2>1. \A k \in Pipes : PairStill(k)
    BY <1>2 DEF vars, PairStill, Still
  <2>2. Severing(sock') /\ global_seq' = global_seq /\ submitted' = submitted
    BY <1>2 DEF vars, msgrVars, appVars, Severing, Live
  <2>3. NoSession' /\ \A p \in Peers : ReceivedOK(p)'
    <3>1. \A k \in Pipes : InUse(k) <=> InUse(k)'
      BY <1>2 DEF vars, InUse
    <3>2. \A p \in Peers : Lookup(p)' = Lookup(p)
      BY <1>1, <3>1, LookupSame
    <3>3. NoSession'
      BY <2>2, <3>2 DEF CInv, NoSession
    <3>4. ASSUME NEW p \in Peers PROVE ReceivedOK(p)'
      <4>1. ReceivedOK(p) /\ in_q'[p] = in_q[p] /\ delivered'[p] = delivered[p]
        BY <1>2 DEF CInv, vars, msgrVars, appVars
      <4>2. \A k \in Pipes : rd'[k] = rd[k] /\ loc'[k] = loc[k] /\ pipe'[k] = pipe[k]
        BY <1>2 DEF vars
      <4> QED BY <1>1, <3>2, <4>1, <4>2, ReceivedKept
    <3> QED BY <3>3, <3>4
  <2> QED BY <1>1, <2>1, <2>2, <2>3, QuietCInv
<1>3. ASSUME NEW i \in Pipes, Accepting(i) PROVE CInv'
  <2>1. ~AcceptStopped(i) /\ ~AcceptReplaceLossy(i)
    <3>1. PICK p \in Peers : p = Owner(i)
      BY OwnerIsPeer
    <3> QED BY <3>1, NeverHappens
  <2> QED BY <1>1, <1>3, <2>1, AcceptRefuseCInv, AcceptRejectCInv, AcceptOpensCInv,
             AcceptRepliedCInv, AcceptSeqCInv, AcceptFailedCInv DEF Accepting
<1>4. ASSUME NEW i \in Pipes, Reading(i) PROVE CInv'
  BY <1>1, <1>4, ReadMsgCInv, DispatchedCInv, ReadAckCInv, ReadKeepaliveCInv, ReadErrorCInv
  DEF Reading
<1>5. ASSUME NEW i \in Pipes, Connecting(i) PROVE CInv'
  BY <1>1, <1>5, ConnectCInv, ConnectOpensCInv, ConnectRefusedCInv, ConnectBrokenCInv,
     ConnectStopsCInv, ConnectRetriesCInv, NeverResets, ConnectReadyCInv, ConnectSeqFailsCInv
  DEF Connecting
<1>6. ASSUME NEW i \in Pipes, WriterStep(i) PROVE CInv'
  BY <1>1, <1>6, StartsWrite, WritesCInv, WriteFailsCInv DEF WriterStep
<1>7. ASSUME NEW p \in Peers, Application(p) PROVE CInv'
  <2>1. ~MarkDown(p) /\ ~MarkDownAll(p) /\ ~Restart(p)
    <3>1. <<1, 1>> \in Pipes
      BY ConstantsAssumption DEF Pipes, Peers, Slots
    <3> QED BY <3>1, NeverHappens
  <2> QED BY <1>1, <1>7, <2>1, SubmitCInv, SendKeepaliveCInv, DeliverCInv DEF Application
<1> QED BY <1>1, <1>2, <1>3, <1>4, <1>5, <1>6, <1>7, ReapCInv, NetFaultCInv DEF Next

(* ... and so it always holds.                                             *)
LEMMA SpecCInv ==
  ASSUME LosslessPeers
  PROVE  Spec => [](TInv /\ WInv /\ CInv)
<1>1. Init => CInv
  BY InitCInv
<1>2. TInv /\ WInv /\ CInv /\ [Next]_vars => CInv'
  BY NextCInv
<1> QED BY <1>1, <1>2, SpecWInv, PTL DEF Spec
-----------------------------------------------------------------------------
(* An out queue still has every message after the first Base(q) of n.      *)
LEMMA QueueHolds ==
  ASSUME NEW q, Good(q, Ids), NEW n \in Nat, Consecutive(q, n),
         NEW id \in Nat, Base(q) < id, id <= n
  PROVE  id \in IdsIn(q.high) \cup IdsIn(q.dflt) \cup IdsIn(q.sent)
<1>1. /\ Len(q.sent) \in Nat /\ Len(q.high) \in Nat /\ Len(q.dflt) \in Nat
      /\ q.out_seq \in Nat
  BY LenProperties DEF Good, OutQ
<1>2. PICK o \in Nat, s \in Nat, h \in Nat, d \in Nat :
        o = q.out_seq /\ s = Len(q.sent) /\ h = Len(q.high) /\ d = Len(q.dflt)
  BY <1>1
<1>3. Base(q) = o - s /\ Top(q) = o + h /\ n = o + h + d
  BY <1>2 DEF Base, Top, Consecutive
<1>4. /\ \A k \in 1..s : q.sent[k].id = o - s + k
      /\ \A k \in 1..h : q.high[k].id = o + k
      /\ \A k \in 1..d : q.dflt[k].id = o + h + k
  BY <1>2, <1>3 DEF Consecutive
<1>5. CASE id <= o
  <2>1. PICK k \in Int : k = id - (o - s)
    OBVIOUS
  <2>2. k \in 1..s /\ o - s + k = id
    BY <1>3, <1>5, <2>1
  <2>3. q.sent[k].id = id
    BY <1>4, <2>2
  <2> QED BY <1>2, <2>2, <2>3 DEF IdsIn
<1>6. CASE o < id /\ id <= o + h
  <2>1. PICK k \in Int : k = id - o
    OBVIOUS
  <2>2. k \in 1..h /\ o + k = id
    BY <1>6, <2>1
  <2>3. q.high[k].id = id
    BY <1>4, <2>2
  <2> QED BY <1>2, <2>2, <2>3 DEF IdsIn
<1>7. CASE o + h < id
  <2>1. PICK k \in Int : k = id - (o + h)
    OBVIOUS
  <2>2. k \in 1..d /\ o + h + k = id
    BY <1>3, <1>7, <2>1
  <2>3. q.dflt[k].id = id
    BY <1>4, <2>2
  <2> QED BY <1>2, <2>2, <2>3 DEF IdsIn
<1> QED BY <1>5, <1>6, <1>7

(* What is at p, delivered, waiting or in the hands of its reader, is all  *)
(* that its session has received.                                          *)
LEMMA ReceivedHolds ==
  ASSUME TInv, CInv, NEW p \in Peers, NEW id \in Nat, 0 < id, id <= InSeq(p)
  PROVE  id \in Received(p)
<1>1. Lookup(p) # None
  BY DEF InSeq
<1>2. PICK j \in Pipes : j = Lookup(p) /\ InUse(j) /\ Owner(j) = p
  BY <1>1, LookupInUse
<1>3. InSeq(p) = pipe[j].in_seq
  BY <1>2, PeerValues
<1>4. ReceivedOK(p) /\ PipeOK(j)
  BY DEF CInv
<1>5. PICK c \in ConnIds : c = pipe[j].conn_id
  BY <1>2, <1>4 DEF PipeOK, InUse
<1>6. /\ Numbers(delivered[p], 0) /\ Numbers(in_q[p][c], Len(delivered[p]))
      /\ Len(delivered[p]) + Len(in_q[p][c]) + InHand(j) = pipe[j].in_seq
      /\ rd[j] = "dispatch" => loc[j].id = pipe[j].in_seq
  BY <1>2, <1>4, <1>5, ReceivedBy
<1>7. PICK d \in Seq(Ids), s \in Seq(Ids) : d = delivered[p] /\ s = in_q[p][c]
  BY DEF TInv, DataOK
<1>8. PICK m \in Nat, n \in Nat : m = Len(d) /\ n = Len(s)
  BY <1>7, LenProperties
<1>9. /\ \A k \in 1..m : d[k] = 0 + k
      /\ \A k \in 1..n : s[k] = m + k
      /\ m + n + InHand(j) = pipe[j].in_seq
  BY <1>6, <1>7, <1>8 DEF Numbers
<1>10. CASE id <= m
  <2>1. id \in 1..m /\ d[id] = id
    BY <1>9, <1>10
  <2>2. id \in Elements(delivered[p])
    BY <1>7, <1>8, <2>1 DEF Elements
  <2> QED BY <2>2 DEF Received
<1>11. CASE m < id /\ id <= m + n
  <2>1. PICK k \in Int : k = id - m
    OBVIOUS
  <2>2. k \in 1..n /\ m + k = id
    BY <1>11, <2>1
  <2>3. s[k] = id
    BY <1>9, <2>2
  <2>4. id \in Elements(in_q[p][c])
    BY <1>7, <1>8, <2>2, <2>3 DEF Elements
  <2> QED BY <2>4 DEF Received
<1>12. CASE m + n < id
  <2>1. InHand(j) = 1 /\ id = pipe[j].in_seq
    <3>1. PICK v \in Nat : v = pipe[j].in_seq
      BY SaneNow DEF Sane
    <3>2. PICK h \in {0, 1} : h = InHand(j)
      BY DEF InHand
    <3>3. m + n + h = v /\ m + n < id /\ id <= v
      BY <1>3, <1>9, <1>12, <3>1, <3>2
    <3>4. h = 1 /\ id = v
      BY <3>3
    <3> QED BY <3>1, <3>2, <3>4
  <2>2. rd[j] = "dispatch" /\ loc[j].id = id
    BY <1>6, <2>1 DEF InHand
  <2> QED BY <1>2, <2>2 DEF Received
<1> QED BY <1>10, <1>11, <1>12

(* Every message is received or still held, whatever an end has been told; *)
NothingForgotten ==
  \A p \in Peers : \A id \in 1..submitted[p] : id \in Held(p) \cup Received(Other(p))

(* and what was delivered is 1, 2, 3, ..., with no number left out.        *)
NothingSkipped == \A p \in Peers : \A k \in 1..Len(delivered[p]) : delivered[p][k] = k

(* So no message is lost, ...                                              *)
LEMMA NoLossFromCInv ==
  ASSUME TInv, CInv
  PROVE  NoSilentLoss /\ NothingForgotten
<1> SUFFICES ASSUME NEW p \in Peers, NEW id \in 1..submitted[p]
             PROVE  id \in Held(p) \cup Received(Other(p))
  BY DEF NoSilentLoss, NothingForgotten
<1>1. submitted[p] \in Nat /\ id \in Nat /\ 0 < id /\ id <= submitted[p]
  BY DEF TInv, DataOK
<1>2. Other(p) \in Peers
  BY OtherPeer
<1>3. Lookup(p) # None
  BY <1>1 DEF CInv, NoSession
<1>4. PICK e \in Pipes : e = Lookup(p) /\ InUse(e) /\ Owner(e) = p
  BY <1>3, LookupInUse
<1>5. Good(outq[e], Ids) /\ Consecutive(outq[e], submitted[p])
  BY <1>4, QueueInUse
<1>6. Base(outq[e]) <= InSeq(Other(p))
  BY <1>4 DEF CInv, SessionOK
<1>7. PICK b \in Nat, n \in Nat : b = Base(outq[e]) /\ n = InSeq(Other(p))
  BY <1>2, <1>5, QueueNumbers, PeerTypes
<1>8. CASE id <= b
  <2>1. id <= InSeq(Other(p))
    BY <1>1, <1>6, <1>7, <1>8
  <2> QED BY <1>1, <1>2, <2>1, ReceivedHolds
<1>9. CASE b < id
  <2>1. id \in IdsIn(outq[e].high) \cup IdsIn(outq[e].dflt) \cup IdsIn(outq[e].sent)
    BY <1>1, <1>5, <1>7, <1>9, QueueHolds
  <2> QED BY <1>3, <1>4, <2>1 DEF Held
<1> QED BY <1>1, <1>7, <1>8, <1>9
-----------------------------------------------------------------------------
(* ... none is skipped, ...                                                *)
LEMMA NoneSkippedFromCInv ==
  ASSUME TInv, CInv
  PROVE  NothingSkipped
<1> SUFFICES ASSUME NEW p \in Peers, NEW k \in 1..Len(delivered[p])
             PROVE  delivered[p][k] = k
  BY DEF NothingSkipped
<1>1. Numbers(delivered[p], 0)
  BY DEF CInv, ReceivedOK
<1>2. delivered[p][k] = 0 + k
  BY <1>1 DEF Numbers
<1> QED BY <1>2

(* ... and every session resumes where it stopped.                         *)
LEMMA ResumesFromCInv ==
  ASSUME TInv, WInv, CInv
  PROVE  ResumesExactly
<1>1. ASSUME NEW i \in Pipes, Answers(i, {"SEQ"})
      PROVE  LET q == outq[i]
                 k == AckedCount(q, Answer(i).acked)
             IN  /\ k <= Len(q.high)
                 /\ \A n \in 1..k : q.high[n].seq \in 1..Answer(i).acked
  <2>1. Answers(i, {"READY", "SEQ"}) /\ Answer(i).tag = "SEQ"
    BY <1>1 DEF Answers
  <2>2. PICK q : q = outq[i]
    OBVIOUS
  <2>3. /\ Good(q, Ids) /\ q.sent = <<>> /\ Consecutive(q, submitted[Owner(i)])
        /\ Answer(i).acked \in Nat /\ Answer(i).acked <= Top(q)
    BY <2>1, <2>2, GrantedAnswer
  <2>4. /\ AckedCount(q, Answer(i).acked) <= Len(q.high)
        /\ \A k \in 1..AckedCount(q, Answer(i).acked) : q.high[k].seq \in 1..Answer(i).acked
    BY <2>3, DiscardAckedConsecutive
  <2> QED BY <2>2, <2>4
<1>2. ASSUME NEW i \in Pipes, Reads(i, "msg"), state[i] \notin {"closed", "connecting"}
      PROVE  Head(sock[i].in).msg.seq = pipe[i].in_seq + 1
  <2>1. rd[i] = "read" /\ sock[i].in # <<>> /\ Head(sock[i].in).kind = "msg"
    BY <1>2 DEF Reads, Arrived
  <2>2. Listens(i)
    BY <1>2, <2>1, RunningInUse DEF Listens
  <2>3. Climbs(sock[i].in, pipe[i].in_seq)
    BY <2>2 DEF CInv, NextOnes
  <2>4. PICK s \in Seq(Frames), n \in Nat : s = sock[i].in /\ n = pipe[i].in_seq
    BY SaneNow DEF Sane
  <2> QED BY <2>1, <2>3, <2>4, ClimbsTail
<1> QED BY <1>1, <1>2 DEF ResumesExactly, DiscardAssert, NextInSequence
-----------------------------------------------------------------------------
(* What p has been delivered is 1, 2, 3, ..., and the next message is one  *)
(* that its peer has submitted.                                            *)
LEMMA NextDelivery ==
  ASSUME TInv, WInv, CInv, NEW p \in Peers, NEW m \in Nat,
         m = Len(delivered[p]) + 1, m <= InSeq(p)
  PROVE  m \in (Channel!Last(delivered[p]) + 1)..submitted[Other(p)] /\ Channel!Last(delivered[p]) = m - 1
<1>1. Other(p) \in Peers /\ Other(Other(p)) = p
  BY OtherPeer
<1>2. PICK d \in Seq(Ids) : d = delivered[p]
  BY DEF TInv, DataOK
<1>3. PICK n \in Nat : n = Len(d)
  BY LenProperties
<1>4. Numbers(d, 0)
  BY <1>2 DEF CInv, ReceivedOK
<1>5. Channel!Last(d) = n
  <2>1. CASE d = <<>>
    BY <1>3, <2>1, EmptySeq DEF Channel!Last
  <2>2. CASE d # <<>>
    <3>1. n # 0
      BY <1>3, <2>2, EmptySeq
    <3>2. d[n] = 0 + n
      BY <1>3, <1>4, <3>1 DEF Numbers
    <3> QED BY <1>3, <2>2, <3>2 DEF Channel!Last
  <2> QED BY <2>1, <2>2
<1>6. m <= submitted[Other(p)]
  <2>1. Lookup(p) # None
    BY DEF InSeq
  <2>2. PICK i \in Pipes : i = Lookup(p) /\ InUse(i) /\ Owner(i) = p
    BY <2>1, LookupInUse
  <2>3. InSeq(p) <= Sent(Other(p))
    BY <2>2, PeerValues DEF CInv, SessionOK
  <2>4. m <= Sent(Other(p)) /\ 1 <= m
    BY <1>1, <1>2, <1>3, <2>3, PeerTypes
  <2>5. Lookup(Other(p)) # None
    BY <2>4 DEF Sent
  <2>6. PICK j \in Pipes : j = Lookup(Other(p)) /\ InUse(j) /\ Owner(j) = Other(p)
    BY <1>1, <2>5, LookupInUse
  <2>7. Consecutive(outq[j], submitted[Other(p)]) /\ Good(outq[j], Ids)
    BY <2>6, QueueInUse
  <2>8. PICK l \in Nat, t \in Nat : l = Len(outq[j].dflt) /\ t = Top(outq[j])
    BY <2>7, QueueNumbers, LenProperties DEF Good, OutQ
  <2>9. t + l = submitted[Other(p)] /\ Sent(Other(p)) = t
    BY <2>6, <2>7, <2>8, PeerValues DEF Consecutive
  <2> QED BY <2>4, <2>8, <2>9
<1>7. submitted[Other(p)] \in Nat
  BY <1>1 DEF TInv, DataOK
<1> QED BY <1>2, <1>3, <1>5, <1>6, <1>7

(* Such a delivery is one of the channel's.                                *)
LEMMA DeliversNext ==
  ASSUME TInv, WInv, CInv, NEW p \in Peers, NEW m \in Nat,
         m = Len(delivered[p]) + 1, m <= InSeq(p),
         delivered' = [delivered EXCEPT ![p] = Append(@, m)],
         UNCHANGED <<submitted, excused>>
  PROVE  Channel!Next
<1>1. m \in (Channel!Last(delivered[p]) + 1)..submitted[Other(p)] /\ Channel!Last(delivered[p]) = m - 1
  BY NextDelivery
<1>2. \A n \in (Channel!Last(delivered[p]) + 1)..(m - 1) : n \in excused[Other(p)]
  BY <1>1
<1>3. Channel!Other(p) = Other(p)
  BY DEF Channel!Other, Other
<1>4. Channel!Deliver(p)
  BY <1>1, <1>2, <1>3 DEF Channel!Deliver
<1>5. p \in Channel!Peers
  BY DEF Channel!Peers, Peers
<1> QED BY <1>4, <1>5 DEF Channel!Next

(* What the other steps do to what the application sees.                   *)
AppQuiet == /\ submitted' = submitted /\ delivered' = delivered
            /\ excused' = excused \/ excused' = [p \in Peers |-> 1..submitted[p]]

(* The channel does nothing, or tells of a reset.                          *)
LEMMA QuietChannel ==
  ASSUME AppQuiet
  PROVE  [Channel!Next]_<<submitted, delivered, excused>>
<1>1. Channel!Peers = Peers
  BY DEF Channel!Peers, Peers
<1>2. CASE excused' = excused
  BY <1>2 DEF AppQuiet
<1>3. CASE excused' = [p \in Peers |-> 1..submitted[p]]
  BY <1>1, <1>3 DEF AppQuiet, Channel!Next, Channel!Reset
<1> QED BY <1>2, <1>3 DEF AppQuiet

(* fault() delivers nothing, ...                                           *)
LEMMA FaultQuiet ==
  ASSUME NEW i \in Pipes, NEW st, NEW onread, NEW q, Fault(i, st, onread, q)
  PROVE  excused' = excused \/ excused' = [p \in Peers |-> 1..submitted[p]]
BY DEF Fault, FaultIgnored, FaultClosed, FaultLossy, FaultLossless, Excuse

(* ... neither does connect() when it fails, ...                           *)
LEMMA ConnectFailsQuiet ==
  ASSUME NEW i \in Pipes, NEW q, ConnectFails(i, q)
  PROVE  AppQuiet
<1>1. submitted' = submitted /\ delivered' = delivered
  BY DEF ConnectFails
<1>2. excused' = excused \/ excused' = [p \in Peers |-> 1..submitted[p]]
  BY FaultQuiet DEF ConnectFails
<1> QED BY <1>1, <1>2 DEF AppQuiet

(* ... nor accept(), ...                                                   *)
LEMMA AcceptingQuiet ==
  ASSUME NEW i \in Pipes, Accepting(i)
  PROVE  AppQuiet
<1>1. CASE AcceptStopped(i)
  BY <1>1 DEF AcceptStopped, FaultClosed, Excuse, AppQuiet
<1>2. CASE AcceptRefuse(i) \/ AcceptReject(i)
  BY <1>2 DEF AcceptRefuse, AcceptReject, AcceptReply, appVars, AppQuiet
<1>3. CASE AcceptNew(i) \/ AcceptReplace(i)
  BY <1>3 DEF AcceptNew, AcceptReplace, AcceptOpened, AppQuiet
<1>4. CASE AcceptReplaceLossy(i) \/ AcceptReplaceReset(i)
  BY <1>4 DEF AcceptReplaceLossy, AcceptReplaceReset, AcceptOpened, Excuse, AppQuiet
<1>5. CASE AcceptReplied(i) \/ AcceptSeq(i)
  BY <1>5 DEF AcceptReplied, AcceptSeq, appVars, AppQuiet
<1>6. CASE AcceptFailed(i)
  <2>1. submitted' = submitted /\ delivered' = delivered
    BY <1>6 DEF AcceptFailed
  <2>2. excused' = excused \/ excused' = [p \in Peers |-> 1..submitted[p]]
    BY <1>6, FaultQuiet DEF AcceptFailed
  <2> QED BY <2>1, <2>2 DEF AppQuiet
<1> QED BY <1>1, <1>2, <1>3, <1>4, <1>5, <1>6 DEF Accepting

(* ... nor the reader, unless it returns from fast dispatch, ...           *)
LEMMA ReadingQuiet ==
  ASSUME NEW i \in Pipes, Reading(i), ~Dispatched(i)
  PROVE  AppQuiet
<1>1. CASE ReadMsg(i) \/ ReadAck(i) \/ ReadKeepalive(i)
  BY <1>1 DEF ReadMsg, ReadAck, ReadKeepalive, appVars, AppQuiet
<1>2. CASE ReadError(i)
  <2>1. submitted' = submitted /\ delivered' = delivered
    BY <1>2 DEF ReadError
  <2>2. excused' = excused \/ excused' = [p \in Peers |-> 1..submitted[p]]
    BY <1>2, FaultQuiet DEF ReadError
  <2> QED BY <2>1, <2>2 DEF AppQuiet
<1> QED BY <1>1, <1>2 DEF Reading

(* ... nor connect(), ...                                                  *)
LEMMA ConnectingQuiet ==
  ASSUME NEW i \in Pipes, Connecting(i)
  PROVE  AppQuiet
<1>1. CASE Connect(i) \/ ConnectOpens(i) \/ ConnectStops(i) \/ ConnectReady(i)
  BY <1>1 DEF Connect, ConnectOpens, ConnectStops, ConnectReady, appVars, AppQuiet
<1>2. CASE ConnectRefused(i) \/ ConnectBroken(i) \/ ConnectRejected(i) \/ ConnectSeqFails(i)
  BY <1>2, ConnectFailsQuiet DEF ConnectRefused, ConnectBroken, ConnectRejected, ConnectSeqFails
<1>3. CASE ConnectRetriesAuth(i) \/ ConnectRetriesGlobal(i) \/ ConnectRetriesSession(i)
  BY <1>3 DEF ConnectRetriesAuth, ConnectRetriesGlobal, ConnectRetriesSession, Again, AppQuiet
<1>4. CASE ConnectResets(i)
  BY <1>4 DEF ConnectResets, Again, Excuse, AppQuiet
<1> QED BY <1>1, <1>2, <1>3, <1>4 DEF Connecting

(* ... nor the writer.                                                     *)
LEMMA WriterQuiet ==
  ASSUME NEW i \in Pipes, WriterStep(i)
  PROVE  AppQuiet
<1>1. CASE WriterRound(i) \/ Wrote(i)
  BY <1>1 DEF WriterRound, Wrote, appVars, AppQuiet
<1>2. CASE WriteFails(i)
  <2>1. submitted' = submitted /\ delivered' = delivered
    BY <1>2 DEF WriteFails
  <2>2. excused' = excused \/ excused' = [p \in Peers |-> 1..submitted[p]]
    BY <1>2, FaultQuiet DEF WriteFails
  <2> QED BY <2>1, <2>2 DEF AppQuiet
<1> QED BY <1>1, <1>2 DEF WriterStep

(* A message is submitted to the channel.                                  *)
LEMMA SubmitChannel ==
  ASSUME TInv, NEW p \in Peers, Submit(p)
  PROVE  Channel!Next
<1>1. /\ submitted[p] < MaxSubmit[p] /\ delivered' = delivered
      /\ submitted' = [submitted EXCEPT ![p] = @ + 1]
      /\ excused' = excused \/ excused' = [excused EXCEPT ![p] = @ \cup {submitted[p] + 1}]
  BY DEF Submit
<1>2. submitted'[p] = submitted[p] + 1
  BY <1>1 DEF TInv, DataOK
<1>3. Channel!Submit(p)
  BY <1>1, <1>2 DEF Channel!Submit
<1>4. p \in Channel!Peers
  BY DEF Channel!Peers, Peers
<1> QED BY <1>3, <1>4 DEF Channel!Next

(* fast_dispatch delivers the next message of the channel.                 *)
LEMMA DispatchedChannel ==
  ASSUME TInv, WInv, CInv, NEW i \in Pipes, Dispatched(i)
  PROVE  Channel!Next
<1>1. PICK p \in Peers : p = Owner(i)
  BY OwnerIsPeer
<1>2. /\ rd[i] = "dispatch" /\ delivered' = [delivered EXCEPT ![p] = Append(@, loc[i].id)]
      /\ UNCHANGED <<submitted, excused>>
  BY <1>1 DEF Dispatched
<1>3. ReceivedOK(p)
  BY DEF CInv
<1>4. FastDispatch /\ i = Lookup(p)
  BY <1>1, <1>2, <1>3 DEF ReceivedOK
<1>5. InUse(i)
  BY <1>4, LookupInUse, NoneIsNoPipe
<1>6. PICK c \in ConnIds : c = pipe[i].conn_id
  BY <1>5 DEF CInv, PipeOK, InUse
<1>7. /\ \A d \in ConnIds : in_q[p][d] # <<>> => ~FastDispatch
      /\ Len(delivered[p]) + Len(in_q[p][c]) + InHand(i) = pipe[i].in_seq
      /\ loc[i].id = pipe[i].in_seq
  <2>1. /\ \A d \in ConnIds : in_q[p][d] # <<>> => d = pipe[i].conn_id /\ ~FastDispatch
        /\ Len(delivered[p]) + Len(in_q[p][pipe[i].conn_id]) + InHand(i) = pipe[i].in_seq
        /\ rd[i] = "dispatch" => loc[i].id = pipe[i].in_seq
    BY <1>1, <1>3, <1>5, ReceivedBy
  <2>2. \A d \in ConnIds : in_q[p][d] # <<>> => ~FastDispatch
    BY <2>1
  <2>3. Len(delivered[p]) + Len(in_q[p][c]) + InHand(i) = pipe[i].in_seq
    BY <1>6, <2>1
  <2> QED BY <1>2, <2>1, <2>2, <2>3
<1>8. in_q[p][c] = <<>> /\ InHand(i) = 1
  BY <1>2, <1>4, <1>7 DEF InHand
<1>9. PICK n \in Nat : n = Len(delivered[p])
  BY LenProperties DEF TInv, DataOK
<1>10. pipe[i].in_seq = n + 1
  <2>1. Len(in_q[p][c]) = 0
    BY <1>8, EmptySeq
  <2>2. n + 0 + 1 = pipe[i].in_seq
    BY <1>7, <1>8, <1>9, <2>1
  <2> QED BY <2>2
<1>11. InSeq(p) = n + 1
  BY <1>1, <1>5, <1>10, PeerValues
<1>12. PICK m \in Nat : m = n + 1
  OBVIOUS
<1>13. delivered' = [delivered EXCEPT ![p] = Append(@, m)]
  BY <1>2, <1>7, <1>10, <1>12
<1>14. m = Len(delivered[p]) + 1 /\ m <= InSeq(p)
  BY <1>9, <1>11, <1>12
<1> QED BY <1>2, <1>13, <1>14, DeliversNext

(* The dispatch thread delivers the next message of the channel.           *)
LEMMA DeliverChannel ==
  ASSUME TInv, WInv, CInv, NEW p \in Peers, Deliver(p)
  PROVE  Channel!Next
<1>1. PICK c \in ConnIds :
        /\ in_q[p][c] # <<>>
        /\ delivered' = [delivered EXCEPT ![p] = Append(@, Head(in_q[p][c]))]
        /\ UNCHANGED <<submitted, excused>>
  BY DEF Deliver
<1>2. ReceivedOK(p)
  BY DEF CInv
<1>3. Lookup(p) # None /\ c = pipe[Lookup(p)].conn_id
  BY <1>1, <1>2 DEF ReceivedOK
<1>4. PICK i \in Pipes : i = Lookup(p) /\ InUse(i) /\ Owner(i) = p
  BY <1>3, LookupInUse
<1>5. /\ Numbers(in_q[p][c], Len(delivered[p]))
      /\ Len(delivered[p]) + Len(in_q[p][c]) + InHand(i) = pipe[i].in_seq
  BY <1>2, <1>3, <1>4, ReceivedBy
<1>6. PICK s \in Seq(Ids), n \in Nat : s = in_q[p][c] /\ n = Len(delivered[p])
  BY LenProperties DEF TInv, DataOK
<1>7. Head(s) = n + 1 /\ Len(s) \in Nat /\ 1 <= Len(s)
  BY <1>1, <1>5, <1>6, NumbersTail
<1>8. n + 1 <= InSeq(p)
  <2>1. PICK l \in Nat, h \in Nat : l = Len(s) /\ h = InHand(i)
    BY <1>7 DEF InHand
  <2>2. n + l + h = pipe[i].in_seq /\ 1 <= l
    BY <1>5, <1>6, <1>7, <2>1
  <2>3. InSeq(p) = pipe[i].in_seq
    BY <1>4, PeerValues
  <2> QED BY <2>2, <2>3
<1>9. PICK m \in Nat : m = n + 1
  OBVIOUS
<1>10. delivered' = [delivered EXCEPT ![p] = Append(@, m)]
  BY <1>1, <1>6, <1>7, <1>9
<1>11. m = Len(delivered[p]) + 1 /\ m <= InSeq(p)
  BY <1>6, <1>8, <1>9
<1> QED BY <1>1, <1>10, <1>11, DeliversNext

(* Nothing has been submitted at the start, ...                            *)
LEMMA InitChannel == Init => Channel!Init
<1>1. Channel!Peers = Peers
  BY DEF Channel!Peers, Peers
<1> QED BY <1>1 DEF Init, Channel!Init

(* ... and every step is one of the channel's or leaves it alone.          *)
LEMMA NextChannel ==
  ASSUME TInv, WInv, CInv, [Next]_vars
  PROVE  [Channel!Next]_<<submitted, delivered, excused>>
<1>1. CASE UNCHANGED vars
  BY <1>1 DEF vars, appVars
<1>2. ASSUME NEW i \in Pipes, \/ Accepting(i) \/ Reading(i) \/ Connecting(i)
                              \/ WriterStep(i) \/ Reap(i) \/ NetFault(i)
      PROVE  [Channel!Next]_<<submitted, delivered, excused>>
  <2>1. CASE Dispatched(i)
    BY <2>1, DispatchedChannel
  <2>2. CASE ~Dispatched(i)
    <3>1. Reap(i) \/ NetFault(i) => AppQuiet
      BY DEF Reap, NetFault, appVars, AppQuiet
    <3>2. AppQuiet
      BY <1>2, <2>2, <3>1, AcceptingQuiet, ReadingQuiet, ConnectingQuiet, WriterQuiet
    <3> QED BY <3>2, QuietChannel
  <2> QED BY <2>1, <2>2
<1>3. ASSUME NEW p \in Peers, Application(p)
      PROVE  [Channel!Next]_<<submitted, delivered, excused>>
  <2>1. CASE Submit(p)
    BY <2>1, SubmitChannel
  <2>2. CASE Deliver(p)
    BY <2>2, DeliverChannel
  <2>3. CASE SendKeepalive(p)
    <3>1. AppQuiet
      BY <2>3 DEF SendKeepalive, appVars, AppQuiet
    <3> QED BY <3>1, QuietChannel
  <2>4. CASE MarkDown(p) \/ MarkDownAll(p) \/ Restart(p)
    <3>1. AppQuiet
      BY <2>4 DEF MarkDown, MarkDownAll, StopPipes, Restart, Excuse, AppQuiet
    <3> QED BY <3>1, QuietChannel
  <2> QED BY <1>3, <2>1, <2>2, <2>3, <2>4 DEF Application
<1> QED BY <1>1, <1>2, <1>3 DEF Next
-----------------------------------------------------------------------------
(* Between two lossless peers nothing is lost: until its receiver has a    *)
(* message, an out queue of the sender's registered Pipe has it.  None is  *)
(* given up because an end was told of a reset.                            *)
THEOREM NothingLost ==
  ASSUME LosslessPeers
  PROVE  Spec => []NoSilentLoss /\ []NothingForgotten
<1>1. TInv /\ WInv /\ CInv => NoSilentLoss /\ NothingForgotten
  BY NoLossFromCInv
<1> QED BY <1>1, SpecCInv, PTL

(* What the application of a lossless peer is given is what the other has  *)
(* submitted, from the first message on and without a gap.                 *)
THEOREM DeliveredWithoutGaps ==
  ASSUME LosslessPeers
  PROVE  Spec => []NothingSkipped
<1>1. TInv /\ WInv /\ CInv => NothingSkipped
  BY NoneSkippedFromCInv
<1> QED BY <1>1, SpecCInv, PTL

(* connect() finds the message for each number the peer acknowledges, and  *)
(* the reader reads neither an old message nor one too far ahead.          *)
THEOREM SessionsResume ==
  ASSUME LosslessPeers
  PROVE  Spec => []ResumesExactly
<1>1. TInv /\ WInv /\ CInv => ResumesExactly
  BY ResumesFromCInv
<1> QED BY <1>1, SpecCInv, PTL

(* The two messengers implement the reliable channel: each message arrives *)
(* once at most and after those submitted before it.                       *)
THEOREM ChannelImplemented ==
  ASSUME LosslessPeers
  PROVE  Spec => ImplementsChannel
<1>1. Init => Channel!Init
  BY InitChannel
<1>2. TInv /\ WInv /\ CInv /\ [Next]_vars => [Channel!Next]_<<submitted, delivered, excused>>
  BY NextChannel
<1> QED BY <1>1, <1>2, SpecCInv, PTL DEF Spec, ImplementsChannel, Channel!Spec
=============================================================================
