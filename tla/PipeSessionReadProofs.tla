------------------------ MODULE PipeSessionReadProofs -----------------------
(***************************************************************************)
(* What the application sees of PipeSession, when the two messengers are   *)
(* lossless peers.  The invariant CInv follows every message by its number *)
(* from the queue of the sender over the wire to the application, and      *)
(* every attempt to connect from the counter it takes its number from to   *)
(* the reply that grants it.  This module defines CInv and shows what      *)
(* reading from a socket does to it: the read loop, fast dispatch and the  *)
(* dispatch thread, a refusal of accept() and the end of its handshake.    *)
(***************************************************************************)
EXTENDS PipeSessionWireProofs

(* Policy::lossless_peer of Messenger.h: both ends keep the session, both  *)
(* reconnect, and neither asks for a reset check.  Whether they have a     *)
(* standby is left open.  Nothing jumps the queue, nobody marks the        *)
(* connection down, and neither process dies.                              *)
LosslessPeers ==
  /\ \A p \in Peers : ~Policy[p].lossy /\ ~Policy[p].server /\ ~Policy[p].resetcheck
  /\ Urgent = {} /\ MaxMarkDowns = 0 /\ MaxRestarts = 0

(* The number before the first message an out queue still has, and the     *)
(* last number it has ever sent.                                           *)
Base(q) == q.out_seq - Len(q.sent)
Top(q)  == q.out_seq + Len(q.high)

(* Every message has, or will be given, the number at which it was         *)
(* submitted; the last of the n submitted messages is the last in line.    *)
Consecutive(q, n) ==
  /\ Top(q) + Len(q.dflt) = n
  /\ \A k \in 1..Len(q.sent) : q.sent[k].id = Base(q) + k
  /\ \A k \in 1..Len(q.high) : q.high[k].id = q.out_seq + k /\ q.high[k].seq = q.out_seq + k
  /\ \A k \in 1..Len(q.dflt) : q.dflt[k].id = Top(q) + k

(* What p has received, and what it has ever sent, on its session.         *)
InSeq(p) == IF Lookup(p) = None THEN 0 ELSE pipe[Lookup(p)].in_seq
Sent(p)  == IF Lookup(p) = None THEN 0 ELSE Top(outq[Lookup(p)])

(* p has a session that only a reset can end: not one that was accepted a  *)
(* moment ago and whose peer has not been told.                            *)
Tentative(i) == rd[i] = "reply" /\ ~loc[i].replaced
Known(p) == Lookup(p) # None /\ ~Tentative(Lookup(p))

(* The session of p has been opened before.                                *)
Counts(p) == Lookup(p) # None /\ pipe[Lookup(p)].connect_seq > 0

(* A reply of p.                                                           *)
ReplyOK(f, p) ==
  /\ ~f.lossy /\ f.tag # "RESETSESSION"
  /\ f.tag = "SEQ" => f.acked <= InSeq(p)
  /\ f.tag = "READY" => f.cseq = 1

(* A frame that has arrived at p says nothing that is not so.              *)
FrameOK(p, f) ==
  /\ f.kind = "msg" => f.msg.id = f.msg.seq /\ 1 <= f.msg.seq /\ f.msg.seq <= Sent(Other(p))
  /\ f.kind \in {"ack", "seq"} => f.seq <= InSeq(Other(p))
  /\ f.kind = "reply" => /\ ReplyOK(f, Other(p))
                         /\ f.tag \in Granting => Known(Other(p)) /\ Counts(Other(p))
                         /\ f.tag = "RETRY_SESSION" => Known(Other(p))
  /\ f.kind = "connect" => /\ f.gseq <= global_seq[Other(p)] /\ Known(Other(p))
                           /\ f.cseq > 0 => Known(p)

FramesOK == \A i \in Pipes : \A f \in Elements(sock[i].in) : FrameOK(Owner(i), f)

(* What the threads of Pipe i are about to say is so as well.              *)
PipeOK(i) ==
  /\ ~pipe[i].lossy
  /\ state[i] # "free" => pipe[i].conn_id \in ConnIds
  /\ rd[i] = "accept" => /\ state[i] = "accepting" /\ Len(sock[i].in) <= 1
                         /\ pipe[i].in_seq = 0
  /\ rd[i] # "accept" => \A f \in Elements(sock[i].in) : f.kind # "connect"
  /\ rd[i] = "reply" => /\ ReplyOK(loc[i].reply, Owner(i))
                        /\ loc[i].reply.tag = "SEQ" => loc[i].replaced
                        /\ ~loc[i].replaced => pipe[i].in_seq = 0
  /\ rd[i] = "seq" => loc[i].replaced
  /\ wr[i] = "ack" => loc[i].seq <= InSeq(Owner(i))
  /\ wr[i] = "msg" => /\ loc[i].msg.id = loc[i].msg.seq
                      /\ 1 <= loc[i].msg.seq /\ loc[i].msg.seq <= Sent(Owner(i))
                      /\ state[i] = "open" => loc[i].msg.seq = outq[i].out_seq
  /\ wr[i] \in {"join", "await"} => Known(Owner(i)) /\ loc[i].gseq <= global_seq[Owner(i)]
  /\ wr[i] = "join" /\ loc[i].cseq > 0 => Known(Other(Owner(i)))

(* Nothing has happened yet on the session of i.                           *)
Fresh(i) == /\ Top(outq[i]) = 0 /\ pipe[i].in_seq = 0
            /\ state[i] \in {"connecting", "standby", "wait"}
            /\ rd[i] = "none" /\ wr[i] \in {"loop", "join", "await"}

Attempting(i) == state[i] = "connecting" /\ wr[i] \in {"join", "await"}

(* The session of a registered Pipe: it holds every message that its peer  *)
(* has not received, and has received none that its peer has not sent.     *)
SessionOK(i) ==
  InUse(i) =>
    /\ Consecutive(outq[i], submitted[Owner(i)])
    /\ pipe[i].connect_seq = 0 => Fresh(i)
    /\ Attempting(i) => loc[i].gseq = global_seq[Owner(i)]
    /\ Base(outq[i]) <= InSeq(Other(Owner(i)))
    /\ pipe[i].in_seq <= Sent(Other(Owner(i)))
    /\ Tentative(i) => Top(outq[i]) = 0
    /\ pipe[i].connect_seq > 0 => Known(Other(Owner(i)))

NoSession == \A p \in Peers : Lookup(p) = None => submitted[p] = 0

(* What p has received: the messages 1, 2, 3, ..., delivered or waiting.   *)
Numbers(s, n) == \A k \in 1..Len(s) : s[k] = n + k
InHand(i) == IF rd[i] = "dispatch" THEN 1 ELSE 0
ReceivedOK(p) ==
  /\ Numbers(delivered[p], 0)
  /\ \A c \in ConnIds : in_q[p][c] # <<>> =>
       Lookup(p) # None /\ c = pipe[Lookup(p)].conn_id /\ ~FastDispatch
  /\ \A j \in Pipes : Owner(j) = p /\ rd[j] = "dispatch" => FastDispatch /\ j = Lookup(p)
  /\ Lookup(p) = None => delivered[p] = <<>>
  /\ Lookup(p) # None =>
       LET e == Lookup(p)
           s == in_q[p][pipe[e].conn_id]
       IN  /\ Numbers(s, Len(delivered[p]))
           /\ Len(delivered[p]) + Len(s) + InHand(e) = pipe[e].in_seq
           /\ rd[e] = "dispatch" => loc[e].id = pipe[e].in_seq
-----------------------------------------------------------------------------
(* The messages in a list of frames carry n+1, n+2, ... in this order.     *)
Climbs(s, n) ==
  \A k \in 1..Len(s) : s[k].kind = "msg" =>
    /\ s[k].msg.seq > n
    /\ \A l \in 1..(k - 1) : s[l].kind = "msg" => s[l].msg.seq < s[k].msg.seq
    /\ s[k].msg.seq > n + 1 =>
         \E l \in 1..(k - 1) : s[l].kind = "msg" /\ s[l].msg.seq = s[k].msg.seq - 1

(* The last of them is m, or there is none and n is m.                     *)
Ends(s, n, m) ==
  /\ n <= m
  /\ \A k \in 1..Len(s) : s[k].kind = "msg" => s[k].msg.seq <= m
  /\ m > n => \E k \in 1..Len(s) : s[k].kind = "msg" /\ s[k].msg.seq = m

Only(s, kind) == \A f \in Elements(s) : f.kind = kind
HasMsg(s) == \E f \in Elements(s) : f.kind = "msg"

(* Pipe i reads messages from its socket, or will do so when it opens.     *)
Listens(i) == InUse(i) /\ rd[i] \in {"reply", "seq", "read", "dispatch"}
Awaits(i)  == state[i] = "connecting" /\ wr[i] = "await"
NextOnes(i) == Listens(i) \/ Awaits(i) => Climbs(sock[i].in, pipe[i].in_seq)

(* The last message a has written.                                         *)
LastWritten(a) == IF wr[a] = "msg" THEN outq[a].out_seq - 1 ELSE outq[a].out_seq

(* The messages on the way from a to x are those from the first that x has *)
(* not received to the last that a has written; and, until both have       *)
(* opened, what one says of its in_seq is what it is.                      *)
Linked(a, x) ==
  /\ state[a] = "open" /\ wr[a] # "none" /\ state[x] # "closed"
       => Ends(sock[x].in, pipe[x].in_seq, LastWritten(a))
  /\ wr[a] = "none" => Only(sock[x].in, "reply")
  /\ wr[a] = "await" => Only(sock[x].in, "connect")
  /\ Awaits(x) /\ state[a] = "open" =>
       /\ pipe[a].peer_global_seq = loc[x].gseq
       /\ rd[a] = "reply" /\ loc[a].reply.tag = "SEQ" => loc[a].reply.acked = pipe[a].in_seq
       /\ sock[x].in # <<>> /\ Answer(x).tag = "SEQ" => Answer(x).acked = pipe[a].in_seq
  /\ rd[a] = "seq" /\ state[x] # "closed" =>
       \A f \in Elements(sock[a].in) : f.kind = "seq" => f.seq = pipe[x].in_seq

PairOK(a) == Live(sock, a) => Linked(a, sock[a].peer)
-----------------------------------------------------------------------------
(* The attempt of a is the newest of its messenger.                        *)
Newest(a) ==
  Attempting(a) =>
    /\ \A i \in Pipes : \A f \in Elements(sock[i].in) :
         Owner(i) = Other(Owner(a)) /\ f.kind = "connect" =>
           /\ f.gseq = loc[a].gseq => wr[a] = "await" /\ (Live(sock, a) => i = sock[a].peer)
           /\ sock[a].peer = i => f.gseq = loc[a].gseq
    /\ \A j \in Pipes \ {a} : Owner(j) = Owner(a) /\ wr[j] = "join" => loc[j].gseq < loc[a].gseq

(* No attempt at a new session with p that is under way is as new as b.    *)
ZerosBelow(p, b) ==
  /\ \A i \in Pipes : \A f \in Elements(sock[i].in) :
       Owner(i) = p /\ f.kind = "connect" /\ f.cseq = 0 => f.gseq < b
  /\ \A j \in Pipes :
       Owner(j) = Other(p) /\ wr[j] = "join" /\ loc[j].cseq = 0 => loc[j].gseq < b

(* Pipe x has received something, or will, on a session that the peer has  *)
(* opened with b.                                                          *)
TrustsOpen(x) ==
  \/ InUse(x) /\ pipe[x].in_seq > 0
  \/ Listens(x) /\ HasMsg(sock[x].in)
  \/ Live(sock, x) /\ state[x] = "open" /\ state[sock[x].peer] = "open"
TrustsReply(x, b) ==
  /\ Awaits(x)
  /\ \/ sock[x].in # <<>> /\ Answer(x).tag \in Granting /\ b = Answer(x).gseq
     \/ Live(sock, x) /\ rd[sock[x].peer] = "reply" /\ b = loc[sock[x].peer].reply.gseq

(* So an old attempt cannot reset it.                                      *)
Guarded(x) ==
  /\ TrustsOpen(x) => ZerosBelow(Owner(x), pipe[x].peer_global_seq)
  /\ \A b \in Nat : TrustsReply(x, b) => ZerosBelow(Owner(x), b)
-----------------------------------------------------------------------------
(* Lists of frames.                                                        *)

(* Taking the first element of a list.                                     *)
LEMMA TailOf ==
  ASSUME NEW S, NEW s \in Seq(S), s # <<>>
  PROVE  /\ Tail(s) \in Seq(S) /\ Len(s) \in Nat /\ 1 <= Len(s) /\ Len(Tail(s)) = Len(s) - 1
         /\ Head(s) = s[1] /\ Head(s) \in S
         /\ \A k \in 1..(Len(s) - 1) : Tail(s)[k] = s[k + 1]
<1>1. Tail(s) \in Seq(S) /\ Head(s) \in S /\ Len(Tail(s)) = Len(s) - 1 /\ Len(s) \in Nat
  BY HeadTailProperties, LenProperties
<1>2. 1 <= Len(s)
  BY <1>1, EmptySeq
<1>3. \A k \in 1..(Len(s) - 1) : Tail(s)[k] = s[k + 1]
  BY <1>1, <1>2
<1> QED BY <1>1, <1>2, <1>3

(* Adding an element to a list.                                            *)
LEMMA AppendOf ==
  ASSUME NEW S, NEW s \in Seq(S), NEW f \in S
  PROVE  /\ Append(s, f) \in Seq(S) /\ Len(s) \in Nat /\ Len(Append(s, f)) = Len(s) + 1
         /\ \A k \in 1..Len(s) : Append(s, f)[k] = s[k]
         /\ Append(s, f)[Len(s) + 1] = f
BY AppendProperties, LenProperties

(* The set of the elements of a list, when it is empty, ...                *)
LEMMA ElementsEmpty == Elements(<<>>) = {}
BY EmptySeq DEF Elements

(* ... when its first element is taken ...                                 *)
LEMMA ElementsTail ==
  ASSUME NEW S, NEW s \in Seq(S), s # <<>>
  PROVE  /\ Head(s) \in Elements(s)
         /\ Elements(Tail(s)) \subseteq Elements(s)
         /\ Elements(s) = Elements(Tail(s)) \cup {Head(s)}
<1>1. /\ Tail(s) \in Seq(S) /\ Len(s) \in Nat /\ 1 <= Len(s) /\ Len(Tail(s)) = Len(s) - 1
      /\ Head(s) = s[1] /\ \A k \in 1..(Len(s) - 1) : Tail(s)[k] = s[k + 1]
  BY TailOf
<1>2. 1 \in 1..Len(s)
  BY <1>1
<1>3. Head(s) \in Elements(s)
  BY <1>1, <1>2 DEF Elements
<1>4. ASSUME NEW f \in Elements(Tail(s)) PROVE f \in Elements(s)
  <2>1. PICK k \in 1..(Len(s) - 1) : f = Tail(s)[k]
    BY <1>1, <1>4 DEF Elements
  <2>2. k + 1 \in 1..Len(s) /\ f = s[k + 1]
    BY <1>1, <2>1
  <2> QED BY <2>2 DEF Elements
<1>5. ASSUME NEW f \in Elements(s) PROVE f \in Elements(Tail(s)) \cup {Head(s)}
  <2>1. PICK k \in 1..Len(s) : f = s[k]
    BY <1>5 DEF Elements
  <2>2. CASE k = 1
    BY <1>1, <2>1, <2>2
  <2>3. CASE k # 1
    <3>1. k - 1 \in 1..(Len(s) - 1) /\ (k - 1) + 1 = k
      BY <1>1, <2>1, <2>3
    <3>2. f = Tail(s)[k - 1] /\ k - 1 \in 1..Len(Tail(s))
      BY <1>1, <2>1, <3>1
    <3> QED BY <3>2 DEF Elements
  <2> QED BY <2>2, <2>3
<1> QED BY <1>3, <1>4, <1>5

(* ... and when one is added.                                              *)
LEMMA ElementsAppend ==
  ASSUME NEW S, NEW s \in Seq(S), NEW f \in S
  PROVE  Elements(Append(s, f)) = Elements(s) \cup {f}
<1> DEFINE t == Append(s, f)
<1>1. /\ Len(s) \in Nat /\ Len(t) = Len(s) + 1
      /\ \A k \in 1..Len(s) : t[k] = s[k]
      /\ t[Len(s) + 1] = f
  BY AppendOf
<1> HIDE DEF t
<1>2. ASSUME NEW g \in Elements(t) PROVE g \in Elements(s) \cup {f}
  <2>1. PICK k \in 1..(Len(s) + 1) : g = t[k]
    BY <1>1, <1>2 DEF Elements
  <2>2. k \in 1..Len(s) \/ k = Len(s) + 1
    BY <1>1, <2>1
  <2> QED BY <1>1, <2>1, <2>2 DEF Elements
<1>3. ASSUME NEW g \in Elements(s) \cup {f} PROVE g \in Elements(t)
  <2>1. CASE g = f
    <3>1. Len(s) + 1 \in 1..Len(t)
      BY <1>1
    <3> QED BY <1>1, <2>1, <3>1 DEF Elements
  <2>2. CASE g \in Elements(s)
    <3>1. PICK k \in 1..Len(s) : g = s[k]
      BY <2>2 DEF Elements
    <3>2. k \in 1..Len(t) /\ t[k] = g
      BY <1>1, <3>1
    <3> QED BY <3>2 DEF Elements
  <2> QED BY <1>3, <2>1, <2>2
<1> QED BY <1>2, <1>3 DEF t

(* The first frame written to an empty socket is all there is.             *)
LEMMA OneElement ==
  ASSUME NEW S, NEW f \in S
  PROVE  Elements(Append(<<>>, f)) = {f}
<1>1. <<>> \in Seq(S)
  BY EmptySeq
<1>2. PICK s \in Seq(S) : s = <<>>
  BY <1>1
<1>3. Elements(Append(s, f)) = Elements(s) \cup {f}
  BY ElementsAppend
<1> QED BY <1>2, <1>3, ElementsEmpty

(* The number in a message.                                                *)
LEMMA MsgNumber ==
  ASSUME NEW s \in Seq(Frames), NEW k \in 1..Len(s), s[k].kind = "msg"
  PROVE  s[k].msg.seq \in Nat
<1>1. s[k] \in Frames
  BY ElementOfSeq, LenProperties
<1> QED BY <1>1, FrameFields DEF Message

(* Taking the first frame: it is the next message or none.                 *)
LEMMA ClimbsTail ==
  ASSUME NEW s \in Seq(Frames), s # <<>>, NEW n \in Nat, Climbs(s, n)
  PROVE  /\ Head(s).kind # "msg" => Climbs(Tail(s), n)
         /\ Head(s).kind = "msg" => Head(s).msg.seq = n + 1 /\ Climbs(Tail(s), n + 1)
<1> DEFINE t == Tail(s)
<1>1. /\ Len(s) \in Nat /\ 1 <= Len(s) /\ Len(t) = Len(s) - 1
      /\ Head(s) = s[1] /\ \A k \in 1..(Len(s) - 1) : t[k] = s[k + 1]
  BY TailOf
<1>2. \A k \in 1..Len(s) : s[k].kind = "msg" => s[k].msg.seq \in Nat
  BY MsgNumber
<1> HIDE DEF t
<1>3. Head(s).kind = "msg" => Head(s).msg.seq = n + 1
  <2>1. 1 \in 1..Len(s) /\ 1..(1 - 1) = {}
    BY <1>1
  <2> QED BY <1>1, <1>2, <2>1 DEF Climbs
<1>4. ASSUME NEW m \in {n, n + 1}, (m = n + 1) <=> Head(s).kind = "msg"
      PROVE  Climbs(t, m)
  <2> SUFFICES ASSUME NEW k \in 1..Len(t), t[k].kind = "msg"
               PROVE  /\ t[k].msg.seq > m
                      /\ \A l \in 1..(k - 1) : t[l].kind = "msg" => t[l].msg.seq < t[k].msg.seq
                      /\ t[k].msg.seq > m + 1 =>
                           \E l \in 1..(k - 1) : t[l].kind = "msg" /\ t[l].msg.seq = t[k].msg.seq - 1
    BY DEF Climbs
  <2>1. k + 1 \in 1..Len(s) /\ t[k] = s[k + 1] /\ t[k].msg.seq \in Nat /\ k \in Nat /\ 1 <= k
    BY <1>1, <1>2
  <2>2. /\ t[k].msg.seq > n
        /\ \A l \in 1..k : s[l].kind = "msg" => s[l].msg.seq < t[k].msg.seq
        /\ t[k].msg.seq > n + 1 =>
             \E l \in 1..k : s[l].kind = "msg" /\ s[l].msg.seq = t[k].msg.seq - 1
    <3>1. (k + 1) - 1 = k
      BY <2>1
    <3>2. /\ s[k + 1].msg.seq > n
          /\ \A l \in 1..((k + 1) - 1) : s[l].kind = "msg" => s[l].msg.seq < s[k + 1].msg.seq
          /\ s[k + 1].msg.seq > n + 1 =>
               \E l \in 1..((k + 1) - 1) : s[l].kind = "msg" /\ s[l].msg.seq = s[k + 1].msg.seq - 1
      BY <2>1 DEF Climbs
    <3> QED BY <2>1, <3>1, <3>2
  <2>3. t[k].msg.seq > m
    <3>1. 1 \in 1..k
      BY <2>1
    <3>2. Head(s).kind = "msg" => t[k].msg.seq > n + 1
      BY <1>1, <1>3, <2>1, <2>2, <3>1
    <3> QED BY <1>4, <2>2, <3>2
  <2>4. ASSUME NEW l \in 1..(k - 1), t[l].kind = "msg"
        PROVE  t[l].msg.seq < t[k].msg.seq
    <3>0. l + 1 \in 1..k /\ l \in 1..(Len(s) - 1)
      <4>1. PICK n0 \in Nat : n0 = Len(s)
        BY <1>1
      <4>2. k + 1 <= n0
        BY <2>1, <4>1
      <4>3. l + 1 \in 1..k /\ l \in 1..(n0 - 1)
        BY <2>1, <4>1, <4>2
      <4> QED BY <4>1, <4>3
    <3>1. l + 1 \in 1..k /\ t[l] = s[l + 1]
      BY <1>1, <3>0
    <3> QED BY <2>2, <2>4, <3>1
  <2>5. ASSUME t[k].msg.seq > m + 1
        PROVE  \E l \in 1..(k - 1) : t[l].kind = "msg" /\ t[l].msg.seq = t[k].msg.seq - 1
    <3>1. PICK l \in 1..k : s[l].kind = "msg" /\ s[l].msg.seq = t[k].msg.seq - 1
      BY <1>4, <2>1, <2>2, <2>5
    <3>2. l # 1
      <4> SUFFICES ASSUME l = 1 PROVE FALSE
        OBVIOUS
      <4>1. m = n + 1 /\ s[l].msg.seq = n + 1
        BY <1>1, <1>3, <1>4, <3>1
      <4> QED BY <2>1, <2>5, <3>1, <4>1
    <3>3. l - 1 \in 1..(k - 1) /\ t[l - 1] = s[l]
      <4>1. l - 1 \in 1..(Len(s) - 1) /\ (l - 1) + 1 = l /\ l - 1 \in 1..(k - 1)
        BY <1>1, <2>1, <3>2
      <4> QED BY <1>1, <4>1
    <3> QED BY <3>1, <3>3
  <2> QED BY <2>3, <2>4, <2>5
<1>5. (Head(s).kind = "msg" => Climbs(t, n + 1)) /\ (Head(s).kind # "msg" => Climbs(t, n))
  BY <1>4
<1> QED BY <1>3, <1>5 DEF t

(* Reading a message of a list that ends with m leaves one that does.      *)
LEMMA EndsTail ==
  ASSUME NEW s \in Seq(Frames), s # <<>>, NEW n \in Nat, NEW m \in Nat, Climbs(s, n), Ends(s, n, m)
  PROVE  /\ Head(s).kind # "msg" => Ends(Tail(s), n, m)
         /\ Head(s).kind = "msg" => Ends(Tail(s), n + 1, m)
<1> DEFINE t == Tail(s)
<1>1. /\ Len(s) \in Nat /\ 1 <= Len(s) /\ Len(t) = Len(s) - 1
      /\ Head(s) = s[1] /\ \A k \in 1..(Len(s) - 1) : t[k] = s[k + 1]
  BY TailOf
<1> HIDE DEF t
<1>2. Head(s).kind = "msg" => Head(s).msg.seq = n + 1
  BY ClimbsTail
<1>3. ASSUME NEW r \in {n, n + 1}, (r = n + 1) <=> Head(s).kind = "msg"
      PROVE  Ends(t, r, m)
  <2>1. \A k \in 1..Len(t) : t[k].kind = "msg" => t[k].msg.seq <= m
    <3> SUFFICES ASSUME NEW k \in 1..Len(t), t[k].kind = "msg" PROVE t[k].msg.seq <= m
      OBVIOUS
    <3>1. k + 1 \in 1..Len(s) /\ t[k] = s[k + 1]
      BY <1>1
    <3> QED BY <3>1 DEF Ends
  <2>2. r <= m
    <3>1. Head(s).kind = "msg" => n + 1 <= m
      <4>1. 1 \in 1..Len(s)
        BY <1>1
      <4> QED BY <1>1, <1>2, <4>1 DEF Ends
    <3> QED BY <1>3, <3>1 DEF Ends
  <2>3. ASSUME m > r
        PROVE  \E k \in 1..Len(t) : t[k].kind = "msg" /\ t[k].msg.seq = m
    <3>1. PICK k \in 1..Len(s) : s[k].kind = "msg" /\ s[k].msg.seq = m
      BY <1>3, <2>3 DEF Ends
    <3>2. k # 1
      BY <1>1, <1>2, <1>3, <2>3, <3>1
    <3>3. k - 1 \in 1..Len(t) /\ t[k - 1] = s[k]
      <4>1. k - 1 \in 1..(Len(s) - 1) /\ (k - 1) + 1 = k
        BY <1>1, <3>1, <3>2
      <4> QED BY <1>1, <4>1
    <3> QED BY <3>1, <3>3
  <2> QED BY <2>1, <2>2, <2>3 DEF Ends
<1>4. (Head(s).kind = "msg" => Ends(t, n + 1, m)) /\ (Head(s).kind # "msg" => Ends(t, n, m))
  BY <1>3
<1> QED BY <1>4 DEF t

(* Writing the next message or something else.                             *)
LEMMA ClimbsAppend ==
  ASSUME NEW s \in Seq(Frames), NEW f \in Frames, NEW n \in Nat, Climbs(s, n)
  PROVE  /\ f.kind # "msg" => Climbs(Append(s, f), n)
         /\ \A m \in Nat : Ends(s, n, m) /\ f.kind = "msg" /\ f.msg.seq = m + 1
              => Climbs(Append(s, f), n)
<1> DEFINE t == Append(s, f)
<1>1. /\ Len(s) \in Nat /\ Len(t) = Len(s) + 1
      /\ \A k \in 1..Len(s) : t[k] = s[k]
      /\ t[Len(s) + 1] = f
  BY AppendOf
<1> HIDE DEF t
<1>2. ASSUME f.kind # "msg" \/ \E m \in Nat : Ends(s, n, m) /\ f.kind = "msg" /\ f.msg.seq = m + 1
      PROVE  Climbs(t, n)
  <2> SUFFICES ASSUME NEW k \in 1..Len(t), t[k].kind = "msg"
               PROVE  /\ t[k].msg.seq > n
                      /\ \A l \in 1..(k - 1) : t[l].kind = "msg" => t[l].msg.seq < t[k].msg.seq
                      /\ t[k].msg.seq > n + 1 =>
                           \E l \in 1..(k - 1) : t[l].kind = "msg" /\ t[l].msg.seq = t[k].msg.seq - 1
    BY DEF Climbs
  <2>1. CASE k \in 1..Len(s)
    <3>1. t[k] = s[k] /\ \A l \in 1..(k - 1) : t[l] = s[l]
      BY <1>1, <2>1
    <3> QED BY <2>1, <3>1 DEF Climbs
  <2>2. CASE k = Len(s) + 1
    <3>1. t[k] = f /\ 1..(k - 1) = 1..Len(s)
      BY <1>1, <2>2
    <3>2. PICK m \in Nat : Ends(s, n, m) /\ f.msg.seq = m + 1
      BY <1>2, <3>1
    <3>3. n <= m
      BY <3>2 DEF Ends
    <3>4. \A l \in 1..Len(s) : t[l].kind = "msg" => t[l].msg.seq < m + 1
      <4> SUFFICES ASSUME NEW l \in 1..Len(s), t[l].kind = "msg" PROVE t[l].msg.seq < m + 1
        OBVIOUS
      <4>1. t[l] = s[l] /\ s[l].msg.seq <= m /\ s[l].msg.seq \in Nat
        BY <1>1, <3>2, MsgNumber DEF Ends
      <4> QED BY <4>1
    <3>5. m + 1 > n + 1 => \E l \in 1..Len(s) : t[l].kind = "msg" /\ t[l].msg.seq = m
      BY <1>1, <3>2 DEF Ends
    <3>6. m + 1 > n /\ (m + 1) - 1 = m
      BY <3>3
    <3> QED BY <3>1, <3>2, <3>4, <3>5, <3>6
  <2> QED BY <1>1, <2>1, <2>2
<1> QED BY <1>2 DEF t

(* Writing the next message adds one to where the list ends.               *)
LEMMA EndsAppend ==
  ASSUME NEW s \in Seq(Frames), NEW f \in Frames, NEW n \in Nat, NEW m \in Nat, Ends(s, n, m)
  PROVE  /\ f.kind # "msg" => Ends(Append(s, f), n, m)
         /\ f.kind = "msg" /\ f.msg.seq = m + 1 => Ends(Append(s, f), n, m + 1)
<1> DEFINE t == Append(s, f)
<1>1. /\ Len(s) \in Nat /\ Len(t) = Len(s) + 1
      /\ \A k \in 1..Len(s) : t[k] = s[k]
      /\ t[Len(s) + 1] = f
  BY AppendOf
<1> HIDE DEF t
<1>2. ASSUME NEW k \in 1..Len(t) PROVE k \in 1..Len(s) \/ k = Len(s) + 1
  BY <1>1
<1>3. ASSUME f.kind # "msg" PROVE Ends(t, n, m)
  <2>1. \A k \in 1..Len(t) : t[k].kind = "msg" => t[k].msg.seq <= m
    BY <1>1, <1>2, <1>3 DEF Ends
  <2>2. m > n => \E k \in 1..Len(t) : t[k].kind = "msg" /\ t[k].msg.seq = m
    <3> SUFFICES ASSUME m > n PROVE \E k \in 1..Len(t) : t[k].kind = "msg" /\ t[k].msg.seq = m
      OBVIOUS
    <3>1. PICK k \in 1..Len(s) : s[k].kind = "msg" /\ s[k].msg.seq = m
      BY DEF Ends
    <3>2. k \in 1..Len(t)
      BY <1>1
    <3> QED BY <1>1, <3>1, <3>2
  <2> QED BY <2>1, <2>2 DEF Ends
<1>4. ASSUME f.kind = "msg", f.msg.seq = m + 1 PROVE Ends(t, n, m + 1)
  <2>1. \A k \in 1..Len(t) : t[k].kind = "msg" => t[k].msg.seq <= m + 1
    <3> SUFFICES ASSUME NEW k \in 1..Len(t), t[k].kind = "msg" PROVE t[k].msg.seq <= m + 1
      OBVIOUS
    <3>1. CASE k = Len(s) + 1
      BY <1>1, <1>4, <3>1
    <3>2. CASE k \in 1..Len(s)
      <4>1. t[k] = s[k] /\ s[k].msg.seq <= m /\ s[k].msg.seq \in Nat
        BY <1>1, <3>2, MsgNumber DEF Ends
      <4> QED BY <4>1
    <3> QED BY <1>2, <3>1, <3>2
  <2>2. Len(s) + 1 \in 1..Len(t) /\ t[Len(s) + 1] = f
    BY <1>1
  <2>3. n <= m + 1
    BY DEF Ends
  <2> QED BY <1>4, <2>1, <2>2, <2>3 DEF Ends
<1> QED BY <1>3, <1>4 DEF t

(* A list without messages.                                                *)
LEMMA NoMsgs ==
  ASSUME NEW s, ~HasMsg(s), NEW n \in Nat
  PROVE  Climbs(s, n) /\ Ends(s, n, n)
<1>1. \A k \in 1..Len(s) : s[k].kind # "msg"
  BY DEF HasMsg, Elements
<1> QED BY <1>1 DEF Climbs, Ends
-----------------------------------------------------------------------------
(* Out queues.                                                             *)

(* The numbers of a queue are natural, and in this order.                  *)
LEMMA QueueNumbers ==
  ASSUME NEW q, Good(q, Ids)
  PROVE  /\ q.out_seq \in Nat /\ Base(q) \in Nat /\ Top(q) \in Nat
         /\ Base(q) <= q.out_seq /\ q.out_seq <= Top(q)
         /\ q.sent = <<>> => Base(q) = q.out_seq
<1>1. Fields(q, Ids)
  BY GoodFields
<1>2. /\ q.out_seq \in Nat /\ Len(q.sent) \in Nat /\ Len(q.high) \in Nat /\ Len(q.sent) <= q.out_seq
      /\ q.sent = <<>> => Len(q.sent) = 0
  BY <1>1, EmptySeq DEF Fields
<1> QED BY <1>2 DEF Base, Top

(* The queue of a new Pipe.                                                *)
LEMMA EmptyConsecutive ==
  /\ Consecutive(EmptyOutQ(0), 0) /\ Base(EmptyOutQ(0)) = 0 /\ Top(EmptyOutQ(0)) = 0
  /\ EmptyOutQ(0).out_seq = 0
BY EmptySeq DEF EmptyOutQ, Consecutive, Base, Top

(* How many messages a number covers when the list is numbered b+1, b+2... *)
LEMMA LeadingCount ==
  ASSUME NEW s \in Seq(Message(Ids)), NEW b \in Nat, NEW n \in Nat,
         \A k \in 1..Len(s) : s[k].seq = b + k
  PROVE  /\ LeadingUpTo(s, n) \in 0..Len(s)
         /\ n <= b => LeadingUpTo(s, n) = 0
         /\ n > b /\ n <= b + Len(s) => LeadingUpTo(s, n) = n - b
         /\ b + LeadingUpTo(s, n) <= n \/ LeadingUpTo(s, n) = 0
<1> DEFINE T == {k \in 1..Len(s) : \A i \in 1..k : s[i].seq # 0 /\ s[i].seq <= n}
<1>1. Len(s) \in Nat
  BY LenProperties
<1>2. LeadingUpTo(s, n) = Cardinality(T)
  BY DEF LeadingUpTo
<1>3. \A k \in 1..Len(s) : k \in T <=> b + k <= n
  <2> SUFFICES ASSUME NEW k \in 1..Len(s) PROVE k \in T <=> b + k <= n
    OBVIOUS
  <2>1. \A i \in 1..k : s[i].seq = b + i /\ s[i].seq # 0
    <3> SUFFICES ASSUME NEW i \in 1..k PROVE s[i].seq = b + i /\ s[i].seq # 0
      OBVIOUS
    <3>1. i \in 1..Len(s)
      BY <1>1
    <3> QED BY <3>1
  <2>2. k \in 1..k
    OBVIOUS
  <2>3. k \in T => b + k <= n
    BY <2>1, <2>2
  <2>4. b + k <= n => k \in T
    <3> SUFFICES ASSUME b + k <= n PROVE \A i \in 1..k : s[i].seq # 0 /\ s[i].seq <= n
      OBVIOUS
    <3>1. \A i \in 1..k : b + i <= n
      OBVIOUS
    <3> QED BY <2>1, <3>1
  <2> QED BY <2>3, <2>4
<1> HIDE DEF T
<1>4. T \subseteq 1..Len(s)
  BY DEF T
<1>5. ASSUME NEW m \in 0..Len(s), \A k \in 1..Len(s) : b + k <= n <=> k <= m
      PROVE  LeadingUpTo(s, n) = m
  <2>1. T = 1..m
    <3>1. ASSUME NEW k \in T PROVE k \in 1..m
      BY <1>1, <1>3, <1>4, <1>5, <3>1
    <3>2. ASSUME NEW k \in 1..m PROVE k \in T
      <4>1. k \in 1..Len(s) /\ k <= m
        BY <1>1
      <4> QED BY <1>3, <1>5, <4>1
    <3> QED BY <3>1, <3>2
  <2>2. 1 \in Int /\ m \in Int /\ (1 > m => m = 0)
    BY <1>1
  <2>3. Cardinality(1..m) = IF 1 > m THEN 0 ELSE m - 1 + 1
    BY <2>2, FS_Interval
  <2>4. Cardinality(1..m) = m
    BY <2>2, <2>3
  <2> QED BY <1>2, <2>1, <2>4
<1>6. n <= b => LeadingUpTo(s, n) = 0
  <2> SUFFICES ASSUME n <= b PROVE LeadingUpTo(s, n) = 0
    OBVIOUS
  <2>1. 0 \in 0..Len(s) /\ \A k \in 1..Len(s) : b + k <= n <=> k <= 0
    BY <1>1
  <2> QED BY <1>5, <2>1
<1>7. n > b /\ n <= b + Len(s) => LeadingUpTo(s, n) = n - b
  <2> SUFFICES ASSUME n > b, n <= b + Len(s) PROVE LeadingUpTo(s, n) = n - b
    OBVIOUS
  <2>1. n - b \in 0..Len(s) /\ \A k \in 1..Len(s) : b + k <= n <=> k <= n - b
    BY <1>1
  <2> QED BY <1>5, <2>1
<1>8. n > b + Len(s) => LeadingUpTo(s, n) = Len(s)
  <2> SUFFICES ASSUME n > b + Len(s) PROVE LeadingUpTo(s, n) = Len(s)
    OBVIOUS
  <2>1. Len(s) \in 0..Len(s) /\ \A k \in 1..Len(s) : b + k <= n <=> k <= Len(s)
    BY <1>1
  <2> QED BY <1>5, <2>1
<1>9. \/ n <= b /\ LeadingUpTo(s, n) = 0
      \/ n > b /\ n <= b + Len(s) /\ LeadingUpTo(s, n) = n - b
      \/ n > b + Len(s) /\ LeadingUpTo(s, n) = Len(s)
  BY <1>1, <1>6, <1>7, <1>8
<1> QED BY <1>1, <1>9

(* _send.                                                                  *)
LEMMA SendConsecutive ==
  ASSUME NEW q, Good(q, Ids), NEW n \in Nat, Consecutive(q, n), NEW m \in Message(Ids), m.id = n + 1
  PROVE  /\ Consecutive(Send(q, m, FALSE), n + 1)
         /\ Base(Send(q, m, FALSE)) = Base(q) /\ Top(Send(q, m, FALSE)) = Top(q)
         /\ Send(q, m, FALSE).out_seq = q.out_seq
<1>0. Fields(q, Ids)
  BY GoodFields
<1> DEFINE d == Append(q.dflt, m)
<1>1. /\ d \in Seq(Message(Ids)) /\ Len(d) = Len(q.dflt) + 1 /\ d[Len(q.dflt) + 1] = m
      /\ \A k \in 1..Len(q.dflt) : d[k] = q.dflt[k]
  BY <1>0, AppendOf DEF Fields
<1> DEFINE r == Send(q, m, FALSE)
<1>2. r.out_seq = q.out_seq /\ r.high = q.high /\ r.dflt = d /\ r.sent = q.sent
  <2>1. r = [q EXCEPT !.dflt = d]
    BY DEF Send
  <2> QED BY <1>0, <2>1 DEF Fields, OutQ
<1> HIDE DEF r, d
<1>3. Top(r) = Top(q) /\ Base(r) = Base(q)
  BY <1>2 DEF Top, Base
<1>4. Top(q) \in Nat /\ Len(q.dflt) \in Nat
  BY <1>0 DEF Fields, Top
<1>5. Top(r) + Len(r.dflt) = n + 1
  BY <1>1, <1>2, <1>3, <1>4 DEF Consecutive
<1>6. \A k \in 1..Len(r.dflt) : r.dflt[k].id = Top(r) + k
  <2> SUFFICES ASSUME NEW k \in 1..Len(d) PROVE d[k].id = Top(q) + k
    BY <1>2, <1>3
  <2>1. CASE k = Len(q.dflt) + 1
    BY <1>1, <1>4, <2>1 DEF Consecutive
  <2>2. CASE k \in 1..Len(q.dflt)
    BY <1>1, <2>2 DEF Consecutive
  <2> QED BY <1>1, <1>4, <2>1, <2>2
<1> QED BY <1>2, <1>3, <1>5, <1>6 DEF Consecutive, r

(* requeue_sent.                                                           *)
LEMMA RequeueConsecutive ==
  ASSUME NEW q, Good(q, Ids), NEW n, Consecutive(q, n)
  PROVE  /\ Consecutive(requeue_sent(q), n)
         /\ Base(requeue_sent(q)) = Base(q) /\ Top(requeue_sent(q)) = Top(q)
         /\ requeue_sent(q).out_seq = Base(q)
<1>0. Fields(q, Ids)
  BY GoodFields
<1> DEFINE h == q.sent \o q.high
           r == requeue_sent(q)
<1>1. /\ h \in Seq(Message(Ids)) /\ Len(h) = Len(q.sent) + Len(q.high)
      /\ \A i \in 1..(Len(q.sent) + Len(q.high)) :
            h[i] = IF i <= Len(q.sent) THEN q.sent[i] ELSE q.high[i - Len(q.sent)]
  <2>1. q.sent \in Seq(Message(Ids)) /\ q.high \in Seq(Message(Ids))
    BY <1>0 DEF Fields
  <2> QED BY <2>1, ConcatProperties
<1>2. r.out_seq = Base(q) /\ r.high = h /\ r.dflt = q.dflt /\ r.sent = <<>>
  <2>1. r = [q EXCEPT !.high = h, !.sent = <<>>, !.out_seq = Base(q)]
    BY DEF requeue_sent, Base
  <2> QED BY <1>0, <2>1 DEF Fields, OutQ
<1> HIDE DEF h, r
<1>3. /\ Len(q.sent) \in Nat /\ Len(q.high) \in Nat /\ q.out_seq \in Nat /\ Base(q) \in Nat
      /\ q.out_seq = Base(q) + Len(q.sent) /\ Len(<<>>) = 0
  BY <1>0, EmptySeq DEF Fields, Base
<1>4. Base(r) = Base(q) /\ Top(r) = Top(q)
  <2>1. Base(r) = Base(q) - Len(<<>>) /\ Top(r) = Base(q) + Len(h)
    BY <1>2 DEF Base, Top
  <2>2. Top(q) = q.out_seq + Len(q.high)
    BY DEF Top
  <2>3. Len(h) = Len(q.sent) + Len(q.high)
    BY <1>1
  <2>4. Base(r) = Base(q) - 0
    BY <1>3, <2>1
  <2>5. Top(r) = Base(q) + (Len(q.sent) + Len(q.high))
    BY <2>1, <2>3
  <2>6. Top(q) = (Base(q) + Len(q.sent)) + Len(q.high)
    BY <1>3, <2>2
  <2>7. Top(r) = Top(q)
    <3>1. \A b, c, d \in Nat : b + (c + d) = (b + c) + d
      OBVIOUS
    <3>2. Base(q) + (Len(q.sent) + Len(q.high)) = (Base(q) + Len(q.sent)) + Len(q.high)
      BY <1>3, <3>1, Zenon
    <3> QED BY <2>5, <2>6, <3>2, Zenon
  <2>8. Base(r) = Base(q)
    BY <1>3, <2>4
  <2> QED BY <2>7, <2>8
<1>5. ASSUME NEW k \in 1..Len(h)
      PROVE  h[k].id = Base(q) + k /\ h[k].seq = Base(q) + k
  <2>0. k \in 1..(Len(q.sent) + Len(q.high))
    BY <1>1
  <2>1. CASE k \in 1..Len(q.sent)
    <3>1. h[k] = q.sent[k]
      <4>1. k <= Len(q.sent)
        BY <2>1
      <4> QED BY <1>1, <2>0, <4>1
    <3>2. q.sent[k].id = Base(q) + k
      BY <2>1 DEF Consecutive
    <3>3. q.sent[k].seq = Base(q) + k
      BY <1>0, <2>1 DEF Fields, Base
    <3> QED BY <3>1, <3>2, <3>3
  <2>2. CASE ~(k <= Len(q.sent)) /\ k - Len(q.sent) \in 1..Len(q.high)
    <3> DEFINE j == k - Len(q.sent)
    <3>1. h[k] = q.high[j] /\ j \in 1..Len(q.high)
      BY <1>1, <2>0, <2>2
    <3>2. q.high[j].id = q.out_seq + j /\ q.high[j].seq = q.out_seq + j
      BY <3>1 DEF Consecutive
    <3>3. q.out_seq + j = Base(q) + k
      BY <1>3, <2>0
    <3> QED BY <3>1, <3>2, <3>3
  <2> QED BY <1>3, <2>0, <2>1, <2>2, SplitIndex
<1>6. \A k \in 1..Len(r.sent) : r.sent[k].id = Base(r) + k
  BY <1>2, <1>3
<1>7. \A k \in 1..Len(r.high) : r.high[k].id = r.out_seq + k /\ r.high[k].seq = r.out_seq + k
  BY <1>2, <1>5
<1>8. /\ Top(r) + Len(r.dflt) = n
      /\ \A k \in 1..Len(r.dflt) : r.dflt[k].id = Top(r) + k
  BY <1>2, <1>4 DEF Consecutive
<1> QED BY <1>2, <1>4, <1>6, <1>7, <1>8 DEF Consecutive, r

(* handle_ack.                                                             *)
LEMMA AckConsecutive ==
  ASSUME NEW q, Good(q, Ids), NEW n, Consecutive(q, n), NEW a \in Nat
  PROVE  /\ Consecutive(handle_ack(q, a), n)
         /\ Base(handle_ack(q, a)) = Base(q) \/ Base(handle_ack(q, a)) <= a
         /\ Top(handle_ack(q, a)) = Top(q) /\ handle_ack(q, a).out_seq = q.out_seq
<1>0. Fields(q, Ids)
  BY GoodFields
<1>1. Base(q) \in Nat /\ Len(q.sent) \in Nat /\ q.out_seq \in Nat /\ q.out_seq = Base(q) + Len(q.sent)
  BY <1>0 DEF Fields, Base
<1> DEFINE k == LeadingUpTo(q.sent, a)
           t == DropFirst(q.sent, k)
           r == handle_ack(q, a)
<1>2. k \in 0..Len(q.sent) /\ (Base(q) + k <= a \/ k = 0)
  <2>1. \A j \in 1..Len(q.sent) : q.sent[j].seq = Base(q) + j
    BY <1>0 DEF Fields, Base
  <2>2. q.sent \in Seq(Message(Ids))
    BY <1>0 DEF Fields
  <2> HIDE DEF k
  <2> QED BY <1>1, <2>1, <2>2, LeadingCount DEF k
<1>3. r = [q EXCEPT !.sent = t]
  BY DEF handle_ack
<1> HIDE DEF k
<1>4. /\ t \in Seq(Message(Ids)) /\ Len(t) = Len(q.sent) - k
      /\ \A i \in 1..(Len(q.sent) - k) : t[i] = q.sent[k + i]
  <2>1. PICK s \in Seq(Message(Ids)) : s = q.sent
    BY <1>0 DEF Fields
  <2>2. k \in 0..Len(s)
    BY <1>2, <2>1
  <2>3. /\ DropFirst(s, k) \in Seq(Message(Ids)) /\ Len(DropFirst(s, k)) = Len(s) - k
        /\ \A i \in 1..(Len(s) - k) : DropFirst(s, k)[i] = s[k + i]
    BY <2>2, DropFirstProperties
  <2> QED BY <2>1, <2>3
<1> HIDE DEF t, r
<1>5. r.out_seq = q.out_seq /\ r.high = q.high /\ r.dflt = q.dflt /\ r.sent = t
  BY <1>0, <1>3 DEF Fields, OutQ
<1>6. Top(r) = Top(q) /\ Base(r) = Base(q) + k
  <2>1. Top(r) = Top(q) /\ Base(r) = q.out_seq - Len(t)
    BY <1>5 DEF Top, Base
  <2> QED BY <1>1, <1>2, <1>4, <2>1
<1>7. \A i \in 1..Len(t) : t[i].id = Base(r) + i
  <2> SUFFICES ASSUME NEW i \in 1..Len(t) PROVE t[i].id = Base(r) + i
    OBVIOUS
  <2>1. k + i \in 1..Len(q.sent) /\ t[i] = q.sent[k + i]
    BY <1>1, <1>2, <1>4
  <2>2. q.sent[k + i].id = Base(q) + (k + i)
    BY <2>1 DEF Consecutive
  <2>3. Base(q) + (k + i) = Base(r) + i
    BY <1>1, <1>2, <1>6
  <2> QED BY <2>1, <2>2, <2>3
<1>8. Consecutive(r, n)
  BY <1>5, <1>6, <1>7 DEF Consecutive
<1>9. Base(r) = Base(q) \/ Base(r) <= a
  BY <1>1, <1>2, <1>6
<1> QED BY <1>5, <1>6, <1>8, <1>9 DEF r

(* The first k messages that were put back are counted as received.        *)
LEMMA SkipConsecutive ==
  ASSUME NEW q, Good(q, Ids), q.sent = <<>>, NEW n, Consecutive(q, n), NEW k \in 0..Len(q.high),
         NEW r, r.out_seq = q.out_seq + k, r.sent = <<>>, r.dflt = q.dflt,
         r.high = DropFirst(q.high, k)
  PROVE  Consecutive(r, n) /\ Base(r) = q.out_seq + k /\ Top(r) = Top(q)
<1>0. Fields(q, Ids)
  BY GoodFields
<1>1. Len(q.high) \in Nat /\ q.out_seq \in Nat /\ Len(<<>>) = 0
  BY <1>0, EmptySeq DEF Fields
<1>2. /\ Len(r.high) = Len(q.high) - k
      /\ \A i \in 1..(Len(q.high) - k) : r.high[i] = q.high[k + i]
  <2>1. q.high \in Seq(Message(Ids))
    BY <1>0 DEF Fields
  <2>2. /\ Len(DropFirst(q.high, k)) = Len(q.high) - k
        /\ \A i \in 1..(Len(q.high) - k) : DropFirst(q.high, k)[i] = q.high[k + i]
    BY <2>1, DropFirstProperties
  <2> QED BY <2>2
<1>3. Base(r) = q.out_seq + k /\ Top(r) = Top(q)
  <2>1. /\ Base(r) = (q.out_seq + k) - Len(<<>>) /\ Top(r) = (q.out_seq + k) + Len(r.high)
        /\ Top(q) = q.out_seq + Len(q.high)
    BY DEF Top, Base
  <2> QED BY <1>1, <1>2, <2>1
<1>4. \A i \in 1..Len(r.high) : r.high[i].id = r.out_seq + i /\ r.high[i].seq = r.out_seq + i
  <2> SUFFICES ASSUME NEW i \in 1..Len(r.high)
               PROVE  r.high[i].id = r.out_seq + i /\ r.high[i].seq = r.out_seq + i
    OBVIOUS
  <2>1. k + i \in 1..Len(q.high) /\ r.high[i] = q.high[k + i]
    BY <1>1, <1>2
  <2>2. q.high[k + i].id = q.out_seq + (k + i) /\ q.high[k + i].seq = q.out_seq + (k + i)
    BY <2>1 DEF Consecutive
  <2>3. q.out_seq + (k + i) = r.out_seq + i
    BY <1>1
  <2> QED BY <2>1, <2>2, <2>3
<1>5. \A i \in 1..Len(r.sent) : r.sent[i].id = Base(r) + i
  BY <1>1
<1> QED BY <1>3, <1>4, <1>5 DEF Consecutive

(* discard_requeued_up_to: the queue goes on after a.                      *)
LEMMA DiscardRequeuedConsecutive ==
  ASSUME NEW q, Good(q, Ids), q.sent = <<>>, NEW n, Consecutive(q, n), NEW a \in Nat
  PROVE  /\ Consecutive(discard_requeued_up_to(q, a), n)
         /\ Top(discard_requeued_up_to(q, a)) = Top(q)
         /\ Base(discard_requeued_up_to(q, a)) = discard_requeued_up_to(q, a).out_seq
         /\ \/ discard_requeued_up_to(q, a).out_seq = q.out_seq
            \/ discard_requeued_up_to(q, a).out_seq <= a
         /\ q.out_seq <= a /\ a <= Top(q) => discard_requeued_up_to(q, a).out_seq = a
<1>0. Fields(q, Ids)
  BY GoodFields
<1>1. Len(q.high) \in Nat /\ q.out_seq \in Nat /\ Top(q) = q.out_seq + Len(q.high)
  BY <1>0 DEF Fields, Top
<1> DEFINE k == LeadingUpTo(q.high, a)
           t == DropFirst(q.high, k)
           r == discard_requeued_up_to(q, a)
<1>2. /\ k \in 0..Len(q.high)
      /\ q.out_seq + k <= a \/ k = 0
      /\ q.out_seq <= a /\ a <= Top(q) => q.out_seq + k = a
  <2>1. \A j \in 1..Len(q.high) : q.high[j].seq = q.out_seq + j
    BY DEF Consecutive
  <2>2. q.high \in Seq(Message(Ids))
    BY <1>0 DEF Fields
  <2> HIDE DEF k
  <2>3. /\ k \in 0..Len(q.high)
        /\ a <= q.out_seq => k = 0
        /\ a > q.out_seq /\ a <= q.out_seq + Len(q.high) => k = a - q.out_seq
        /\ q.out_seq + k <= a \/ k = 0
    BY <1>1, <2>1, <2>2, LeadingCount DEF k
  <2> QED BY <1>1, <2>3
<1>3. r = [q EXCEPT !.high = t, !.out_seq = @ + k]
  BY DEF discard_requeued_up_to
<1> HIDE DEF k, r
<1>4. r.out_seq = q.out_seq + k /\ r.high = DropFirst(q.high, k) /\ r.dflt = q.dflt /\ r.sent = <<>>
  BY <1>0, <1>3 DEF Fields, OutQ
<1>5. Consecutive(r, n) /\ Base(r) = q.out_seq + k /\ Top(r) = Top(q)
  BY <1>2, <1>4, SkipConsecutive
<1> QED BY <1>1, <1>2, <1>4, <1>5 DEF r

(* discard_acked: the same, for a number the queue has sent.               *)
LEMMA DiscardAckedConsecutive ==
  ASSUME NEW q, Good(q, Ids), q.sent = <<>>, NEW n, Consecutive(q, n), NEW a \in Nat, a <= Top(q)
  PROVE  /\ Consecutive(discard_acked(q, a), n)
         /\ Top(discard_acked(q, a)) = Top(q)
         /\ Base(discard_acked(q, a)) = discard_acked(q, a).out_seq
         /\ discard_acked(q, a).out_seq = q.out_seq \/ discard_acked(q, a).out_seq = a
         /\ q.out_seq <= a => discard_acked(q, a).out_seq = a
         /\ AckedCount(q, a) <= Len(q.high)
         /\ \A k \in 1..AckedCount(q, a) : q.high[k].seq \in 1..a
<1>0. Fields(q, Ids)
  BY GoodFields
<1>1. Len(q.high) \in Nat /\ q.out_seq \in Nat /\ Top(q) = q.out_seq + Len(q.high)
  BY <1>0 DEF Fields, Top
<1> DEFINE k == AckedCount(q, a)
           r == discard_acked(q, a)
<1>2. /\ k \in 0..Len(q.high)
      /\ q.out_seq + k = a \/ k = 0
      /\ q.out_seq <= a => q.out_seq + k = a
  BY <1>1 DEF AckedCount
<1>3. r = [q EXCEPT !.out_seq = @ + k, !.high = DropFirst(@, k)]
  <2>1. k <= Len(q.high)
    BY <1>1, <1>2
  <2>2. q.dflt = [q EXCEPT !.dflt = @].dflt
    OBVIOUS
  <2>3. r = [q EXCEPT !.out_seq = @ + k, !.high = DropFirst(@, k), !.dflt = @]
    BY <2>1 DEF discard_acked
  <2>4. [q EXCEPT !.out_seq = @ + k, !.high = DropFirst(@, k), !.dflt = @]
          = [q EXCEPT !.out_seq = @ + k, !.high = DropFirst(@, k)]
    BY <1>0 DEF Fields, OutQ
  <2> QED BY <2>3, <2>4
<1>4. \A j \in 1..k : q.high[j].seq \in 1..a
  <2> SUFFICES ASSUME NEW j \in 1..k PROVE q.high[j].seq \in 1..a
    OBVIOUS
  <2>1. j \in 1..Len(q.high) /\ q.out_seq + j <= a /\ 1 <= q.out_seq + j
    BY <1>1, <1>2
  <2>2. q.high[j].seq = q.out_seq + j
    BY <2>1 DEF Consecutive
  <2> QED BY <1>1, <2>1, <2>2
<1> HIDE DEF k, r
<1>5. r.out_seq = q.out_seq + k /\ r.high = DropFirst(q.high, k) /\ r.dflt = q.dflt /\ r.sent = <<>>
  BY <1>0, <1>3 DEF Fields, OutQ
<1>6. Consecutive(r, n) /\ Base(r) = q.out_seq + k /\ Top(r) = Top(q)
  BY <1>2, <1>5, SkipConsecutive
<1>7. k <= Len(q.high) /\ (r.out_seq = q.out_seq \/ r.out_seq = a) /\ (q.out_seq <= a => r.out_seq = a)
  BY <1>1, <1>2, <1>5
<1> QED BY <1>4, <1>5, <1>6, <1>7 DEF r, k

(* The invariant: what is on the wire and about to be said is so, every    *)
(* session and every connection is consistent from one end to the other,   *)
(* attempts have an order, and what is received has no gap.                *)
CInv ==
  /\ LosslessPeers /\ FramesOK /\ NoSession
  /\ \A i \in Pipes : PipeOK(i) /\ SessionOK(i) /\ NextOnes(i)
  /\ \A i \in Pipes : PairOK(i) /\ Newest(i) /\ Guarded(i)
  /\ \A p \in Peers : ReceivedOK(p)

(* The types of what a Pipe has.                                           *)
Sane(k) ==
  /\ state[k] \in States /\ rd[k] \in ReaderPC /\ wr[k] \in WriterPC
  /\ pipe[k].connect_seq \in Nat /\ pipe[k].peer_global_seq \in Nat /\ pipe[k].in_seq \in Nat
  /\ loc[k].cseq \in Nat /\ loc[k].gseq \in Nat /\ loc[k].seq \in Nat /\ loc[k].id \in Nat
  /\ loc[k].msg \in Message(Ids) /\ loc[k].reply \in Replies
  /\ Good(outq[k], Ids)
  /\ sock[k].in \in Seq(Frames) /\ sock[k].peer \in Pipes \cup {None}

(* The type invariant, Pipe by Pipe.                                       *)
LEMMA SaneNow ==
  ASSUME TInv, NEW k \in Pipes
  PROVE  Sane(k)
<1>1. state[k] \in States /\ rd[k] \in ReaderPC /\ wr[k] \in WriterPC
  BY DEF TInv, LInv, Control
<1>2. pipe[k] \in PipeType /\ loc[k] \in LocType /\ sock[k] \in SockType
  BY DEF TInv, DataOK
<1>3. Good(outq[k], Ids)
  BY DEF TInv, DataOK, PipeInv, Good
<1> QED BY <1>1, <1>2, <1>3 DEF PipeType, LocType, SockType, Ids, Sane

(* The same after a step that keeps it.                                    *)
LEMMA SaneLater ==
  ASSUME TInv', NEW k \in Pipes
  PROVE  Sane(k)'
<1>1. state'[k] \in States /\ rd'[k] \in ReaderPC /\ wr'[k] \in WriterPC
  BY DEF TInv, LInv, Control
<1>2. pipe'[k] \in PipeType /\ loc'[k] \in LocType /\ sock'[k] \in SockType
  BY DEF TInv, DataOK
<1>3. Good(outq'[k], Ids)
  BY DEF TInv, DataOK, PipeInv, Good
<1> QED BY <1>1, <1>2, <1>3 DEF PipeType, LocType, SockType, Ids, Sane

(* The counters of a messenger.                                            *)
LEMMA SeqTypes == TInv => \A p \in Peers : global_seq[p] \in Nat /\ submitted[p] \in Nat
BY DEF TInv, DataOK

(* The same after a step.                                                  *)
LEMMA SeqTypesLater == TInv' => \A p \in Peers : global_seq'[p] \in Nat /\ submitted'[p] \in Nat
BY DEF TInv, DataOK

(* The registered Pipe is the one in use.                                  *)
LEMMA LookupInUse ==
  ASSUME TInv, NEW p \in Peers, Lookup(p) # None
  PROVE  Lookup(p) \in Pipes /\ Owner(Lookup(p)) = p /\ InUse(Lookup(p))
<1>1. /\ Lookup(p) \in Pipes /\ Owner(Lookup(p)) = p
      /\ state[Lookup(p)] \notin {"free", "accepting", "closed"}
  BY LookupProperties DEF TInv
<1>2. state[Lookup(p)] \in States
  BY <1>1, SaneNow DEF Sane
<1> QED BY <1>1, <1>2 DEF InUse, States

(* A Pipe in use is the one that a lookup finds.                           *)
LEMMA InUseLookup ==
  ASSUME TInv, NEW k \in Pipes, InUse(k)
  PROVE  Lookup(Owner(k)) = k /\ k # None
BY LiveIsLookup, NoneIsNoPipe DEF TInv

(* The Pipe that a lookup finds after a step is in use.                    *)
LEMMA LookupInUseLater ==
  ASSUME TInv', NEW p \in Peers, Lookup(p)' # None
  PROVE  Lookup(p)' \in Pipes /\ Owner(Lookup(p)') = p /\ InUse(Lookup(p))'
<1>1. PICK e : e = Lookup(p)'
  OBVIOUS
<1>2. e # None /\ e = rank_pipe'[p] /\ state'[e] # "closed"
  BY <1>1 DEF Lookup
<1>3. e \in Pipes
  BY <1>2 DEF TInv, LInv, Control
<1>4. Owner(e) = p /\ state'[e] \notin {"free", "accepting"}
  BY <1>2 DEF TInv, LInv, Registered
<1>5. state'[e] \in States
  BY <1>3, SaneLater DEF Sane
<1>6. InUse(e)'
  BY <1>2, <1>4, <1>5 DEF InUse, States
<1> QED BY <1>1, <1>3, <1>4, <1>6 DEF InUse

(* A Pipe in use after a step is the one that a lookup finds.              *)
LEMMA InUseLookupLater ==
  ASSUME TInv', NEW k \in Pipes, InUse(k)'
  PROVE  Lookup(Owner(k))' = k /\ k # None
<1>1. rank_pipe'[Owner(k)] = k /\ k # None
  BY NoneIsNoPipe DEF TInv, LInv, LivePipeRegistered
<1> QED BY <1>1 DEF Lookup, InUse

(* What is said of a messenger is said of its registered Pipe.             *)
LEMMA PeerValues ==
  ASSUME TInv, NEW k \in Pipes, InUse(k), NEW p, p = Owner(k)
  PROVE  /\ InSeq(p) = pipe[k].in_seq /\ Sent(p) = Top(outq[k])
         /\ Known(p) <=> ~Tentative(k)
         /\ Counts(p) <=> pipe[k].connect_seq > 0
BY InUseLookup DEF InSeq, Sent, Known, Counts

(* What a messenger has after a step is what its Pipe in use has.          *)
LEMMA PeerValuesLater ==
  ASSUME TInv', NEW k \in Pipes, InUse(k)', NEW p, p = Owner(k)
  PROVE  /\ InSeq(p)' = pipe'[k].in_seq /\ Sent(p)' = Top(outq'[k])
         /\ Known(p)' <=> ~Tentative(k)'
         /\ Counts(p)' <=> pipe'[k].connect_seq > 0
BY InUseLookupLater DEF InSeq, Sent, Known, Counts, Tentative

(* What a messenger has received and sent are natural numbers.             *)
LEMMA PeerTypes ==
  ASSUME TInv, NEW p \in Peers
  PROVE  InSeq(p) \in Nat /\ Sent(p) \in Nat
<1>1. CASE Lookup(p) = None
  BY <1>1 DEF InSeq, Sent
<1>2. CASE Lookup(p) # None
  <2>1. PICK e \in Pipes : e = Lookup(p)
    BY <1>2, LookupInUse
  <2>2. pipe[e].in_seq \in Nat /\ Top(outq[e]) \in Nat
    BY SaneNow, QueueNumbers DEF Sane
  <2> QED BY <1>2, <2>1, <2>2 DEF InSeq, Sent
<1> QED BY <1>1, <1>2

(* The same after a step.                                                  *)
LEMMA PeerTypesLater ==
  ASSUME TInv', NEW p \in Peers
  PROVE  InSeq(p)' \in Nat /\ Sent(p)' \in Nat
<1>1. CASE Lookup(p)' = None
  BY <1>1 DEF InSeq, Sent
<1>2. CASE Lookup(p)' # None
  <2>1. PICK e \in Pipes : e = Lookup(p)'
    BY <1>2, LookupInUseLater
  <2>2. pipe'[e].in_seq \in Nat /\ Top(outq'[e]) \in Nat
    <3>1. Sane(e)'
      BY SaneLater
    <3>2. PICK q : q = outq'[e]
      OBVIOUS
    <3>3. Good(q, Ids)
      BY <3>1, <3>2 DEF Sane
    <3>4. Top(q) \in Nat
      BY <3>3, QueueNumbers
    <3> QED BY <3>1, <3>2, <3>4 DEF Sane
  <2> QED BY <1>2, <2>1, <2>2 DEF InSeq, Sent
<1> QED BY <1>1, <1>2
-----------------------------------------------------------------------------
(* What only grows.                                                        *)
Grows ==
  \A p \in Peers :
    /\ InSeq(p) <= InSeq(p)' /\ Sent(p) <= Sent(p)' /\ global_seq[p] <= global_seq'[p]
    /\ Known(p) => Known(p)'
    /\ Known(p) /\ Counts(p) => Counts(p)'

(* Pipe j carries on the session of k.                                     *)
CarriesOn(k, j) ==
  /\ Owner(j) = Owner(k) /\ InUse(j)'
  /\ pipe[k].in_seq <= pipe'[j].in_seq /\ Top(outq[k]) <= Top(outq'[j])
  /\ Tentative(j)' => Tentative(k)
  /\ pipe[k].connect_seq > 0 => pipe'[j].connect_seq > 0

(* A step by which every session is carried on lets the numbers grow.      *)
LEMMA GrowsBy ==
  ASSUME TInv, TInv', \A p \in Peers : global_seq[p] <= global_seq'[p],
         \A k \in Pipes : InUse(k) =>
            \/ \E j \in Pipes : CarriesOn(k, j)
            \/ Tentative(k) /\ pipe[k].in_seq = 0 /\ Top(outq[k]) = 0
  PROVE  Grows
<1> SUFFICES ASSUME NEW p \in Peers
             PROVE  /\ InSeq(p) <= InSeq(p)' /\ Sent(p) <= Sent(p)'
                    /\ Known(p) => Known(p)'
                    /\ Known(p) /\ Counts(p) => Counts(p)'
  BY DEF Grows
<1>0. InSeq(p)' \in Nat /\ Sent(p)' \in Nat
  BY PeerTypesLater
<1>1. CASE Lookup(p) = None
  BY <1>0, <1>1 DEF InSeq, Sent, Known, Counts
<1>2. CASE Lookup(p) # None
  <2>1. PICK k \in Pipes : k = Lookup(p) /\ InUse(k) /\ Owner(k) = p
    BY <1>2, LookupInUse
  <2>2. /\ InSeq(p) = pipe[k].in_seq /\ Sent(p) = Top(outq[k])
        /\ Known(p) <=> ~Tentative(k)
        /\ Counts(p) <=> pipe[k].connect_seq > 0
    BY <2>1, PeerValues
  <2>3. CASE Tentative(k) /\ pipe[k].in_seq = 0 /\ Top(outq[k]) = 0
    BY <1>0, <2>2, <2>3
  <2>4. CASE \E j \in Pipes : CarriesOn(k, j)
    <3>1. PICK j \in Pipes : CarriesOn(k, j)
      BY <2>4
    <3>2. /\ InSeq(p)' = pipe'[j].in_seq /\ Sent(p)' = Top(outq'[j])
          /\ Known(p)' <=> ~Tentative(j)'
          /\ Counts(p)' <=> pipe'[j].connect_seq > 0
      BY <2>1, <3>1, PeerValuesLater DEF CarriesOn
    <3> QED BY <2>2, <3>1, <3>2 DEF CarriesOn
  <2> QED BY <2>1, <2>3, <2>4
<1> QED BY <1>1, <1>2

(* What has been said stays true.                                          *)
LEMMA ReplyGrows ==
  ASSUME TInv, TInv', Grows, NEW p \in Peers, NEW f, f.tag = "SEQ" => f.acked \in Nat, ReplyOK(f, p)
  PROVE  ReplyOK(f, p)'
<1>1. InSeq(p) \in Nat /\ InSeq(p)' \in Nat /\ InSeq(p) <= InSeq(p)'
  BY PeerTypes, PeerTypesLater DEF Grows
<1> QED BY <1>1 DEF ReplyOK

(* Then what is true of a frame stays true.                                *)
LEMMA FrameGrows ==
  ASSUME TInv, TInv', Grows, NEW p \in Peers, NEW f \in Frames, FrameOK(p, f)
  PROVE  FrameOK(p, f)'
<1> DEFINE q == Other(p)
<1>0. q \in Peers
  BY OtherPeer
<1>1. /\ InSeq(q) \in Nat /\ InSeq(q)' \in Nat /\ InSeq(q) <= InSeq(q)'
      /\ Sent(q) \in Nat /\ Sent(q)' \in Nat /\ Sent(q) <= Sent(q)'
      /\ global_seq[q] \in Nat /\ global_seq'[q] \in Nat /\ global_seq[q] <= global_seq'[q]
      /\ Known(q) => Known(q)'
      /\ Known(p) => Known(p)'
      /\ Known(q) /\ Counts(q) => Counts(q)'
  BY <1>0, PeerTypes, PeerTypesLater, SeqTypes, SeqTypesLater DEF Grows
<1>2. /\ f.kind = "connect" => f.gseq \in Nat /\ f.cseq \in Nat
      /\ f.kind = "reply" => f.acked \in Nat
      /\ f.kind \in {"seq", "ack"} => f.seq \in Nat
      /\ f.kind = "msg" => f.msg.seq \in Nat
  BY FrameFields DEF Message
<1>3. f.kind = "reply" => ReplyOK(f, q)'
  BY <1>0, <1>2, ReplyGrows DEF FrameOK
<1> QED BY <1>1, <1>2, <1>3 DEF FrameOK

(* So only frames that are new have to be looked at.                       *)
LEMMA FramesKept ==
  ASSUME TInv, TInv', CInv, Grows,
         \A k \in Pipes : \A f \in Elements(sock'[k].in) :
            f \in Elements(sock[k].in) \/ FrameOK(Owner(k), f)'
  PROVE  FramesOK'
<1> SUFFICES ASSUME NEW k \in Pipes, NEW f \in Elements(sock'[k].in) PROVE FrameOK(Owner(k), f)'
  BY DEF FramesOK
<1>1. CASE f \in Elements(sock[k].in)
  <2>1. FrameOK(Owner(k), f)
    BY <1>1 DEF CInv, FramesOK
  <2>2. f \in Frames
    <3>1. sock[k].in \in Seq(Frames)
      BY SaneNow DEF Sane
    <3>2. PICK n \in 1..Len(sock[k].in) : f = sock[k].in[n]
      BY <1>1 DEF Elements
    <3> QED BY <3>1, <3>2, ElementOfSeq, LenProperties
  <2> QED BY <2>1, <2>2, OwnerIsPeer, FrameGrows
<1> QED BY <1>1
-----------------------------------------------------------------------------
(* What a step leaves alone of Pipe k, its socket and flags apart.         *)
Still(k) ==
  /\ state'[k] = state[k] /\ rd'[k] = rd[k] /\ wr'[k] = wr[k]
  /\ loc'[k] = loc[k] /\ outq'[k] = outq[k]
  /\ pipe'[k].connect_seq = pipe[k].connect_seq /\ pipe'[k].in_seq = pipe[k].in_seq
  /\ pipe'[k].peer_global_seq = pipe[k].peer_global_seq
  /\ pipe'[k].conn_id = pipe[k].conn_id /\ pipe'[k].lossy = pipe[k].lossy

(* A Pipe that a step leaves alone carries its session on.                 *)
LEMMA StillCarriesOn ==
  ASSUME TInv, NEW k \in Pipes, Still(k), InUse(k)
  PROVE  CarriesOn(k, k)
<1>1. pipe[k].in_seq \in Nat /\ Top(outq[k]) \in Nat
  BY SaneNow, QueueNumbers DEF Sane
<1> QED BY <1>1 DEF Still, CarriesOn, InUse, Tentative

(* What such a Pipe is about to say stays so, ...                          *)
LEMMA PipeKept ==
  ASSUME TInv, TInv', Grows, NEW k \in Pipes, Still(k), PipeOK(k),
         rd[k] = "accept" => Len(sock'[k].in) <= 1,
         rd[k] # "accept" => \A f \in Elements(sock'[k].in) :
            f \in Elements(sock[k].in) \/ f.kind # "connect"
  PROVE  PipeOK(k)'
<1> DEFINE p == Owner(k)
<1>0. p \in Peers /\ Other(p) \in Peers
  BY OwnerIsPeer, OtherPeer
<1>1. /\ InSeq(p) \in Nat /\ InSeq(p)' \in Nat /\ InSeq(p) <= InSeq(p)'
      /\ Sent(p) \in Nat /\ Sent(p)' \in Nat /\ Sent(p) <= Sent(p)'
      /\ global_seq[p] \in Nat /\ global_seq'[p] \in Nat /\ global_seq[p] <= global_seq'[p]
      /\ Known(p) => Known(p)'
      /\ Known(Other(p)) => Known(Other(p))'
  BY <1>0, PeerTypes, PeerTypesLater, SeqTypes, SeqTypesLater DEF Grows
<1>2. loc[k].seq \in Nat /\ loc[k].gseq \in Nat /\ loc[k].msg.seq \in Nat /\ loc[k].reply.acked \in Nat
  BY SaneNow DEF Sane, Message, Replies
<1>r. PICK r : r = loc[k].reply
  OBVIOUS
<1>3. rd[k] = "reply" => ReplyOK(r, p)'
  <2>1. rd[k] = "reply" => ReplyOK(r, p)
    BY <1>r DEF PipeOK
  <2>2. r.acked \in Nat
    BY <1>2, <1>r
  <2> QED BY <1>0, <2>1, <2>2, ReplyGrows
<1> HIDE DEF p
<1>4. /\ ~pipe'[k].lossy
      /\ state'[k] # "free" => pipe'[k].conn_id \in ConnIds
      /\ rd'[k] = "accept" => state'[k] = "accepting" /\ Len(sock'[k].in) <= 1 /\ pipe'[k].in_seq = 0
      /\ rd'[k] = "seq" => loc'[k].replaced
      /\ rd'[k] # "accept" => \A f \in Elements(sock'[k].in) : f.kind # "connect"
  BY DEF PipeOK, Still
<1>5. (rd[k] = "reply" => /\ ReplyOK(loc[k].reply, p)
                          /\ loc[k].reply.tag = "SEQ" => loc[k].replaced
                          /\ ~loc[k].replaced => pipe[k].in_seq = 0)'
  <2>1. loc'[k].reply = r /\ rd'[k] = rd[k] /\ loc'[k] = loc[k] /\ pipe'[k].in_seq = pipe[k].in_seq
    BY <1>r DEF Still
  <2>2. (ReplyOK(loc[k].reply, p))' <=> ReplyOK(r, p)'
    BY <2>1 DEF ReplyOK
  <2> QED BY <1>3, <2>1, <2>2 DEF PipeOK
<1>6. wr'[k] = "ack" => loc'[k].seq <= InSeq(p)'
  BY <1>1, <1>2 DEF PipeOK, Still, p
<1>7. wr'[k] = "msg" => /\ loc'[k].msg.id = loc'[k].msg.seq
                        /\ 1 <= loc'[k].msg.seq /\ loc'[k].msg.seq <= Sent(p)'
                        /\ state'[k] = "open" => loc'[k].msg.seq = outq'[k].out_seq
  BY <1>1, <1>2 DEF PipeOK, Still, p
<1>8. /\ wr'[k] \in {"join", "await"} => Known(p)' /\ loc'[k].gseq <= global_seq'[p]
      /\ wr'[k] = "join" /\ loc'[k].cseq > 0 => Known(Other(p))'
  BY <1>1, <1>2 DEF PipeOK, Still, p
<1> QED BY <1>4, <1>5, <1>6, <1>7, <1>8 DEF PipeOK, p

(* ... its session stays what it was, ...                                  *)
LEMMA SessionKept ==
  ASSUME TInv, TInv', Grows, NEW k \in Pipes, Still(k), SessionOK(k),
         submitted'[Owner(k)] = submitted[Owner(k)],
         Attempting(k) => global_seq'[Owner(k)] = global_seq[Owner(k)]
  PROVE  SessionOK(k)'
<1> DEFINE p == Owner(k)
           q == Other(p)
<1> SUFFICES ASSUME InUse(k)'
             PROVE  /\ Consecutive(outq'[k], submitted'[p])
                    /\ pipe'[k].connect_seq = 0 => Fresh(k)'
                    /\ Attempting(k)' => loc'[k].gseq = global_seq'[p]
                    /\ Base(outq'[k]) <= InSeq(q)'
                    /\ pipe'[k].in_seq <= Sent(q)'
                    /\ Tentative(k)' => Top(outq'[k]) = 0
                    /\ pipe'[k].connect_seq > 0 => Known(q)'
  BY DEF SessionOK, Consecutive, Base, Top
<1>0. q \in Peers
  BY OwnerIsPeer, OtherPeer
<1>1. /\ InSeq(q) \in Nat /\ InSeq(q)' \in Nat /\ InSeq(q) <= InSeq(q)'
      /\ Sent(q) \in Nat /\ Sent(q)' \in Nat /\ Sent(q) <= Sent(q)'
      /\ Known(q) => Known(q)'
  BY <1>0, PeerTypes, PeerTypesLater DEF Grows
<1>2. pipe[k].in_seq \in Nat /\ Base(outq[k]) \in Nat
  BY SaneNow, QueueNumbers DEF Sane
<1>3. InUse(k)
  BY DEF InUse, Still
<1> HIDE DEF q, p
<1>4. /\ Consecutive(outq[k], submitted[p])
      /\ pipe[k].connect_seq = 0 => Fresh(k)
      /\ Attempting(k) => loc[k].gseq = global_seq[p]
      /\ Base(outq[k]) <= InSeq(q)
      /\ pipe[k].in_seq <= Sent(q)
      /\ Tentative(k) => Top(outq[k]) = 0
      /\ pipe[k].connect_seq > 0 => Known(q)
  BY <1>3 DEF SessionOK, p, q
<1>5. outq'[k] = outq[k] /\ submitted'[p] = submitted[p]
  BY DEF Still, p
<1>6. Fresh(k) => Fresh(k)'
  BY <1>5 DEF Still, Fresh, Top
<1>7. Attempting(k)' => loc'[k].gseq = global_seq'[p]
  BY <1>4 DEF Still, Attempting, p
<1>8. Tentative(k)' => Top(outq'[k]) = 0
  BY <1>4, <1>5 DEF Still, Tentative
<1>9. Base(outq'[k]) <= InSeq(q)' /\ pipe'[k].in_seq <= Sent(q)'
  BY <1>1, <1>2, <1>4, <1>5 DEF Still
<1> QED BY <1>1, <1>4, <1>5, <1>6, <1>7, <1>8, <1>9 DEF Still

(* ... and a lookup finds the same Pipe.                                   *)
LEMMA LookupSame ==
  ASSUME TInv, TInv', \A k \in Pipes : InUse(k) <=> InUse(k)', NEW p \in Peers
  PROVE  Lookup(p)' = Lookup(p)
<1>1. CASE Lookup(p) # None
  <2>1. PICK k \in Pipes : k = Lookup(p) /\ InUse(k) /\ Owner(k) = p
    BY <1>1, LookupInUse
  <2> QED BY <2>1, InUseLookupLater
<1>2. CASE Lookup(p)' # None
  <2>1. PICK k \in Pipes : k = Lookup(p)' /\ InUse(k)' /\ Owner(k) = p
    BY <1>2, LookupInUseLater
  <2>2. InUse(k)
    BY <2>1
  <2>3. Lookup(p) = k
    BY <2>1, <2>2, InUseLookup
  <2> QED BY <2>1, <2>3
<1> QED BY <1>1, <1>2

PairStill(k) == Still(k) /\ sock'[k].in = sock[k].in

(* A Pipe whose socket a step leaves alone reads the same messages.        *)
LEMMA NextKept ==
  ASSUME NEW k \in Pipes, PairStill(k), NextOnes(k)
  PROVE  NextOnes(k)'
<1>1. (Listens(k)' <=> Listens(k)) /\ (Awaits(k)' <=> Awaits(k))
  BY DEF PairStill, Still, Listens, Awaits, InUse
<1> QED BY <1>1 DEF PairStill, Still, NextOnes, Climbs

(* Two ends that a step leaves alone stay linked.                          *)
LEMMA LinkedKept ==
  ASSUME NEW a \in Pipes, NEW x \in Pipes, PairStill(a), PairStill(x), Linked(a, x)
  PROVE  Linked(a, x)'
<1>1. /\ state[a] = "open" /\ wr[a] # "none" /\ state[x] # "closed"
           => Ends(sock[x].in, pipe[x].in_seq, LastWritten(a))
      /\ wr[a] = "none" => Only(sock[x].in, "reply")
      /\ wr[a] = "await" => Only(sock[x].in, "connect")
  BY DEF Linked
<1>2. LastWritten(a)' = LastWritten(a)
  BY DEF LastWritten, PairStill, Still
<1>3. (state[a] = "open" /\ wr[a] # "none" /\ state[x] # "closed"
           => Ends(sock[x].in, pipe[x].in_seq, LastWritten(a)))'
  BY <1>1, <1>2 DEF PairStill, Still, Ends
<1>4. /\ (wr[a] = "none" => Only(sock[x].in, "reply"))'
      /\ (wr[a] = "await" => Only(sock[x].in, "connect"))'
  BY <1>1 DEF PairStill, Still, Only
<1>5. (Awaits(x) /\ state[a] = "open" =>
         /\ pipe[a].peer_global_seq = loc[x].gseq
         /\ rd[a] = "reply" /\ loc[a].reply.tag = "SEQ" => loc[a].reply.acked = pipe[a].in_seq
         /\ sock[x].in # <<>> /\ Answer(x).tag = "SEQ" => Answer(x).acked = pipe[a].in_seq)'
  BY DEF Linked, PairStill, Still, Awaits, Answer
<1>6. (rd[a] = "seq" /\ state[x] # "closed" =>
         \A f \in Elements(sock[a].in) : f.kind = "seq" => f.seq = pipe[x].in_seq)'
  BY DEF Linked, PairStill, Still
<1> QED BY <1>3, <1>4, <1>5, <1>6 DEF Linked

(* So only the pairs with an end that changes have to be looked at.        *)
LEMMA PairsKept ==
  ASSUME TInv, WInv, CInv, Severing(sock'),
         \A k, j \in Pipes : Live(sock', k) /\ j = sock[k].peer =>
            (PairStill(k) /\ PairStill(j)) \/ Linked(k, j)'
  PROVE  \A k \in Pipes : PairOK(k)'
<1> SUFFICES ASSUME NEW k \in Pipes, Live(sock', k)
             PROVE  PairOK(k)'
  BY DEF PairOK, Live
<1>1. sock'[k].peer = sock[k].peer /\ Live(sock, k)
  BY DEF Severing, Live
<1>2. PICK j \in Pipes : j = sock[k].peer
  BY <1>1, PeerIsPipe
<1>3. Linked(k, j)
  BY <1>1, <1>2 DEF CInv, PairOK
<1>4. (PairStill(k) /\ PairStill(j)) \/ Linked(k, j)'
  BY <1>2
<1>5. Linked(k, j)'
  BY <1>3, <1>4, LinkedKept
<1>6. sock'[k].peer = j
  BY <1>1, <1>2
<1> QED BY <1>5, <1>6 DEF PairOK

(* No attempt at a connection is made that was not under way before.       *)
NoNewAttempts ==
  \A k \in Pipes :
    /\ \A f \in Elements(sock'[k].in) : f.kind = "connect" => f \in Elements(sock[k].in)
    /\ wr'[k] = "join" => wr[k] = "join" /\ loc'[k].gseq = loc[k].gseq /\ loc'[k].cseq = loc[k].cseq

(* What has arrived is a frame.                                            *)
LEMMA ArrivedIsFrame ==
  ASSUME TInv, NEW k \in Pipes, NEW f \in Elements(sock[k].in)
  PROVE  f \in Frames
<1>1. sock[k].in \in Seq(Frames)
  BY SaneNow DEF Sane
<1>2. PICK n \in 1..Len(sock[k].in) : f = sock[k].in[n]
  BY DEF Elements
<1> QED BY <1>1, <1>2, ElementOfSeq, LenProperties

(* Without new attempts at a session all of them stay below a number, ...  *)
LEMMA ZerosKept ==
  ASSUME TInv, NoNewAttempts, NEW p \in Peers, NEW b \in Nat, NEW c \in Nat, b <= c,
         ZerosBelow(p, b)
  PROVE  ZerosBelow(p, c)'
<1>1. ASSUME NEW i \in Pipes, NEW f \in Elements(sock'[i].in),
             Owner(i) = p, f.kind = "connect", f.cseq = 0
      PROVE  f.gseq < c
  <2>1. f \in Elements(sock[i].in)
    BY <1>1 DEF NoNewAttempts
  <2>2. f.gseq \in Nat
    BY <1>1, <2>1, ArrivedIsFrame, FrameFields
  <2>3. f.gseq < b
    BY <1>1, <2>1 DEF ZerosBelow
  <2> QED BY <2>2, <2>3
<1>2. ASSUME NEW j \in Pipes, Owner(j) = Other(p), wr'[j] = "join", loc'[j].cseq = 0
      PROVE  loc'[j].gseq < c
  <2>1. wr[j] = "join" /\ loc'[j].gseq = loc[j].gseq /\ loc[j].cseq = 0
    BY <1>2 DEF NoNewAttempts
  <2>2. loc[j].gseq < b
    BY <1>2, <2>1 DEF ZerosBelow
  <2>3. loc[j].gseq \in Nat
    BY SaneNow DEF Sane
  <2> QED BY <2>1, <2>2, <2>3
<1> QED BY <1>1, <1>2 DEF ZerosBelow

(* ... the newest attempt stays the newest, ...                            *)
LEMMA NewestKept ==
  ASSUME NoNewAttempts, Severing(sock'), NEW a \in Pipes, Newest(a),
         Attempting(a)' => Attempting(a) /\ wr'[a] = wr[a] /\ loc'[a].gseq = loc[a].gseq
  PROVE  Newest(a)'
<1> SUFFICES ASSUME Attempting(a)'
             PROVE  (/\ \A i \in Pipes : \A f \in Elements(sock[i].in) :
                         Owner(i) = Other(Owner(a)) /\ f.kind = "connect" =>
                           /\ f.gseq = loc[a].gseq =>
                                wr[a] = "await" /\ (Live(sock, a) => i = sock[a].peer)
                           /\ sock[a].peer = i => f.gseq = loc[a].gseq
                    /\ \A j \in Pipes \ {a} :
                         Owner(j) = Owner(a) /\ wr[j] = "join" => loc[j].gseq < loc[a].gseq)'
  BY DEF Newest
<1>1. Attempting(a) /\ wr'[a] = wr[a] /\ loc'[a].gseq = loc[a].gseq
  OBVIOUS
<1>2. sock'[a].peer = sock[a].peer \/ sock'[a].peer = None
  BY DEF Severing
<1>3. ASSUME NEW i \in Pipes, NEW f \in Elements(sock'[i].in),
             Owner(i) = Other(Owner(a)), f.kind = "connect"
      PROVE  /\ f.gseq = loc'[a].gseq => wr'[a] = "await" /\ (Live(sock', a) => i = sock'[a].peer)
             /\ sock'[a].peer = i => f.gseq = loc'[a].gseq
  <2>1. f \in Elements(sock[i].in)
    BY <1>3 DEF NoNewAttempts
  <2>2. /\ f.gseq = loc[a].gseq => wr[a] = "await" /\ (Live(sock, a) => i = sock[a].peer)
        /\ sock[a].peer = i => f.gseq = loc[a].gseq
    BY <1>1, <1>3, <2>1 DEF Newest
  <2> QED BY <1>1, <1>2, <2>2, NoneIsNoPipe DEF Live
<1>4. ASSUME NEW j \in Pipes \ {a}, Owner(j) = Owner(a), wr'[j] = "join"
      PROVE  loc'[j].gseq < loc'[a].gseq
  <2>1. wr[j] = "join" /\ loc'[j].gseq = loc[j].gseq
    BY <1>4 DEF NoNewAttempts
  <2> QED BY <1>1, <1>4, <2>1 DEF Newest
<1> QED BY <1>3, <1>4

(* A Pipe that trusts no more than it did is guarded as it was.            *)
LEMMA GuardedKept ==
  ASSUME TInv, TInv', NoNewAttempts, NEW x \in Pipes, Guarded(x),
         TrustsOpen(x)' => TrustsOpen(x) /\ pipe'[x].peer_global_seq = pipe[x].peer_global_seq,
         \A b \in Nat : TrustsReply(x, b)' => TrustsReply(x, b)
  PROVE  Guarded(x)'
<1>0. Owner(x) \in Peers /\ pipe[x].peer_global_seq \in Nat
  BY OwnerIsPeer, SaneNow DEF Sane
<1>1. ASSUME TrustsOpen(x)'
      PROVE  ZerosBelow(Owner(x), pipe[x].peer_global_seq)'
  <2>1. PICK b \in Nat : b = pipe[x].peer_global_seq
    BY <1>0
  <2>2. ZerosBelow(Owner(x), b)
    BY <1>1, <2>1 DEF Guarded
  <2>3. ZerosBelow(Owner(x), b)'
    BY <1>0, <2>2, ZerosKept
  <2>4. pipe'[x].peer_global_seq = b
    BY <1>1, <2>1
  <2> QED BY <2>3, <2>4 DEF ZerosBelow
<1>2. ASSUME NEW b \in Nat, TrustsReply(x, b)'
      PROVE  ZerosBelow(Owner(x), b)'
  <2>1. ZerosBelow(Owner(x), b)
    BY <1>2 DEF Guarded
  <2> QED BY <1>0, <2>1, ZerosKept
<1> QED BY <1>1, <1>2 DEF Guarded

(* ... and what Pipe x relies on is what it relied on before.              *)
LEMMA TrustKept ==
  ASSUME NEW x \in Pipes, PairStill(x), Severing(sock'),
         \A j \in Pipes : Live(sock', x) /\ j = sock[x].peer =>
            /\ state'[j] = "open" /\ state[x] = "open" => state[j] = "open"
            /\ rd'[j] = "reply" => rd[j] = "reply" /\ loc'[j].reply = loc[j].reply,
         Live(sock, x) => sock[x].peer \in Pipes
  PROVE  /\ TrustsOpen(x)' => TrustsOpen(x) /\ pipe'[x].peer_global_seq = pipe[x].peer_global_seq
         /\ \A b \in Nat : TrustsReply(x, b)' => TrustsReply(x, b)
<1>1. /\ state'[x] = state[x] /\ rd'[x] = rd[x] /\ wr'[x] = wr[x] /\ sock'[x].in = sock[x].in
      /\ pipe'[x].in_seq = pipe[x].in_seq /\ pipe'[x].peer_global_seq = pipe[x].peer_global_seq
  BY DEF PairStill, Still
<1>2. Live(sock', x) => Live(sock, x) /\ sock'[x].peer = sock[x].peer
  BY DEF Severing, Live
<1>3. (InUse(x)' <=> InUse(x)) /\ (Listens(x)' <=> Listens(x)) /\ (Awaits(x)' <=> Awaits(x))
  BY <1>1 DEF InUse, Listens, Awaits
<1>4. PICK j : j = sock[x].peer
  OBVIOUS
<1>5. Live(sock', x) => /\ j \in Pipes /\ sock'[x].peer = j /\ Live(sock, x)
                        /\ state'[j] = "open" /\ state[x] = "open" => state[j] = "open"
                        /\ rd'[j] = "reply" => rd[j] = "reply" /\ loc'[j].reply = loc[j].reply
  BY <1>2, <1>4
<1>6. TrustsOpen(x)' => TrustsOpen(x)
  BY <1>1, <1>3, <1>4, <1>5 DEF TrustsOpen, HasMsg
<1>7. ASSUME NEW b \in Nat, TrustsReply(x, b)'
      PROVE  TrustsReply(x, b)
  <2>1. Answer(x)' = Answer(x)
    BY <1>1 DEF Answer
  <2> QED BY <1>1, <1>3, <1>4, <1>5, <1>7, <2>1 DEF TrustsReply
<1> QED BY <1>1, <1>6, <1>7

(* Nothing has been received by p.                                         *)
LEMMA ReceivedKept ==
  ASSUME TInv, TInv', NEW p \in Peers, ReceivedOK(p), Lookup(p)' = Lookup(p),
         in_q'[p] = in_q[p], delivered'[p] = delivered[p],
         \A k \in Pipes : Owner(k) = p =>
            /\ rd'[k] = "dispatch" <=> rd[k] = "dispatch"
            /\ rd[k] = "dispatch" => loc'[k].id = loc[k].id,
         \A k \in Pipes : k = Lookup(p) =>
            pipe'[k].in_seq = pipe[k].in_seq /\ pipe'[k].conn_id = pipe[k].conn_id
  PROVE  ReceivedOK(p)'
<1>1. CASE Lookup(p) = None
  BY <1>1 DEF ReceivedOK
<1>2. CASE Lookup(p) # None
  <2>1. PICK e \in Pipes : e = Lookup(p) /\ Owner(e) = p
    BY <1>2, LookupInUse
  <2>2. /\ pipe'[e].in_seq = pipe[e].in_seq /\ pipe'[e].conn_id = pipe[e].conn_id
        /\ rd'[e] = "dispatch" <=> rd[e] = "dispatch"
        /\ rd[e] = "dispatch" => loc'[e].id = loc[e].id
        /\ InHand(e)' = InHand(e)
    BY <2>1 DEF InHand
  <2>3. Lookup(p)' = e
    BY <2>1
  <2>4. /\ Numbers(delivered[p], 0)'
        /\ \A c \in ConnIds : in_q'[p][c] # <<>> => e # None /\ c = pipe'[e].conn_id /\ ~FastDispatch
        /\ \A j \in Pipes : Owner(j) = p /\ rd'[j] = "dispatch" => FastDispatch /\ j = e
    BY <1>2, <2>1, <2>2 DEF ReceivedOK, Numbers
  <2>5. /\ Numbers(in_q[p][pipe[e].conn_id], Len(delivered[p]))
        /\ Len(delivered[p]) + Len(in_q[p][pipe[e].conn_id]) + InHand(e) = pipe[e].in_seq
        /\ rd[e] = "dispatch" => loc[e].id = pipe[e].in_seq
    BY <1>2, <2>1 DEF ReceivedOK
  <2>6. (/\ Numbers(in_q[p][pipe[e].conn_id], Len(delivered[p]))
         /\ Len(delivered[p]) + Len(in_q[p][pipe[e].conn_id]) + InHand(e) = pipe[e].in_seq
         /\ rd[e] = "dispatch" => loc[e].id = pipe[e].in_seq)'
    BY <2>2, <2>5 DEF Numbers
  <2> QED BY <1>2, <2>1, <2>3, <2>4, <2>6 DEF ReceivedOK
<1> QED BY <1>1, <1>2

(* A step of Pipe i, which may take a frame from its socket and put one    *)
(* that is not a request into the other end.                               *)
StepOf(i) ==
  /\ global_seq' = global_seq
  /\ \A k \in Pipes \ {i} : InUse(k) => submitted'[Owner(k)] = submitted[Owner(k)]
  /\ Severing(sock')
  /\ \A k \in Pipes \ {i} : Still(k)
  /\ \A k \in Pipes \ {i} :
       sock'[k].in = sock[k].in \/ (Live(sock', i) /\ k = sock[i].peer /\ rd[k] # "accept")
  /\ wr'[i] = "join" => wr[i] = "join" /\ loc'[i].gseq = loc[i].gseq /\ loc'[i].cseq = loc[i].cseq
  /\ Attempting(i)' => Attempting(i) /\ wr'[i] = wr[i] /\ loc'[i].gseq = loc[i].gseq

(* The frames that it adds say nothing that is not so.                     *)
NewFramesOK ==
  \A k \in Pipes : \A f \in Elements(sock'[k].in) :
     f \in Elements(sock[k].in) \/ (FrameOK(Owner(k), f)' /\ f.kind # "connect")

(* A step of Pipe i that carries its session on lets the numbers grow.     *)
LEMMA StepGrows ==
  ASSUME TInv, TInv', NEW i \in Pipes, StepOf(i),
         InUse(i) => CarriesOn(i, i) \/ (Tentative(i) /\ pipe[i].in_seq = 0 /\ Top(outq[i]) = 0)
  PROVE  Grows
<1>1. \A p \in Peers : global_seq[p] <= global_seq'[p]
  BY SeqTypes DEF StepOf
<1>2. ASSUME NEW k \in Pipes, InUse(k)
      PROVE  \/ \E j \in Pipes : CarriesOn(k, j)
             \/ Tentative(k) /\ pipe[k].in_seq = 0 /\ Top(outq[k]) = 0
  <2>1. CASE k = i
    BY <1>2, <2>1
  <2>2. CASE k # i
    <3>1. Still(k)
      BY <2>2 DEF StepOf
    <3>2. CarriesOn(k, k)
      BY <1>2, <3>1, StillCarriesOn
    <3> QED BY <3>2
  <2> QED BY <2>1, <2>2
<1> QED BY <1>1, <1>2, GrowsBy

(* A step of Pipe i that writes no connect request begins no attempt.      *)
LEMMA StepNoNewAttempts ==
  ASSUME NEW i \in Pipes, StepOf(i), NewFramesOK
  PROVE  NoNewAttempts
BY DEF StepOf, NewFramesOK, NoNewAttempts, Still

(* So of such a step only Pipe i and its peer have to be looked at.        *)
LEMMA OneStep ==
  ASSUME TInv, WInv, CInv, TInv', WInv', Grows, NEW i \in Pipes, StepOf(i), NewFramesOK,
         NoSession', \A p \in Peers : ReceivedOK(p)',
         PipeOK(i)', SessionOK(i)', NextOnes(i)', Guarded(i)',
         \A x \in Pipes : Live(sock', i) /\ x = sock[i].peer =>
            NextOnes(x)' /\ Guarded(x)' /\ Linked(i, x)' /\ Linked(x, i)'
  PROVE  CInv'
<1>1. /\ global_seq' = global_seq
      /\ \A k \in Pipes \ {i} : InUse(k) => submitted'[Owner(k)] = submitted[Owner(k)]
      /\ Severing(sock')
      /\ \A k \in Pipes \ {i} : Still(k)
      /\ \A k \in Pipes \ {i} :
           sock'[k].in = sock[k].in \/ (Live(sock', i) /\ k = sock[i].peer /\ rd[k] # "accept")
  BY DEF StepOf
<1>2. NoNewAttempts
  BY StepNoNewAttempts
<1>3. FramesOK'
  BY FramesKept DEF NewFramesOK
<1>4. ASSUME NEW k \in Pipes \ {i}
      PROVE  PipeOK(k)' /\ SessionOK(k)'
  <2>1. Still(k) /\ PipeOK(k) /\ SessionOK(k)
    BY <1>1 DEF CInv
  <2>2. rd[k] = "accept" => Len(sock'[k].in) <= 1
    BY <1>1, <2>1 DEF PipeOK
  <2>3. rd[k] # "accept" => \A f \in Elements(sock'[k].in) :
           f \in Elements(sock[k].in) \/ f.kind # "connect"
    BY DEF NewFramesOK
  <2>4. PipeOK(k)'
    BY <2>1, <2>2, <2>3, PipeKept
  <2>5. SessionOK(k)'
    <3>1. CASE InUse(k)
      <4>1. submitted'[Owner(k)] = submitted[Owner(k)] /\ global_seq' = global_seq
        BY <1>1, <3>1
      <4> QED BY <2>1, <4>1, SessionKept
    <3>2. CASE ~InUse(k)
      BY <2>1, <3>2 DEF SessionOK, Still, InUse
    <3> QED BY <3>1, <3>2
  <2> QED BY <2>4, <2>5
<1>5. ASSUME NEW k \in Pipes \ {i}, ~(Live(sock', i) /\ k = sock[i].peer)
      PROVE  PairStill(k) /\ NextOnes(k)' /\ Guarded(k)'
  <2>1. PairStill(k) /\ NextOnes(k) /\ Guarded(k)
    BY <1>1, <1>5 DEF CInv, PairStill
  <2>2. NextOnes(k)'
    BY <2>1, NextKept
  <2>3. Live(sock, k) => sock[k].peer \in Pipes
    BY PeerIsPipe
  <2>4. ASSUME NEW j \in Pipes, Live(sock', k), j = sock[k].peer
        PROVE  Still(j)
    <3>1. Live(sock, k) /\ Live(sock', j) /\ sock[j].peer = k
      <4>1. Live(sock, k)
        BY <1>1, <2>4 DEF Severing, Live
      <4>2. sock[j].peer = k /\ Live(sock, j)
        BY <2>4, <4>1, PeerIsPipe
      <4>3. Live(sock', j)
        BY <1>1, <2>4, <4>2 DEF Severing
      <4> QED BY <4>1, <4>2, <4>3
    <3>2. j # i
      BY <1>5, <3>1
    <3> QED BY <1>1, <3>2
  <2>5. /\ TrustsOpen(k)' => TrustsOpen(k) /\ pipe'[k].peer_global_seq = pipe[k].peer_global_seq
        /\ \A b \in Nat : TrustsReply(k, b)' => TrustsReply(k, b)
    <3>1. \A j \in Pipes : Live(sock', k) /\ j = sock[k].peer =>
            /\ state'[j] = "open" /\ state[k] = "open" => state[j] = "open"
            /\ rd'[j] = "reply" => rd[j] = "reply" /\ loc'[j].reply = loc[j].reply
      BY <2>4 DEF Still
    <3> QED BY <1>1, <2>1, <2>3, <3>1, TrustKept
  <2>6. Guarded(k)'
    BY <1>2, <2>1, <2>5, GuardedKept
  <2> QED BY <2>1, <2>2, <2>6
<1>6. ASSUME NEW k \in Pipes
      PROVE  NextOnes(k)' /\ Guarded(k)'
  <2>1. CASE k = i
    BY <2>1
  <2>2. CASE k # i /\ Live(sock', i) /\ k = sock[i].peer
    BY <2>2
  <2>3. CASE k # i /\ ~(Live(sock', i) /\ k = sock[i].peer)
    BY <1>5, <2>3
  <2> QED BY <2>1, <2>2, <2>3
<1>7. ASSUME NEW k \in Pipes
      PROVE  Newest(k)'
  <2>1. Newest(k)
    BY DEF CInv
  <2>2. Attempting(k)' => Attempting(k) /\ wr'[k] = wr[k] /\ loc'[k].gseq = loc[k].gseq
    BY <1>1 DEF StepOf, Still, Attempting
  <2> QED BY <1>1, <1>2, <2>1, <2>2, NewestKept
<1>8. \A k \in Pipes : PairOK(k)'
  <2>1. ASSUME NEW k \in Pipes, NEW j \in Pipes, Live(sock', k), j = sock[k].peer
        PROVE  (PairStill(k) /\ PairStill(j)) \/ Linked(k, j)'
    <3>1. Live(sock, k) /\ sock[j].peer = k /\ Live(sock', j) /\ k # j
      <4>1. Live(sock, k)
        BY <1>1, <2>1 DEF Severing, Live
      <4>2. sock[j].peer = k /\ Live(sock, j) /\ k # j
        BY <2>1, <4>1, PeerIsPipe
      <4>3. Live(sock', j)
        BY <1>1, <2>1, <4>2 DEF Severing
      <4> QED BY <4>1, <4>2, <4>3
    <3>2. CASE k = i
      BY <2>1, <3>2
    <3>3. CASE j = i
      BY <3>1, <3>3
    <3>4. CASE k # i /\ j # i
      <4>1. k # sock[i].peer \/ ~Live(sock', i)
        <5> SUFFICES ASSUME k = sock[i].peer, Live(sock', i) PROVE FALSE
          OBVIOUS
        <5>1. Live(sock, i)
          BY <1>1 DEF Severing, Live
        <5>2. sock[k].peer = i
          BY <5>1, PeerIsPipe
        <5> QED BY <2>1, <3>4, <5>2
      <4>2. j # sock[i].peer \/ ~Live(sock', i)
        <5> SUFFICES ASSUME j = sock[i].peer, Live(sock', i) PROVE FALSE
          OBVIOUS
        <5>1. Live(sock, i)
          BY <1>1 DEF Severing, Live
        <5>2. sock[j].peer = i
          BY <5>1, PeerIsPipe
        <5> QED BY <3>1, <3>4, <5>2
      <4> QED BY <1>5, <3>4, <4>1, <4>2
    <3> QED BY <3>2, <3>3, <3>4
  <2> QED BY <1>1, <2>1, PairsKept
<1>9. \A k \in Pipes : PipeOK(k)' /\ SessionOK(k)'
  BY <1>4
<1>10. LosslessPeers'
  BY DEF CInv, LosslessPeers
<1> QED BY <1>3, <1>6, <1>7, <1>8, <1>9, <1>10 DEF CInv

(* Nothing is received or delivered in a step of Pipe i.                   *)
LEMMA NothingReceived ==
  ASSUME TInv, CInv, TInv', NEW i \in Pipes, \A k \in Pipes \ {i} : Still(k),
         InUse(i)' <=> InUse(i), in_q' = in_q, delivered' = delivered,
         \A p \in Peers : Lookup(p) = None => submitted'[p] = submitted[p],
         InUse(i) => pipe'[i].in_seq = pipe[i].in_seq /\ pipe'[i].conn_id = pipe[i].conn_id,
         rd'[i] = "dispatch" <=> rd[i] = "dispatch", rd[i] = "dispatch" => loc'[i].id = loc[i].id
  PROVE  NoSession' /\ \A p \in Peers : ReceivedOK(p)'
<1>1. \A k \in Pipes : InUse(k) <=> InUse(k)'
  BY DEF Still, InUse
<1>2. \A p \in Peers : Lookup(p)' = Lookup(p)
  BY <1>1, LookupSame
<1>3. NoSession'
  BY <1>2 DEF CInv, NoSession
<1>4. ASSUME NEW p \in Peers
      PROVE  ReceivedOK(p)'
  <2>1. ReceivedOK(p) /\ Lookup(p)' = Lookup(p) /\ in_q'[p] = in_q[p] /\ delivered'[p] = delivered[p]
    BY <1>2 DEF CInv
  <2>2. \A k \in Pipes : Owner(k) = p =>
            /\ rd'[k] = "dispatch" <=> rd[k] = "dispatch"
            /\ rd[k] = "dispatch" => loc'[k].id = loc[k].id
    BY DEF Still
  <2>3. \A k \in Pipes : k = Lookup(p) =>
            pipe'[k].in_seq = pipe[k].in_seq /\ pipe'[k].conn_id = pipe[k].conn_id
    <3>1. \A k \in Pipes : k = Lookup(p) => InUse(k)
      BY LookupInUse, NoneIsNoPipe
    <3> QED BY <3>1 DEF Still
  <2> QED BY <2>1, <2>2, <2>3, ReceivedKept
<1> QED BY <1>3, <1>4

(* A step that no other Pipe and no reader but a running one can see.      *)
WriterKept(k) ==
  /\ wr'[k] = wr[k] /\ loc'[k].seq = loc[k].seq /\ loc'[k].msg = loc[k].msg
  /\ loc'[k].gseq = loc[k].gseq /\ loc'[k].cseq = loc[k].cseq

(* What the writer of Pipe i is about to say.                              *)
WriterOK(i) ==
  /\ wr[i] = "ack" => loc[i].seq <= InSeq(Owner(i))
  /\ wr[i] = "msg" => /\ loc[i].msg.id = loc[i].msg.seq
                      /\ 1 <= loc[i].msg.seq /\ loc[i].msg.seq <= Sent(Owner(i))
                      /\ state[i] = "open" => loc[i].msg.seq = outq[i].out_seq
  /\ wr[i] \in {"join", "await"} => Known(Owner(i)) /\ loc[i].gseq <= global_seq[Owner(i)]
  /\ wr[i] = "join" /\ loc[i].cseq > 0 => Known(Other(Owner(i)))

(* What the writer is about to say stays so while the reader goes on.      *)
LEMMA WriterStays ==
  ASSUME TInv, TInv', Grows, NEW k \in Pipes, PipeOK(k), WriterKept(k),
         state'[k] = "open" => state[k] = "open" /\ outq'[k].out_seq = outq[k].out_seq
  PROVE  WriterOK(k)'
<1> DEFINE p == Owner(k)
<1>0. p \in Peers /\ Other(p) \in Peers
  BY OwnerIsPeer, OtherPeer
<1>1. /\ InSeq(p) \in Nat /\ InSeq(p)' \in Nat /\ InSeq(p) <= InSeq(p)'
      /\ Sent(p) \in Nat /\ Sent(p)' \in Nat /\ Sent(p) <= Sent(p)'
      /\ global_seq[p] \in Nat /\ global_seq'[p] \in Nat /\ global_seq[p] <= global_seq'[p]
      /\ Known(p) => Known(p)'
      /\ Known(Other(p)) => Known(Other(p))'
  BY <1>0, PeerTypes, PeerTypesLater, SeqTypes, SeqTypesLater DEF Grows
<1>2. loc[k].seq \in Nat /\ loc[k].gseq \in Nat /\ loc[k].msg.seq \in Nat
  BY SaneNow DEF Sane, Message
<1> HIDE DEF p
<1>6. wr'[k] = "ack" => loc'[k].seq <= InSeq(p)'
  BY <1>1, <1>2 DEF PipeOK, WriterKept, p
<1>7. wr'[k] = "msg" => /\ loc'[k].msg.id = loc'[k].msg.seq
                        /\ 1 <= loc'[k].msg.seq /\ loc'[k].msg.seq <= Sent(p)'
                        /\ state'[k] = "open" => loc'[k].msg.seq = outq'[k].out_seq
  BY <1>1, <1>2 DEF PipeOK, WriterKept, p
<1>8. /\ wr'[k] \in {"join", "await"} => Known(p)' /\ loc'[k].gseq <= global_seq'[p]
      /\ wr'[k] = "join" /\ loc'[k].cseq > 0 => Known(Other(p))'
  BY <1>1, <1>2 DEF PipeOK, WriterKept, p
<1> QED BY <1>6, <1>7, <1>8 DEF WriterOK, p

(* What the reader may take from its socket.                               *)
LEMMA TakeBuffers ==
  ASSUME TInv, WInv, NEW i \in Pipes, sock[i].in # <<>>, sock' = Took(sock, i)
  PROVE  /\ Severing(sock') /\ \A k \in Pipes : sock'[k].peer = sock[k].peer
         /\ \A k \in Pipes \ {i} : sock'[k].in = sock[k].in
         /\ sock'[i].in = Tail(sock[i].in)
         /\ Elements(sock'[i].in) \subseteq Elements(sock[i].in)
         /\ Head(sock[i].in) \in Elements(sock[i].in)
         /\ sock[i].in \in Seq(Frames) /\ Head(sock[i].in) \in Frames
         /\ NewFramesOK
<1>1. /\ \A k \in Pipes : sock'[k].peer = sock[k].peer
      /\ \A k \in Pipes \ {i} : sock'[k] = sock[k]
      /\ sock'[i].in = Tail(sock[i].in)
  BY TookEffect
<1>2. sock[i].in \in Seq(Frames)
  BY InIsSeq
<1>3. /\ Elements(sock'[i].in) \subseteq Elements(sock[i].in)
      /\ Head(sock[i].in) \in Elements(sock[i].in) /\ Head(sock[i].in) \in Frames
  BY <1>1, <1>2, ElementsTail, TailOf
<1>4. Severing(sock')
  BY <1>1, PeerIsPipe DEF Severing, Live
<1>5. NewFramesOK
  BY <1>1, <1>3 DEF NewFramesOK
<1> QED BY <1>1, <1>2, <1>3, <1>4, <1>5
-----------------------------------------------------------------------------
(* The read loop.                                                          *)

(* The ends of a connection that is read from.                             *)
LEMMA ReaderPair ==
  ASSUME TInv, WInv, CInv, NEW i \in Pipes, rd[i] \in {"read", "dispatch"},
         NEW x \in Pipes, Live(sock, i), x = sock[i].peer
  PROVE  /\ state[i] = "open" /\ wr[i] # "none" /\ wr[i] # "await" /\ x # i
         /\ Live(sock, x) /\ sock[x].peer = i
         /\ Linked(i, x) /\ Linked(x, i)
         /\ rd[x] = "seq" => wr[x] = "none"
<1>1. Settled(i, x) /\ EndInv(i)
  BY LoopSettled DEF InLoop, WInv
<1>2. /\ state[i] = "open" /\ wr[i] # "none" /\ wr[i] # "await"
  BY <1>1 DEF Settled, EndInv
<1>3. x # i /\ sock[x].peer = i /\ Live(sock, x)
  BY PeerIsPipe
<1>4. Linked(i, x) /\ Linked(x, i)
  BY <1>3 DEF CInv, PairOK
<1>5. rd[x] = "seq" => wr[x] = "none"
  BY DEF TInv, PipeInv
<1> QED BY <1>2, <1>3, <1>4, <1>5

(* The next message is read.                                               *)
TakesMsg(i) ==
  /\ rd[i] = "read" /\ sock[i].in # <<>> /\ sock' = Took(sock, i) /\ Listens(i)
  /\ Head(sock[i].in).kind = "msg" /\ pipe'[i].in_seq = Head(sock[i].in).msg.seq
(* Another frame is read, or none, or what is read is ignored.             *)
TakesOther(i) ==
  /\ pipe'[i].in_seq = pipe[i].in_seq
  /\ \/ sock' = sock
     \/ /\ rd[i] = "read" /\ sock[i].in # <<>> /\ sock' = Took(sock, i)
        /\ Head(sock[i].in).kind \in {"ack", "keepalive", "keepalive_ack"}
     \/ /\ rd[i] = "read" /\ sock[i].in # <<>> /\ sock' = Took(sock, i)
        /\ state[i] \in {"closed", "connecting"} /\ rd'[i] = "none"

(* A step of a reader.                                                     *)
ReaderTurn(i) ==
  /\ rd[i] \in {"read", "dispatch"} /\ rd'[i] \in {"none", "sleep", "read", "dispatch"}
  /\ state' = state /\ global_seq' = global_seq /\ submitted' = submitted
  /\ WriterKept(i)
  /\ pipe'[i].connect_seq = pipe[i].connect_seq /\ pipe'[i].lossy = pipe[i].lossy
  /\ pipe'[i].peer_global_seq = pipe[i].peer_global_seq /\ pipe'[i].conn_id = pipe[i].conn_id
  /\ \A k \in Pipes \ {i} : Still(k)
  /\ outq'[i].out_seq = outq[i].out_seq /\ Top(outq'[i]) = Top(outq[i])
  /\ InUse(i) => /\ Consecutive(outq'[i], submitted[Owner(i)])
                 /\ \/ Base(outq'[i]) = Base(outq[i])
                    \/ Base(outq'[i]) <= InSeq(Other(Owner(i)))

(* The message that a Pipe reads is the next one.                          *)
LEMMA MsgIsNext ==
  ASSUME TInv, CInv, NEW i \in Pipes, Listens(i), sock[i].in # <<>>, Head(sock[i].in).kind = "msg"
  PROVE  /\ Head(sock[i].in).msg.seq = pipe[i].in_seq + 1
         /\ Head(sock[i].in).msg.seq \in Nat
         /\ Head(sock[i].in).msg.seq <= Sent(Other(Owner(i)))
         /\ Head(sock[i].in).msg.id = Head(sock[i].in).msg.seq
         /\ Climbs(Tail(sock[i].in), pipe[i].in_seq + 1)
<1>1. /\ sock[i].in \in Seq(Frames) /\ pipe[i].in_seq \in Nat
      /\ Climbs(sock[i].in, pipe[i].in_seq)
  BY SaneNow DEF Sane, CInv, NextOnes
<1>2. Head(sock[i].in).msg.seq = pipe[i].in_seq + 1 /\ Climbs(Tail(sock[i].in), pipe[i].in_seq + 1)
  BY <1>1, ClimbsTail
<1>3. Head(sock[i].in) \in Elements(sock[i].in)
  BY <1>1, ElementsTail
<1>4. FrameOK(Owner(i), Head(sock[i].in))
  BY <1>3 DEF CInv, FramesOK
<1> QED BY <1>1, <1>2, <1>4 DEF FrameOK

(* What all turns of the reader have in common.                            *)
LEMMA ReaderTurnBasics ==
  ASSUME TInv, WInv, CInv, TInv', NEW i \in Pipes, ReaderTurn(i), TakesMsg(i) \/ TakesOther(i)
  PROVE  /\ StepOf(i) /\ NewFramesOK /\ Grows
         /\ \A k \in Pipes : sock'[k].peer = sock[k].peer
         /\ \A k \in Pipes \ {i} : PairStill(k)
         /\ Elements(sock'[i].in) \subseteq Elements(sock[i].in)
         /\ pipe[i].in_seq <= pipe'[i].in_seq /\ pipe'[i].in_seq \in Nat
<1>1. /\ Severing(sock') /\ \A k \in Pipes : sock'[k].peer = sock[k].peer
      /\ \A k \in Pipes \ {i} : sock'[k].in = sock[k].in
      /\ Elements(sock'[i].in) \subseteq Elements(sock[i].in)
      /\ NewFramesOK
  <2>1. CASE sock' = sock
    BY <2>1, PeerIsPipe DEF Severing, Live, NewFramesOK
  <2>2. CASE sock[i].in # <<>> /\ sock' = Took(sock, i)
    BY <2>2, TakeBuffers
  <2> QED BY <2>1, <2>2 DEF TakesMsg, TakesOther
<1>2. pipe[i].in_seq <= pipe'[i].in_seq /\ pipe[i].in_seq \in Nat /\ pipe'[i].in_seq \in Nat
  <2>1. pipe[i].in_seq \in Nat
    BY SaneNow DEF Sane
  <2>2. TakesMsg(i) => pipe'[i].in_seq = pipe[i].in_seq + 1
    BY MsgIsNext DEF TakesMsg
  <2> QED BY <2>1, <2>2 DEF TakesOther
<1>3. \A k \in Pipes \ {i} : PairStill(k)
  BY <1>1 DEF PairStill, ReaderTurn
<1>4. wr[i] \notin {"join", "await"} \/ rd[i] \notin {"read", "dispatch"} \/ wr'[i] = wr[i]
  BY DEF ReaderTurn, WriterKept
<1>5. StepOf(i)
  BY <1>1 DEF ReaderTurn, WriterKept, StepOf, Attempting
<1>6. InUse(i) => CarriesOn(i, i)
  <2>1. Top(outq[i]) \in Nat
    BY SaneNow, QueueNumbers DEF Sane
  <2> QED BY <1>2, <2>1 DEF ReaderTurn, CarriesOn, InUse, Tentative
<1>7. Grows
  BY <1>5, <1>6, StepGrows
<1> QED BY <1>1, <1>2, <1>3, <1>5, <1>7

(* A turn of the reader keeps the Pipe and its session, ...                *)
LEMMA ReaderPipeSession ==
  ASSUME TInv, WInv, CInv, TInv', NEW i \in Pipes, ReaderTurn(i), TakesMsg(i) \/ TakesOther(i)
  PROVE  PipeOK(i)' /\ SessionOK(i)'
<1> DEFINE p == Owner(i)
           q == Other(p)
<1>1. /\ StepOf(i) /\ NewFramesOK /\ Grows
      /\ Elements(sock'[i].in) \subseteq Elements(sock[i].in)
      /\ pipe'[i].in_seq \in Nat
  BY ReaderTurnBasics
<1>2. PipeOK(i) /\ SessionOK(i) /\ q \in Peers
  BY OwnerIsPeer, OtherPeer DEF CInv
<1>3. PipeOK(i)'
  <2>1. WriterOK(i)'
    BY <1>1, <1>2, WriterStays DEF ReaderTurn
  <2>2. /\ ~pipe'[i].lossy
        /\ state'[i] # "free" => pipe'[i].conn_id \in ConnIds
        /\ rd'[i] \notin {"accept", "reply", "seq"}
        /\ \A f \in Elements(sock'[i].in) : f.kind # "connect"
    BY <1>1, <1>2 DEF PipeOK, ReaderTurn
  <2> QED BY <2>1, <2>2 DEF PipeOK, WriterOK
<1>4. ASSUME InUse(i)'
      PROVE  /\ Consecutive(outq'[i], submitted'[p])
             /\ pipe'[i].connect_seq # 0
             /\ Attempting(i)' => loc'[i].gseq = global_seq'[p]
             /\ Base(outq'[i]) <= InSeq(q)'
             /\ pipe'[i].in_seq <= Sent(q)'
             /\ ~Tentative(i)'
             /\ pipe'[i].connect_seq > 0 => Known(q)'
  <2>1. InUse(i)
    BY <1>4 DEF InUse, ReaderTurn
  <2>2. /\ InSeq(q) \in Nat /\ InSeq(q)' \in Nat /\ InSeq(q) <= InSeq(q)'
        /\ Sent(q) \in Nat /\ Sent(q)' \in Nat /\ Sent(q) <= Sent(q)'
        /\ Known(q) => Known(q)'
    BY <1>1, <1>2, PeerTypes, PeerTypesLater DEF Grows
  <2>3. /\ pipe[i].connect_seq = 0 => Fresh(i)
        /\ Attempting(i) => loc[i].gseq = global_seq[p]
        /\ Base(outq[i]) <= InSeq(q) /\ pipe[i].in_seq <= Sent(q)
        /\ pipe[i].connect_seq > 0 => Known(q)
    BY <1>2, <2>1 DEF SessionOK
  <2>4. pipe[i].connect_seq # 0 /\ pipe[i].connect_seq \in Nat
    BY <2>3, SaneNow DEF Fresh, ReaderTurn, Sane
  <2>5. pipe'[i].in_seq <= Sent(q)'
    <3>1. TakesMsg(i) => pipe'[i].in_seq <= Sent(q)
      BY MsgIsNext DEF TakesMsg
    <3>2. TakesOther(i) => pipe'[i].in_seq <= Sent(q)
      BY <2>3 DEF TakesOther
    <3> QED BY <1>1, <2>2, <3>1, <3>2
  <2>6. Base(outq'[i]) <= InSeq(q)'
    <3>1. Base(outq'[i]) <= InSeq(q)
      BY <2>1, <2>3 DEF ReaderTurn
    <3>2. PICK n : n = outq'[i]
      OBVIOUS
    <3>3. Good(n, Ids)
      <4>1. Sane(i)'
        BY SaneLater
      <4> QED BY <3>2, <4>1 DEF Sane
    <3>4. Base(n) \in Nat
      BY <3>3, QueueNumbers
    <3> QED BY <2>2, <3>1, <3>2, <3>4
  <2>7. Attempting(i)' => loc'[i].gseq = global_seq'[p]
    BY <2>3 DEF ReaderTurn, WriterKept, Attempting
  <2> QED BY <2>1, <2>2, <2>3, <2>4, <2>5, <2>6, <2>7 DEF ReaderTurn, Tentative
<1> QED BY <1>3, <1>4 DEF SessionOK, Consecutive, Base, Top

(* ... what it reads next and what it relies on, ...                       *)
LEMMA ReaderNextGuard ==
  ASSUME TInv, WInv, CInv, TInv', NEW i \in Pipes, ReaderTurn(i), TakesMsg(i) \/ TakesOther(i)
  PROVE  NextOnes(i)' /\ Guarded(i)'
<1>1. /\ StepOf(i) /\ NewFramesOK
      /\ \A k \in Pipes : sock'[k].peer = sock[k].peer
      /\ Elements(sock'[i].in) \subseteq Elements(sock[i].in)
  BY ReaderTurnBasics
<1>2. /\ rd[i] \in {"read", "dispatch"} /\ rd'[i] \in {"none", "sleep", "read", "dispatch"}
      /\ state' = state /\ wr'[i] = wr[i] /\ \A k \in Pipes \ {i} : Still(k)
      /\ pipe'[i].peer_global_seq = pipe[i].peer_global_seq
  BY DEF ReaderTurn, WriterKept
<1>3. wr[i] # "await"
  BY <1>2 DEF WInv, EndInv
<1>4. ~Awaits(i)'
  BY <1>2, <1>3 DEF Awaits
<1>5. Listens(i)' => Listens(i)
  BY <1>2 DEF Listens, InUse
<1>6. pipe[i].in_seq \in Nat /\ sock[i].in \in Seq(Frames)
  BY SaneNow DEF Sane
<1>7. NextOnes(i)'
  <2> SUFFICES ASSUME Listens(i)' PROVE Climbs(sock'[i].in, pipe'[i].in_seq)
    BY <1>4 DEF NextOnes, Climbs
  <2>1. Climbs(sock[i].in, pipe[i].in_seq)
    BY <1>5 DEF CInv, NextOnes
  <2>2. CASE TakesMsg(i)
    <3>1. Climbs(Tail(sock[i].in), pipe[i].in_seq + 1) /\ pipe'[i].in_seq = pipe[i].in_seq + 1
      BY <2>2, MsgIsNext DEF TakesMsg
    <3>2. sock'[i].in = Tail(sock[i].in)
      BY <2>2, TookEffect DEF TakesMsg
    <3> QED BY <3>1, <3>2
  <2>3. CASE sock' = sock /\ TakesOther(i)
    BY <2>1, <2>3 DEF TakesOther
  <2>4. CASE TakesOther(i) /\ sock' # sock
    <3>1. /\ sock[i].in # <<>> /\ sock' = Took(sock, i)
          /\ Head(sock[i].in).kind \in {"ack", "keepalive", "keepalive_ack"}
          /\ pipe'[i].in_seq = pipe[i].in_seq
      BY <2>4 DEF TakesOther, Listens
    <3>2. sock'[i].in = Tail(sock[i].in)
      BY <3>1, TookEffect
    <3>3. Climbs(Tail(sock[i].in), pipe[i].in_seq)
      BY <1>6, <2>1, <3>1, ClimbsTail
    <3> QED BY <3>1, <3>2, <3>3
  <2> QED BY <2>2, <2>3, <2>4
<1>8. TrustsOpen(i)' => TrustsOpen(i)
  <2>1. HasMsg(sock'[i].in) => HasMsg(sock[i].in)
    BY <1>1 DEF HasMsg
  <2>2. InUse(i)' => InUse(i)
    BY <1>2 DEF InUse
  <2>3. (Live(sock, i) /\ state[i] = "open" /\ state[sock[i].peer] = "open")'
          => (Live(sock, i) /\ state[i] = "open" /\ state[sock[i].peer] = "open")
    BY <1>1, <1>2 DEF Live
  <2>4. (InUse(i) /\ pipe[i].in_seq > 0)' => TrustsOpen(i)
    <3>1. CASE TakesOther(i)
      BY <2>2, <3>1 DEF TrustsOpen, TakesOther
    <3>2. CASE TakesMsg(i)
      <4>1. HasMsg(sock[i].in)
        BY <1>6, <3>2, ElementsTail DEF HasMsg, TakesMsg
      <4> QED BY <3>2, <4>1 DEF TrustsOpen, TakesMsg
    <3> QED BY <3>1, <3>2
  <2>5. (Listens(i) /\ HasMsg(sock[i].in))' => Listens(i) /\ HasMsg(sock[i].in)
    BY <1>5, <2>1
  <2> QED BY <2>3, <2>4, <2>5 DEF TrustsOpen
<1>9. \A b \in Nat : ~TrustsReply(i, b)'
  BY <1>4 DEF TrustsReply
<1>10. NoNewAttempts
  BY <1>1, StepNoNewAttempts
<1>11. Guarded(i)
  BY DEF CInv
<1>12. Guarded(i)'
  BY <1>2, <1>8, <1>9, <1>10, <1>11, GuardedKept
<1> QED BY <1>7, <1>12

(* ... its link with its peer, ...                                         *)
LEMMA ReaderLinks ==
  ASSUME TInv, WInv, CInv, TInv', NEW i \in Pipes, ReaderTurn(i), TakesMsg(i) \/ TakesOther(i),
         NEW x \in Pipes, Live(sock', i), x = sock[i].peer
  PROVE  NextOnes(x)' /\ Guarded(x)' /\ Linked(i, x)' /\ Linked(x, i)'
<1>1. /\ StepOf(i) /\ NewFramesOK /\ Severing(sock')
      /\ \A k \in Pipes : sock'[k].peer = sock[k].peer
      /\ Elements(sock'[i].in) \subseteq Elements(sock[i].in)
      /\ \A k \in Pipes \ {i} : PairStill(k)
  BY ReaderTurnBasics DEF StepOf
<1>2. /\ rd[i] \in {"read", "dispatch"} /\ rd'[i] \in {"none", "sleep", "read", "dispatch"}
      /\ state' = state /\ wr'[i] = wr[i]
      /\ pipe'[i].peer_global_seq = pipe[i].peer_global_seq
      /\ outq'[i].out_seq = outq[i].out_seq
  BY DEF ReaderTurn, WriterKept
<1>3. Live(sock, i)
  BY <1>1 DEF Live
<1>4. /\ state[i] = "open" /\ wr[i] # "none" /\ wr[i] # "await" /\ x # i
      /\ Live(sock, x) /\ sock[x].peer = i
      /\ Linked(i, x) /\ Linked(x, i)
      /\ rd[x] = "seq" => wr[x] = "none"
  BY <1>2, <1>3, ReaderPair
<1>5. PairStill(x) /\ NextOnes(x) /\ Guarded(x)
  BY <1>1, <1>4 DEF CInv
<1>6. NextOnes(x)'
  BY <1>5, NextKept
<1>7. NoNewAttempts
  BY <1>1, StepNoNewAttempts
<1>8. Guarded(x)'
  <2>1. \A j \in Pipes : Live(sock', x) /\ j = sock[x].peer =>
            /\ state'[j] = "open" /\ state[x] = "open" => state[j] = "open"
            /\ rd'[j] = "reply" => rd[j] = "reply" /\ loc'[j].reply = loc[j].reply
    BY <1>2, <1>4
  <2>2. Live(sock, x) => sock[x].peer \in Pipes
    BY <1>4
  <2>3. /\ TrustsOpen(x)' => TrustsOpen(x) /\ pipe'[x].peer_global_seq = pipe[x].peer_global_seq
        /\ \A b \in Nat : TrustsReply(x, b)' => TrustsReply(x, b)
    BY <1>1, <1>5, <2>1, <2>2, TrustKept
  <2> QED BY <1>5, <1>7, <2>3, GuardedKept
<1>9. /\ state'[x] = state[x] /\ rd'[x] = rd[x] /\ wr'[x] = wr[x] /\ loc'[x] = loc[x]
      /\ outq'[x] = outq[x] /\ pipe'[x].in_seq = pipe[x].in_seq /\ sock'[x].in = sock[x].in
  BY <1>5 DEF PairStill, Still
<1>10. sock[i].in \in Seq(Frames) /\ pipe[i].in_seq \in Nat /\ InUse(i) /\ Listens(i)
  BY <1>2, <1>4, SaneNow DEF Sane, InUse, Listens
<1>11. sock' # sock =>
         /\ rd[i] = "read" /\ sock[i].in # <<>> /\ sock'[i].in = Tail(sock[i].in)
         /\ Head(sock[i].in) \in Elements(sock[i].in)
         /\ Head(sock[i].in).kind \notin {"connect", "reply"}
  <2>1. sock' # sock =>
         /\ rd[i] = "read" /\ sock[i].in # <<>> /\ sock' = Took(sock, i)
         /\ Head(sock[i].in).kind \notin {"connect", "reply"}
    BY <1>4 DEF TakesMsg, TakesOther
  <2> QED BY <1>10, <2>1, TookEffect, ElementsTail
<1>12. CASE sock' = sock
  <2>1. pipe'[i].in_seq = pipe[i].in_seq
    <3>1. CASE TakesOther(i)
      BY <3>1 DEF TakesOther
    <3>2. CASE TakesMsg(i)
      <4>1. Len(Tail(sock[i].in)) = Len(sock[i].in) - 1 /\ Len(sock[i].in) \in Nat
        BY <1>10, <3>2, TailOf DEF TakesMsg
      <4>2. sock'[i].in = Tail(sock[i].in)
        BY <3>2, TookEffect DEF TakesMsg
      <4>3. PICK n \in Nat : n = Len(sock[i].in)
        BY <4>1
      <4>4. n = n - 1
        BY <1>12, <4>1, <4>2, <4>3
      <4> QED BY <4>4
    <3> QED BY <3>1, <3>2
  <2>2. Linked(i, x)'
    <3>1. LastWritten(i)' = LastWritten(i)
      BY <1>2 DEF LastWritten
    <3>0. state[i] = "open" /\ wr[i] # "none" /\ state[x] # "closed"
              => Ends(sock[x].in, pipe[x].in_seq, LastWritten(i))
      BY <1>4 DEF Linked
    <3>2. (state[i] = "open" /\ wr[i] # "none" /\ state[x] # "closed"
              => Ends(sock[x].in, pipe[x].in_seq, LastWritten(i)))'
      <4>1. PICK s, n, z : s = sock[x].in /\ n = pipe[x].in_seq /\ z = LastWritten(i)
        OBVIOUS
      <4>2. sock'[x].in = s /\ pipe'[x].in_seq = n /\ LastWritten(i)' = z
        BY <1>2, <1>9, <3>1, <4>1
      <4>3. state[i] = "open" /\ wr[i] # "none" /\ state[x] # "closed" => Ends(s, n, z)
        BY <3>0, <4>1
      <4>4. state'[i] = "open" /\ wr'[i] # "none" /\ state'[x] # "closed" => Ends(s, n, z)
        BY <1>2, <1>9, <4>3
      <4> QED BY <4>2, <4>4 DEF Ends
    <3>3. /\ (wr[i] = "none" => Only(sock[x].in, "reply"))'
          /\ (wr[i] = "await" => Only(sock[x].in, "connect"))'
      BY <1>2, <1>4
    <3>4. (Awaits(x) /\ state[i] = "open" =>
             /\ pipe[i].peer_global_seq = loc[x].gseq
             /\ rd[i] = "reply" /\ loc[i].reply.tag = "SEQ" => loc[i].reply.acked = pipe[i].in_seq
             /\ sock[x].in # <<>> /\ Answer(x).tag = "SEQ" => Answer(x).acked = pipe[i].in_seq)'
      BY <1>2, <1>4, <1>9, <2>1 DEF Linked, Awaits, Answer
    <3>5. (rd[i] = "seq" /\ state[x] # "closed" =>
             \A f \in Elements(sock[i].in) : f.kind = "seq" => f.seq = pipe[x].in_seq)'
      BY <1>2
    <3> QED BY <3>2, <3>3, <3>4, <3>5 DEF Linked
  <2>3. Linked(x, i)'
    <3>1. LastWritten(x)' = LastWritten(x)
      BY <1>9 DEF LastWritten
    <3>2. (state[x] = "open" /\ wr[x] # "none" /\ state[i] # "closed"
              => Ends(sock[i].in, pipe[i].in_seq, LastWritten(x)))'
      <4>1. PICK s, n, z : s = sock[i].in /\ n = pipe[i].in_seq /\ z = LastWritten(x)
        OBVIOUS
      <4>2. sock'[i].in = s /\ pipe'[i].in_seq = n /\ LastWritten(x)' = z
        BY <1>12, <2>1, <3>1, <4>1
      <4>3. state[x] = "open" /\ wr[x] # "none" /\ state[i] # "closed" => Ends(s, n, z)
        BY <1>4, <4>1 DEF Linked
      <4>4. state'[x] = "open" /\ wr'[x] # "none" /\ state'[i] # "closed" => Ends(s, n, z)
        BY <1>2, <1>9, <4>3
      <4> QED BY <4>2, <4>4 DEF Ends
    <3>3. /\ (wr[x] = "none" => Only(sock[i].in, "reply"))'
          /\ (wr[x] = "await" => Only(sock[i].in, "connect"))'
      BY <1>4, <1>9, <1>12 DEF Linked, Only
    <3>4. ~Awaits(i)'
      BY <1>2, <1>4 DEF Awaits
    <3>5. (rd[x] = "seq" /\ state[i] # "closed" =>
             \A f \in Elements(sock[x].in) : f.kind = "seq" => f.seq = pipe[i].in_seq)'
      BY <1>2, <1>4, <1>9, <2>1 DEF Linked
    <3> QED BY <3>2, <3>3, <3>4, <3>5 DEF Linked
  <2> QED BY <1>6, <1>8, <2>2, <2>3
<1>13. CASE sock' # sock
  <2>1. wr[x] # "none" /\ wr[x] # "await" /\ ~Awaits(x)
    BY <1>4, <1>11, <1>13 DEF Linked, Only, Awaits
  <2>2. Linked(i, x)'
    <3>1. LastWritten(i)' = LastWritten(i)
      BY <1>2 DEF LastWritten
    <3>0. state[i] = "open" /\ wr[i] # "none" /\ state[x] # "closed"
              => Ends(sock[x].in, pipe[x].in_seq, LastWritten(i))
      BY <1>4 DEF Linked
    <3>2. (state[i] = "open" /\ wr[i] # "none" /\ state[x] # "closed"
              => Ends(sock[x].in, pipe[x].in_seq, LastWritten(i)))'
      <4>1. PICK s, n, z : s = sock[x].in /\ n = pipe[x].in_seq /\ z = LastWritten(i)
        OBVIOUS
      <4>2. sock'[x].in = s /\ pipe'[x].in_seq = n /\ LastWritten(i)' = z
        BY <1>2, <1>9, <3>1, <4>1
      <4>3. state[i] = "open" /\ wr[i] # "none" /\ state[x] # "closed" => Ends(s, n, z)
        BY <3>0, <4>1
      <4>4. state'[i] = "open" /\ wr'[i] # "none" /\ state'[x] # "closed" => Ends(s, n, z)
        BY <1>2, <1>9, <4>3
      <4> QED BY <4>2, <4>4 DEF Ends
    <3>3. /\ (wr[i] = "none" => Only(sock[x].in, "reply"))'
          /\ (wr[i] = "await" => Only(sock[x].in, "connect"))'
      BY <1>2, <1>4
    <3>4. ~Awaits(x)'
      BY <1>9, <2>1 DEF Awaits
    <3>5. (rd[i] = "seq" /\ state[x] # "closed" =>
             \A f \in Elements(sock[i].in) : f.kind = "seq" => f.seq = pipe[x].in_seq)'
      BY <1>2
    <3> QED BY <3>2, <3>3, <3>4, <3>5 DEF Linked
  <2>3. Linked(x, i)'
    <3>1. LastWritten(x)' = LastWritten(x)
      BY <1>9 DEF LastWritten
    <3>2. (state[x] = "open" /\ wr[x] # "none" /\ state[i] # "closed"
              => Ends(sock[i].in, pipe[i].in_seq, LastWritten(x)))'
      <4> SUFFICES ASSUME state[x] = "open", state[i] # "closed"
                   PROVE  (Ends(sock[i].in, pipe[i].in_seq, LastWritten(x)))'
        BY <1>2
      <4>0. PICK m : m = LastWritten(x)
        OBVIOUS
      <4>1. Ends(sock[i].in, pipe[i].in_seq, m)
        BY <1>4, <2>1, <4>0 DEF Linked
      <4>2. Climbs(sock[i].in, pipe[i].in_seq)
        BY <1>10 DEF CInv, NextOnes
      <4>3. m \in Nat
        <5>1. Sane(x)
          BY SaneNow
        <5>2. outq[x].out_seq \in Nat
          BY <5>1, QueueNumbers DEF Sane
        <5>3. wr[x] = "msg" => outq[x].out_seq >= 1
          <6>1. wr[x] = "msg" => 1 <= loc[x].msg.seq /\ loc[x].msg.seq = outq[x].out_seq
            BY DEF CInv, PipeOK
          <6> QED BY <5>2, <6>1
        <5> QED BY <4>0, <5>2, <5>3 DEF LastWritten
      <4>4. Ends(Tail(sock[i].in), pipe'[i].in_seq, m)
        <5>1. CASE TakesMsg(i)
          <6>1. pipe'[i].in_seq = pipe[i].in_seq + 1 /\ Head(sock[i].in).kind = "msg"
            BY <5>1, MsgIsNext DEF TakesMsg
          <6> QED BY <1>10, <1>11, <1>13, <4>1, <4>2, <4>3, <6>1, EndsTail
        <5>2. CASE TakesOther(i)
          <6>1. pipe'[i].in_seq = pipe[i].in_seq /\ Head(sock[i].in).kind # "msg"
            BY <1>4, <1>13, <5>2 DEF TakesOther
          <6> QED BY <1>10, <1>11, <1>13, <4>1, <4>2, <4>3, <6>1, EndsTail
        <5> QED BY <5>1, <5>2
      <4>5. sock'[i].in = Tail(sock[i].in) /\ LastWritten(x)' = m
        BY <1>11, <1>13, <3>1, <4>0
      <4> QED BY <4>4, <4>5 DEF Ends
    <3>3. /\ (wr[x] = "none" => Only(sock[i].in, "reply"))'
          /\ (wr[x] = "await" => Only(sock[i].in, "connect"))'
      BY <1>9, <2>1
    <3>4. ~Awaits(i)'
      BY <1>2, <1>4 DEF Awaits
    <3>5. (rd[x] = "seq" /\ state[i] # "closed" =>
             \A f \in Elements(sock[x].in) : f.kind = "seq" => f.seq = pipe[i].in_seq)'
      BY <1>4, <1>9, <2>1
    <3> QED BY <3>2, <3>3, <3>4, <3>5 DEF Linked
  <2> QED BY <1>6, <1>8, <2>2, <2>3
<1> QED BY <1>12, <1>13

(* ... and with them the invariant.                                        *)
LEMMA ReaderTurnCInv ==
  ASSUME TInv, WInv, CInv, TInv', WInv', NEW i \in Pipes, ReaderTurn(i),
         TakesMsg(i) \/ TakesOther(i), NoSession', \A p \in Peers : ReceivedOK(p)'
  PROVE  CInv'
<1>1. StepOf(i) /\ NewFramesOK /\ Grows
  BY ReaderTurnBasics
<1>2. PipeOK(i)' /\ SessionOK(i)'
  BY ReaderPipeSession
<1>3. NextOnes(i)' /\ Guarded(i)'
  BY ReaderNextGuard
<1>4. \A x \in Pipes : Live(sock', i) /\ x = sock[i].peer =>
            NextOnes(x)' /\ Guarded(x)' /\ Linked(i, x)' /\ Linked(x, i)'
  BY ReaderLinks
<1> QED BY <1>1, <1>2, <1>3, <1>4, OneStep

(* Where the reader goes after a turn.                                     *)
LEMMA ReaderNextValues ==
  \A st : /\ ReaderNext(st) \in {"none", "sleep", "read"}
          /\ st \in {"closed", "connecting"} => ReaderNext(st) = "none"
BY DEF ReaderNext

(* A running reader belongs to a Pipe in use or closed.                    *)
LEMMA RunningInUse ==
  ASSUME TInv, NEW i \in Pipes, rd[i] \notin {"none", "accept"} \/ wr[i] # "none", state[i] # "closed"
  PROVE  InUse(i)
<1>1. state[i] \notin {"free", "accepting"}
  BY ThreadsRunning DEF TInv
<1>2. state[i] \in States
  BY SaneNow DEF Sane
<1> QED BY <1>1, <1>2 DEF States, InUse

(* A turn that leaves the queues alone.                                    *)
LEMMA SameConsecutive ==
  ASSUME CInv, NEW i \in Pipes, outq' = outq, submitted' = submitted
  PROVE  /\ outq'[i].out_seq = outq[i].out_seq /\ Top(outq'[i]) = Top(outq[i])
         /\ InUse(i) => /\ Consecutive(outq'[i], submitted[Owner(i)])
                        /\ Base(outq'[i]) = Base(outq[i])
BY DEF CInv, SessionOK

(* An acknowledgement drops messages that the peer has received.           *)
LEMMA ReadAckCInv ==
  ASSUME TInv, WInv, CInv, TInv', WInv', NEW i \in Pipes, ReadAck(i)
  PROVE  CInv'
<1>1. /\ rd[i] = "read" /\ sock[i].in # <<>> /\ Head(sock[i].in).kind = "ack"
      /\ sock' = Took(sock, i)
      /\ outq' = IF state[i] = "closed" THEN outq
                 ELSE [outq EXCEPT ![i] = handle_ack(@, Head(sock[i].in).seq)]
      /\ rd' = [rd EXCEPT ![i] = ReaderNext(state[i])]
      /\ UNCHANGED <<state, pipe, wr, loc, global_seq, in_q, submitted, delivered>>
  BY DEF ReadAck, Reads, Arrived, msgrVars, appVars
<1>2. rd \in [Pipes -> ReaderPC] /\ DOMAIN outq = Pipes
  BY DEF TInv, LInv, Control
<1>3. rd'[i] \in {"none", "sleep", "read"} /\ \A k \in Pipes \ {i} : rd'[k] = rd[k] /\ outq'[k] = outq[k]
  BY <1>1, <1>2, ReaderNextValues
<1>4. TakesOther(i)
  BY <1>1 DEF TakesOther
<1>5. \A k \in Pipes \ {i} : Still(k)
  BY <1>1, <1>3 DEF Still
<1>6. /\ outq'[i].out_seq = outq[i].out_seq /\ Top(outq'[i]) = Top(outq[i])
      /\ InUse(i) => /\ Consecutive(outq'[i], submitted[Owner(i)])
                     /\ \/ Base(outq'[i]) = Base(outq[i])
                        \/ Base(outq'[i]) <= InSeq(Other(Owner(i)))
  <2>1. CASE state[i] = "closed"
    BY <1>1, <2>1 DEF InUse
  <2>2. CASE state[i] # "closed"
    <3>1. InUse(i)
      BY <1>1, <2>2, RunningInUse
    <3>2. PICK a : a = Head(sock[i].in).seq
      OBVIOUS
    <3>3. a \in Nat /\ a <= InSeq(Other(Owner(i)))
      <4>1. Head(sock[i].in) \in Elements(sock[i].in) /\ Head(sock[i].in) \in Frames
        BY <1>1, TakeBuffers
      <4>2. FrameOK(Owner(i), Head(sock[i].in))
        BY <4>1 DEF CInv, FramesOK
      <4> QED BY <1>1, <3>2, <4>1, <4>2, FrameFields DEF FrameOK
    <3>4. PICK q : q = outq[i]
      OBVIOUS
    <3>5. Good(q, Ids) /\ Consecutive(q, submitted[Owner(i)])
      BY <3>1, <3>4, SaneNow DEF Sane, CInv, SessionOK
    <3>6. outq'[i] = handle_ack(q, a)
      BY <1>1, <1>2, <2>2, <3>2, <3>4
    <3>7. /\ Consecutive(handle_ack(q, a), submitted[Owner(i)])
          /\ Base(handle_ack(q, a)) = Base(q) \/ Base(handle_ack(q, a)) <= a
          /\ Top(handle_ack(q, a)) = Top(q) /\ handle_ack(q, a).out_seq = q.out_seq
      BY <3>3, <3>5, AckConsecutive
    <3>8. Base(handle_ack(q, a)) = Base(q) \/ Base(handle_ack(q, a)) <= InSeq(Other(Owner(i)))
      <4>1. InSeq(Other(Owner(i))) \in Nat
        BY OwnerIsPeer, OtherPeer, PeerTypes
      <4>2. Base(handle_ack(q, a)) \in Nat
        BY <3>5, HandleAckGood, QueueNumbers
      <4> QED BY <3>3, <3>7, <4>1, <4>2
    <3> QED BY <3>4, <3>6, <3>7, <3>8
  <2> QED BY <2>1, <2>2
<1>7. ReaderTurn(i)
  BY <1>1, <1>3, <1>5, <1>6 DEF ReaderTurn, WriterKept
<1>8. NoSession' /\ \A p \in Peers : ReceivedOK(p)'
  BY <1>1, <1>3, <1>5, NothingReceived DEF InUse
<1> QED BY <1>4, <1>7, <1>8, ReaderTurnCInv

(* The fields of a Pipe that matter here, in two versions of it.           *)
SameFields(r, s) ==
  /\ r.connect_seq = s.connect_seq /\ r.in_seq = s.in_seq
  /\ r.peer_global_seq = s.peer_global_seq /\ r.conn_id = s.conn_id /\ r.lossy = s.lossy

(* Setting a flag leaves the fields of a Pipe that matter alone, ...       *)
LEMMA FlagUpdates ==
  ASSUME NEW r \in PipeType, NEW b
  PROVE  /\ SameFields([r EXCEPT !.send_keepalive_ack = b], r)
         /\ SameFields([r EXCEPT !.send_keepalive = b], r)
         /\ SameFields([r EXCEPT !.in_seq_acked = b], r)
         /\ SameFields(Detached(r), r) /\ SameFields(r, r)
BY DEF PipeType, SameFields, Detached

(* ... and so leaves every Pipe alone.                                     *)
LEMMA FlagsKeep ==
  ASSUME TInv, NEW i \in Pipes, NEW r, SameFields(r, pipe[i]), pipe' = [pipe EXCEPT ![i] = r]
  PROVE  \A k \in Pipes : SameFields(pipe'[k], pipe[k])
<1>1. DOMAIN pipe = Pipes
  BY DEF TInv, LInv, Control
<1>2. pipe'[i] = r /\ \A k \in Pipes \ {i} : pipe'[k] = pipe[k]
  BY <1>1
<1> QED BY <1>2 DEF SameFields

(* A keepalive sets a flag at most.                                        *)
LEMMA ReadKeepaliveCInv ==
  ASSUME TInv, WInv, CInv, TInv', WInv', NEW i \in Pipes, ReadKeepalive(i)
  PROVE  CInv'
<1>1. /\ rd[i] = "read" /\ sock[i].in # <<>>
      /\ Head(sock[i].in).kind \in {"keepalive", "keepalive_ack"}
      /\ sock' = Took(sock, i)
      /\ pipe' = pipe \/ pipe' = [pipe EXCEPT ![i].send_keepalive_ack = TRUE]
      /\ rd' = [rd EXCEPT ![i] = ReaderNext(state[i])]
      /\ UNCHANGED <<state, outq, wr, loc, global_seq, in_q, submitted, delivered>>
  BY DEF ReadKeepalive, Reads, Arrived, msgrVars, appVars
<1>2. rd \in [Pipes -> ReaderPC] /\ pipe \in [Pipes -> PipeType]
  BY DEF TInv, LInv, Control, DataOK
<1>3. rd'[i] \in {"none", "sleep", "read"} /\ \A k \in Pipes \ {i} : rd'[k] = rd[k]
  BY <1>1, <1>2, ReaderNextValues
<1>4. \A k \in Pipes :
        /\ pipe'[k].connect_seq = pipe[k].connect_seq /\ pipe'[k].in_seq = pipe[k].in_seq
        /\ pipe'[k].peer_global_seq = pipe[k].peer_global_seq
        /\ pipe'[k].conn_id = pipe[k].conn_id /\ pipe'[k].lossy = pipe[k].lossy
  <2>1. CASE pipe' = pipe
    BY <2>1
  <2>2. CASE pipe' = [pipe EXCEPT ![i].send_keepalive_ack = TRUE]
    <3>1. PICK r : r = [pipe[i] EXCEPT !.send_keepalive_ack = TRUE]
      OBVIOUS
    <3>2. SameFields(r, pipe[i])
      BY <1>2, <3>1, FlagUpdates
    <3>3. pipe' = [pipe EXCEPT ![i] = r]
      BY <2>2, <3>1
    <3> QED BY <3>2, <3>3, FlagsKeep DEF SameFields
  <2> QED BY <1>1, <2>1, <2>2
<1>5. TakesOther(i)
  BY <1>1, <1>4 DEF TakesOther
<1>6. \A k \in Pipes \ {i} : Still(k)
  BY <1>1, <1>3, <1>4 DEF Still
<1>7. ReaderTurn(i)
  BY <1>1, <1>3, <1>4, <1>6, SameConsecutive DEF ReaderTurn, WriterKept
<1>8. NoSession' /\ \A p \in Peers : ReceivedOK(p)'
  BY <1>1, <1>3, <1>4, <1>6, NothingReceived DEF InUse
<1> QED BY <1>5, <1>7, <1>8, ReaderTurnCInv

(* One more message is numbered.                                           *)
LEMMA NumbersAppend ==
  ASSUME NEW s \in Seq(Ids), NEW n \in Nat, Numbers(s, n), NEW m \in Nat, m = n + Len(s) + 1
  PROVE  Numbers(Append(s, m), n) /\ Len(Append(s, m)) = Len(s) + 1 /\ Append(s, m) \in Seq(Ids)
<1>1. /\ Append(s, m) \in Seq(Ids) /\ Len(s) \in Nat /\ Len(Append(s, m)) = Len(s) + 1
      /\ \A k \in 1..Len(s) : Append(s, m)[k] = s[k]
      /\ Append(s, m)[Len(s) + 1] = m
  BY AppendOf DEF Ids
<1>2. PICK t : t = Append(s, m)
  OBVIOUS
<1>3. ASSUME NEW k \in 1..(Len(s) + 1) PROVE t[k] = n + k
  <2>1. k \in 1..Len(s) \/ k = Len(s) + 1
    BY <1>1
  <2>2. CASE k \in 1..Len(s)
    BY <1>1, <1>2, <2>2 DEF Numbers
  <2>3. CASE k = Len(s) + 1
    BY <1>1, <1>2, <2>3
  <2> QED BY <2>1, <2>2, <2>3
<1> QED BY <1>1, <1>2, <1>3 DEF Numbers

(* The first of the messages n+1, n+2, ... is delivered.                   *)
LEMMA NumbersTail ==
  ASSUME NEW s \in Seq(Ids), s # <<>>, NEW n \in Nat, Numbers(s, n)
  PROVE  /\ Head(s) = n + 1 /\ Numbers(Tail(s), n + 1) /\ Len(Tail(s)) = Len(s) - 1
         /\ Tail(s) \in Seq(Ids) /\ Len(s) \in Nat /\ 1 <= Len(s)
<1>1. /\ Tail(s) \in Seq(Ids) /\ Len(s) \in Nat /\ 1 <= Len(s) /\ Len(Tail(s)) = Len(s) - 1
      /\ Head(s) = s[1]
      /\ \A k \in 1..(Len(s) - 1) : Tail(s)[k] = s[k + 1]
  BY TailOf
<1>2. PICK t : t = Tail(s)
  OBVIOUS
<1>3. ASSUME NEW k \in 1..(Len(s) - 1) PROVE t[k] = n + 1 + k
  <2>1. k + 1 \in 1..Len(s) /\ t[k] = s[k + 1]
    BY <1>1, <1>2
  <2> QED BY <2>1 DEF Numbers
<1> QED BY <1>1, <1>2, <1>3 DEF Numbers

(* What has been received by the messenger of the registered Pipe i.       *)
LEMMA ReceivedBy ==
  ASSUME TInv, NEW i \in Pipes, InUse(i), NEW p, p = Owner(i), ReceivedOK(p)
  PROVE  /\ Numbers(delivered[p], 0)
         /\ \A c \in ConnIds : in_q[p][c] # <<>> => c = pipe[i].conn_id /\ ~FastDispatch
         /\ \A j \in Pipes : Owner(j) = p /\ rd[j] = "dispatch" => FastDispatch /\ j = i
         /\ Numbers(in_q[p][pipe[i].conn_id], Len(delivered[p]))
         /\ Len(delivered[p]) + Len(in_q[p][pipe[i].conn_id]) + InHand(i) = pipe[i].in_seq
         /\ rd[i] = "dispatch" => loc[i].id = pipe[i].in_seq
<1>1. Lookup(p) = i /\ i # None
  BY InUseLookup
<1> QED BY <1>1 DEF ReceivedOK

(* The same, to be shown of what p has after a step.                       *)
LEMMA ReceivedByLater ==
  ASSUME TInv', NEW i \in Pipes, InUse(i)', NEW p, p = Owner(i),
         Numbers(delivered'[p], 0),
         \A c \in ConnIds : in_q'[p][c] # <<>> => c = pipe'[i].conn_id /\ ~FastDispatch,
         \A j \in Pipes : Owner(j) = p /\ rd'[j] = "dispatch" => FastDispatch /\ j = i,
         Numbers(in_q'[p][pipe'[i].conn_id], Len(delivered'[p])),
         Len(delivered'[p]) + Len(in_q'[p][pipe'[i].conn_id]) + InHand(i)' = pipe'[i].in_seq,
         rd'[i] = "dispatch" => loc'[i].id = pipe'[i].in_seq
  PROVE  ReceivedOK(p)'
<1>1. Lookup(p)' = i /\ i # None
  BY InUseLookupLater
<1>2. /\ Numbers(delivered[p], 0)'
      /\ (\A c \in ConnIds : in_q[p][c] # <<>> =>
            Lookup(p) # None /\ c = pipe[Lookup(p)].conn_id /\ ~FastDispatch)'
      /\ (\A j \in Pipes : Owner(j) = p /\ rd[j] = "dispatch" => FastDispatch /\ j = Lookup(p))'
      /\ (Lookup(p) = None => delivered[p] = <<>>)'
  BY <1>1 DEF Numbers
<1>3. (LET e == Lookup(p)
           s == in_q[p][pipe[e].conn_id]
       IN  /\ Numbers(s, Len(delivered[p]))
           /\ Len(delivered[p]) + Len(s) + InHand(e) = pipe[e].in_seq
           /\ rd[e] = "dispatch" => loc[e].id = pipe[e].in_seq)'
  BY <1>1 DEF Numbers, InHand
<1> QED BY <1>2, <1>3 DEF ReceivedOK

(* Pipe i is the only one of its messenger that this concerns.             *)
LEMMA OthersReceived ==
  ASSUME TInv, CInv, TInv', NEW i \in Pipes, \A k \in Pipes : InUse(k)' <=> InUse(k),
         \A k \in Pipes : Owner(k) # Owner(i) =>
            /\ rd'[k] = rd[k] /\ loc'[k].id = loc[k].id
            /\ pipe'[k].in_seq = pipe[k].in_seq /\ pipe'[k].conn_id = pipe[k].conn_id,
         \A p \in Peers : p # Owner(i) => in_q'[p] = in_q[p] /\ delivered'[p] = delivered[p],
         submitted' = submitted, ReceivedOK(Owner(i))'
  PROVE  NoSession' /\ \A p \in Peers : ReceivedOK(p)'
<1>1. \A p \in Peers : Lookup(p)' = Lookup(p)
  BY LookupSame
<1>2. NoSession'
  BY <1>1 DEF CInv, NoSession
<1>3. ASSUME NEW p \in Peers, p # Owner(i)
      PROVE  ReceivedOK(p)'
  <2>1. ReceivedOK(p) /\ Lookup(p)' = Lookup(p) /\ in_q'[p] = in_q[p] /\ delivered'[p] = delivered[p]
    BY <1>1, <1>3 DEF CInv
  <2>2. \A k \in Pipes : k = Lookup(p) => Owner(k) = p
    BY LookupInUse, NoneIsNoPipe
  <2>3. /\ \A k \in Pipes : Owner(k) = p =>
            /\ rd'[k] = "dispatch" <=> rd[k] = "dispatch"
            /\ rd[k] = "dispatch" => loc'[k].id = loc[k].id
        /\ \A k \in Pipes : k = Lookup(p) =>
            pipe'[k].in_seq = pipe[k].in_seq /\ pipe'[k].conn_id = pipe[k].conn_id
    BY <1>3, <2>2
  <2> QED BY <2>1, <2>3, ReceivedKept
<1> QED BY <1>2, <1>3, OwnerIsPeer

(* A message read by a Pipe that is no longer open is ignored.             *)
LEMMA ReadMsgIgnored ==
  ASSUME TInv, WInv, CInv, TInv', WInv', NEW i \in Pipes, ReadMsg(i),
         state[i] \in {"closed", "connecting"}
  PROVE  CInv'
<1>1. /\ rd[i] = "read" /\ sock[i].in # <<>> /\ sock' = Took(sock, i)
      /\ rd' = [rd EXCEPT ![i] = ReaderNext(state[i])]
      /\ UNCHANGED <<state, pipe, outq, wr, loc, global_seq, in_q, submitted, delivered>>
  BY DEF ReadMsg, Reads, Arrived, appVars
<1>2. rd \in [Pipes -> ReaderPC]
  BY DEF TInv, LInv, Control
<1>3. rd'[i] = "none" /\ \A k \in Pipes \ {i} : rd'[k] = rd[k]
  BY <1>1, <1>2, ReaderNextValues
<1>4. TakesOther(i)
  BY <1>1, <1>3 DEF TakesOther
<1>5. \A k \in Pipes \ {i} : Still(k)
  BY <1>1, <1>3 DEF Still
<1>6. ReaderTurn(i)
  BY <1>1, <1>3, <1>5, SameConsecutive DEF ReaderTurn, WriterKept
<1>7. NoSession' /\ \A p \in Peers : ReceivedOK(p)'
  BY <1>1, <1>3, <1>5, NothingReceived DEF InUse
<1> QED BY <1>4, <1>6, <1>7, ReaderTurnCInv

(* Otherwise it is the next one, and goes to the dispatch queue.           *)
LEMMA ReadMsgCInv ==
  ASSUME TInv, WInv, CInv, TInv', WInv', NEW i \in Pipes, ReadMsg(i)
  PROVE  CInv'
<1> DEFINE m == Head(sock[i].in).msg
           p == Owner(i)
           c == pipe[i].conn_id
<1>1. CASE state[i] \in {"closed", "connecting"}
  BY <1>1, ReadMsgIgnored
<1>2. CASE state[i] \notin {"closed", "connecting"}
  <2>1. /\ rd[i] = "read" /\ sock[i].in # <<>> /\ sock' = Took(sock, i)
        /\ Head(sock[i].in).kind = "msg"
        /\ UNCHANGED <<state, outq, wr, global_seq, submitted, delivered>>
    BY DEF ReadMsg, Reads, Arrived, appVars
  <2>2. InUse(i) /\ Listens(i)
    BY <1>2, <2>1, RunningInUse DEF Listens
  <2>3. m.seq = pipe[i].in_seq + 1 /\ m.seq \in Nat /\ m.id = m.seq /\ pipe[i].in_seq \in Nat
    BY <2>1, <2>2, MsgIsNext, SaneNow DEF Sane
  <2>4. ~(m.seq <= pipe[i].in_seq)
    BY <2>3
  <2>5. /\ pipe' = [pipe EXCEPT ![i].in_seq = m.seq]
        /\ IF FastDispatch
           THEN /\ rd' = [rd EXCEPT ![i] = "dispatch"]
                /\ loc' = [loc EXCEPT ![i].id = m.id]
                /\ UNCHANGED in_q
           ELSE /\ rd' = [rd EXCEPT ![i] = ReaderNext(state[i])]
                /\ in_q' = [in_q EXCEPT ![p][c] = Append(@, m.id)]
                /\ UNCHANGED loc
    BY <1>2, <2>4 DEF ReadMsg
  <2>6. /\ rd \in [Pipes -> ReaderPC] /\ pipe \in [Pipes -> PipeType] /\ loc \in [Pipes -> LocType]
        /\ in_q \in [Peers -> [ConnIds -> Seq(Ids)]] /\ delivered \in [Peers -> Seq(Ids)]
    BY DEF TInv, LInv, Control, DataOK
  <2> HIDE DEF m
  <2>7. /\ pipe'[i].connect_seq = pipe[i].connect_seq /\ pipe'[i].lossy = pipe[i].lossy
        /\ pipe'[i].peer_global_seq = pipe[i].peer_global_seq
        /\ pipe'[i].conn_id = pipe[i].conn_id /\ pipe'[i].in_seq = m.seq
        /\ \A k \in Pipes \ {i} : pipe'[k] = pipe[k]
    BY <2>5, <2>6 DEF PipeType
  <2>8. /\ WriterKept(i) /\ \A k \in Pipes \ {i} : loc'[k] = loc[k] /\ rd'[k] = rd[k]
        /\ rd'[i] \in {"none", "sleep", "read", "dispatch"}
    BY <2>1, <2>5, <2>6, ReaderNextValues DEF WriterKept, LocType
  <2>9. \A k \in Pipes \ {i} : Still(k)
    BY <2>1, <2>7, <2>8 DEF Still
  <2>10. ReaderTurn(i)
    BY <2>1, <2>7, <2>8, <2>9, SameConsecutive DEF ReaderTurn
  <2>11. TakesMsg(i)
    BY <2>1, <2>2, <2>7 DEF TakesMsg, m
  <2>12. InUse(i)'
    BY <2>1, <2>2 DEF InUse
  <2>13. p \in Peers /\ c \in ConnIds
    BY <2>2, OwnerIsPeer DEF CInv, PipeOK, InUse
  <2>14. ReceivedOK(p)
    BY <2>13 DEF CInv
  <2> HIDE DEF p, c
  <2>15. /\ Numbers(delivered[p], 0)
         /\ \A d \in ConnIds : in_q[p][d] # <<>> => d = c /\ ~FastDispatch
         /\ \A j \in Pipes : Owner(j) = p /\ rd[j] = "dispatch" => FastDispatch /\ j = i
         /\ Numbers(in_q[p][c], Len(delivered[p]))
         /\ Len(delivered[p]) + Len(in_q[p][c]) + InHand(i) = pipe[i].in_seq
    BY <2>2, <2>14, ReceivedBy DEF p, c
  <2>16. InHand(i) = 0 /\ Len(delivered[p]) \in Nat /\ in_q[p][c] \in Seq(Ids) /\ Len(in_q[p][c]) \in Nat
    BY <2>1, <2>6, <2>13, LenProperties DEF InHand
  <2>a. PICK a \in Nat, b \in Nat, n \in Nat, h \in Nat :
           a = Len(delivered[p]) /\ b = Len(in_q[p][c]) /\ n = pipe[i].in_seq /\ h = InHand(i)
    BY <2>3, <2>16
  <2>b. a + b + h = n /\ h = 0
    BY <2>15, <2>16, <2>a
  <2>c. n = a + b /\ m.seq = n + 1 /\ m.seq = a + b + 1
    <3>1. \A u, v, w \in Nat : w = 0 => u + v + w = u + v
      OBVIOUS
    <3>2. n = a + b
      BY <2>b, <3>1
    <3>3. m.seq = n + 1
      BY <2>3, <2>a
    <3> QED BY <3>2, <3>3
  <2>17. ReceivedOK(p)'
    <3>1. CASE FastDispatch
      <4>1. /\ rd'[i] = "dispatch" /\ loc'[i].id = m.seq /\ in_q' = in_q /\ InHand(i)' = 1
        BY <2>3, <2>5, <2>6, <3>1 DEF LocType, InHand
      <4>2. Len(delivered'[p]) + Len(in_q'[p][pipe'[i].conn_id]) + InHand(i)' = pipe'[i].in_seq
        <5>1. Len(delivered'[p]) = a /\ Len(in_q'[p][pipe'[i].conn_id]) = b
          BY <2>1, <2>7, <2>a, <4>1 DEF c
        <5>2. InHand(i)' = 1 /\ pipe'[i].in_seq = a + b + 1
          BY <2>7, <2>c, <4>1
        <5> QED BY <5>1, <5>2
      <4>3. /\ Numbers(delivered'[p], 0)
            /\ \A d \in ConnIds : in_q'[p][d] # <<>> => d = pipe'[i].conn_id /\ ~FastDispatch
            /\ \A j \in Pipes : Owner(j) = p /\ rd'[j] = "dispatch" => FastDispatch /\ j = i
            /\ Numbers(in_q'[p][pipe'[i].conn_id], Len(delivered'[p]))
        BY <2>1, <2>7, <2>8, <2>15, <3>1, <4>1 DEF c
      <4> QED BY <2>7, <2>12, <4>1, <4>2, <4>3, ReceivedByLater DEF p
    <3>2. CASE ~FastDispatch
      <4>1. /\ rd'[i] # "dispatch" /\ in_q' = [in_q EXCEPT ![p][c] = Append(@, m.id)] /\ InHand(i)' = 0
        BY <2>5, <2>6, <3>2, ReaderNextValues DEF InHand, p, c
      <4>2. PICK s : s = in_q[p][c]
        OBVIOUS
      <4>3. in_q'[p][c] = Append(s, m.seq) /\ \A d \in ConnIds \ {c} : in_q'[p][d] = in_q[p][d]
        BY <2>3, <2>6, <2>13, <4>1, <4>2
      <4>4. /\ Numbers(Append(s, m.seq), Len(delivered[p])) /\ Len(Append(s, m.seq)) = Len(s) + 1
        <5>1. s \in Seq(Ids) /\ Numbers(s, a) /\ m.seq = a + Len(s) + 1
          BY <2>15, <2>16, <2>a, <2>c, <4>2
        <5> QED BY <2>3, <2>a, <5>1, NumbersAppend
      <4>5. Len(delivered'[p]) + Len(in_q'[p][pipe'[i].conn_id]) + InHand(i)' = pipe'[i].in_seq
        <5>1. Len(delivered'[p]) = a
          BY <2>1, <2>a
        <5>2. Len(in_q'[p][pipe'[i].conn_id]) = b + 1
          BY <2>7, <2>a, <4>2, <4>3, <4>4 DEF c
        <5>3. InHand(i)' = 0 /\ pipe'[i].in_seq = a + b + 1
          BY <2>7, <2>c, <4>1
        <5> QED BY <5>1, <5>2, <5>3
      <4>6. /\ Numbers(delivered'[p], 0)
            /\ \A d \in ConnIds : in_q'[p][d] # <<>> => d = pipe'[i].conn_id /\ ~FastDispatch
            /\ \A j \in Pipes : Owner(j) = p /\ rd'[j] = "dispatch" => FastDispatch /\ j = i
            /\ Numbers(in_q'[p][pipe'[i].conn_id], Len(delivered'[p]))
        BY <2>1, <2>7, <2>8, <2>15, <3>2, <4>1, <4>3, <4>4 DEF c
      <4> QED BY <2>7, <2>12, <4>1, <4>5, <4>6, ReceivedByLater DEF p
    <3> QED BY <3>1, <3>2
  <2>18. \A r \in Peers : r # p => in_q'[r] = in_q[r] /\ delivered'[r] = delivered[r]
    BY <2>1, <2>5, <2>6
  <2>19. NoSession' /\ \A r \in Peers : ReceivedOK(r)'
    <3>1. \A k \in Pipes : InUse(k)' <=> InUse(k)
      BY <2>1 DEF InUse
    <3>2. \A k \in Pipes : Owner(k) # Owner(i) =>
            /\ rd'[k] = rd[k] /\ loc'[k].id = loc[k].id
            /\ pipe'[k].in_seq = pipe[k].in_seq /\ pipe'[k].conn_id = pipe[k].conn_id
      BY <2>9 DEF Still
    <3> QED BY <2>1, <2>17, <2>18, <3>1, <3>2, OthersReceived DEF p
  <2> QED BY <2>10, <2>11, <2>19, ReaderTurnCInv
<1> QED BY <1>1, <1>2

(* fast_dispatch returns.                                                  *)
LEMMA DispatchedCInv ==
  ASSUME TInv, WInv, CInv, TInv', WInv', NEW i \in Pipes, Dispatched(i)
  PROVE  CInv'
<1> DEFINE p == Owner(i)
           c == pipe[i].conn_id
<1>1. /\ rd[i] = "dispatch" /\ rd' = [rd EXCEPT ![i] = ReaderNext(state[i])]
      /\ delivered' = [delivered EXCEPT ![p] = Append(@, loc[i].id)]
      /\ loc' = [loc EXCEPT ![i].id = 0]
      /\ UNCHANGED <<state, pipe, outq, wr, sock, global_seq, in_q, submitted>>
  BY DEF Dispatched, msgrVars
<1>2. /\ rd \in [Pipes -> ReaderPC] /\ pipe \in [Pipes -> PipeType] /\ loc \in [Pipes -> LocType]
      /\ in_q \in [Peers -> [ConnIds -> Seq(Ids)]] /\ delivered \in [Peers -> Seq(Ids)]
  BY DEF TInv, LInv, Control, DataOK
<1>3. /\ rd'[i] \in {"none", "sleep", "read"} /\ WriterKept(i)
      /\ \A k \in Pipes \ {i} : rd'[k] = rd[k] /\ loc'[k] = loc[k]
  BY <1>1, <1>2, ReaderNextValues DEF WriterKept, LocType
<1>4. \A k \in Pipes \ {i} : Still(k)
  BY <1>1, <1>3 DEF Still
<1>5. ReaderTurn(i)
  BY <1>1, <1>3, <1>4, SameConsecutive DEF ReaderTurn
<1>6. TakesOther(i)
  BY <1>1 DEF TakesOther
<1>7. p \in Peers /\ ReceivedOK(p)
  BY OwnerIsPeer DEF CInv
<1>8. FastDispatch /\ i = Lookup(p)
  BY <1>1, <1>7 DEF ReceivedOK
<1>9. InUse(i) /\ InUse(i)'
  BY <1>1, <1>7, <1>8, LookupInUse, NoneIsNoPipe DEF InUse
<1>10. c \in ConnIds
  BY <1>9 DEF CInv, PipeOK, InUse
<1> HIDE DEF p, c
<1>11. /\ Numbers(delivered[p], 0)
       /\ \A d \in ConnIds : in_q[p][d] # <<>> => d = c /\ ~FastDispatch
       /\ \A j \in Pipes : Owner(j) = p /\ rd[j] = "dispatch" => FastDispatch /\ j = i
       /\ Len(delivered[p]) + Len(in_q[p][c]) + InHand(i) = pipe[i].in_seq
       /\ loc[i].id = pipe[i].in_seq
  <2>1. ReceivedOK(Owner(i))
    BY <1>7 DEF p
  <2>2. /\ Numbers(delivered[Owner(i)], 0)
        /\ \A d \in ConnIds : in_q[Owner(i)][d] # <<>> => d = pipe[i].conn_id /\ ~FastDispatch
        /\ \A j \in Pipes : Owner(j) = Owner(i) /\ rd[j] = "dispatch" => FastDispatch /\ j = i
        /\ Len(delivered[Owner(i)]) + Len(in_q[Owner(i)][pipe[i].conn_id]) + InHand(i) = pipe[i].in_seq
        /\ rd[i] = "dispatch" => loc[i].id = pipe[i].in_seq
    BY <1>9, <2>1, ReceivedBy
  <2> QED BY <1>1, <2>2 DEF p, c
<1>12. in_q[p][c] = <<>> /\ InHand(i) = 1 /\ InHand(i)' = 0
  BY <1>1, <1>3, <1>8, <1>10, <1>11 DEF InHand
<1>13. PICK s \in Seq(Ids) : s = delivered[p]
  BY <1>2, <1>7
<1>14. Len(s) \in Nat /\ Len(<<>>) = 0
  BY EmptySeq, LenProperties
<1>15. pipe[i].in_seq = Len(s) + 1
  <2>1. PICK a \in Nat, h \in Nat, b \in Nat : a = Len(s) /\ h = InHand(i) /\ b = Len(in_q[p][c])
    BY <1>12, <1>14
  <2>2. a + b + h = pipe[i].in_seq /\ h = 1 /\ b = 0
    BY <1>11, <1>12, <1>13, <1>14, <2>1
  <2>3. a + b + h = a + 1
    BY <2>2
  <2> QED BY <2>1, <2>2, <2>3
<1>16. delivered'[p] = Append(s, loc[i].id) /\ loc[i].id = Len(s) + 1
  BY <1>1, <1>2, <1>7, <1>11, <1>13, <1>15 DEF p
<1>17. Numbers(delivered'[p], 0) /\ Len(delivered'[p]) = Len(s) + 1
  <2>1. Len(s) + 1 = 0 + Len(s) + 1 /\ Len(s) + 1 \in Nat
    BY <1>14
  <2>2. Numbers(s, 0)
    BY <1>11, <1>13
  <2> QED BY <1>16, <2>1, <2>2, NumbersAppend
<1>18. ReceivedOK(p)'
  <2>1. /\ \A d \in ConnIds : in_q'[p][d] = <<>>
        /\ in_q'[p][pipe'[i].conn_id] = <<>>
    BY <1>1, <1>8, <1>10, <1>11, <1>12 DEF c
  <2>2. Len(delivered'[p]) + Len(in_q'[p][pipe'[i].conn_id]) + InHand(i)' = pipe'[i].in_seq
    <3>1. PICK n \in Nat : n = Len(s)
      BY <1>14
    <3>2. Len(delivered'[p]) = n + 1 /\ Len(in_q'[p][pipe'[i].conn_id]) = 0 /\ InHand(i)' = 0
          /\ pipe'[i].in_seq = n + 1
      BY <1>1, <1>12, <1>14, <1>15, <1>17, <2>1, <3>1
    <3>3. n + 1 + 0 + 0 = n + 1
      OBVIOUS
    <3> QED BY <3>2, <3>3
  <2>3. Numbers(<<>>, Len(delivered'[p]))
    BY <1>14 DEF Numbers
  <2>4. \A j \in Pipes : Owner(j) = p /\ rd'[j] = "dispatch" => FastDispatch /\ j = i
    BY <1>3, <1>11
  <2> QED BY <1>3, <1>9, <1>17, <2>1, <2>2, <2>3, <2>4, ReceivedByLater DEF p
<1>19. NoSession' /\ \A r \in Peers : ReceivedOK(r)'
  <2>1. \A k \in Pipes : InUse(k)' <=> InUse(k)
    BY <1>1 DEF InUse
  <2>2. \A k \in Pipes : Owner(k) # Owner(i) =>
            /\ rd'[k] = rd[k] /\ loc'[k].id = loc[k].id
            /\ pipe'[k].in_seq = pipe[k].in_seq /\ pipe'[k].conn_id = pipe[k].conn_id
    BY <1>4 DEF Still
  <2>3. \A r \in Peers : r # p => in_q'[r] = in_q[r] /\ delivered'[r] = delivered[r]
    BY <1>1, <1>2 DEF p
  <2> QED BY <1>1, <1>18, <2>1, <2>2, <2>3, OthersReceived DEF p
<1> QED BY <1>5, <1>6, <1>19, ReaderTurnCInv
-----------------------------------------------------------------------------
(* A step that changes no Pipe, except that connections may break.         *)
LEMMA QuietCInv ==
  ASSUME TInv, WInv, CInv, TInv', WInv', Severing(sock'), \A k \in Pipes : PairStill(k),
         global_seq' = global_seq, submitted' = submitted,
         NoSession', \A p \in Peers : ReceivedOK(p)'
  PROVE  CInv'
<1>1. \A k \in Pipes : Still(k) /\ sock'[k].in = sock[k].in
  BY DEF PairStill
<1>2. \A i \in Pipes : StepOf(i)
  BY <1>1 DEF StepOf, Still, Attempting
<1>3. NewFramesOK
  BY <1>1 DEF NewFramesOK
<1>4. Grows
  <2>1. \A p \in Peers : global_seq[p] <= global_seq'[p]
    BY SeqTypes
  <2>2. \A k \in Pipes : InUse(k) => \E j \in Pipes : CarriesOn(k, j)
    BY <1>1, StillCarriesOn
  <2> QED BY <2>1, <2>2, GrowsBy
<1>5. NoNewAttempts
  BY <1>1 DEF NoNewAttempts, Still
<1>6. ASSUME NEW k \in Pipes
      PROVE  PipeOK(k)' /\ SessionOK(k)' /\ NextOnes(k)' /\ Guarded(k)'
  <2>1. PipeOK(k) /\ SessionOK(k) /\ NextOnes(k) /\ Guarded(k)
    BY DEF CInv
  <2>2. PipeOK(k)'
    <3>1. rd[k] = "accept" => Len(sock'[k].in) <= 1
      BY <1>1, <2>1 DEF PipeOK
    <3>2. \A f \in Elements(sock'[k].in) : f \in Elements(sock[k].in)
      BY <1>1
    <3> QED BY <1>1, <1>4, <2>1, <3>1, <3>2, PipeKept
  <2>3. SessionOK(k)'
    BY <1>1, <1>4, <2>1, SessionKept
  <2>4. NextOnes(k)'
    BY <2>1, NextKept
  <2>5. Guarded(k)'
    <3>1. \A j \in Pipes : Live(sock', k) /\ j = sock[k].peer =>
            /\ state'[j] = "open" /\ state[k] = "open" => state[j] = "open"
            /\ rd'[j] = "reply" => rd[j] = "reply" /\ loc'[j].reply = loc[j].reply
      BY <1>1 DEF Still
    <3>2. Live(sock, k) => sock[k].peer \in Pipes
      BY PeerIsPipe
    <3>3. /\ TrustsOpen(k)' => TrustsOpen(k) /\ pipe'[k].peer_global_seq = pipe[k].peer_global_seq
          /\ \A b \in Nat : TrustsReply(k, b)' => TrustsReply(k, b)
      BY <3>1, <3>2, TrustKept
    <3> QED BY <1>5, <2>1, <3>3, GuardedKept
  <2> QED BY <2>2, <2>3, <2>4, <2>5
<1>7. \A k \in Pipes : PairOK(k)'
  BY PairsKept
<1>8. \A k \in Pipes : Newest(k)'
  BY <1>1, <1>5, NewestKept DEF CInv, Attempting, Still
<1>9. FramesOK'
  BY <1>3, <1>4, FramesKept DEF NewFramesOK
<1>10. LosslessPeers'
  BY DEF CInv, LosslessPeers
<1> QED BY <1>6, <1>7, <1>8, <1>9, <1>10 DEF CInv

(* A connection breaks.                                                    *)
LEMMA NetFaultCInv ==
  ASSUME TInv, WInv, CInv, TInv', WInv', NEW i \in Pipes, NetFault(i)
  PROVE  CInv'
<1>1. /\ sock' = Shut(sock, i)
      /\ UNCHANGED <<state, pipe, outq, rd, wr, loc, global_seq, in_q, submitted, delivered>>
  BY DEF NetFault, msgrVars, appVars
<1>2. Severing(sock') /\ \A k \in Pipes : sock'[k].in = sock[k].in
  <2>1. Severing(sock') /\ \A k \in Pipes \ {i} : sock'[k].in = sock[k].in
    BY <1>1, CutSevers
  <2>2. sock'[i].in = sock[i].in
    <3>1. sock \in Socks
      BY DEF TInv, DataOK, Socks
    <3>2. Cut(sock, i)[i].in = sock[i].in /\ Cut(sock, i) \in Socks
      BY <3>1, CutType DEF Cut, Socks, SockType
    <3>3. PICK c \in Socks : c = Cut(sock, i)
      BY <3>2
    <3>4. sock' = [c EXCEPT ![i].up = FALSE] /\ c[i].in = sock[i].in
      BY <1>1, <3>2, <3>3 DEF Shut
    <3> QED BY <3>4 DEF Socks, SockType
  <2> QED BY <2>1, <2>2
<1>3. \A k \in Pipes : PairStill(k)
  BY <1>1, <1>2 DEF PairStill, Still
<1>4. NoSession' /\ \A p \in Peers : ReceivedOK(p)'
  BY <1>1, <1>3, NothingReceived DEF InUse, PairStill
<1> QED BY <1>1, <1>2, <1>3, <1>4, QuietCInv

(* The application asks for a keepalive.                                   *)
LEMMA SendKeepaliveCInv ==
  ASSUME TInv, WInv, CInv, TInv', WInv', NEW p \in Peers, SendKeepalive(p)
  PROVE  CInv'
<1>1. /\ Lookup(p) # None /\ pipe' = [pipe EXCEPT ![Lookup(p)].send_keepalive = TRUE]
      /\ UNCHANGED <<state, outq, rd, wr, loc, sock, global_seq, in_q, submitted, delivered>>
  BY DEF SendKeepalive, msgrVars, appVars
<1>2. PICK i \in Pipes : i = Lookup(p)
  BY <1>1, LookupInUse
<1>3. PICK r : r = [pipe[i] EXCEPT !.send_keepalive = TRUE]
  OBVIOUS
<1>4. pipe' = [pipe EXCEPT ![i] = r] /\ pipe[i] \in PipeType
  BY <1>1, <1>2, <1>3 DEF TInv, DataOK
<1>5. SameFields(r, pipe[i])
  BY <1>3, <1>4, FlagUpdates
<1>6. \A k \in Pipes : SameFields(pipe'[k], pipe[k])
  BY <1>4, <1>5, FlagsKeep
<1>7. \A k \in Pipes : PairStill(k) /\ Still(k)
  BY <1>1, <1>6 DEF PairStill, Still, SameFields
<1>8. Severing(sock')
  BY <1>1, PeerIsPipe DEF Severing, Live
<1>9. NoSession' /\ \A q \in Peers : ReceivedOK(q)'
  BY <1>1, <1>6, <1>7, NothingReceived DEF InUse, SameFields
<1> QED BY <1>1, <1>7, <1>8, <1>9, QuietCInv

(* The dispatch thread delivers the first message that waits.              *)
LEMMA DeliverCInv ==
  ASSUME TInv, WInv, CInv, TInv', WInv', NEW p \in Peers, Deliver(p)
  PROVE  CInv'
<1>1. PICK c \in ConnIds :
        /\ in_q[p][c] # <<>> /\ in_q' = [in_q EXCEPT ![p][c] = Tail(@)]
        /\ delivered' = [delivered EXCEPT ![p] = Append(@, Head(in_q[p][c]))]
        /\ UNCHANGED <<state, pipe, outq, rd, wr, loc, sock, global_seq, submitted>>
  BY DEF Deliver
<1>2. in_q \in [Peers -> [ConnIds -> Seq(Ids)]] /\ delivered \in [Peers -> Seq(Ids)]
  BY DEF TInv, DataOK
<1>3. \A k \in Pipes : PairStill(k) /\ Still(k)
  BY <1>1 DEF PairStill, Still
<1>4. Severing(sock')
  BY <1>1, PeerIsPipe DEF Severing, Live
<1>5. ReceivedOK(p)
  BY DEF CInv
<1>6. Lookup(p) # None /\ c = pipe[Lookup(p)].conn_id /\ ~FastDispatch
  BY <1>1, <1>5 DEF ReceivedOK
<1>7. PICK i \in Pipes : i = Lookup(p) /\ InUse(i) /\ Owner(i) = p
  BY <1>6, LookupInUse
<1>8. /\ Numbers(delivered[p], 0)
      /\ \A d \in ConnIds : in_q[p][d] # <<>> => d = c /\ ~FastDispatch
      /\ \A j \in Pipes : Owner(j) = p /\ rd[j] = "dispatch" => FastDispatch /\ j = i
      /\ Numbers(in_q[p][c], Len(delivered[p]))
      /\ Len(delivered[p]) + Len(in_q[p][c]) + InHand(i) = pipe[i].in_seq
  BY <1>5, <1>6, <1>7, ReceivedBy
<1>9. rd[i] # "dispatch" /\ InHand(i) = 0 /\ InHand(i)' = 0
  BY <1>1, <1>6, <1>7, <1>8 DEF InHand
<1>10. PICK s \in Seq(Ids), d \in Seq(Ids) : s = in_q[p][c] /\ d = delivered[p]
  BY <1>2
<1>11. Len(d) \in Nat
  BY LenProperties
<1>12. PICK n \in Nat : n = Len(d)
  BY <1>11
<1>13. /\ Head(s) = n + 1 /\ Numbers(Tail(s), n + 1) /\ Len(Tail(s)) = Len(s) - 1
       /\ Tail(s) \in Seq(Ids) /\ Len(s) \in Nat /\ 1 <= Len(s)
  BY <1>1, <1>8, <1>10, <1>12, NumbersTail
<1>14. Numbers(Append(d, n + 1), 0) /\ Len(Append(d, n + 1)) = n + 1
  <2>1. n + 1 = 0 + n + 1 /\ n + 1 \in Nat
    OBVIOUS
  <2>2. Numbers(d, 0)
    BY <1>8, <1>10
  <2> QED BY <1>12, <2>1, <2>2, NumbersAppend
<1>15. /\ in_q'[p][c] = Tail(s) /\ \A b \in ConnIds \ {c} : in_q'[p][b] = in_q[p][b]
       /\ delivered'[p] = Append(d, n + 1)
  BY <1>1, <1>2, <1>10, <1>13
<1>16. ReceivedOK(p)'
  <2>1. InUse(i)' /\ pipe'[i].conn_id = c
    BY <1>1, <1>6, <1>7 DEF InUse
  <2>2. Len(delivered'[p]) + Len(in_q'[p][pipe'[i].conn_id]) + InHand(i)' = pipe'[i].in_seq
    <3>1. PICK l \in Nat, h \in Nat : l = Len(s) /\ h = InHand(i)
      BY <1>9, <1>13
    <3>2. n + l + h = pipe[i].in_seq /\ h = 0 /\ 1 <= l
      BY <1>8, <1>9, <1>10, <1>12, <1>13, <3>1
    <3>3. n + 1 + (l - 1) + 0 = pipe[i].in_seq
      BY <3>2
    <3>4. Len(delivered'[p]) = n + 1 /\ Len(in_q'[p][pipe'[i].conn_id]) = l - 1 /\ InHand(i)' = 0
      BY <1>9, <1>13, <1>14, <1>15, <2>1, <3>1
    <3> QED BY <1>1, <3>3, <3>4
  <2>3. /\ Numbers(delivered'[p], 0)
        /\ \A b \in ConnIds : in_q'[p][b] # <<>> => b = pipe'[i].conn_id /\ ~FastDispatch
        /\ \A j \in Pipes : Owner(j) = p /\ rd'[j] = "dispatch" => FastDispatch /\ j = i
        /\ Numbers(in_q'[p][pipe'[i].conn_id], Len(delivered'[p]))
    BY <1>1, <1>6, <1>8, <1>13, <1>14, <1>15, <2>1
  <2> QED BY <1>1, <1>7, <1>9, <2>1, <2>2, <2>3, ReceivedByLater
<1>17. NoSession' /\ \A r \in Peers : ReceivedOK(r)'
  <2>1. \A k \in Pipes : InUse(k)' <=> InUse(k)
    BY <1>1 DEF InUse
  <2>2. \A k \in Pipes : Owner(k) # Owner(i) =>
            /\ rd'[k] = rd[k] /\ loc'[k].id = loc[k].id
            /\ pipe'[k].in_seq = pipe[k].in_seq /\ pipe'[k].conn_id = pipe[k].conn_id
    BY <1>1
  <2>3. \A r \in Peers : r # p => in_q'[r] = in_q[r] /\ delivered'[r] = delivered[r]
    BY <1>1, <1>2
  <2> QED BY <1>1, <1>7, <1>16, <2>1, <2>2, <2>3, OthersReceived
<1> QED BY <1>1, <1>3, <1>4, <1>17, QuietCInv

(* accept() and connect().                                                 *)

(* What a Pipe that waits for an answer has.                               *)
LEMMA Waiting ==
  ASSUME TInv, WInv, NEW x \in Pipes, wr[x] = "await"
  PROVE  /\ rd[x] \in {"none", "sleep"} /\ state[x] \in {"connecting", "closed"}
         /\ ~Listens(x)
         /\ state[x] # "closed" => InUse(x)
BY DEF WInv, EndInv, Listens, InUse

(* A reply that does not grant the request.                                *)
LEMMA RefusalCInv ==
  ASSUME TInv, WInv, CInv, TInv', WInv', NEW i \in Pipes, AtConnect(i), state[i] = "accepting",
         NEW r \in Frames, r.kind = "reply", r.tag \notin Granting,
         sock' = Put(Took(sock, i), i, r),
         UNCHANGED <<state, outq, rd, wr, loc, msgrVars, appVars>>,
         \A k \in Pipes : SameFields(pipe'[k], pipe[k]),
         FrameOK(Other(Owner(i)), r)'
  PROVE  CInv'
<1>1. /\ rd[i] = "accept" /\ wr[i] = "none" /\ sock[i].in # <<>> /\ sock[i].in \in Seq(Frames)
      /\ UNCHANGED <<state, outq, rd, wr, loc, global_seq, in_q, submitted, delivered>>
  BY InIsSeq DEF AtConnect, Arrived, TInv, LInv, AcceptingIsIdle, msgrVars, appVars
<1>2. \A k \in Pipes : Still(k)
  BY <1>1 DEF Still, SameFields
<1>3. /\ \A k \in Pipes : sock'[k].peer = sock[k].peer
      /\ \A k \in Pipes \ {i} : k # sock[i].peer => sock'[k] = sock[k]
      /\ sock'[i].in = Tail(sock[i].in)
      /\ Live(sock, i) => sock'[sock[i].peer].in = Append(sock[sock[i].peer].in, r)
  <2>1. PICK new : new = sock'
    OBVIOUS
  <2>2. AnsweredWith(new, i, r)
    BY <2>1, AnswerEffect
  <2> QED BY <2>1, <2>2 DEF AnsweredWith
<1>4. sock'[i].in = <<>>
  <2>1. Len(sock[i].in) <= 1
    BY <1>1 DEF CInv, PipeOK
  <2>2. PICK s \in Seq(Frames) : s = sock[i].in
    BY <1>1
  <2>3. Len(s) = 1
    <3>1. Len(s) \in Nat /\ 1 <= Len(s)
      BY <1>1, <2>2, TailOf
    <3>2. Len(s) <= 1
      BY <2>1, <2>2
    <3>3. PICK n \in Nat : n = Len(s)
      BY <3>1
    <3>4. n = 1
      BY <3>1, <3>2, <3>3
    <3> QED BY <3>3, <3>4
  <2> QED BY <1>1, <1>3, <2>2, <2>3, OneFrame
<1>5. ASSUME NEW x \in Pipes, Live(sock, i), x = sock[i].peer
      PROVE  /\ x # i /\ wr[x] = "await" /\ sock[x].in = <<>> /\ Owner(x) = Other(Owner(i))
             /\ sock'[x].in # <<>> /\ Elements(sock'[x].in) = {r} /\ Head(sock'[x].in) = r
             /\ Live(sock', i) /\ sock[x].peer = i /\ Linked(i, x) /\ Linked(x, i)
  <2>1. Calling(x, i) /\ Asked(x, i)
    BY <1>5, PendingRequest
  <2>2. x # i /\ sock[x].peer = i /\ Live(sock, x)
    BY <1>5, PeerIsPipe
  <2>3. wr[x] = "await" /\ sock[x].in = <<>>
    BY <2>1 DEF Calling, Asked
  <2>4. Owner(x) = Other(Owner(i))
    BY <1>5 DEF WInv, LinkInv
  <2>5. sock'[x].in = Append(<<>>, r)
    BY <1>3, <1>5, <2>3
  <2>6. sock'[x].in # <<>> /\ Head(sock'[x].in) = r
    BY <2>5, EmptySeq, OneFrame
  <2>7. Elements(sock'[x].in) = {r}
    <3>1. Elements(Append(<<>>, r)) = {r}
      BY OneElement
    <3> QED BY <2>5, <3>1
  <2>8. Linked(i, x) /\ Linked(x, i)
    BY <1>5, <2>2 DEF CInv, PairOK
  <2> QED BY <1>3, <1>5, <2>2, <2>3, <2>4, <2>6, <2>7, <2>8 DEF Live
<1>6. Elements(sock'[i].in) = {}
  BY <1>4, ElementsEmpty
<1>7. Severing(sock')
  BY <1>3, PeerIsPipe DEF Severing, Live
<1>8. \A k \in Pipes \ {i} :
       sock'[k].in = sock[k].in \/ (Live(sock', i) /\ k = sock[i].peer /\ rd[k] # "accept")
  <2> SUFFICES ASSUME NEW k \in Pipes \ {i}, sock'[k].in # sock[k].in
               PROVE  Live(sock', i) /\ k = sock[i].peer /\ rd[k] # "accept"
    OBVIOUS
  <2>1. k = sock[i].peer
    BY <1>3
  <2>2. Live(sock, i)
    BY <2>1, NoneIsNoPipe DEF Live
  <2>3. Live(sock', i) /\ wr[k] = "await"
    BY <1>5, <2>1, <2>2
  <2> QED BY <2>1, <2>3, Waiting
<1>9. StepOf(i)
  BY <1>1, <1>2, <1>7, <1>8 DEF StepOf, Attempting
<1>10. NewFramesOK
  <2> SUFFICES ASSUME NEW k \in Pipes, NEW f \in Elements(sock'[k].in)
               PROVE  f \in Elements(sock[k].in) \/ (FrameOK(Owner(k), f)' /\ f.kind # "connect")
    BY DEF NewFramesOK
  <2>1. CASE k = i
    BY <1>6, <2>1
  <2>2. CASE k # i /\ sock'[k].in = sock[k].in
    BY <2>2
  <2>3. CASE k # i /\ sock'[k].in # sock[k].in
    <3>1. k = sock[i].peer /\ Live(sock, i)
      BY <1>3, <2>3, NoneIsNoPipe DEF Live
    <3>2. f = r /\ Owner(k) = Other(Owner(i))
      BY <1>5, <3>1
    <3> QED BY <3>2
  <2> QED BY <2>1, <2>2, <2>3
<1>11. Grows
  BY <1>1, <1>9, StepGrows DEF InUse
<1>12. NoSession' /\ \A p \in Peers : ReceivedOK(p)'
  BY <1>1, <1>2, NothingReceived DEF InUse, Still
<1>13. NoNewAttempts
  BY <1>9, <1>10, StepNoNewAttempts
<1>14. PipeOK(i)'
  <2>1. Len(sock'[i].in) <= 1
    BY <1>4, EmptySeq
  <2> QED BY <1>1, <1>2, <1>11, <2>1, PipeKept DEF CInv
<1>15. SessionOK(i)' /\ NextOnes(i)' /\ Guarded(i)'
  <2>1. ~InUse(i)' /\ ~Listens(i)' /\ ~Awaits(i)' /\ state'[i] # "open"
    BY <1>1 DEF InUse, Listens, Awaits
  <2>2. \A b \in Nat : ~TrustsReply(i, b)'
    BY <2>1 DEF TrustsReply
  <2>3. ~TrustsOpen(i)'
    BY <2>1 DEF TrustsOpen
  <2> QED BY <2>1, <2>2, <2>3 DEF SessionOK, NextOnes, Guarded
<1>16. ASSUME NEW x \in Pipes, Live(sock', i), x = sock[i].peer
       PROVE  NextOnes(x)' /\ Guarded(x)' /\ Linked(i, x)' /\ Linked(x, i)'
  <2>1. Live(sock, i)
    BY <1>3, <1>16 DEF Live
  <2>2. /\ x # i /\ wr[x] = "await" /\ sock[x].in = <<>>
        /\ sock'[x].in # <<>> /\ Elements(sock'[x].in) = {r} /\ Head(sock'[x].in) = r
        /\ sock[x].peer = i
    BY <1>5, <1>16, <2>1
  <2>3. rd[x] \in {"none", "sleep"} /\ state[x] \in {"connecting", "closed"} /\ ~Listens(x)
    BY <2>2, Waiting
  <2>4. Still(x)
    BY <1>2
  <2>5. ~Listens(x)'
    BY <2>3, <2>4 DEF Still, Listens, InUse
  <2>6. NextOnes(x)'
    <3>1. ~HasMsg(sock'[x].in)
      BY <2>2 DEF HasMsg
    <3>2. pipe'[x].in_seq \in Nat
      <4>1. Sane(x)'
        BY SaneLater
      <4> QED BY <4>1 DEF Sane
    <3>3. PICK n \in Nat : n = pipe'[x].in_seq
      BY <3>2
    <3>4. PICK s : s = sock'[x].in
      OBVIOUS
    <3>5. Climbs(s, n)
      BY <3>1, <3>4, NoMsgs
    <3> QED BY <3>3, <3>4, <3>5 DEF NextOnes, Climbs
  <2>7. TrustsOpen(x)' => TrustsOpen(x)
    <3>1. (InUse(x) /\ pipe[x].in_seq > 0)' => TrustsOpen(x)
      BY <2>4 DEF Still, InUse, TrustsOpen
    <3>2. ~(Live(sock, x) /\ state[x] = "open" /\ state[sock[x].peer] = "open")'
      BY <1>1, <2>3
    <3> QED BY <2>5, <3>1, <3>2 DEF TrustsOpen
  <2>8. \A b \in Nat : ~TrustsReply(x, b)'
    <3>1. Answer(x)' = r
      BY <2>2 DEF Answer
    <3>2. sock'[x].peer = i /\ rd'[i] = "accept"
      BY <1>1, <1>3, <2>2
    <3> QED BY <3>1, <3>2 DEF TrustsReply
  <2>9. Guarded(x)'
    BY <1>13, <2>4, <2>7, <2>8, GuardedKept DEF CInv, Still
  <2>10. Linked(i, x)'
    <3>1. state'[i] = "accepting" /\ wr'[i] = "none" /\ rd'[i] = "accept"
      BY <1>1
    <3>2. Only(sock[x].in, "reply")'
      BY <2>2 DEF Only
    <3>3. (rd[i] = "seq" /\ state[x] # "closed" =>
             \A f \in Elements(sock[i].in) : f.kind = "seq" => f.seq = pipe[x].in_seq)'
      BY <3>1
    <3> QED BY <3>1, <3>2, <3>3 DEF Linked
  <2>11. Linked(x, i)'
    <3>1. state'[x] # "open" /\ wr'[x] = "await" /\ rd'[x] # "seq"
      BY <1>1, <2>2, <2>3
    <3>2. Only(sock[i].in, "connect")'
      BY <1>6 DEF Only
    <3>3. ~Awaits(i)'
      BY <1>1 DEF Awaits
    <3>4. (rd[x] = "seq" /\ state[i] # "closed" =>
             \A f \in Elements(sock[x].in) : f.kind = "seq" => f.seq = pipe[i].in_seq)'
      BY <3>1
    <3> QED BY <3>1, <3>2, <3>3, <3>4 DEF Linked
  <2> QED BY <2>6, <2>9, <2>10, <2>11
<1> QED BY <1>9, <1>10, <1>11, <1>12, <1>14, <1>15, <1>16, OneStep

(* A request that accept() looks at.                                       *)
LEMMA RequestArrived ==
  ASSUME TInv, CInv, NEW i \in Pipes, AtConnect(i)
  PROVE  /\ Request(i) \in Elements(sock[i].in) /\ Request(i) \in Frames
         /\ Request(i).kind = "connect" /\ FrameOK(Owner(i), Request(i))
         /\ Request(i).gseq \in Nat /\ Request(i).cseq \in Nat
<1>1. sock[i].in \in Seq(Frames) /\ sock[i].in # <<>> /\ Request(i) = Head(sock[i].in)
      /\ Request(i).kind = "connect"
  BY InIsSeq DEF AtConnect, Arrived, Request
<1>2. Request(i) \in Elements(sock[i].in)
  BY <1>1, ElementsTail
<1>3. Request(i) \in Frames
  BY <1>1, TailOf
<1>4. FrameOK(Owner(i), Request(i))
  BY <1>2 DEF CInv, FramesOK
<1> QED BY <1>1, <1>2, <1>3, <1>4, FrameFields

(* What accept() decides between two lossless peers.                       *)
LEMMA LosslessVerdict ==
  ASSUME TInv, CInv, NEW i \in Pipes, Deciding(i), NEW f, f = Request(i),
         NEW p, p = Owner(i), NEW e, e = Lookup(p)
  PROVE  /\ DecidedAs(i) \notin {"RESETSESSION", "replace_lossy"}
         /\ DecidedAs(i) = "RETRY_SESSION" => Known(p)
         /\ DecidedAs(i) = "open" => e = None /\ f.cseq = 0
         /\ e = None => DecidedAs(i) = "open"
         /\ DecidedAs(i) = "replace_reset" =>
              e # None /\ f.gseq >= pipe[e].peer_global_seq /\ f.cseq = 0 /\ pipe[e].connect_seq > 0
         /\ DecidedAs(i) = "replace" =>
              /\ e # None /\ f.gseq >= pipe[e].peer_global_seq /\ f.cseq >= pipe[e].connect_seq
              /\ f.cseq = pipe[e].connect_seq => state[e] \in {"connecting", "wait"}
<1>1. AtConnect(i) /\ p \in Peers
  BY OwnerIsPeer DEF Deciding
<1>2. f.gseq \in Nat /\ f.cseq \in Nat /\ FrameOK(p, f) /\ f.kind = "connect"
  BY <1>1, RequestArrived
<1>3. f.cseq > 0 => Known(p)
  BY <1>2 DEF FrameOK
<1>4. ~Policy[p].resetcheck /\ ~Policy[p].server
  BY <1>1 DEF CInv, LosslessPeers
<1>5. CASE e = None
  <2>1. f.cseq = 0
    BY <1>2, <1>3, <1>5 DEF Known
  <2>2. Verdict(p, f, e) = "open"
    BY <1>5, <2>1 DEF Verdict
  <2> QED BY <1>5, <2>1, <2>2 DEF DecidedAs
<1>6. CASE e # None
  <2>1. e \in Pipes /\ InUse(e) /\ Owner(e) = p
    BY <1>1, <1>6, LookupInUse
  <2>2. PICK x : x = pipe[e]
    OBVIOUS
  <2>3. ~x.lossy /\ x.peer_global_seq \in Nat /\ x.connect_seq \in Nat
    BY <2>1, <2>2, SaneNow DEF Sane, CInv, PipeOK
  <2>4. x.connect_seq = 0 => Known(p)
    <3>1. x.connect_seq = 0 => Fresh(e)
      BY <2>1, <2>2 DEF CInv, SessionOK
    <3> QED BY <1>6, <3>1 DEF Known, Tentative, Fresh
  <2>5. PICK rv : rv = RaceVerdict(p, e)
    OBVIOUS
  <2>6. /\ rv \in {"RETRY_SESSION", "replace", "WAIT"}
        /\ rv = "replace" => state[e] \in {"connecting", "wait"}
    BY <2>1, <2>5 DEF RaceVerdict, InUse
  <2>7. PICK v : v = Verdict(p, f, e)
    OBVIOUS
  <2>8. CASE f.gseq < x.peer_global_seq
    <3>1. v = "RETRY_GLOBAL"
      BY <1>2, <1>6, <2>2, <2>3, <2>7, <2>8 DEF Verdict
    <3> QED BY <1>6, <2>7, <3>1 DEF DecidedAs
  <2>9. CASE f.gseq >= x.peer_global_seq /\ f.cseq = 0 /\ x.connect_seq > 0
    <3>1. v = "replace_reset"
      BY <1>2, <1>6, <2>2, <2>3, <2>7, <2>9 DEF Verdict, HardReset
    <3> QED BY <1>6, <2>2, <2>7, <2>9, <3>1 DEF DecidedAs
  <2>10. CASE f.gseq >= x.peer_global_seq /\ f.cseq > 0 /\ f.cseq < x.connect_seq
    <3>1. v = "RETRY_SESSION"
      BY <1>2, <1>6, <2>2, <2>3, <2>7, <2>10 DEF Verdict, HardReset
    <3> QED BY <1>3, <1>6, <2>7, <2>10, <3>1 DEF DecidedAs
  <2>11. CASE f.gseq >= x.peer_global_seq /\ f.cseq = x.connect_seq
    <3>1. v = rv
      BY <1>2, <1>6, <2>2, <2>3, <2>5, <2>7, <2>11 DEF Verdict, HardReset
    <3>2. Known(p)
      BY <1>2, <1>3, <2>3, <2>4, <2>11
    <3> QED BY <1>2, <1>6, <2>2, <2>3, <2>6, <2>7, <2>11, <3>1, <3>2 DEF DecidedAs
  <2>12. CASE f.gseq >= x.peer_global_seq /\ f.cseq > x.connect_seq
    <3>1. v = "replace"
      BY <1>2, <1>4, <1>6, <2>2, <2>3, <2>7, <2>12 DEF Verdict, HardReset
    <3> QED BY <1>2, <1>6, <2>2, <2>3, <2>7, <2>12, <3>1 DEF DecidedAs
  <2>13. \/ f.gseq < x.peer_global_seq
         \/ f.gseq >= x.peer_global_seq /\ f.cseq = 0 /\ x.connect_seq > 0
         \/ f.gseq >= x.peer_global_seq /\ f.cseq > 0 /\ f.cseq < x.connect_seq
         \/ f.gseq >= x.peer_global_seq /\ f.cseq = x.connect_seq
         \/ f.gseq >= x.peer_global_seq /\ f.cseq > x.connect_seq
    BY <1>2, <2>3
  <2> QED BY <2>8, <2>9, <2>10, <2>11, <2>12, <2>13
<1> QED BY <1>5, <1>6

(* accept() answers a request that it does not understand.                 *)
LEMMA AcceptRejectCInv ==
  ASSUME TInv, WInv, CInv, TInv', WInv', NEW i \in Pipes, AcceptReject(i)
  PROVE  CInv'
<1>1. PICK tag \in {"BADPROTOVER", "FEATURES", "BADAUTHORIZER"} :
        AcceptReply(i, Reply(tag, 0, 0, 0, FALSE))
  BY DEF AcceptReject
<1>2. PICK r : r = Reply(tag, 0, 0, 0, FALSE)
  OBVIOUS
<1>3. r \in Replies /\ r \in Frames
  <2>1. tag \in ReplyTags /\ 0 \in Nat /\ FALSE \in BOOLEAN
    BY DEF ReplyTags
  <2>2. r \in Replies
    BY <1>2, <2>1, ReplyType
  <2> QED BY <2>2, FrameTypes
<1>4. r.kind = "reply" /\ r.tag = tag /\ ~r.lossy
  BY <1>2 DEF Reply
<1>5. tag \notin Granting /\ tag \notin {"RESETSESSION", "RETRY_SESSION", "SEQ", "READY"}
  BY DEF Granting
<1>6. FrameOK(Other(Owner(i)), r)'
  BY <1>4, <1>5 DEF FrameOK, ReplyOK
<1>7. /\ AtConnect(i) /\ state[i] = "accepting" /\ pipe' = pipe
      /\ sock' = Put(Took(sock, i), i, r)
      /\ UNCHANGED <<state, outq, rd, wr, loc, msgrVars, appVars>>
  BY <1>1, <1>2 DEF AcceptReject, AcceptReply
<1>8. \A k \in Pipes : SameFields(pipe'[k], pipe[k])
  BY <1>7 DEF SameFields
<1> QED BY <1>3, <1>4, <1>5, <1>6, <1>7, <1>8, RefusalCInv

(* accept() sends the peer round its loop again.                           *)
LEMMA AcceptRefuseCInv ==
  ASSUME TInv, WInv, CInv, TInv', WInv', NEW i \in Pipes, AcceptRefuse(i)
  PROVE  CInv'
<1> DEFINE p == Owner(i)
           e == Lookup(p)
           v == DecidedAs(i)
           g == IF v = "RETRY_GLOBAL" THEN pipe[e].peer_global_seq ELSE 0
           c == IF v = "RETRY_SESSION" THEN pipe[e].connect_seq + 1 ELSE 0
<1>1. /\ Deciding(i) /\ v \in {"RETRY_GLOBAL", "RETRY_SESSION", "RESETSESSION", "WAIT"}
      /\ AcceptReply(i, Reply(v, g, c, 0, FALSE))
      /\ pipe' = IF v = "WAIT" THEN [pipe EXCEPT ![e].send_keepalive = TRUE] ELSE pipe
  BY DEF AcceptRefuse
<1>2. p \in Peers /\ AtConnect(i) /\ state[i] = "accepting"
  BY <1>1, OwnerIsPeer DEF Deciding
<1>3. /\ v \in {"RETRY_GLOBAL", "RETRY_SESSION", "WAIT"} /\ e # None
      /\ v = "RETRY_SESSION" => Known(p)
  BY <1>1, LosslessVerdict
<1>4. PICK j \in Pipes : j = e
  BY <1>2, <1>3, LookupInUse
<1>5. pipe[j].peer_global_seq \in Nat /\ pipe[j].connect_seq \in Nat /\ pipe[j] \in PipeType
  BY SaneNow DEF Sane, TInv, DataOK
<1> HIDE DEF v, e, p
<1>6. g \in Nat /\ c \in Nat /\ v \in ReplyTags
  BY <1>3, <1>4, <1>5 DEF ReplyTags
<1> HIDE DEF g, c
<1>7. PICK r : r = Reply(v, g, c, 0, FALSE)
  OBVIOUS
<1>8. r \in Replies /\ r \in Frames
  <2>1. r \in Replies
    BY <1>6, <1>7, ReplyType
  <2> QED BY <2>1, FrameTypes
<1>9. r.kind = "reply" /\ r.tag = v /\ ~r.lossy
  BY <1>7 DEF Reply
<1>10. v \notin Granting /\ v \notin {"RESETSESSION", "SEQ", "READY"}
  BY <1>3 DEF Granting
<1>11. \A k \in Pipes : SameFields(pipe'[k], pipe[k])
  <2>1. PICK s : s = [pipe[j] EXCEPT !.send_keepalive = TRUE]
    OBVIOUS
  <2>2. pipe' = [pipe EXCEPT ![j] = s] \/ pipe' = pipe
    BY <1>1, <1>4, <2>1
  <2>3. SameFields(s, pipe[j])
    BY <1>5, <2>1, FlagUpdates
  <2> QED BY <2>2, <2>3, FlagsKeep DEF SameFields
<1>12. UNCHANGED <<state, outq, rd, wr, loc, msgrVars, appVars>> /\ sock' = Put(Took(sock, i), i, r)
  BY <1>1, <1>7 DEF AcceptReply
<1>13. v = "RETRY_SESSION" => Known(p)'
  <2>1. Known(p) => Known(p)'
    BY <1>12 DEF Known, Tentative, Lookup, msgrVars
  <2> QED BY <1>3, <2>1
<1>14. Other(Other(p)) = p
  BY <1>2, OtherPeer
<1>15. FrameOK(Other(p), r)'
  <2>1. ReplyOK(r, p)'
    BY <1>9, <1>10 DEF ReplyOK
  <2> QED BY <1>9, <1>10, <1>13, <1>14, <2>1 DEF FrameOK
<1> QED BY <1>2, <1>8, <1>9, <1>10, <1>11, <1>12, <1>15, RefusalCInv DEF p

(* The end of accept().                                                    *)

(* A step of the reader of i that ends or goes on with its handshake.      *)
Shakes(i) ==
  /\ rd[i] \in {"reply", "seq"} /\ rd'[i] \in {"seq", "none", "sleep", "read"}
  /\ rd'[i] = "seq" => loc'[i].replaced
  /\ wr[i] = "none" /\ wr'[i] \in {"none", "loop"}
  /\ state' = state /\ pipe' = pipe /\ global_seq' = global_seq /\ submitted' = submitted
  /\ in_q' = in_q /\ delivered' = delivered
  /\ \A k \in Pipes \ {i} : Still(k)
  /\ InUse(i) => /\ Top(outq'[i]) = Top(outq[i])
                 /\ Consecutive(outq'[i], submitted[Owner(i)])
                 /\ \/ Base(outq'[i]) = Base(outq[i])
                    \/ Base(outq'[i]) <= InSeq(Other(Owner(i)))
  /\ \A k \in Pipes : sock'[k].peer = sock[k].peer
  /\ Elements(sock'[i].in) \subseteq Elements(sock[i].in)
  /\ Listens(i) => Climbs(sock'[i].in, pipe[i].in_seq)
  /\ \A k \in Pipes \ {i} :
       sock'[k].in = sock[k].in \/ (Live(sock', i) /\ k = sock[i].peer /\ rd[k] # "accept")

(* The end of a handshake carries the session on, ...                      *)
LEMMA ShakesGrows ==
  ASSUME TInv, WInv, CInv, TInv', NEW i \in Pipes, Shakes(i)
  PROVE  StepOf(i) /\ Grows /\ NoSession' /\ \A p \in Peers : ReceivedOK(p)'
<1>1. Severing(sock')
  BY PeerIsPipe DEF Shakes, Severing, Live
<1>2. StepOf(i)
  BY <1>1 DEF Shakes, StepOf, Attempting
<1>3. InUse(i) => CarriesOn(i, i)
  <2>1. Top(outq[i]) \in Nat /\ pipe[i].in_seq \in Nat
    BY SaneNow, QueueNumbers DEF Sane
  <2> QED BY <2>1 DEF Shakes, CarriesOn, InUse, Tentative
<1>4. Grows
  BY <1>2, <1>3, StepGrows
<1>5. NoSession' /\ \A p \in Peers : ReceivedOK(p)'
  BY NothingReceived DEF Shakes, InUse
<1> QED BY <1>2, <1>4, <1>5

(* ... and the Pipe that ends it reads on where it stopped.                *)
LEMMA ShakesOwn ==
  ASSUME TInv, WInv, CInv, TInv', NEW i \in Pipes, Shakes(i), NewFramesOK
  PROVE  PipeOK(i)' /\ SessionOK(i)' /\ NextOnes(i)' /\ Guarded(i)'
<1> DEFINE p == Owner(i)
           q == Other(p)
<1>1. StepOf(i) /\ Grows
  BY ShakesGrows
<1>2. PipeOK(i) /\ SessionOK(i) /\ NextOnes(i) /\ Guarded(i) /\ p \in Peers /\ q \in Peers
  BY OwnerIsPeer, OtherPeer DEF CInv
<1>3. PipeOK(i)'
  BY <1>2 DEF Shakes, PipeOK
<1>4. SessionOK(i)'
  <2> SUFFICES ASSUME InUse(i)'
               PROVE  /\ Consecutive(outq'[i], submitted'[p])
                      /\ pipe'[i].connect_seq # 0
                      /\ ~Attempting(i)'
                      /\ Base(outq'[i]) <= InSeq(q)'
                      /\ pipe'[i].in_seq <= Sent(q)'
                      /\ ~Tentative(i)'
                      /\ pipe'[i].connect_seq > 0 => Known(q)'
    BY DEF SessionOK, Consecutive, Base, Top
  <2>1. InUse(i)
    BY DEF InUse, Shakes
  <2>2. /\ InSeq(q) \in Nat /\ InSeq(q)' \in Nat /\ InSeq(q) <= InSeq(q)'
        /\ Sent(q) \in Nat /\ Sent(q)' \in Nat /\ Sent(q) <= Sent(q)'
        /\ Known(q) => Known(q)'
    BY <1>1, <1>2, PeerTypes, PeerTypesLater DEF Grows
  <2>3. /\ pipe[i].connect_seq = 0 => Fresh(i)
        /\ Base(outq[i]) <= InSeq(q) /\ pipe[i].in_seq <= Sent(q)
        /\ pipe[i].connect_seq > 0 => Known(q)
    BY <1>2, <2>1 DEF SessionOK
  <2>4. pipe[i].connect_seq # 0 /\ pipe[i].in_seq \in Nat
    BY <2>3, SaneNow DEF Fresh, Shakes, Sane
  <2>5. Base(outq'[i]) <= InSeq(q)'
    <3>1. Base(outq'[i]) <= InSeq(q)
      BY <2>1, <2>3 DEF Shakes
    <3>2. PICK n : n = outq'[i]
      OBVIOUS
    <3>3. Good(n, Ids)
      <4>1. Sane(i)'
        BY SaneLater
      <4> QED BY <3>2, <4>1 DEF Sane
    <3>4. Base(n) \in Nat
      BY <3>3, QueueNumbers
    <3> QED BY <2>2, <3>1, <3>2, <3>4
  <2> QED BY <2>1, <2>2, <2>3, <2>4, <2>5 DEF Shakes, Tentative, Attempting
<1>5. ~Awaits(i)' /\ (Listens(i)' => Listens(i))
  BY DEF Shakes, Awaits, Listens, InUse
<1>6. NextOnes(i)'
  <2> SUFFICES ASSUME Listens(i)' PROVE Climbs(sock'[i].in, pipe'[i].in_seq)
    BY <1>5 DEF NextOnes, Climbs
  <2> QED BY <1>5 DEF Shakes
<1>7. TrustsOpen(i)' => TrustsOpen(i)
  <2>1. HasMsg(sock'[i].in) => HasMsg(sock[i].in)
    BY DEF HasMsg, Shakes
  <2>2. (InUse(i) /\ pipe[i].in_seq > 0)' => TrustsOpen(i)
    BY DEF InUse, Shakes, TrustsOpen
  <2>3. (Listens(i) /\ HasMsg(sock[i].in))' => TrustsOpen(i)
    BY <1>5, <2>1 DEF TrustsOpen
  <2>4. (Live(sock, i) /\ state[i] = "open" /\ state[sock[i].peer] = "open")' => TrustsOpen(i)
    BY DEF Shakes, Live, TrustsOpen
  <2> QED BY <2>2, <2>3, <2>4 DEF TrustsOpen
<1>8. \A b \in Nat : ~TrustsReply(i, b)'
  BY <1>5 DEF TrustsReply
<1>9. NoNewAttempts
  BY <1>1, StepNoNewAttempts
<1>10. Guarded(i)'
  BY <1>2, <1>7, <1>8, <1>9, GuardedKept DEF Shakes
<1> QED BY <1>3, <1>4, <1>6, <1>10

(* The last number that x has written.                                     *)
LEMMA LastIsNat ==
  ASSUME TInv, CInv, NEW x \in Pipes, state[x] = "open" \/ wr[x] # "msg"
  PROVE  LastWritten(x) \in Nat
<1>1. Sane(x)
  BY SaneNow
<1>2. outq[x].out_seq \in Nat
  BY <1>1, QueueNumbers DEF Sane
<1>3. wr[x] = "msg" => outq[x].out_seq >= 1
  <2>1. wr[x] = "msg" => 1 <= loc[x].msg.seq /\ loc[x].msg.seq = outq[x].out_seq
    BY DEF CInv, PipeOK
  <2> QED BY <1>2, <2>1
<1> QED BY <1>2, <1>3 DEF LastWritten

(* discard_requeued_up_to(n) on the queue of a Pipe that ends accept().    *)
LEMMA DoneQueue ==
  ASSUME TInv, CInv, NEW i \in Pipes, rd[i] \in {"reply", "seq"}, NEW n \in Nat, AcceptDone(i, n)
  PROVE  /\ wr[i] = "none" /\ wr'[i] \in {"none", "loop"} /\ rd'[i] \in {"none", "sleep", "read"}
         /\ state[i] # "closed" => wr'[i] = "loop"
         /\ \A k \in Pipes \ {i} : rd'[k] = rd[k] /\ wr'[k] = wr[k]
                                   /\ outq'[k] = outq[k] /\ loc'[k] = loc[k]
         /\ InUse(i) => /\ Top(outq'[i]) = Top(outq[i])
                        /\ Consecutive(outq'[i], submitted[Owner(i)])
                        /\ Base(outq[i]) = outq[i].out_seq
                        /\ Base(outq'[i]) = outq'[i].out_seq
                        /\ outq'[i].out_seq = outq[i].out_seq \/ outq'[i].out_seq <= n
                        /\ outq[i].out_seq <= n /\ n <= Top(outq[i]) => outq'[i].out_seq = n
<1>1. /\ outq' = [outq EXCEPT ![i] = discard_requeued_up_to(@, n)]
      /\ wr' = IF state[i] = "closed" THEN wr ELSE [wr EXCEPT ![i] = "loop"]
      /\ rd' = [rd EXCEPT ![i] = ReaderNext(state[i])]
      /\ loc' = [loc EXCEPT ![i] = NoLoc]
  BY DEF AcceptDone
<1>2. /\ rd \in [Pipes -> ReaderPC] /\ wr \in [Pipes -> WriterPC] /\ outq \in [Pipes -> OutQ(Ids)]
      /\ loc \in [Pipes -> LocType]
  BY DEF TInv, LInv, Control, DataOK
<1>3. wr[i] = "none" /\ outq[i].sent = <<>> /\ Good(outq[i], Ids)
  <2>1. wr[i] = "none" /\ outq[i].sent = <<>>
    BY DEF TInv, PipeInv
  <2> QED BY <2>1, SaneNow DEF Sane
<1>4. outq'[i] = discard_requeued_up_to(outq[i], n)
  BY <1>1, <1>2
<1>5. rd'[i] \in {"none", "sleep", "read"}
  BY <1>1, <1>2, ReaderNextValues
<1>6. wr'[i] \in {"none", "loop"} /\ (state[i] # "closed" => wr'[i] = "loop")
  BY <1>1, <1>2, <1>3
<1>7. InUse(i) => Consecutive(outq[i], submitted[Owner(i)])
  BY DEF CInv, SessionOK
<1> QED BY <1>1, <1>2, <1>3, <1>4, <1>5, <1>6, <1>7, DiscardRequeuedConsecutive, QueueNumbers

(* accept() reads the in_seq of the peer and discards what it has.         *)
LEMMA AcceptSeqCInv ==
  ASSUME TInv, WInv, CInv, TInv', WInv', NEW i \in Pipes, AcceptSeq(i)
  PROVE  CInv'
<1> DEFINE n == Head(sock[i].in).seq
           q == Other(Owner(i))
<1>1. /\ rd[i] = "seq" /\ sock[i].in # <<>> /\ Head(sock[i].in).kind = "seq"
      /\ AcceptDone(i, n) /\ sock' = Took(sock, i)
      /\ UNCHANGED <<state, pipe, global_seq, in_q, submitted, delivered>>
  BY DEF AcceptSeq, Arrived, msgrVars, appVars
<1>2. /\ Severing(sock') /\ \A k \in Pipes : sock'[k].peer = sock[k].peer
      /\ \A k \in Pipes \ {i} : sock'[k].in = sock[k].in
      /\ sock'[i].in = Tail(sock[i].in)
      /\ Elements(sock'[i].in) \subseteq Elements(sock[i].in)
      /\ Head(sock[i].in) \in Elements(sock[i].in)
      /\ sock[i].in \in Seq(Frames) /\ Head(sock[i].in) \in Frames
      /\ NewFramesOK
  BY <1>1, TakeBuffers
<1>3. n \in Nat /\ n <= InSeq(q)
  <2>1. FrameOK(Owner(i), Head(sock[i].in))
    BY <1>2 DEF CInv, FramesOK
  <2> QED BY <1>1, <1>2, <2>1, FrameFields DEF FrameOK
<1> HIDE DEF n
<1>4. /\ wr[i] = "none" /\ wr'[i] \in {"none", "loop"} /\ rd'[i] \in {"none", "sleep", "read"}
      /\ state[i] # "closed" => wr'[i] = "loop"
      /\ \A k \in Pipes \ {i} : rd'[k] = rd[k] /\ wr'[k] = wr[k]
                                /\ outq'[k] = outq[k] /\ loc'[k] = loc[k]
      /\ InUse(i) => /\ Top(outq'[i]) = Top(outq[i])
                     /\ Consecutive(outq'[i], submitted[Owner(i)])
                     /\ Base(outq[i]) = outq[i].out_seq
                     /\ Base(outq'[i]) = outq'[i].out_seq
                     /\ outq'[i].out_seq = outq[i].out_seq \/ outq'[i].out_seq <= n
                     /\ outq[i].out_seq <= n /\ n <= Top(outq[i]) => outq'[i].out_seq = n
  BY <1>1, <1>3, DoneQueue
<1>5. \A k \in Pipes \ {i} : Still(k)
  BY <1>1, <1>4 DEF Still
<1>6. pipe[i].in_seq \in Nat /\ Good(outq'[i], Ids) /\ outq'[i].out_seq \in Nat
  <2>1. Sane(i) /\ Sane(i)'
    BY SaneNow, SaneLater
  <2>2. PICK s : s = outq'[i]
    OBVIOUS
  <2> QED BY <2>1, <2>2, QueueNumbers DEF Sane
<1>7. Listens(i) => Climbs(sock'[i].in, pipe[i].in_seq)
  BY <1>1, <1>2, <1>6, ClimbsTail DEF CInv, NextOnes
<1>8. InSeq(q) \in Nat
  BY OwnerIsPeer, OtherPeer, PeerTypes
<1>9. Shakes(i)
  <2>1. InUse(i) => \/ Base(outq'[i]) = Base(outq[i])
                    \/ Base(outq'[i]) <= InSeq(q)
    BY <1>3, <1>4, <1>6, <1>8
  <2> QED BY <1>1, <1>2, <1>4, <1>5, <1>7, <2>1 DEF Shakes
<1>10. StepOf(i) /\ Grows /\ NoSession' /\ \A p \in Peers : ReceivedOK(p)'
  BY <1>9, ShakesGrows
<1>11. PipeOK(i)' /\ SessionOK(i)' /\ NextOnes(i)' /\ Guarded(i)'
  BY <1>2, <1>9, ShakesOwn
<1>12. ASSUME NEW x \in Pipes, Live(sock', i), x = sock[i].peer
       PROVE  NextOnes(x)' /\ Guarded(x)' /\ Linked(i, x)' /\ Linked(x, i)'
  <2>1. Live(sock, i)
    BY <1>2, <1>12 DEF Live
  <2>2. x # i /\ sock[x].peer = i /\ Live(sock, x)
    BY <1>12, <2>1, PeerIsPipe
  <2>3. Linked(i, x) /\ Linked(x, i)
    BY <1>12, <2>1, <2>2 DEF CInv, PairOK
  <2>4. Settled(i, x)
    BY <1>1, <1>12, <2>1, LoopSettled DEF InLoop
  <2>5. wr[x] # "await" /\ wr[x] # "none"
    <3>1. Only(sock[i].in, "connect") \/ wr[x] # "await"
      BY <2>3 DEF Linked
    <3>2. Only(sock[i].in, "reply") \/ wr[x] # "none"
      BY <2>3 DEF Linked
    <3> QED BY <1>1, <1>2, <3>1, <3>2 DEF Only
  <2>6. state[i] = "open" /\ state[x] \in {"closed", "open"} /\ Owner(x) = q
    BY <1>12, <2>1, <2>4, <2>5 DEF Settled, Joined, Opened, WInv, LinkInv
  <2>7. PairStill(x) /\ Still(x)
    BY <1>2, <1>5, <2>2 DEF PairStill
  <2>8. NextOnes(x)'
    BY <2>7, NextKept DEF CInv
  <2>9. NoNewAttempts
    BY <1>2, <1>10, StepNoNewAttempts
  <2>10. Guarded(x)'
    <3>1. \A j \in Pipes : Live(sock', x) /\ j = sock[x].peer =>
            /\ state'[j] = "open" /\ state[x] = "open" => state[j] = "open"
            /\ rd'[j] = "reply" => rd[j] = "reply" /\ loc'[j].reply = loc[j].reply
      BY <1>1, <1>4, <2>2
    <3>2. /\ TrustsOpen(x)' => TrustsOpen(x) /\ pipe'[x].peer_global_seq = pipe[x].peer_global_seq
          /\ \A b \in Nat : TrustsReply(x, b)' => TrustsReply(x, b)
      BY <1>2, <2>2, <2>7, <3>1, TrustKept
    <3> QED BY <2>9, <3>2, GuardedKept DEF CInv
  <2>11. state[x] = "open" => outq'[i].out_seq = pipe[x].in_seq
    <3> SUFFICES ASSUME state[x] = "open" PROVE outq'[i].out_seq = pipe[x].in_seq
      OBVIOUS
    <3>1. InUse(x) /\ InUse(i)
      BY <2>6 DEF InUse
    <3>2. n = pipe[x].in_seq
      BY <1>1, <1>2, <2>3, <2>6 DEF Linked, n
    <3>3. InSeq(q) = pipe[x].in_seq /\ Sent(Owner(i)) = Top(outq[i])
      BY <2>6, <3>1, PeerValues
    <3>4. Base(outq[i]) <= InSeq(q)
      BY <3>1 DEF CInv, SessionOK
    <3>5. Other(Owner(x)) = Owner(i)
      BY <2>6, OwnerIsPeer, OtherPeer
    <3>6. pipe[x].in_seq <= Top(outq[i])
      BY <3>1, <3>3, <3>5 DEF CInv, SessionOK
    <3> QED BY <1>4, <3>1, <3>2, <3>3, <3>4, <3>6
  <2>12. Linked(i, x)'
    <3>1. (state[i] = "open" /\ wr[i] # "none" /\ state[x] # "closed"
             => Ends(sock[x].in, pipe[x].in_seq, LastWritten(i)))'
      <4> SUFFICES ASSUME state[x] # "closed"
                   PROVE  (Ends(sock[x].in, pipe[x].in_seq, LastWritten(i)))'
        BY <1>1
      <4>1. LastWritten(i)' = outq'[i].out_seq
        BY <1>4 DEF LastWritten
      <4>2. Only(sock[x].in, "reply")
        BY <1>4, <2>3 DEF Linked
      <4>3. PICK s : s = sock[x].in
        OBVIOUS
      <4>4. PICK m \in Nat : m = pipe[x].in_seq
        BY SaneNow DEF Sane
      <4>7. ~HasMsg(s)
        BY <4>2, <4>3 DEF HasMsg, Only
      <4>5. Ends(s, m, m)
        BY <4>7, NoMsgs
      <4>6. sock'[x].in = s /\ pipe'[x].in_seq = m /\ LastWritten(i)' = m
        BY <1>1, <2>6, <2>7, <2>11, <4>1, <4>3, <4>4 DEF PairStill
      <4> QED BY <4>5, <4>6 DEF Ends
    <3>2. wr'[i] = "loop" /\ rd'[i] # "seq"
      BY <1>4, <2>6
    <3>3. ~Awaits(x)'
      BY <1>4, <2>2, <2>5 DEF Awaits
    <3> QED BY <3>1, <3>2, <3>3 DEF Linked
  <2>13. Linked(x, i)'
    <3>1. (state[x] = "open" /\ wr[x] # "none" /\ state[i] # "closed"
             => Ends(sock[i].in, pipe[i].in_seq, LastWritten(x)))'
      <4> SUFFICES ASSUME state[x] = "open"
                   PROVE  (Ends(sock[i].in, pipe[i].in_seq, LastWritten(x)))'
        BY <1>1
      <4>0. PICK m : m = LastWritten(x)
        OBVIOUS
      <4>1. Ends(sock[i].in, pipe[i].in_seq, m)
        BY <2>3, <2>5, <2>6, <4>0 DEF Linked
      <4>2. Climbs(sock[i].in, pipe[i].in_seq)
        BY <1>1, <2>6 DEF CInv, NextOnes, Listens, InUse
      <4>3. m \in Nat
        BY <4>0, LastIsNat
      <4>4. Ends(Tail(sock[i].in), pipe[i].in_seq, m)
        BY <1>1, <1>2, <1>6, <4>1, <4>2, <4>3, EndsTail
      <4>5. LastWritten(x)' = m
        BY <2>7, <4>0 DEF Still, LastWritten
      <4> QED BY <1>1, <1>2, <4>4, <4>5 DEF Ends
    <3>2. wr'[x] \notin {"none", "await"} /\ ~Awaits(i)'
      BY <1>4, <2>2, <2>5 DEF Awaits
    <3>3. (rd[x] = "seq" /\ state[i] # "closed" =>
             \A f \in Elements(sock[x].in) : f.kind = "seq" => f.seq = pipe[i].in_seq)'
      <4>1. rd[x] = "seq" /\ state[i] # "closed" =>
             \A f \in Elements(sock[x].in) : f.kind = "seq" => f.seq = pipe[i].in_seq
        BY <2>3 DEF Linked
      <4> QED BY <1>1, <2>7, <4>1 DEF PairStill, Still
    <3> QED BY <3>1, <3>2, <3>3 DEF Linked
  <2> QED BY <2>8, <2>10, <2>12, <2>13
<1> QED BY <1>2, <1>10, <1>11, <1>12, OneStep

(* The reply of accept() is sent.                                          *)
LEMMA AcceptRepliedShakes ==
  ASSUME TInv, WInv, CInv, TInv', NEW i \in Pipes, AcceptReplied(i)
  PROVE  /\ Shakes(i) /\ rd[i] = "reply" /\ rd'[i] # "reply"
         /\ loc[i].reply.tag # "SEQ" => rd'[i] # "seq" /\ (state[i] # "closed" => wr'[i] = "loop")
         /\ loc[i].reply.tag = "SEQ" => rd'[i] = "seq" /\ wr'[i] = "none"
         /\ sock' = Put(sock, i, loc[i].reply) /\ sock'[i] = sock[i]
         /\ InUse(i) => Base(outq[i]) = outq[i].out_seq
                        /\ (outq'[i].out_seq = outq[i].out_seq \/ outq'[i].out_seq <= 0)
<1> DEFINE q == Other(Owner(i))
<1>1. /\ rd[i] = "reply" /\ sock' = Put(sock, i, loc[i].reply)
      /\ UNCHANGED <<state, pipe, global_seq, in_q, submitted, delivered>>
      /\ loc[i].reply.tag = "SEQ" => rd' = [rd EXCEPT ![i] = "seq"] /\ UNCHANGED <<outq, wr, loc>>
      /\ loc[i].reply.tag # "SEQ" => AcceptDone(i, 0)
  BY DEF AcceptReplied, msgrVars, appVars
<1>2. /\ \A k \in Pipes : sock'[k].peer = sock[k].peer
      /\ \A k \in Pipes : k # sock[i].peer => sock'[k] = sock[k]
  BY <1>1, PutEffect
<1>3. i # sock[i].peer
  BY PeerIsPipe, NoneIsNoPipe DEF Live
<1>4. sock'[i] = sock[i]
  BY <1>2, <1>3
<1>5. rd \in [Pipes -> ReaderPC] /\ wr[i] = "none" /\ outq[i].sent = <<>> /\ Good(outq[i], Ids)
  <2>1. wr[i] = "none" /\ outq[i].sent = <<>>
    BY <1>1 DEF TInv, PipeInv
  <2> QED BY <2>1, SaneNow DEF Sane, TInv, LInv, Control
<1>6. ASSUME NEW k \in Pipes \ {i}, sock'[k].in # sock[k].in
      PROVE  Live(sock', i) /\ k = sock[i].peer /\ rd[k] # "accept"
  <2>1. k = sock[i].peer /\ Live(sock, i) /\ Live(sock', i)
    BY <1>2, <1>6, NoneIsNoPipe DEF Live
  <2>2. Paired(i, k)
    BY <2>1 DEF WInv, LinkInv
  <2>3. wr[k] = "await"
    BY <1>1, <1>5, <2>2 DEF Paired, Calling, GaveUp, Joined, Granted, Asked, Refused, Told, Undecided
  <2> QED BY <2>1, <2>3, Waiting
<1>7. /\ wr'[i] \in {"none", "loop"} /\ rd'[i] \in {"seq", "none", "sleep", "read"}
      /\ loc[i].reply.tag # "SEQ" => rd'[i] # "seq" /\ (state[i] # "closed" => wr'[i] = "loop")
      /\ loc[i].reply.tag = "SEQ" => rd'[i] = "seq" /\ wr'[i] = "none"
      /\ \A k \in Pipes \ {i} : rd'[k] = rd[k] /\ wr'[k] = wr[k]
                                /\ outq'[k] = outq[k] /\ loc'[k] = loc[k]
      /\ InUse(i) => /\ Top(outq'[i]) = Top(outq[i])
                     /\ Consecutive(outq'[i], submitted[Owner(i)])
                     /\ Base(outq[i]) = outq[i].out_seq
                     /\ Base(outq'[i]) = outq'[i].out_seq
                     /\ outq'[i].out_seq = outq[i].out_seq \/ outq'[i].out_seq <= 0
  <2>1. CASE loc[i].reply.tag = "SEQ"
    <3>1. InUse(i) => Consecutive(outq[i], submitted[Owner(i)])
      BY DEF CInv, SessionOK
    <3>2. Base(outq[i]) = outq[i].out_seq
      BY <1>5, QueueNumbers
    <3>3. UNCHANGED <<outq, wr, loc>> /\ rd' = [rd EXCEPT ![i] = "seq"]
      BY <1>1, <2>1
    <3> QED BY <1>5, <2>1, <3>1, <3>2, <3>3
  <2>2. CASE loc[i].reply.tag # "SEQ"
    BY <1>1, <2>2, DoneQueue
  <2> QED BY <2>1, <2>2
<1>8. \A k \in Pipes \ {i} : Still(k)
  BY <1>1, <1>7 DEF Still
<1>9. InUse(i) => \/ Base(outq'[i]) = Base(outq[i])
                  \/ Base(outq'[i]) <= InSeq(q)
  <2>1. InSeq(q) \in Nat
    BY OwnerIsPeer, OtherPeer, PeerTypes
  <2>2. PICK s : s = outq'[i]
    OBVIOUS
  <2>3. Sane(i)'
    BY SaneLater
  <2>4. s.out_seq \in Nat
    BY <2>2, <2>3, QueueNumbers DEF Sane
  <2> QED BY <1>7, <2>1, <2>2, <2>4
<1>11. rd'[i] = "seq" => loc'[i].replaced
  <2>1. loc[i].reply.tag = "SEQ" => loc[i].replaced
    BY <1>1 DEF CInv, PipeOK
  <2> QED BY <1>1, <1>7, <2>1
<1>10. Shakes(i)
  BY <1>1, <1>2, <1>4, <1>5, <1>6, <1>7, <1>8, <1>9, <1>11 DEF Shakes, CInv, NextOnes
<1> QED BY <1>1, <1>4, <1>7, <1>10

(* accept() writes its reply.                                              *)
LEMMA AcceptRepliedCInv ==
  ASSUME TInv, WInv, CInv, TInv', WInv', NEW i \in Pipes, AcceptReplied(i)
  PROVE  CInv'
<1> DEFINE p == Owner(i)
           q == Other(p)
<1>1. /\ Shakes(i) /\ rd[i] = "reply" /\ rd'[i] # "reply"
      /\ loc[i].reply.tag # "SEQ" => rd'[i] # "seq" /\ (state[i] # "closed" => wr'[i] = "loop")
      /\ loc[i].reply.tag = "SEQ" => rd'[i] = "seq" /\ wr'[i] = "none"
      /\ sock' = Put(sock, i, loc[i].reply) /\ sock'[i] = sock[i]
      /\ InUse(i) => Base(outq[i]) = outq[i].out_seq
                     /\ (outq'[i].out_seq = outq[i].out_seq \/ outq'[i].out_seq <= 0)
  BY AcceptRepliedShakes
<1>2. PICK r : r = loc[i].reply
  OBVIOUS
<1>3. r \in Replies /\ r \in Frames /\ r.kind = "reply"
  BY <1>2, SaneNow, FrameTypes DEF Sane, Replies
<1>4. StepOf(i) /\ Grows /\ NoSession' /\ \A b \in Peers : ReceivedOK(b)'
  BY <1>1, ShakesGrows
<1>5. /\ \A k \in Pipes : sock'[k].peer = sock[k].peer
      /\ \A k \in Pipes : k # sock[i].peer => sock'[k] = sock[k]
      /\ Live(sock, i) => sock'[sock[i].peer].in = Append(sock[sock[i].peer].in, r)
  BY <1>1, <1>2, PutEffect
<1>6. ASSUME NEW x \in Pipes, Live(sock, i), x = sock[i].peer
      PROVE  /\ x # i /\ wr[x] = "await" /\ sock[x].in = <<>> /\ Owner(x) = q
             /\ Opened(i, loc[x].cseq + 1) /\ r.tag \in Granting /\ r.cseq = loc[x].cseq + 1
             /\ sock'[x].in # <<>> /\ Elements(sock'[x].in) = {r} /\ Head(sock'[x].in) = r
             /\ sock[x].peer = i /\ Linked(i, x) /\ Linked(x, i)
  <2>1. x # i /\ sock[x].peer = i /\ Live(sock, x)
    BY <1>6, PeerIsPipe
  <2>2. Paired(i, x) /\ Owner(x) = q
    BY <1>6 DEF WInv, LinkInv
  <2>3. wr[i] = "none"
    BY <1>1 DEF Shakes
  <2>4. Calling(x, i) /\ Granted(x, i)
    BY <1>1, <2>2, <2>3 DEF Paired, Calling, GaveUp, Joined, Asked, Refused, Told, Undecided
  <2>5. wr[x] = "await" /\ sock[x].in = <<>> /\ Opened(i, loc[x].cseq + 1)
        /\ r.tag \in Granting /\ r.cseq = loc[x].cseq + 1
    BY <1>2, <2>4 DEF Calling, Granted
  <2>6. sock'[x].in = Append(<<>>, r)
    BY <1>5, <1>6, <2>5
  <2>7. sock'[x].in # <<>> /\ Head(sock'[x].in) = r
    BY <1>3, <2>6, EmptySeq, OneFrame
  <2>8. Elements(sock'[x].in) = {r}
    <3>2. PICK z \in Frames : z = r
      BY <1>3
    <3>3. Elements(Append(<<>>, z)) = {z}
      BY OneElement
    <3> QED BY <2>6, <3>2, <3>3
  <2>9. Linked(i, x) /\ Linked(x, i)
    BY <1>6, <2>1 DEF CInv, PairOK
  <2> QED BY <2>1, <2>2, <2>5, <2>7, <2>8, <2>9
<1>7. ASSUME NEW x \in Pipes, Live(sock, i), x = sock[i].peer
      PROVE  FrameOK(q, r)'
  <2>1. Opened(i, loc[x].cseq + 1) /\ loc[x].cseq \in Nat /\ r.tag \in Granting
    BY <1>6, <1>7, SaneNow DEF Sane
  <2>2. InUse(i)' /\ pipe'[i].connect_seq > 0 /\ ~Tentative(i)'
    BY <1>1, <2>1 DEF Shakes, InUse, Opened, Tentative
  <2>3. Known(p)' /\ Counts(p)'
    BY <2>2, PeerValuesLater
  <2>4. Other(q) = p /\ p \in Peers
    BY OwnerIsPeer, OtherPeer
  <2>5. ReplyOK(r, p)
    BY <1>1, <1>2 DEF CInv, PipeOK
  <2>6. ReplyOK(r, p)'
    BY <1>3, <1>4, <2>4, <2>5, ReplyGrows DEF Replies
  <2> QED BY <1>3, <2>1, <2>3, <2>4, <2>6 DEF FrameOK, Granting
<1>8. NewFramesOK
  <2> SUFFICES ASSUME NEW k \in Pipes, NEW f \in Elements(sock'[k].in), f \notin Elements(sock[k].in)
               PROVE  FrameOK(Owner(k), f)' /\ f.kind # "connect"
    BY DEF NewFramesOK
  <2>1. k = sock[i].peer /\ Live(sock, i)
    BY <1>5, NoneIsNoPipe DEF Live
  <2>2. f = r /\ Owner(k) = q
    BY <1>6, <2>1
  <2> QED BY <1>3, <1>7, <2>1, <2>2
<1>9. PipeOK(i)' /\ SessionOK(i)' /\ NextOnes(i)' /\ Guarded(i)'
  BY <1>1, <1>8, ShakesOwn
<1>10. ASSUME NEW x \in Pipes, Live(sock', i), x = sock[i].peer
       PROVE  NextOnes(x)' /\ Guarded(x)' /\ Linked(i, x)' /\ Linked(x, i)'
  <2>1. Live(sock, i)
    BY <1>5, <1>10 DEF Live
  <2>2. /\ x # i /\ wr[x] = "await" /\ sock[x].in = <<>> /\ Owner(x) = q
        /\ Opened(i, loc[x].cseq + 1) /\ r.tag \in Granting /\ r.cseq = loc[x].cseq + 1
        /\ sock'[x].in # <<>> /\ Elements(sock'[x].in) = {r} /\ Head(sock'[x].in) = r
        /\ sock[x].peer = i /\ Linked(i, x) /\ Linked(x, i)
    BY <1>6, <1>10, <2>1
  <2>3. rd[x] \in {"none", "sleep"} /\ state[x] \in {"connecting", "closed"} /\ ~Listens(x)
    BY <2>2, Waiting
  <2>4. Still(x) /\ state' = state /\ pipe' = pipe
    BY <1>1, <2>2 DEF Shakes
  <2>5. ~Listens(x)'
    BY <2>3, <2>4 DEF Still, Listens, InUse
  <2>6. ~HasMsg(sock'[x].in)
    BY <1>3, <2>2 DEF HasMsg
  <2>7. pipe[x].in_seq \in Nat
    BY SaneNow DEF Sane
  <2>8. PICK s : s = sock'[x].in
    OBVIOUS
  <2>9. Climbs(s, pipe[x].in_seq) /\ Ends(s, pipe[x].in_seq, pipe[x].in_seq)
    BY <2>6, <2>7, <2>8, NoMsgs
  <2>10. NextOnes(x)'
    BY <2>4, <2>8, <2>9 DEF NextOnes
  <2>11. Guarded(x)'
    <3>1. TrustsOpen(x)' => TrustsOpen(x)
      <4>1. (InUse(x) /\ pipe[x].in_seq > 0)' => TrustsOpen(x)
        BY <2>4 DEF Still, InUse, TrustsOpen
      <4>2. ~(Live(sock, x) /\ state[x] = "open" /\ state[sock[x].peer] = "open")'
        BY <2>3, <2>4
      <4> QED BY <2>5, <4>1, <4>2 DEF TrustsOpen
    <3>2. ASSUME NEW b \in Nat, TrustsReply(x, b)'
          PROVE  TrustsReply(x, b)
      <4>1. Answer(x)' = r
        BY <2>2 DEF Answer
      <4>2. Awaits(x)
        BY <2>4, <3>2 DEF TrustsReply, Awaits, Still
      <4>3. sock'[x].peer = i
        BY <1>5, <2>2
      <4>4. b = r.gseq
        BY <1>1, <3>2, <4>1, <4>3 DEF TrustsReply
      <4>5. Live(sock, x) /\ sock[x].peer = i
        BY <2>2, NoneIsNoPipe DEF Live
      <4> QED BY <1>1, <1>2, <4>2, <4>4, <4>5 DEF TrustsReply
    <3>3. NoNewAttempts
      BY <1>4, <1>8, StepNoNewAttempts
    <3> QED BY <2>4, <3>1, <3>2, <3>3, GuardedKept DEF CInv
  <2>12. Linked(i, x)'
    <3>1. (state[i] = "open" /\ wr[i] # "none" /\ state[x] # "closed"
             => Ends(sock[x].in, pipe[x].in_seq, LastWritten(i)))'
      <4> SUFFICES ASSUME wr'[i] # "none", state[x] # "closed", state[i] = "open"
                   PROVE  (Ends(sock[x].in, pipe[x].in_seq, LastWritten(i)))'
        BY <2>4
      <4>1. LastWritten(i)' = outq'[i].out_seq
        BY <1>1 DEF LastWritten, Shakes
      <4>2. r.tag = "READY"
        BY <1>1, <1>2, <2>2 DEF Granting
      <4>3. r.cseq = 1
        BY <1>1, <1>2, <4>2 DEF CInv, PipeOK, ReplyOK
      <4>4. loc[x].cseq = 0
        BY <2>2, <4>3, SaneNow DEF Sane
      <4>5. state[x] = "connecting" /\ pipe[x].connect_seq = 0
        BY <2>2, <2>3, <4>4 DEF WInv, EndInv
      <4>6. InUse(x) /\ InUse(i)
        BY <4>5 DEF InUse
      <4>7. pipe[x].in_seq = 0
        BY <4>5, <4>6 DEF CInv, SessionOK, Fresh
      <4>8. InSeq(q) = 0
        BY <2>2, <4>6, <4>7, PeerValues
      <4>9. outq[i].out_seq <= 0
        BY <1>1, <4>6, <4>8 DEF CInv, SessionOK
      <4>10. outq'[i].out_seq = 0
        <5>1. Sane(i) /\ Sane(i)'
          BY SaneNow, SaneLater
        <5>2. PICK u : u = outq'[i]
          OBVIOUS
        <5>3. u.out_seq \in Nat /\ outq[i].out_seq \in Nat
          BY <5>1, <5>2, QueueNumbers DEF Sane
        <5> QED BY <1>1, <4>6, <4>9, <5>2, <5>3
      <4> QED BY <2>4, <2>8, <2>9, <4>1, <4>7, <4>10 DEF Ends
    <3>2. (wr[i] = "none" => Only(sock[x].in, "reply"))' /\ wr'[i] # "await"
      BY <1>1, <1>3, <2>2 DEF Only, Shakes
    <3>3. (Awaits(x) /\ state[i] = "open" =>
             /\ pipe[i].peer_global_seq = loc[x].gseq
             /\ rd[i] = "reply" /\ loc[i].reply.tag = "SEQ" => loc[i].reply.acked = pipe[i].in_seq
             /\ sock[x].in # <<>> /\ Answer(x).tag = "SEQ" => Answer(x).acked = pipe[i].in_seq)'
      <4> SUFFICES ASSUME Awaits(x)', state[i] = "open"
                   PROVE  (/\ pipe[i].peer_global_seq = loc[x].gseq
                           /\ Answer(x).tag = "SEQ" => Answer(x).acked = pipe[i].in_seq)'
        BY <1>1, <2>4
      <4>1. Awaits(x)
        BY <2>4 DEF Awaits, Still
      <4>2. /\ pipe[i].peer_global_seq = loc[x].gseq
            /\ rd[i] = "reply" /\ loc[i].reply.tag = "SEQ" => loc[i].reply.acked = pipe[i].in_seq
        BY <2>2, <4>1 DEF Linked
      <4>3. Answer(x)' = r
        BY <2>2 DEF Answer
      <4> QED BY <1>1, <1>2, <2>4, <4>2, <4>3 DEF Still
    <3>4. (rd[i] = "seq" /\ state[x] # "closed" =>
             \A f \in Elements(sock[i].in) : f.kind = "seq" => f.seq = pipe[x].in_seq)'
      <4>1. Only(sock[i].in, "connect")
        BY <2>2 DEF Linked
      <4> QED BY <1>1, <4>1 DEF Only
    <3> QED BY <3>1, <3>2, <3>3, <3>4 DEF Linked
  <2>13. Linked(x, i)'
    <3>1. state'[x] # "open" /\ wr'[x] = "await" /\ rd'[x] # "seq"
      BY <2>2, <2>3, <2>4 DEF Still
    <3>2. Only(sock[i].in, "connect")'
      <4>1. Only(sock[i].in, "connect")
        BY <2>2 DEF Linked
      <4> QED BY <1>1, <4>1 DEF Only
    <3>3. ~Awaits(i)'
      BY <1>1 DEF Awaits, Shakes
    <3>4. (rd[x] = "seq" /\ state[i] # "closed" =>
             \A f \in Elements(sock[x].in) : f.kind = "seq" => f.seq = pipe[i].in_seq)'
      BY <3>1
    <3> QED BY <3>1, <3>2, <3>3, <3>4 DEF Linked
  <2> QED BY <2>10, <2>11, <2>12, <2>13
<1> QED BY <1>4, <1>8, <1>9, <1>10, OneStep
=============================================================================
