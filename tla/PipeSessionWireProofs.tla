------------------------ MODULE PipeSessionWireProofs ------------------------
(***************************************************************************)
(* The handshake of PipeSession, for every value of the constants: two     *)
(* open ends of a connection agree on connect_seq, and the assertions of   *)
(* accept(), connect(), start_writer(), writer() and reaper() hold.        *)
(*                                                                         *)
(* Agreement is about two Pipes of two messengers that share nothing but a *)
(* socket, so the invariant follows a connection through the handshake: at *)
(* every moment its two ends stand in one of the relations of Paired.      *)
(***************************************************************************)
EXTENDS PipeSessionProofs

(* The replies that open the connecting end.                               *)
Granting == {"READY", "SEQ"}

Opened(j, n) == state[j] = "open" /\ pipe[j].connect_seq = n

(* j has still to decide.                                                  *)
Undecided(j) == rd[j] = "accept" /\ state[j] = "accepting"

(* The connecting end i waits for an answer of j: its request is on the    *)
(* way; or a refusal is; or j has opened and is about to say so; or it has *)
(* said so.                                                                *)
Asked(i, j) == /\ Undecided(j) /\ sock[i].in = <<>> /\ Len(sock[j].in) = 1
               /\ Request(j).cseq = loc[i].cseq
Refused(i, j) == /\ Undecided(j) /\ sock[j].in = <<>>
                 /\ sock[i].in # <<>> /\ Answer(i).tag \notin Granting
Granted(i, j) == /\ rd[j] = "reply" /\ Opened(j, loc[i].cseq + 1) /\ sock[i].in = <<>>
                 /\ loc[j].reply.tag \in Granting /\ loc[j].reply.cseq = loc[i].cseq + 1
Told(i, j) == /\ rd[j] \notin {"accept", "reply"} /\ Opened(j, loc[i].cseq + 1)
              /\ sock[i].in # <<>> /\ Answer(i).tag \in Granting
Calling(i, j) == /\ wr[i] = "await"
                 /\ Asked(i, j) \/ Refused(i, j) \/ Granted(i, j) \/ Told(i, j)

(* The connecting end i has given up after an answer, its socket still     *)
(* there: j waits in vain, or it has opened and i is closed.               *)
GaveUp(i, j) ==
  /\ wr[i] \in {"loop", "join"} /\ rd[i] \in {"none", "sleep"}
  /\ \/ state[i] \in {"connecting", "wait", "closed"} /\ Undecided(j) /\ sock[j].in = <<>>
     \/ /\ wr[i] = "loop" /\ state[i] = "closed"
        /\ state[j] = "open" /\ rd[j] \notin {"accept", "reply"}

(* Both ends have finished the handshake.                                  *)
Joined(i, j) ==
  /\ rd[i] \notin {"accept", "reply"} /\ rd[j] \notin {"accept", "reply"}
  /\ state[i] = "open" /\ Opened(j, pipe[i].connect_seq)

Paired(i, j) == Calling(i, j) \/ Calling(j, i) \/ GaveUp(i, j) \/ GaveUp(j, i) \/ Joined(i, j)

(* A reply that has arrived carries what connect() expects.                *)
ExpectedAnswer(i) ==
  /\ Answer(i).kind = "reply"
  /\ Answer(i).tag \in Granting => Answer(i).cseq = loc[i].cseq + 1
  /\ Answer(i).tag \notin Granting => Len(sock[i].in) = 1
  /\ Answer(i).tag = "RETRY_SESSION" => Answer(i).cseq > loc[i].cseq
  /\ Answer(i).tag = "WAIT" => AddrLess(Other(Owner(i)), Owner(i))

(* What holds of one end by itself.                                        *)
EndInv(i) ==
  /\ wr[i] \in {"join", "await"} =>
       /\ state[i] \in {"connecting", "closed"}
       /\ state[i] = "connecting" => loc[i].cseq = pipe[i].connect_seq
  /\ wr[i] = "await" => /\ rd[i] \in {"none", "sleep"}
                        /\ sock[i].in # <<>> => ExpectedAnswer(i)
  /\ state[i] \notin {"free", "closed"} /\ wr[i] = "none" => rd[i] \in {"accept", "reply", "seq"}
  /\ state[i] = "closed" => ~pipe[i].con
  /\ state[i] = "connecting" => ~Policy[Owner(i)].server
  /\ state[i] = "wait" => AddrLess(Other(Owner(i)), Owner(i))

(* The two ends of a connection know each other and are of two messengers. *)
LinkInv(i) == Live(sock, i) => /\ sock[sock[i].peer].peer = i
                               /\ Owner(sock[i].peer) = Other(Owner(i))
                               /\ Paired(i, sock[i].peer)

WInv == \A i \in Pipes : EndInv(i) /\ LinkInv(i)

(* The invariant implies what it is for.                                   *)
LEMMA AgreeFromWInv == TInv /\ WInv => SessionsAgree
<1> SUFFICES ASSUME TInv, WInv, NEW i \in Pipes, Live(sock, i), state[i] = "open",
                    state[sock[i].peer] = "open"
             PROVE  pipe[i].connect_seq = pipe[sock[i].peer].connect_seq
  BY DEF SessionsAgree
<1>1. PICK j \in Pipes : j = sock[i].peer
  BY DEF Live, TInv, DataOK, SockType
<1>2. Paired(i, j) /\ EndInv(i) /\ EndInv(j)
  BY <1>1 DEF WInv, LinkInv
<1> QED BY <1>1, <1>2 DEF Paired, Calling, GaveUp, Joined, Opened, EndInv

LEMMA OtherPeer == \A p \in Peers : /\ Other(p) \in Peers /\ Other(p) # p /\ Other(Other(p)) = p
                                    /\ AddrLess(p, Other(p)) <=> ~AddrLess(Other(p), p)
BY DEF Other, Peers, AddrLess

LEMMA AssertsFromWInv ==
  TInv /\ WInv => RaceAssert /\ ReplyAssert /\ ReapAssert /\ ThreadAssert
<1> SUFFICES ASSUME TInv, WInv
             PROVE  RaceAssert /\ ReplyAssert /\ ReapAssert /\ ThreadAssert
  OBVIOUS
<1>1. RaceAssert
  <2> SUFFICES ASSUME NEW i \in Pipes, Deciding(i), NEW p, p = Owner(i), NEW e, e = Lookup(p)
               PROVE  /\ DecidedAs(i) = "WAIT" => state[e] = "connecting"
                      /\ DecidedAs(i) = "replace" /\ Request(i).cseq = pipe[e].connect_seq
                           => state[e] \in {"connecting", "wait"}
    BY DEF RaceAssert
  <2>1. CASE e = None
    BY <2>1 DEF DecidedAs, Verdict
  <2>2. CASE e # None
    <3>1. /\ p \in Peers /\ e \in Pipes /\ Owner(e) = p
          /\ state[e] \in {"connecting", "open", "standby", "wait"}
      BY <2>2, OwnerIsPeer, LookupProperties DEF TInv, LInv, Control, States
    <3>2. state[e] = "wait" => AddrLess(Other(p), p)
      BY <3>1 DEF WInv, EndInv
    <3>3. DecidedAs(i) = "WAIT" => RaceVerdict(p, e) = "WAIT"
      BY <2>2 DEF DecidedAs, Verdict
    <3>4. DecidedAs(i) = "replace" /\ Request(i).cseq = pipe[e].connect_seq
            => RaceVerdict(p, e) = "replace"
      BY <2>2 DEF DecidedAs, Verdict, HardReset
    <3> QED BY <3>1, <3>2, <3>3, <3>4 DEF RaceVerdict
  <2> QED BY <2>1, <2>2
<1>2. ReplyAssert
  BY DEF ReplyAssert, Answers, Answered, Arrived, Answer, WInv, EndInv, ExpectedAnswer, Granting
<1>3. ReapAssert
  <2> SUFFICES ASSUME NEW i \in Pipes, state[i] # "free", ReaderGone(i), WriterGone(i)
               PROVE  state[i] = "closed" /\ ~pipe[i].con
    BY DEF ReapAssert
  <2> QED BY DEF WInv, EndInv, ReaderGone, WriterGone
<1>4. ThreadAssert
  BY DEF ThreadAssert, WInv, EndInv, TInv, PipeInv
<1> QED BY <1>1, <1>2, <1>3, <1>4
-----------------------------------------------------------------------------
(* Steps in general.                                                       *)

(* What a step leaves of one end as it was, apart from its connection.     *)
Kept(k) ==
  /\ state'[k] = state[k] /\ rd'[k] = rd[k] /\ wr'[k] = wr[k] /\ loc'[k] = loc[k]
  /\ pipe'[k].connect_seq = pipe[k].connect_seq /\ pipe'[k].con = pipe[k].con
  /\ sock'[k].in = sock[k].in

(* Connections only end, and they end on both sides.                       *)
Severing(new) ==
  \A k \in Pipes : /\ new[k].peer = sock[k].peer \/ new[k].peer = None
                   /\ Live(sock, k) /\ ~Live(new, k) => ~Live(new, sock[k].peer)

LEMMA PeerIsPipe ==
  ASSUME TInv, WInv, NEW i \in Pipes, Live(sock, i)
  PROVE  /\ sock[i].peer \in Pipes /\ sock[i].peer # i
         /\ sock[sock[i].peer].peer = i /\ Live(sock, sock[i].peer)
<1>1. sock[i].peer \in Pipes
  BY DEF Live, TInv, DataOK, SockType
<1>2. sock[sock[i].peer].peer = i /\ Owner(sock[i].peer) = Other(Owner(i))
  BY DEF WInv, LinkInv
<1> QED BY <1>1, <1>2, OwnerIsPeer, OtherPeer, NoneIsNoPipe DEF Live

LEMMA KeptEnd ==
  ASSUME NEW k \in Pipes, Kept(k), EndInv(k)
  PROVE  EndInv(k)'
BY DEF Kept, EndInv, ExpectedAnswer, Answer

LEMMA KeptPair ==
  ASSUME NEW i \in Pipes, NEW j \in Pipes, Kept(i), Kept(j), Paired(i, j)
  PROVE  Paired(i, j)'
<1>1. Calling(i, j) => Calling(i, j)'
  BY DEF Kept, Calling, Asked, Refused, Granted, Told, Undecided, Opened, Request, Answer
<1>2. Calling(j, i) => Calling(j, i)'
  BY DEF Kept, Calling, Asked, Refused, Granted, Told, Undecided, Opened, Request, Answer
<1>3. GaveUp(i, j) => GaveUp(i, j)'
  BY DEF Kept, GaveUp, Undecided
<1>4. GaveUp(j, i) => GaveUp(j, i)'
  BY DEF Kept, GaveUp, Undecided
<1>5. Joined(i, j) => Joined(i, j)'
  BY DEF Kept, Joined, Opened
<1> QED BY <1>1, <1>2, <1>3, <1>4, <1>5 DEF Paired

LEMMA PairedSymmetric == \A i, j \in Pipes : Paired(i, j) <=> Paired(j, i)
BY DEF Paired, Joined, Opened

(* A step is sound if every connection that survives it is as it was or    *)
(* stands in one of the relations afterwards.                              *)
LEMMA SurvivingLinks ==
  ASSUME TInv, WInv, Severing(sock'),
         \A k \in Pipes : Kept(k) \/ EndInv(k)',
         \A k, j \in Pipes : Live(sock', k) /\ j = sock[k].peer =>
            (Kept(k) /\ Kept(j)) \/ Paired(k, j)'
  PROVE  WInv'
<1> SUFFICES ASSUME NEW k \in Pipes PROVE EndInv(k)' /\ LinkInv(k)'
  BY DEF WInv
<1>1. EndInv(k)'
  BY KeptEnd DEF WInv
<1>2. ASSUME Live(sock', k)
      PROVE  LinkInv(k)'
  <2>1. sock'[k].peer = sock[k].peer /\ Live(sock, k)
    BY <1>2 DEF Severing, Live
  <2>2. PICK j \in Pipes : j = sock[k].peer
    BY <2>1, PeerIsPipe
  <2>3. sock[j].peer = k /\ Live(sock, j) /\ Owner(j) = Other(Owner(k)) /\ Paired(k, j)
    BY <2>1, <2>2, PeerIsPipe DEF WInv, LinkInv
  <2>4. sock'[j].peer = k
    <3>1. Live(sock', j)
      BY <1>2, <2>2, <2>3 DEF Severing
    <3> QED BY <2>3, <3>1 DEF Severing, Live
  <2>5. Paired(k, j)'
    <3>1. (Kept(k) /\ Kept(j)) \/ Paired(k, j)'
      BY <1>2, <2>1, <2>2, <2>4
    <3>2. Kept(k) /\ Kept(j) => Paired(k, j)'
      BY <2>3, KeptPair
    <3> QED BY <3>1, <3>2
  <2> QED BY <2>1, <2>2, <2>3, <2>4, <2>5 DEF LinkInv
<1>3. ~Live(sock', k) => LinkInv(k)'
  BY DEF LinkInv
<1> QED BY <1>1, <1>2, <1>3

(* A step of one Pipe that keeps every connection.                         *)
LEMMA PairStep ==
  ASSUME TInv, WInv, NEW i \in Pipes,
         \A k \in Pipes : sock'[k].peer = sock[k].peer,
         EndInv(i)',
         \A k \in Pipes \ {i} : k # sock[i].peer => Kept(k),
         \A j \in Pipes : Live(sock, i) /\ j = sock[i].peer
           => Paired(i, j)' /\ (Kept(j) \/ EndInv(j)')
  PROVE  WInv'
<1>1. Severing(sock')
  BY PeerIsPipe DEF Severing, Live
<1>2. \A k \in Pipes : Kept(k) \/ EndInv(k)'
  BY NoneIsNoPipe DEF Live
<1>3. ASSUME NEW k \in Pipes, NEW j \in Pipes, Live(sock', k), j = sock[k].peer
      PROVE  (Kept(k) /\ Kept(j)) \/ Paired(k, j)'
  <2>1. Live(sock, k)
    BY <1>3 DEF Live
  <2>2. j = sock[k].peer
    BY <1>3
  <2>3. sock[j].peer = k /\ Live(sock, j) /\ j # k
    BY <2>1, <2>2, PeerIsPipe
  <2>4. CASE k = i
    BY <2>1, <2>2, <2>4
  <2>5. CASE j = i
    <3>1. Paired(i, k)'
      BY <2>3, <2>5
    <3>2. Paired(k, i)'
      BY <3>1 DEF Paired, Joined, Opened
    <3> QED BY <2>2, <2>5, <3>2
  <2>6. CASE k # i /\ j # i
    <3>1. k # sock[i].peer /\ j # sock[i].peer
      BY <2>1, <2>2, <2>3, <2>6, PeerIsPipe, NoneIsNoPipe DEF Live
    <3> QED BY <2>6, <3>1
  <2> QED BY <2>4, <2>5, <2>6
<1> QED BY <1>1, <1>2, <1>3, SurvivingLinks

(* A step of one Pipe that ends or does not have its connection.           *)
LEMMA BrokenStep ==
  ASSUME TInv, WInv, NEW i \in Pipes, Severing(sock'), ~Live(sock', i),
         \A k \in Pipes \ {i} : Kept(k),
         EndInv(i)'
  PROVE  WInv'
<1>1. \A k \in Pipes : Kept(k) \/ EndInv(k)'
  OBVIOUS
<1>2. ASSUME NEW k \in Pipes, NEW j \in Pipes, Live(sock', k), j = sock[k].peer
      PROVE  Kept(k) /\ Kept(j)
  <2>1. Live(sock, k) /\ k # i
    BY <1>2 DEF Severing, Live
  <2>2. sock[k].peer \in Pipes /\ sock[sock[k].peer].peer = k
    BY <2>1, PeerIsPipe
  <2>3. sock[k].peer # i
    <3> SUFFICES ASSUME sock[k].peer = i PROVE FALSE
      OBVIOUS
    <3>1. Live(sock, i) /\ sock[i].peer = k
      BY <2>1, <2>2, NoneIsNoPipe DEF Live
    <3> QED BY <1>2, <3>1 DEF Severing
  <2> QED BY <1>2, <2>1, <2>3
<1> QED BY <1>1, <1>2, SurvivingLinks

LEMMA CutSevers ==
  ASSUME TInv, WInv, NEW i \in Pipes, NEW new,
         new = Cut(sock, i) \/ new = Shut(sock, i) \/ new = Stopped(sock, i)
  PROVE  /\ Severing(new) /\ ~Live(new, i)
         /\ \A k \in Pipes \ {i} : new[k].in = sock[k].in
         /\ new[i].in = sock[i].in \/ new[i].in = <<>>
<1>1. sock \in Socks
  BY DEF TInv, DataOK, Socks
<1>2. \A k \in Pipes :
         /\ new[k].peer = IF k = i \/ sock[k].peer = i THEN None ELSE sock[k].peer
         /\ new[k].in = sock[k].in \/ (k = i /\ new[k].in = <<>>)
  <2> DEFINE c == Cut(sock, i)
  <2>1. c \in Socks
    BY <1>1, CutType
  <2>2. \A k \in Pipes :
          /\ c[k].peer = IF k = i \/ sock[k].peer = i THEN None ELSE sock[k].peer
          /\ c[k].in = sock[k].in
    BY <1>1 DEF Cut, Socks, SockType
  <2>3. new = c \/ new = [c EXCEPT ![i].up = FALSE] \/ new = [c EXCEPT ![i] = NoSock]
    BY DEF Shut, Stopped
  <2> HIDE DEF c
  <2> QED BY <2>1, <2>2, <2>3 DEF Socks, SockType, NoSock
<1>3. ASSUME NEW k \in Pipes, Live(sock, k), ~Live(new, k)
      PROVE  ~Live(new, sock[k].peer)
  <2>1. sock[k].peer \in Pipes /\ sock[sock[k].peer].peer = k
    BY <1>3, PeerIsPipe
  <2>2. k = i \/ sock[k].peer = i
    BY <1>2, <1>3 DEF Live
  <2> QED BY <1>2, <2>1, <2>2 DEF Live
<1> QED BY <1>2, <1>3 DEF Severing, Live

(* fault().                                                                *)
LEMMA FaultEnd ==
  ASSUME TInv, WInv, NEW i \in Pipes, NEW st, NEW onread, NEW q, Fault(i, st, onread, q),
         st = "connecting" => ~Policy[Owner(i)].server
  PROVE  /\ state'[i] \in {"connecting", "standby", "closed"}
         /\ state'[i] = "closed" => ~pipe'[i].con
         /\ state'[i] = "connecting" => ~Policy[Owner(i)].server
         /\ \/ sock' = sock /\ st = "connecting" /\ onread /\ pipe' = pipe
               /\ state'[i] = "connecting"
            \/ sock' = Shut(sock, i) /\ st # "closed" /\ ~(st = "connecting" /\ onread)
            \/ sock' = Stopped(sock, i) /\ state'[i] = "closed"
         /\ st = "closed" => state'[i] = "closed"
<1>1. /\ pipe \in [Pipes -> PipeType] /\ state \in [Pipes -> States]
  BY DEF TInv, DataOK, LInv, Control
<1>2. CASE FaultIgnored(i, st, onread, q)
  BY <1>1, <1>2 DEF FaultIgnored
<1>3. CASE FaultClosed(i, st, q)
  BY <1>1, <1>3 DEF FaultClosed, Detached, PipeType
<1>4. CASE FaultLossy(i, st)
  <2>1. /\ st # "closed" /\ state' = [state EXCEPT ![i] = "closed"]
        /\ pipe' = [pipe EXCEPT ![i] = Detached(@)] /\ sock' = Stopped(sock, i)
    BY <1>4, NoneIsNoPipe DEF FaultLossy, StoppedState
  <2> QED BY <1>1, <2>1 DEF Detached, PipeType
<1>5. CASE FaultLossless(i, st, onread, q)
  <2>1. PICK new : /\ new = FaultState(i, st, requeue_sent(q))
                   /\ state' = [state EXCEPT ![i] = new] /\ sock' = Shut(sock, i)
                   /\ st # "closed" /\ ~(st = "connecting" /\ onread)
    BY <1>5 DEF FaultLossless
  <2>2. /\ new \in {"connecting", "standby"}
        /\ new = "connecting" => ~Policy[Owner(i)].server
    BY <2>1 DEF FaultState
  <2> QED BY <1>1, <2>1, <2>2
<1> QED BY <1>2, <1>3, <1>4, <1>5 DEF Fault

(* A fault whose thread leaves connect() or accept().                      *)
LEMMA FaultWInv ==
  ASSUME TInv, WInv, NEW i \in Pipes, NEW st, NEW onread, NEW q, Fault(i, st, onread, q),
         st = "connecting" => ~Policy[Owner(i)].server,
         ~onread \/ Broken(i),
         \A j \in Pipes \ {i} : rd'[j] = rd[j] /\ wr'[j] = wr[j] /\ loc'[j] = loc[j],
         \/ wr'[i] \notin {"none", "join", "await"}
         \/ st = "closed" /\ wr'[i] = "none"
         \/ st = state[i] /\ wr[i] \notin {"none", "await"} /\ wr'[i] = wr[i] /\ loc'[i] = loc[i]
            /\ onread
  PROVE  WInv'
<1>1. /\ state'[i] \in {"connecting", "standby", "closed"}
      /\ state'[i] = "closed" => ~pipe'[i].con
      /\ state'[i] = "connecting" => ~Policy[Owner(i)].server
      /\ \/ sock' = sock /\ st = "connecting" /\ onread /\ pipe' = pipe /\ state'[i] = "connecting"
         \/ sock' = Shut(sock, i) /\ st # "closed" /\ ~(st = "connecting" /\ onread)
         \/ sock' = Stopped(sock, i) /\ state'[i] = "closed"
      /\ st = "closed" => state'[i] = "closed"
  BY FaultEnd
<1>2. /\ Severing(sock') /\ ~Live(sock', i)
      /\ \A k \in Pipes \ {i} : sock'[k].in = sock[k].in
      /\ sock'[i].in = sock[i].in \/ sock'[i].in = <<>>
  <2>1. CASE sock' = sock /\ onread
    BY <2>1 DEF Broken, Severing, Live
  <2>2. CASE sock' = Shut(sock, i) \/ sock' = Stopped(sock, i)
    BY <2>2, CutSevers
  <2> QED BY <1>1, <2>1, <2>2
<1>3. \A k \in Pipes \ {i} : Kept(k)
  <2>1. \A k \in Pipes \ {i} : state'[k] = state[k] /\ pipe'[k] = pipe[k]
    BY FaultEffect DEF TInv, LInv
  <2> QED BY <1>2, <2>1 DEF Kept
<1>4. EndInv(i)'
  <2>1. CASE wr'[i] \notin {"none", "join", "await"}
    BY <1>1, <2>1 DEF EndInv
  <2>2. CASE st = "closed" /\ wr'[i] = "none"
    BY <1>1, <2>2 DEF EndInv
  <2>3. CASE /\ st = state[i] /\ wr[i] = "join" /\ wr'[i] = wr[i] /\ loc'[i] = loc[i]
             /\ onread
    <3>1. EndInv(i) /\ state[i] \in {"connecting", "closed"}
      BY <2>3 DEF WInv, EndInv
    <3>2. CASE state[i] = "connecting"
      <4>1. FaultIgnored(i, st, onread, q)
        BY <2>3, <3>2 DEF Fault, FaultClosed, FaultLossy, FaultLossless
      <4>2. pipe' = pipe
        BY <4>1 DEF FaultIgnored
      <4> QED BY <1>1, <2>3, <3>1, <3>2, <4>2 DEF EndInv
    <3>3. CASE state[i] = "closed"
      BY <1>1, <2>3, <3>3 DEF EndInv
    <3> QED BY <3>1, <3>2, <3>3
  <2>4. CASE st = state[i] /\ wr[i] \notin {"none", "join", "await"} /\ wr'[i] = wr[i]
    BY <1>1, <2>4 DEF EndInv
  <2> QED BY <2>1, <2>2, <2>3, <2>4
<1> QED BY <1>2, <1>3, <1>4, BrokenStep
-----------------------------------------------------------------------------
(* Reading and writing frames.                                             *)

LEMMA TookEffect ==
  ASSUME TInv, NEW i \in Pipes
  PROVE  /\ \A k \in Pipes : Took(sock, i)[k].peer = sock[k].peer
         /\ \A k \in Pipes \ {i} : Took(sock, i)[k] = sock[k]
         /\ Took(sock, i)[i].in = Tail(sock[i].in)
BY DEF Took, TInv, DataOK, SockType

LEMMA PutEffect ==
  ASSUME TInv, NEW i \in Pipes, NEW f
  PROVE  /\ \A k \in Pipes : Put(sock, i, f)[k].peer = sock[k].peer
         /\ \A k \in Pipes : k # sock[i].peer => Put(sock, i, f)[k] = sock[k]
         /\ Live(sock, i) => Put(sock, i, f)[sock[i].peer].in = Append(sock[sock[i].peer].in, f)
<1>1. ~Live(sock, i) => sock[i].peer \notin Pipes
  BY NoneIsNoPipe DEF Live
<1>2. Live(sock, i) => sock[i].peer \in Pipes
  BY DEF Live, TInv, DataOK, SockType
<1> QED BY <1>1, <1>2 DEF Put, TInv, DataOK, SockType

(* The sockets after i has read a frame and answered it with f.            *)
AnsweredWith(new, i, f) ==
  /\ \A k \in Pipes : new[k].peer = sock[k].peer
  /\ \A k \in Pipes \ {i} : k # sock[i].peer => new[k] = sock[k]
  /\ new[i].in = Tail(sock[i].in)
  /\ Live(sock, i) => new[sock[i].peer].in = Append(sock[sock[i].peer].in, f)

LEMMA AnswerEffect ==
  ASSUME TInv, WInv, NEW i \in Pipes, NEW f, NEW new, new = Put(Took(sock, i), i, f)
  PROVE  AnsweredWith(new, i, f)
<1>1. PICK t : t = Took(sock, i)
  OBVIOUS
<1>2. /\ \A k \in Pipes : t[k].peer = sock[k].peer /\ t[k] = [t[k] EXCEPT !.up = @]
      /\ \A k \in Pipes \ {i} : t[k] = sock[k]
      /\ t[i].in = Tail(sock[i].in) /\ DOMAIN t = Pipes
  BY <1>1 DEF Took, TInv, DataOK, SockType
<1>3. new = IF Live(sock, i) THEN [t EXCEPT ![sock[i].peer].in = Append(@, f)] ELSE t
  BY <1>1, <1>2 DEF Put, Live
<1>4. CASE Live(sock, i)
  <2>1. PICK j \in Pipes : j = sock[i].peer /\ j # i
    BY <1>4, PeerIsPipe
  <2>2. new = [t EXCEPT ![j].in = Append(@, f)]
    BY <1>3, <1>4, <2>1
  <2>3. sock[j] = [peer |-> sock[j].peer, up |-> sock[j].up, in |-> sock[j].in]
    BY DEF TInv, DataOK, SockType
  <2>4. t[j] = sock[j] /\ j \in DOMAIN t
    BY <1>2, <2>1
  <2>5. \A k \in Pipes : k # j => new[k] = t[k]
    BY <1>2, <2>2
  <2>6. new[j].peer = sock[j].peer /\ new[j].in = Append(sock[j].in, f)
    BY <2>2, <2>3, <2>4
  <2>7. \A k \in Pipes : new[k].peer = sock[k].peer
    BY <1>2, <2>5, <2>6
  <2>8. new[i].in = Tail(sock[i].in) /\ \A k \in Pipes \ {i} : k # j => new[k] = sock[k]
    BY <1>2, <2>1, <2>5
  <2> QED BY <2>1, <2>6, <2>7, <2>8 DEF AnsweredWith
<1>5. CASE ~Live(sock, i)
  BY <1>2, <1>3, <1>5 DEF AnsweredWith
<1> QED BY <1>4, <1>5

LEMMA OneFrame ==
  ASSUME NEW S, NEW s \in Seq(S), NEW f \in S
  PROVE  /\ Append(s, f) # <<>>
         /\ s = <<>> => Len(Append(s, f)) = 1 /\ Head(Append(s, f)) = f
         /\ s # <<>> => Head(Append(s, f)) = Head(s)
         /\ Len(s) = 1 => s # <<>> /\ Tail(s) = <<>>
<1>1. Append(s, f) \in Seq(S) /\ Len(Append(s, f)) = Len(s) + 1
  BY AppendProperties
<1>2. Append(s, f) # <<>>
  BY <1>1, EmptySeq
<1>3. s = <<>> => Len(Append(s, f)) = 1 /\ Head(Append(s, f)) = f
  OBVIOUS
<1>4. s # <<>> => Head(Append(s, f)) = Head(s)
  OBVIOUS
<1>5. ASSUME Len(s) = 1
      PROVE  s # <<>> /\ Tail(s) = <<>>
  <2>1. s # <<>>
    BY <1>5, EmptySeq
  <2>2. Tail(s) \in Seq(S) /\ Len(Tail(s)) = Len(s) - 1
    BY <2>1, HeadTailProperties
  <2>3. Len(Tail(s)) = 0
    BY <1>5, <2>2
  <2> QED BY <2>1, <2>2, <2>3, EmptySeq
<1> QED BY <1>2, <1>3, <1>4, <1>5

LEMMA InIsSeq == TInv => \A k \in Pipes : sock[k].in \in Seq(Frames)
BY DEF TInv, DataOK, SockType
-----------------------------------------------------------------------------
(* accept().                                                               *)

LEMMA AcceptFailsWInv ==
  ASSUME TInv, WInv, NEW i \in Pipes, AcceptStopped(i) \/ AcceptFailed(i)
  PROVE  WInv'
<1>1. rd \in [Pipes -> ReaderPC] /\ wr \in [Pipes -> WriterPC] /\ loc \in [Pipes -> LocType]
  BY DEF TInv, LInv, Control, DataOK
<1>2. wr[i] = "none"
  BY DEF AcceptStopped, AcceptFailed, AtConnect, TInv, PipeInv
<1>3. CASE AcceptStopped(i)
  <2>1. /\ Fault(i, "closed", FALSE, outq[i])
        /\ wr' = wr /\ loc' = loc /\ rd' = [rd EXCEPT ![i] = "none"]
    BY <1>3 DEF AcceptStopped, Fault
  <2> QED BY <1>1, <1>2, <2>1, FaultWInv
<1>4. CASE AcceptFailed(i)
  <2>1. /\ Broken(i) /\ loc' = [loc EXCEPT ![i] = NoLoc]
        /\ rd' = [rd EXCEPT ![i] = ReaderNext(state'[i])]
    BY <1>4 DEF AcceptFailed
  <2>2. CASE state[i] = "closed"
    <3>1. UNCHANGED <<state, pipe, outq, wr, sock>>
      BY <1>4, <2>2 DEF AcceptFailed
    <3>2. EndInv(i)'
      BY <1>2, <2>2, <3>1 DEF WInv, EndInv
    <3>3. \A k \in Pipes \ {i} : Kept(k)
      BY <1>1, <2>1, <3>1 DEF Kept
    <3> QED BY <2>1, <3>1, <3>2, <3>3, BrokenStep DEF Severing, Broken, Live
  <2>3. CASE state[i] # "closed"
    <3> DEFINE st == AcceptFailState(i)
    <3>1. /\ Fault(i, st, FALSE, outq[i])
          /\ wr' = IF IsQueued(pipe[i], outq[i]) \/ loc[i].replaced
                   THEN [wr EXCEPT ![i] = "loop"] ELSE wr
      BY <1>4, <2>3 DEF AcceptFailed
    <3>2. /\ st = "connecting" => ~Policy[Owner(i)].server
          /\ ~IsQueued(pipe[i], outq[i]) /\ ~loc[i].replaced => st = "closed"
      BY DEF AcceptFailState
    <3> HIDE DEF st
    <3>3. \A j \in Pipes \ {i} : rd'[j] = rd[j] /\ wr'[j] = wr[j] /\ loc'[j] = loc[j]
      BY <1>1, <2>1, <3>1
    <3>4. wr'[i] = "loop" \/ (st = "closed" /\ wr'[i] = "none")
      BY <1>1, <1>2, <3>1, <3>2
    <3> QED BY <3>1, <3>2, <3>3, <3>4, FaultWInv
  <2> QED BY <2>2, <2>3
<1> QED BY <1>3, <1>4

(* A request that is being looked at is the one its sender waits for.      *)
LEMMA PendingRequest ==
  ASSUME TInv, WInv, NEW i \in Pipes, AtConnect(i), state[i] = "accepting", Live(sock, i)
  PROVE  /\ Calling(sock[i].peer, i) /\ Asked(sock[i].peer, i)
         /\ Tail(sock[i].in) = <<>>
<1>1. PICK j \in Pipes : j = sock[i].peer
  BY PeerIsPipe
<1>2. Paired(i, j)
  BY <1>1 DEF WInv, LinkInv
<1>3. rd[i] = "accept" /\ sock[i].in # <<>> /\ sock[i].in \in Seq(Frames) /\ wr[i] = "none"
  BY InIsSeq DEF AtConnect, Arrived, TInv, PipeInv
<1>4. Calling(j, i) /\ Asked(j, i)
  BY <1>2, <1>3 DEF Paired, Calling, Asked, Refused, Granted, Told, GaveUp, Joined, Undecided
<1>5. Len(sock[i].in) = 1
  BY <1>4 DEF Asked
<1>6. Tail(sock[i].in) = <<>>
  BY <1>3, <1>5, OneFrame
<1> QED BY <1>1, <1>4, <1>6

(* A reply that does not grant the request.                                *)
LEMMA RefusalWInv ==
  ASSUME TInv, WInv, NEW i \in Pipes, AtConnect(i), state[i] = "accepting",
         NEW r, AcceptReply(i, r), r.kind = "reply", r.tag \notin Granting,
         r.tag = "RETRY_SESSION" => r.cseq > Request(i).cseq,
         r.tag = "WAIT" => AddrLess(Owner(i), Other(Owner(i))),
         \A k \in Pipes : pipe'[k].connect_seq = pipe[k].connect_seq /\ pipe'[k].con = pipe[k].con
  PROVE  WInv'
<1>1. sock' = Put(Took(sock, i), i, r) /\ UNCHANGED <<state, rd, wr, loc>>
  BY DEF AcceptReply
<1>2. /\ \A k \in Pipes : sock'[k].peer = sock[k].peer
      /\ \A k \in Pipes \ {i} : k # sock[i].peer => sock'[k] = sock[k]
      /\ sock'[i].in = Tail(sock[i].in)
      /\ Live(sock, i) => sock'[sock[i].peer].in = Append(sock[sock[i].peer].in, r)
  BY <1>1, AnswerEffect DEF AnsweredWith
<1>3. EndInv(i)'
  <2>1. wr[i] = "none"
    BY DEF TInv, PipeInv, AtConnect
  <2> QED BY <1>1, <2>1 DEF WInv, EndInv
<1>4. \A k \in Pipes \ {i} : k # sock[i].peer => Kept(k)
  BY <1>1, <1>2 DEF Kept
<1>5. ASSUME Live(sock, i), NEW j \in Pipes, j = sock[i].peer
      PROVE  EndInv(j)' /\ Paired(i, j)'
  <2>1. Calling(j, i) /\ Asked(j, i) /\ Tail(sock[i].in) = <<>>
    BY <1>5, PendingRequest
  <2>2. sock[j].in = <<>> /\ sock'[j].in = Append(<<>>, r)
    BY <1>2, <1>5, <2>1 DEF Asked
  <2>3. sock'[j].in # <<>> /\ Len(sock'[j].in) = 1 /\ Head(sock'[j].in) = r
    BY <2>2
  <2>4. sock[j].peer = i /\ Owner(i) = Other(Owner(j)) /\ Other(Owner(i)) = Owner(j)
    BY <1>5, PeerIsPipe, OwnerIsPeer, OtherPeer DEF WInv, LinkInv
  <2>5. ExpectedAnswer(j)'
    BY <1>1, <2>1, <2>3, <2>4 DEF ExpectedAnswer, Answer, Asked
  <2>6. EndInv(j)'
    BY <1>1, <2>5 DEF WInv, EndInv
  <2>7. Refused(j, i)'
    BY <1>1, <1>2, <2>1, <2>3 DEF Refused, Asked, Undecided, Answer
  <2>8. Calling(j, i)'
    BY <1>1, <2>1, <2>7 DEF Calling
  <2> QED BY <2>6, <2>8 DEF Paired
<1> QED BY <1>2, <1>3, <1>4, <1>5, PairStep

LEMMA AcceptRefusesWInv ==
  ASSUME TInv, WInv, NEW i \in Pipes, AcceptRefuse(i) \/ AcceptReject(i)
  PROVE  WInv'
<1>1. CASE AcceptReject(i)
  <2>1. PICK tag \in {"BADPROTOVER", "FEATURES", "BADAUTHORIZER"} :
           AcceptReply(i, Reply(tag, 0, 0, 0, FALSE))
    BY <1>1 DEF AcceptReject
  <2>2. AtConnect(i) /\ state[i] = "accepting" /\ pipe' = pipe
    BY <1>1 DEF AcceptReject
  <2>3. /\ Reply(tag, 0, 0, 0, FALSE).kind = "reply"
        /\ Reply(tag, 0, 0, 0, FALSE).tag \in {"BADPROTOVER", "FEATURES", "BADAUTHORIZER"}
    BY DEF Reply
  <2> QED BY <2>1, <2>2, <2>3, RefusalWInv DEF Granting
<1>2. CASE AcceptRefuse(i)
  <2>1. PICK e, p, v, r :
          /\ p = Owner(i) /\ e = Lookup(p) /\ v = DecidedAs(i)
          /\ v \in {"RETRY_GLOBAL", "RETRY_SESSION", "RESETSESSION", "WAIT"}
          /\ r = Reply(v, IF v = "RETRY_GLOBAL" THEN pipe[e].peer_global_seq ELSE 0,
                          IF v = "RETRY_SESSION" THEN pipe[e].connect_seq + 1 ELSE 0, 0, FALSE)
          /\ AcceptReply(i, r)
          /\ pipe' = IF v = "WAIT" THEN [pipe EXCEPT ![e].send_keepalive = TRUE] ELSE pipe
          /\ Deciding(i)
    BY <1>2 DEF AcceptRefuse
  <2>2. AtConnect(i) /\ state[i] = "accepting" /\ p \in Peers /\ Request(i).cseq \in Nat
    BY <2>1, DecidingPipe, OwnerIsPeer DEF Deciding
  <2>3. /\ r.kind = "reply" /\ r.tag = v
        /\ v = "RETRY_SESSION" => r.cseq = pipe[e].connect_seq + 1
    BY <2>1 DEF Reply
  <2>4. v = "RETRY_SESSION" => e \in Pipes /\ Request(i).cseq <= pipe[e].connect_seq
    <3> SUFFICES ASSUME v = "RETRY_SESSION"
                 PROVE  e \in Pipes /\ Request(i).cseq <= pipe[e].connect_seq
      OBVIOUS
    <3>1. v = Verdict(p, Request(i), e)
      BY <2>1 DEF DecidedAs
    <3>2. e # None
      BY <3>1 DEF Verdict
    <3>3. e \in Pipes
      BY <2>1, <2>2, <3>2, LookupProperties DEF TInv
    <3>4. pipe[e].connect_seq \in Nat
      BY <3>3 DEF TInv, DataOK, PipeType
    <3>5. Request(i).cseq < pipe[e].connect_seq \/ Request(i).cseq = pipe[e].connect_seq
      BY <3>1, <3>2 DEF Verdict
    <3> QED BY <2>2, <3>3, <3>4, <3>5
  <2>5. v = "RETRY_SESSION" => r.cseq > Request(i).cseq
    <3>1. v = "RETRY_SESSION" => pipe[e].connect_seq \in Nat
      BY <2>4 DEF TInv, DataOK, PipeType
    <3> QED BY <2>2, <2>3, <2>4, <3>1
  <2>6. v = "WAIT" => AddrLess(p, Other(p))
    <3>1. v = "WAIT" => ~AddrLess(Other(p), p)
      BY <2>1 DEF DecidedAs, Verdict, RaceVerdict
    <3> QED BY <2>2, <3>1, OtherPeer
  <2>7. \A k \in Pipes : pipe'[k].connect_seq = pipe[k].connect_seq /\ pipe'[k].con = pipe[k].con
    BY <2>1 DEF TInv, DataOK, PipeType
  <2> QED BY <2>1, <2>2, <2>3, <2>5, <2>6, <2>7, RefusalWInv DEF Granting
<1> QED BY <1>1, <1>2

(* The sockets when Pipe i has read a frame and Pipe e has been stopped.   *)
LEMMA TookStopped ==
  ASSUME TInv, NEW i \in Pipes, sock[i].in # <<>>, NEW e \in Pipes, e # i, NEW new,
         new = Stopped(Took(sock, i), e)
  PROVE  /\ \A k \in Pipes : new[k].peer = IF k = e \/ sock[k].peer = e THEN None ELSE sock[k].peer
         /\ \A k \in Pipes \ {i, e} : new[k].in = sock[k].in
         /\ new[e].in = <<>>
<1>1. PICK t : t = Took(sock, i)
  OBVIOUS
<1>2. /\ \A k \in Pipes : t[k].peer = sock[k].peer
      /\ \A k \in Pipes \ {i} : t[k] = sock[k]
  BY <1>1, TookEffect
<1>3. PICK c : c = Cut(t, e)
  OBVIOUS
<1>4. \A k \in Pipes \ {e} : /\ c[k].peer = IF sock[k].peer = e THEN None ELSE sock[k].peer
                             /\ k # i => c[k].in = sock[k].in
  <2> SUFFICES ASSUME NEW k \in Pipes \ {e}
               PROVE  /\ c[k].peer = IF sock[k].peer = e THEN None ELSE sock[k].peer
                      /\ k # i => c[k].in = sock[k].in
    OBVIOUS
  <2>1. c[k] = IF sock[k].peer = e THEN [t[k] EXCEPT !.peer = None] ELSE t[k]
    BY <1>2, <1>3 DEF Cut
  <2>2. t[k] \in SockType
    <3>1. Took(sock, i) \in Socks
      BY TookType DEF TInv, DataOK, Socks
    <3> QED BY <1>1, <3>1 DEF Socks
  <2> QED BY <1>2, <2>1, <2>2 DEF SockType
<1>5. new = [c EXCEPT ![e] = NoSock] /\ DOMAIN c = Pipes
  BY <1>1, <1>3 DEF Stopped, Cut
<1> QED BY <1>4, <1>5 DEF NoSock

(* open: the accepting end has opened and has still to say so.             *)
LEMMA OpenedWInv ==
  ASSUME TInv, WInv, NEW i \in Pipes, Deciding(i), NEW e, e = None \/ e = Lookup(Owner(i)),
         NEW tag \in Granting, NEW acked, AcceptOpened(i, e, tag, acked),
         pipe'[i].connect_seq = Request(i).cseq + 1,
         e # None => ~pipe'[e].con,
         \A k \in Pipes \ {i, e} : pipe'[k] = pipe[k]
  PROVE  WInv'
<1> DEFINE R == Reply(tag, global_seq[Owner(i)] + 1, Request(i).cseq + 1, acked,
                      Policy[Owner(i)].lossy)
<1>1. /\ state[i] = "accepting" /\ rd[i] = "accept" /\ wr[i] = "none" /\ AtConnect(i)
      /\ e # i /\ (e # None => e \in Pipes /\ Owner(e) = Owner(i))
  BY DecidingPipe, NoneIsNoPipe, OwnerIsPeer, LookupProperties DEF Deciding, TInv
<1>2. R.tag \in Granting /\ R.cseq = Request(i).cseq + 1
  BY DEF Reply
<1> HIDE DEF R
<1>3. /\ state' = [StoppedState(state, e) EXCEPT ![i] = "open"]
      /\ sock' = IF e = None THEN Took(sock, i) ELSE Stopped(Took(sock, i), e)
      /\ rd' = [rd EXCEPT ![i] = "reply"]
      /\ loc' = [loc EXCEPT ![i].reply = R, ![i].replaced = (e # None)]
      /\ wr' = wr
  BY DEF AcceptOpened, R
<1>4. /\ state \in [Pipes -> States] /\ rd \in [Pipes -> ReaderPC] /\ wr \in [Pipes -> WriterPC]
      /\ loc \in [Pipes -> LocType]
  BY DEF TInv, LInv, Control, DataOK
<1>5. /\ state'[i] = "open" /\ rd'[i] = "reply" /\ wr'[i] = "none" /\ loc'[i].reply = R
      /\ \A k \in Pipes \ {i, e} : /\ state'[k] = state[k] /\ rd'[k] = rd[k]
                                   /\ wr'[k] = wr[k] /\ loc'[k] = loc[k]
      /\ e # None => state'[e] = "closed" /\ rd'[e] = rd[e] /\ wr'[e] = wr[e]
  BY <1>1, <1>3, <1>4 DEF StoppedState, LocType
<1>6. /\ \A k \in Pipes : sock'[k].peer = IF e \in Pipes /\ (k = e \/ sock[k].peer = e) THEN None
                                          ELSE sock[k].peer
      /\ \A k \in Pipes \ {i, e} : sock'[k].in = sock[k].in
      /\ e # None => sock'[e].in = <<>>
  <2>1. CASE e = None
    BY <1>3, <2>1, TookEffect, NoneIsNoPipe
  <2>2. CASE e # None
    BY <1>1, <1>3, <2>2, TookStopped DEF AtConnect, Arrived
  <2> QED BY <2>1, <2>2
<1>7. Severing(sock')
  BY <1>6, PeerIsPipe DEF Severing, Live
<1>8. \A k \in Pipes \ {i, e} : Kept(k)
  BY <1>5, <1>6 DEF Kept
<1>9. EndInv(i)'
  BY <1>5 DEF EndInv
<1>10. e # None => EndInv(e)'
  BY <1>1, <1>5, <1>6 DEF WInv, EndInv
<1>11. ASSUME NEW j \in Pipes, Live(sock, i), j = sock[i].peer
       PROVE  Paired(i, j)' /\ Paired(j, i)'
  <2>1. Calling(j, i) /\ Asked(j, i) /\ Tail(sock[i].in) = <<>>
    BY <1>1, <1>11, PendingRequest
  <2>2. Owner(j) # Owner(i) /\ j # i
    BY <1>11, PeerIsPipe, OwnerIsPeer, OtherPeer DEF WInv, LinkInv
  <2>3. Kept(j)
    BY <1>1, <1>8, <2>2, NoneIsNoPipe
  <2>4. Granted(j, i)'
    BY <1>2, <1>5, <2>1, <2>3 DEF Granted, Asked, Kept, Opened
  <2>5. Calling(j, i)'
    BY <2>1, <2>3, <2>4 DEF Calling, Kept
  <2> QED BY <2>5 DEF Paired
<1>12. ASSUME NEW k \in Pipes, NEW j \in Pipes, Live(sock', k), j = sock[k].peer
       PROVE  (Kept(k) /\ Kept(j)) \/ Paired(k, j)'
  <2>1. Live(sock, k) /\ (e \in Pipes => k # e /\ j # e)
    BY <1>6, <1>12 DEF Live
  <2>2. CASE k = i
    BY <1>11, <1>12, <2>1, <2>2
  <2>3. CASE j = i
    <3>1. sock[j].peer = k /\ Live(sock, j)
      BY <1>12, <2>1, PeerIsPipe
    <3> QED BY <1>11, <1>12, <2>3, <3>1
  <2>4. CASE k # i /\ j # i
    <3>1. k # e /\ j # e
      BY <1>1, <2>1, NoneIsNoPipe
    <3> QED BY <1>8, <2>4, <3>1
  <2> QED BY <2>2, <2>3, <2>4
<1>13. \A k \in Pipes : Kept(k) \/ EndInv(k)'
  BY <1>1, <1>8, <1>9, <1>10, NoneIsNoPipe
<1> QED BY <1>7, <1>12, <1>13, SurvivingLinks

LEMMA TakeOverWInv ==
  ASSUME TInv, WInv, NEW i \in Pipes, Deciding(i), Lookup(Owner(i)) # None,
         NEW e, e = Lookup(Owner(i)),
         NEW tag \in Granting, NEW acked, AcceptOpened(i, e, tag, acked),
         NEW x, x = pipe[e] \/ x = WasReset(pipe[e]), NEW q, NEW hard \in BOOLEAN,
         TakeOver(i, e, x, q, hard)
  PROVE  WInv'
<1>1. e \in Pipes /\ e # i /\ pipe[e] \in PipeType /\ WasReset(pipe[e]) \in PipeType
  BY ReplacedPipe
<1>2. x \in PipeType /\ pipe[i] \in PipeType
  BY <1>1 DEF TInv, DataOK
<1>3. PICK a, b :
        /\ pipe' = [pipe EXCEPT ![i] = a, ![e] = b]
        /\ \E n \in {0, x.in_seq} :
             a = [pipe[i] EXCEPT !.connect_seq = Request(i).cseq + 1,
                                 !.peer_global_seq = Request(i).gseq,
                                 !.in_seq = n, !.in_seq_acked = n, !.conn_id = x.conn_id]
        /\ b = [Detached(x) EXCEPT !.conn_id = pipe[i].conn_id]
  <2> DEFINE n == IF hard THEN 0 ELSE x.in_seq
             a == [pipe[i] EXCEPT !.connect_seq = Request(i).cseq + 1,
                                 !.peer_global_seq = Request(i).gseq,
                                 !.in_seq = n, !.in_seq_acked = n, !.conn_id = x.conn_id]
             b == [Detached(x) EXCEPT !.conn_id = pipe[i].conn_id]
  <2>1. pipe' = [pipe EXCEPT ![i] = a, ![e] = b]
    BY DEF TakeOver
  <2>2. n \in {0, x.in_seq}
    OBVIOUS
  <2> HIDE DEF n
  <2> QED BY <2>1, <2>2
<1>4. a.connect_seq = Request(i).cseq + 1
  BY <1>2, <1>3 DEF PipeType
<1>5. ~b.con
  BY <1>2, <1>3 DEF Detached, PipeType
<1>6. /\ pipe'[i] = a /\ pipe'[e] = b /\ \A k \in Pipes \ {i, e} : pipe'[k] = pipe[k]
  BY <1>1, <1>3 DEF TInv, DataOK
<1> QED BY <1>4, <1>5, <1>6, OpenedWInv

LEMMA AcceptOpensWInv ==
  ASSUME TInv, WInv, NEW i \in Pipes,
         AcceptNew(i) \/ AcceptReplaceLossy(i) \/ AcceptReplace(i) \/ AcceptReplaceReset(i)
  PROVE  WInv'
<1>1. "READY" \in Granting /\ "SEQ" \in Granting /\ pipe \in [Pipes -> PipeType]
  BY DEF Granting, TInv, DataOK
<1>2. CASE AcceptNew(i)
  <2>1. Deciding(i) /\ AcceptOpened(i, None, "READY", 0)
        /\ pipe' = [pipe EXCEPT ![i] = [@ EXCEPT !.connect_seq = Request(i).cseq + 1,
                                                 !.peer_global_seq = Request(i).gseq]]
    BY <1>2 DEF AcceptNew
  <2>2. pipe'[i].connect_seq = Request(i).cseq + 1 /\ \A k \in Pipes \ {i} : pipe'[k] = pipe[k]
    BY <1>1, <2>1 DEF PipeType
  <2> QED BY <1>1, <2>1, <2>2, OpenedWInv
<1>3. CASE ~AcceptNew(i)
  <2>1. Deciding(i) /\ Lookup(Owner(i)) # None
    <3>1. Deciding(i) /\ DecidedAs(i) \in {"replace_lossy", "replace", "replace_reset"}
      BY <1>3 DEF AcceptReplaceLossy, AcceptReplace, AcceptReplaceReset
    <3> QED BY <3>1 DEF DecidedAs, Verdict
  <2>2. PICK e \in Pipes : e = Lookup(Owner(i)) /\ e # i
    BY <2>1, ReplacedPipe
  <2>3. CASE AcceptReplaceLossy(i)
    <3>1. AcceptOpened(i, e, "SEQ", 0)
          /\ pipe' = [pipe EXCEPT ![i] = [@ EXCEPT !.connect_seq = Request(i).cseq + 1,
                                                   !.peer_global_seq = Request(i).gseq],
                                  ![e] = Detached(WasReset(@))]
      BY <2>2, <2>3 DEF AcceptReplaceLossy
    <3>2. /\ pipe'[i].connect_seq = Request(i).cseq + 1
          /\ ~pipe'[e].con /\ \A k \in Pipes \ {i, e} : pipe'[k] = pipe[k]
      BY <1>1, <2>2, <3>1 DEF PipeType, Detached, WasReset
    <3> QED BY <1>1, <2>1, <2>2, <3>1, <3>2, OpenedWInv
  <2>4. CASE AcceptReplace(i)
    <3>1. AcceptOpened(i, e, "SEQ", pipe[e].in_seq) /\ TakeOver(i, e, pipe[e], outq[e], FALSE)
      BY <2>2, <2>4 DEF AcceptReplace
    <3> QED BY <1>1, <2>1, <2>2, <3>1, TakeOverWInv
  <2>5. CASE AcceptReplaceReset(i)
    <3>1. AcceptOpened(i, e, "READY", 0)
      BY <2>2, <2>5 DEF AcceptReplaceReset
    <3>2. \/ \E start \in StartSeqs : TakeOver(i, e, WasReset(pipe[e]), EmptyOutQ(start), TRUE)
          \/ TakeOver(i, e, pipe[e], outq[e], TRUE)
      BY <2>2, <2>5 DEF AcceptReplaceReset
    <3>3. PICK x, q : /\ x = pipe[e] \/ x = WasReset(pipe[e])
                      /\ TakeOver(i, e, x, q, TRUE)
      BY <3>2
    <3> QED BY <1>1, <2>1, <2>2, <3>1, <3>3, TakeOverWInv
  <2> QED BY <1>3, <2>3, <2>4, <2>5
<1> QED BY <1>2, <1>3

(* The reply of accept() is sent.                                          *)
LEMMA AcceptRepliedWInv ==
  ASSUME TInv, WInv, NEW i \in Pipes, AcceptReplied(i)
  PROVE  WInv'
<1> DEFINE f == loc[i].reply
<1>1. /\ rd[i] = "reply" /\ sock' = Put(sock, i, f) /\ UNCHANGED <<state, pipe>>
      /\ f.tag = "SEQ" => rd' = [rd EXCEPT ![i] = "seq"] /\ UNCHANGED <<wr, loc>>
      /\ f.tag # "SEQ" => AcceptDone(i, 0)
  BY DEF AcceptReplied
<1>2. /\ rd \in [Pipes -> ReaderPC] /\ wr \in [Pipes -> WriterPC] /\ loc \in [Pipes -> LocType]
      /\ wr[i] = "none"
  BY <1>1 DEF TInv, LInv, Control, DataOK, PipeInv
<1>3. /\ \A k \in Pipes \ {i} : rd'[k] = rd[k] /\ wr'[k] = wr[k] /\ loc'[k] = loc[k]
      /\ rd'[i] \notin {"accept", "reply"}
      /\ wr'[i] \in {"none", "loop"}
      /\ wr'[i] = "none" => state[i] = "closed" \/ rd'[i] = "seq"
  BY <1>1, <1>2, ReaderNextPast DEF AcceptDone
<1>4. EndInv(i)'
  BY <1>1, <1>3 DEF WInv, EndInv
<1>5. /\ \A k \in Pipes : sock'[k].peer = sock[k].peer
      /\ \A k \in Pipes : k # sock[i].peer => sock'[k] = sock[k]
      /\ Live(sock, i) => sock'[sock[i].peer].in = Append(sock[sock[i].peer].in, f)
  <2>1. sock' = Put(sock, i, f)
    BY <1>1
  <2>2. \A k \in Pipes : sock'[k].peer = sock[k].peer
    BY <2>1, PutEffect
  <2>3. \A k \in Pipes : k # sock[i].peer => sock'[k] = sock[k]
    BY <2>1, PutEffect
  <2>4. Live(sock, i) => sock'[sock[i].peer].in = Append(sock[sock[i].peer].in, f)
    BY <2>1, PutEffect
  <2> QED BY <2>2, <2>3, <2>4
<1>6. f \in Replies
  BY <1>2 DEF LocType
<1> HIDE DEF f
<1>7. \A k \in Pipes \ {i} : k # sock[i].peer => Kept(k)
  BY <1>1, <1>3, <1>5 DEF Kept
<1>8. ASSUME NEW j \in Pipes, Live(sock, i), j = sock[i].peer
      PROVE  Paired(i, j)' /\ EndInv(j)'
  <2>1. Paired(i, j) /\ j # i
    BY <1>8, PeerIsPipe DEF WInv, LinkInv
  <2>2. Calling(j, i) /\ Granted(j, i)
    <3>1. ~Calling(i, j) /\ ~GaveUp(i, j)
      BY <1>2 DEF Calling, GaveUp
    <3> QED BY <1>1, <2>1, <3>1
            DEF Paired, Calling, Asked, Refused, Granted, Told, GaveUp, Undecided, Joined
  <2>3. sock[j].in = <<>> /\ f.tag \in Granting /\ f.cseq = loc[j].cseq + 1
    BY <2>2 DEF Granted, f
  <2>4. sock'[j].in = Append(<<>>, f)
    BY <1>5, <1>8, <2>3
  <2>5. sock'[j].in # <<>> /\ Head(sock'[j].in) = f
    BY <2>4
  <2>6. /\ state'[j] = state[j] /\ rd'[j] = rd[j] /\ wr'[j] = wr[j] /\ loc'[j] = loc[j]
        /\ pipe' = pipe /\ state' = state
    BY <1>1, <1>3, <2>1
  <2>7. f.tag \notin {"RETRY_SESSION", "WAIT"} /\ f.kind = "reply"
    BY <1>6, <2>3 DEF Granting, Replies
  <2>8. EndInv(j)'
    BY <2>3, <2>5, <2>6, <2>7 DEF WInv, EndInv, ExpectedAnswer, Answer
  <2>9. Told(j, i)'
    BY <1>3, <2>2, <2>3, <2>5, <2>6 DEF Told, Granted, Opened, Answer
  <2>10. Calling(j, i)'
    BY <2>2, <2>6, <2>9 DEF Calling
  <2> QED BY <2>8, <2>10 DEF Paired
<1> QED BY <1>4, <1>5, <1>7, <1>8, PairStep
-----------------------------------------------------------------------------
(* The read and write loops.                                               *)

(* An end past the handshake, the other perhaps still to read the reply.   *)
Settled(i, j) ==
  /\ state[i] = "open" /\ rd[i] \notin {"accept", "reply"}
  /\ \/ wr[j] = "await" /\ Told(j, i)
     \/ wr[j] = "loop" /\ state[j] = "closed" /\ rd[j] \in {"none", "sleep"}
     \/ Joined(i, j)

(* A reader or writer in its loop is at such an end.                       *)
InLoop(i) == \/ rd[i] \in {"seq", "read", "dispatch"}
             \/ wr[i] \in {"keepalive", "keepalive_ack", "ack", "msg"}
             \/ wr[i] = "loop" /\ state[i] = "open"

LEMMA LoopSettled ==
  ASSUME TInv, WInv, NEW i \in Pipes, InLoop(i), NEW j \in Pipes, Live(sock, i), j = sock[i].peer
  PROVE  Settled(i, j)
<1>1. Paired(i, j) /\ EndInv(i)
  BY DEF WInv, LinkInv
<1>2. ~Calling(i, j)
  BY <1>1 DEF InLoop, Calling, EndInv
<1>3. ~GaveUp(i, j)
  BY DEF InLoop, GaveUp
<1>4. ~Undecided(i) /\ rd[i] \notin {"accept", "reply"}
  BY DEF InLoop, Undecided, TInv, PipeInv
<1>5. Calling(j, i) => Settled(i, j)
  BY <1>4 DEF Calling, Asked, Refused, Granted, Told, Settled, Opened
<1>6. GaveUp(j, i) => Settled(i, j)
  BY <1>4 DEF GaveUp, Settled
<1>7. Joined(i, j) => Settled(i, j)
  BY DEF Joined, Settled
<1> QED BY <1>1, <1>2, <1>3, <1>5, <1>6, <1>7 DEF Paired

(* A step of such an end, which may read a frame or write one.             *)
LEMMA LoopStep ==
  ASSUME TInv, WInv, NEW i \in Pipes, InLoop(i), state' = state,
         NEW f \in Frames, sock' = sock \/ sock' = Took(sock, i) \/ sock' = Put(sock, i, f),
         \A k \in Pipes \ {i} : /\ rd'[k] = rd[k] /\ wr'[k] = wr[k]
                                /\ loc'[k] = loc[k] /\ pipe'[k] = pipe[k],
         rd'[i] \notin {"accept", "reply"},
         pipe'[i].connect_seq = pipe[i].connect_seq, pipe'[i].con = pipe[i].con,
         \/ wr'[i] = "none" /\ state[i] = "closed"
         \/ wr'[i] \notin {"none", "join", "await"}
         \/ wr'[i] = "join" /\ wr[i] = "join" /\ loc'[i].cseq = loc[i].cseq
  PROVE  WInv'
<1>1. \A k \in Pipes : sock'[k].peer = sock[k].peer
  BY TookEffect, PutEffect
<1>2. EndInv(i)'
  BY DEF WInv, EndInv
<1>3. /\ \A k \in Pipes \ {i} : k # sock[i].peer => sock'[k].in = sock[k].in
      /\ Live(sock, i) => \/ sock'[sock[i].peer].in = sock[sock[i].peer].in
                          \/ sock'[sock[i].peer].in = Append(sock[sock[i].peer].in, f)
  <2>1. CASE sock' = sock
    BY <2>1
  <2>2. CASE sock' = Took(sock, i)
    <3>1. \A k \in Pipes \ {i} : sock'[k] = sock[k]
      BY <2>2, TookEffect
    <3> QED BY <3>1, PeerIsPipe
  <2>3. CASE sock' = Put(sock, i, f)
    <3>1. \A k \in Pipes : k # sock[i].peer => sock'[k] = sock[k]
      BY <2>3, PutEffect
    <3>2. Live(sock, i) => sock'[sock[i].peer].in = Append(sock[sock[i].peer].in, f)
      BY <2>3, PutEffect
    <3> QED BY <3>1, <3>2
  <2> QED BY <2>1, <2>2, <2>3
<1>4. \A k \in Pipes \ {i} : k # sock[i].peer => Kept(k)
  BY <1>3 DEF Kept
<1>5. ASSUME NEW j \in Pipes, Live(sock, i), j = sock[i].peer
      PROVE  Paired(i, j)' /\ EndInv(j)'
  <2>1. Settled(i, j) /\ j # i
    BY <1>5, LoopSettled, PeerIsPipe
  <2>2. sock[j].in # <<>> => sock'[j].in # <<>> /\ Head(sock'[j].in) = Head(sock[j].in)
    <3>1. sock'[j].in = sock[j].in \/ sock'[j].in = Append(sock[j].in, f)
      BY <1>3, <1>5
    <3> QED BY <3>1, InIsSeq, OneFrame
  <2>3. /\ state'[j] = state[j] /\ rd'[j] = rd[j] /\ wr'[j] = wr[j] /\ loc'[j] = loc[j]
        /\ pipe'[j] = pipe[j] /\ state'[i] = state[i]
    BY <2>1
  <2>4. EndInv(j)
    BY DEF WInv
  <2>5. wr[j] = "await" => Told(j, i)
    BY <2>1, <2>4 DEF Settled, Joined, Opened, EndInv
  <2>6. EndInv(j)'
    BY <2>2, <2>3, <2>4, <2>5 DEF EndInv, Told, ExpectedAnswer, Answer
  <2>7. CASE wr[j] = "await" /\ Told(j, i)
    <3>1. Told(j, i)'
      BY <2>2, <2>3, <2>7 DEF Told, Opened, Answer
    <3> QED BY <2>3, <2>6, <2>7, <3>1 DEF Paired, Calling
  <2>8. CASE wr[j] = "loop" /\ state[j] = "closed" /\ rd[j] \in {"none", "sleep"}
    <3>1. GaveUp(j, i)'
      BY <2>1, <2>3, <2>8 DEF GaveUp, Settled
    <3> QED BY <2>6, <3>1 DEF Paired
  <2>9. CASE Joined(i, j)
    <3>1. Joined(i, j)'
      BY <2>3, <2>9 DEF Joined, Opened
    <3> QED BY <2>6, <3>1 DEF Paired
  <2> QED BY <2>1, <2>6, <2>7, <2>8, <2>9 DEF Settled
<1> QED BY <1>1, <1>2, <1>4, <1>5, PairStep

LEMMA WrittenFrame ==
  ASSUME TInv, NEW i \in Pipes, Writing(i)
  PROVE  /\ WriteFrame(i) \in Frames
         /\ AfterWrite(i).connect_seq = pipe[i].connect_seq /\ AfterWrite(i).con = pipe[i].con
<1>1. pipe[i] \in PipeType /\ loc[i] \in LocType /\ loc[i].seq \in Nat /\ loc[i].msg \in Message(Ids)
  BY DEF TInv, DataOK, LocType
<1>2. wr[i] \in {"keepalive", "keepalive_ack", "ack", "msg"}
  BY WritingParts
<1>3. CASE wr[i] = "ack"
  BY <1>1, <1>3, FrameTypes DEF WriteFrame, AfterWrite, PipeType
<1>4. CASE wr[i] = "msg"
  BY <1>1, <1>4, FrameTypes DEF WriteFrame, AfterWrite
<1>5. CASE wr[i] = "keepalive"
  BY <1>1, <1>5, FrameTypes DEF WriteFrame, AfterWrite, PipeType
<1>6. CASE wr[i] = "keepalive_ack"
  BY <1>1, <1>6, FrameTypes DEF WriteFrame, AfterWrite, PipeType
<1> QED BY <1>2, <1>3, <1>4, <1>5, <1>6

LEMMA ReadingWInv ==
  ASSUME TInv, WInv, NEW i \in Pipes, Reading(i) \/ AcceptSeq(i)
  PROVE  WInv'
<1>1. /\ rd \in [Pipes -> ReaderPC] /\ wr \in [Pipes -> WriterPC] /\ loc \in [Pipes -> LocType]
      /\ pipe \in [Pipes -> PipeType]
  BY DEF TInv, LInv, Control, DataOK
<1>2. EndInv(i)
  BY DEF WInv
<1>3. [kind |-> "keepalive"] \in Frames
  BY FrameTypes
<1>4. InLoop(i) /\ wr[i] # "await"
  <2>1. rd[i] \in {"seq", "read", "dispatch"}
    BY DEF Reading, Reads, ReadMsg, Dispatched, ReadAck, ReadKeepalive, ReadError, AcceptSeq
  <2> QED BY <1>2, <2>1 DEF InLoop, EndInv
<1>5. CASE ReadError(i)
  <2>1. /\ Fault(i, state[i], TRUE, outq[i]) /\ Broken(i) /\ wr' = wr /\ loc' = loc
        /\ rd' = [rd EXCEPT ![i] = ReaderNext(state'[i])] /\ rd[i] = "read"
    BY <1>5 DEF ReadError
  <2>2. /\ state[i] = "connecting" => ~Policy[Owner(i)].server
        /\ wr[i] = "none" => state[i] = "closed"
    <3>1. state[i] # "free"
      BY <2>1, ThreadsRunning DEF TInv
    <3> QED BY <1>2, <2>1, <3>1 DEF EndInv
  <2>3. \A j \in Pipes \ {i} : rd'[j] = rd[j] /\ wr'[j] = wr[j] /\ loc'[j] = loc[j]
    BY <1>1, <2>1
  <2>4. \/ state[i] = "closed" /\ wr'[i] = "none"
        \/ wr[i] \notin {"none", "await"} /\ wr'[i] = wr[i] /\ loc'[i] = loc[i]
    BY <1>4, <2>1, <2>2
  <2> QED BY <2>1, <2>2, <2>3, <2>4, FaultWInv
<1>6. CASE AcceptSeq(i)
  <2>1. /\ rd[i] = "seq" /\ AcceptDone(i, Head(sock[i].in).seq) /\ sock' = Took(sock, i)
        /\ UNCHANGED <<state, pipe>>
    BY <1>6 DEF AcceptSeq
  <2>2. /\ \A k \in Pipes \ {i} : rd'[k] = rd[k] /\ wr'[k] = wr[k] /\ loc'[k] = loc[k]
        /\ rd'[i] \notin {"accept", "reply"}
        /\ (wr'[i] = wr[i] /\ state[i] = "closed") \/ wr'[i] = "loop"
    BY <1>1, <2>1, ReaderNextPast DEF AcceptDone
  <2>3. wr[i] = "none"
    BY <2>1 DEF TInv, PipeInv
  <2> QED BY <1>3, <1>4, <2>1, <2>2, <2>3, LoopStep
<1>7. CASE ReadMsg(i) \/ Dispatched(i) \/ ReadAck(i) \/ ReadKeepalive(i)
  <2>1. /\ UNCHANGED <<state, wr>> /\ rd[i] \in {"read", "dispatch"}
        /\ sock' = sock \/ sock' = Took(sock, i)
        /\ rd' = [rd EXCEPT ![i] = ReaderNext(state[i])] \/ rd' = [rd EXCEPT ![i] = "dispatch"]
        /\ \E n : loc' = loc \/ loc' = [loc EXCEPT ![i].id = n]
        /\ \E n : \/ pipe' = pipe \/ pipe' = [pipe EXCEPT ![i].in_seq = n]
                  \/ pipe' = [pipe EXCEPT ![i].send_keepalive_ack = TRUE]
    BY <1>7 DEF ReadMsg, Dispatched, ReadAck, ReadKeepalive, Reads
  <2>2. \A k \in Pipes \ {i} : /\ rd'[k] = rd[k] /\ wr'[k] = wr[k]
                               /\ loc'[k] = loc[k] /\ pipe'[k] = pipe[k]
    BY <1>1, <2>1
  <2>3. /\ rd'[i] \notin {"accept", "reply"}
        /\ pipe'[i].connect_seq = pipe[i].connect_seq /\ pipe'[i].con = pipe[i].con
        /\ loc'[i].cseq = loc[i].cseq /\ wr'[i] = wr[i]
    BY <1>1, <2>1, ReaderNextPast DEF PipeType, LocType
  <2>4. wr[i] = "none" => state[i] = "closed"
    <3>1. state[i] # "free"
      BY <2>1, ThreadsRunning DEF TInv
    <3> QED BY <1>2, <2>1, <3>1 DEF EndInv
  <2>5. \/ wr'[i] = "none" /\ state[i] = "closed"
        \/ wr'[i] \notin {"none", "join", "await"}
        \/ wr'[i] = "join" /\ wr[i] = "join" /\ loc'[i].cseq = loc[i].cseq
    BY <1>4, <2>3, <2>4
  <2>6. state' = state
    BY <2>1
  <2> QED BY <1>3, <1>4, <2>1, <2>2, <2>3, <2>5, <2>6, LoopStep
<1> QED BY <1>5, <1>6, <1>7 DEF Reading

LEMMA WriterWInv ==
  ASSUME TInv, WInv, NEW i \in Pipes, WriterStep(i)
  PROVE  WInv'
<1>1. /\ rd \in [Pipes -> ReaderPC] /\ wr \in [Pipes -> WriterPC] /\ loc \in [Pipes -> LocType]
      /\ pipe \in [Pipes -> PipeType] /\ state[i] \in States
  BY DEF TInv, LInv, Control, DataOK
<1>2. CASE WriteFails(i)
  <2>1. /\ Writing(i) /\ Fault(i, state[i], FALSE, outq[i]) /\ wr' = [wr EXCEPT ![i] = "loop"]
        /\ rd' = rd /\ loc' = [loc EXCEPT ![i].seq = 0, ![i].msg = NoLoc.msg]
    BY <1>2 DEF WriteFails
  <2>2. wr'[i] = "loop"
        /\ \A j \in Pipes \ {i} : rd'[j] = rd[j] /\ wr'[j] = wr[j] /\ loc'[j] = loc[j]
    BY <1>1, <2>1
  <2>3. state[i] = "connecting" => ~Policy[Owner(i)].server
    BY DEF WInv, EndInv
  <2> QED BY <2>1, <2>2, <2>3, FaultWInv
<1>3. CASE WriterRound(i) \/ Wrote(i)
  <2>1. PICK k, r, f :
          /\ k \in 1..5 /\ StartWrite(i, k, r) /\ state' = state /\ rd' = rd
          /\ pipe' = [pipe EXCEPT ![i] = r]
          /\ r.connect_seq = pipe[i].connect_seq /\ r.con = pipe[i].con
          /\ f \in Frames /\ (sock' = sock \/ sock' = Put(sock, i, f))
    <3>1. CASE WriterRound(i)
      <4>1. /\ StartWrite(i, 1, pipe[i]) /\ UNCHANGED <<state, pipe, rd, sock>>
        BY <3>1 DEF WriterRound
      <4>2. pipe' = [pipe EXCEPT ![i] = pipe[i]]
        BY <1>1, <4>1
      <4>3. 1 \in 1..5 /\ [kind |-> "keepalive"] \in Frames
        BY FrameTypes
      <4> QED BY <4>1, <4>2, <4>3
    <3>2. CASE Wrote(i)
      <4>1. /\ Writing(i) /\ sock' = Put(sock, i, WriteFrame(i))
            /\ pipe' = [pipe EXCEPT ![i] = AfterWrite(i)] /\ UNCHANGED <<state, rd>>
            /\ \E k \in 1..4 : StartWrite(i, IF k = 4 THEN 5 ELSE k + 1, AfterWrite(i))
        BY <3>2 DEF Wrote
      <4>2. \E k \in 1..5 : StartWrite(i, k, AfterWrite(i))
        <5>1. PICK k \in 1..4 : StartWrite(i, IF k = 4 THEN 5 ELSE k + 1, AfterWrite(i))
          BY <4>1
        <5>2. (IF k = 4 THEN 5 ELSE k + 1) \in 1..5
          OBVIOUS
        <5> QED BY <5>1, <5>2
      <4> QED BY <4>1, <4>2, WrittenFrame
    <3> QED BY <1>3, <3>1, <3>2
  <2>2. InLoop(i)
    <3>1. CASE Writing(i)
      BY <3>1, WritingParts DEF InLoop
    <3>2. CASE WriterRound(i)
      <4>1. state[i] # "accepting"
        BY <3>2 DEF WriterRound, TInv, LInv, AcceptingIsIdle
      <4>2. state[i] = "open"
        BY <1>1, <3>2, <4>1 DEF WriterRound, States
      <4> QED BY <3>2, <4>2 DEF WriterRound, InLoop
    <3> QED BY <1>3, <3>1, <3>2 DEF Wrote
  <2>3. /\ wr' = [wr EXCEPT ![i] = NextWrite(k, r, outq[i])]
        /\ \E a, b : loc' = [loc EXCEPT ![i].seq = a, ![i].msg = b]
    BY <2>1 DEF StartWrite
  <2>4. NextWrite(k, r, outq[i]) \in {"loop", "keepalive", "keepalive_ack", "ack", "msg"}
    BY <2>1, NextWriteProperties
  <2>5. /\ wr'[i] \notin {"none", "join", "await"}
        /\ pipe'[i] = r
        /\ \A j \in Pipes \ {i} : /\ rd'[j] = rd[j] /\ wr'[j] = wr[j]
                                  /\ loc'[j] = loc[j] /\ pipe'[j] = pipe[j]
    BY <1>1, <2>1, <2>3, <2>4
  <2>6. rd'[i] \notin {"accept", "reply"}
    BY <2>1, <2>2 DEF InLoop, TInv, PipeInv
  <2> QED BY <2>1, <2>2, <2>5, <2>6, LoopStep
<1> QED BY <1>2, <1>3 DEF WriterStep
-----------------------------------------------------------------------------
(* connect().                                                              *)

(* A writer that is not in connect() yet, or has not heard, or has.        *)
LEMMA CallerPair ==
  ASSUME TInv, WInv, NEW i \in Pipes, NEW j \in Pipes, Live(sock, i), j = sock[i].peer
  PROVE  /\ wr[i] = "await" => Calling(i, j)
         /\ wr[i] \in {"loop", "join"} /\ state[i] # "open" => GaveUp(i, j)
<1>1. Paired(i, j) /\ EndInv(i)
  BY DEF WInv, LinkInv
<1>2. wr[i] \in {"loop", "join", "await"} /\ state[i] # "open" => ~Calling(j, i) /\ ~GaveUp(j, i)
  BY DEF Calling, GaveUp, Asked, Refused, Granted, Told, Undecided, Opened, TInv, PipeInv
<1>3. wr[i] = "await" => state[i] # "open"
  BY <1>1 DEF EndInv
<1> QED BY <1>1, <1>2, <1>3 DEF Paired, Calling, GaveUp, Joined

LEMMA ConnectWInv ==
  ASSUME TInv, WInv, NEW i \in Pipes, Connect(i)
  PROVE  WInv'
<1>1. /\ state \in [Pipes -> States] /\ wr \in [Pipes -> WriterPC] /\ loc \in [Pipes -> LocType]
      /\ EndInv(i)
  BY DEF TInv, LInv, Control, DataOK, WInv
<1>2. /\ wr[i] = "loop" /\ MayConnect(i) /\ state' = [state EXCEPT ![i] = "connecting"]
      /\ wr' = [wr EXCEPT ![i] = "join"] /\ UNCHANGED <<pipe, rd, sock>>
      /\ \E g : loc' = [loc EXCEPT ![i].cseq = pipe[i].connect_seq, ![i].gseq = g,
                                   ![i].bad_auth = FALSE]
  BY DEF Connect
<1>3. /\ state'[i] = "connecting" /\ wr'[i] = "join" /\ loc'[i].cseq = pipe[i].connect_seq
      /\ \A k \in Pipes \ {i} : state'[k] = state[k] /\ wr'[k] = wr[k] /\ loc'[k] = loc[k]
  BY <1>1, <1>2 DEF LocType
<1>4. EndInv(i)'
  BY <1>1, <1>2, <1>3 DEF MayConnect, EndInv
<1>5. \A k \in Pipes \ {i} : Kept(k)
  BY <1>2, <1>3 DEF Kept
<1>6. ASSUME NEW j \in Pipes, Live(sock, i), j = sock[i].peer
      PROVE  Paired(i, j)' /\ Kept(j)
  <2>1. GaveUp(i, j) /\ j # i
    BY <1>2, <1>6, CallerPair, PeerIsPipe DEF MayConnect
  <2>2. Kept(j) /\ rd' = rd /\ sock' = sock
    BY <1>2, <1>5, <2>1
  <2>3. GaveUp(i, j)'
    BY <1>2, <1>3, <2>1, <2>2 DEF GaveUp, MayConnect, Undecided, Kept
  <2> QED BY <2>2, <2>3 DEF Paired
<1> QED BY <1>2, <1>4, <1>5, <1>6, PairStep

LEMMA ConnectFailsWInv ==
  ASSUME TInv, WInv, NEW i \in Pipes,
         ConnectRefused(i) \/ ConnectBroken(i) \/ ConnectRejected(i) \/ ConnectSeqFails(i)
  PROVE  WInv'
<1>1. PICK q : ConnectFails(i, q)
  BY DEF ConnectRefused, ConnectBroken, ConnectRejected, ConnectSeqFails
<1>2. /\ wr' = [wr EXCEPT ![i] = "loop"] /\ loc' = [loc EXCEPT ![i] = NoLoc] /\ rd' = rd
  BY <1>1 DEF ConnectFails
<1>3. /\ wr' \in [Pipes -> WriterPC \cup {"loop"}] /\ wr'[i] = "loop"
      /\ \A k \in Pipes \ {i} : rd'[k] = rd[k] /\ wr'[k] = wr[k] /\ loc'[k] = loc[k]
  BY <1>2 DEF TInv, LInv, Control
<1>4. EndInv(i)
  BY DEF WInv
<1>5. CASE state[i] = "connecting"
  <2>1. Fault(i, "connecting", FALSE, q)
    BY <1>1, <1>5 DEF ConnectFails
  <2>2. ~Policy[Owner(i)].server
    BY <1>4, <1>5 DEF EndInv
  <2> QED BY <1>3, <2>1, <2>2, FaultWInv
<1>6. CASE state[i] # "connecting"
  <2>1. UNCHANGED <<state, pipe, sock>>
    BY <1>1, <1>6 DEF ConnectFails
  <2>2. EndInv(i)'
    BY <1>3, <1>4, <2>1 DEF EndInv
  <2>3. \A k \in Pipes \ {i} : Kept(k)
    BY <1>3, <2>1 DEF Kept
  <2>4. wr[i] = "join" \/ Broken(i)
    BY <1>6 DEF ConnectRefused, ConnectBroken, ConnectRejected, ConnectSeqFails, Answers
  <2>5. CASE Broken(i)
    BY <2>1, <2>2, <2>3, <2>5, BrokenStep DEF Broken, Severing, Live
  <2>6. CASE wr[i] = "join"
    <3>1. ASSUME NEW j \in Pipes, Live(sock, i), j = sock[i].peer
          PROVE  Paired(i, j)' /\ Kept(j)
      <4>1. GaveUp(i, j) /\ j # i /\ Kept(j)
        BY <1>4, <2>3, <2>6, <3>1, CallerPair, PeerIsPipe DEF EndInv
      <4>2. GaveUp(i, j)'
        BY <1>2, <1>3, <2>1, <4>1 DEF GaveUp, Undecided
      <4> QED BY <4>1, <4>2 DEF Paired
    <3> QED BY <2>1, <2>2, <2>3, <3>1, PairStep
  <2> QED BY <2>4, <2>5, <2>6
<1> QED BY <1>5, <1>6

(* The reply an end waits for, and the other end.                          *)
LEMMA AnsweredPair ==
  ASSUME TInv, WInv, NEW i \in Pipes, Answered(i)
  PROVE  /\ ExpectedAnswer(i) /\ rd[i] \in {"none", "sleep"}
         /\ sock[i].in \in Seq(Frames) /\ sock[i].in # <<>>
         /\ Answer(i).tag \notin Granting => Tail(sock[i].in) = <<>>
         /\ \A j \in Pipes : Live(sock, i) /\ j = sock[i].peer =>
              /\ Answer(i).tag \notin Granting => Refused(i, j)
              /\ Answer(i).tag \in Granting => Told(i, j)
<1>1. wr[i] = "await" /\ sock[i].in # <<>> /\ sock[i].in \in Seq(Frames)
  BY InIsSeq DEF Answered, Arrived
<1>2. ExpectedAnswer(i) /\ rd[i] \in {"none", "sleep"}
  BY <1>1 DEF WInv, EndInv
<1>3. Answer(i).tag \notin Granting => Tail(sock[i].in) = <<>>
  BY <1>1, <1>2, OneFrame DEF ExpectedAnswer
<1>4. ASSUME NEW j \in Pipes, Live(sock, i), j = sock[i].peer
      PROVE  /\ Answer(i).tag \notin Granting => Refused(i, j)
             /\ Answer(i).tag \in Granting => Told(i, j)
  <2>1. Calling(i, j)
    BY <1>1, <1>4, CallerPair
  <2> QED BY <1>1, <2>1 DEF Calling, Asked, Refused, Granted, Told
<1> QED BY <1>1, <1>2, <1>3, <1>4

LEMMA ConnectStopsWInv ==
  ASSUME TInv, WInv, NEW i \in Pipes, ConnectStops(i)
  PROVE  WInv'
<1>1. /\ state \in [Pipes -> States] /\ wr \in [Pipes -> WriterPC] /\ loc \in [Pipes -> LocType]
      /\ EndInv(i)
  BY DEF TInv, LInv, Control, DataOK, WInv
<1>2. /\ Answered(i) /\ sock' = Took(sock, i) /\ wr' = [wr EXCEPT ![i] = "loop"]
      /\ loc' = [loc EXCEPT ![i] = NoLoc] /\ UNCHANGED <<pipe, rd>>
      /\ state' = IF Answers(i, {"WAIT"}) THEN [state EXCEPT ![i] = "wait"] ELSE state
      /\ state[i] # "connecting" \/ Answer(i).tag \in {"WAIT", "BADAUTHORIZER"}
  BY DEF ConnectStops, Answers
<1>3. wr[i] = "await" /\ ExpectedAnswer(i) /\ rd[i] \in {"none", "sleep"}
  BY <1>2, AnsweredPair DEF Answered
<1>4. /\ wr'[i] = "loop"
      /\ \A k \in Pipes \ {i} : state'[k] = state[k] /\ wr'[k] = wr[k] /\ loc'[k] = loc[k]
      /\ \/ state'[i] = "wait" /\ Answer(i).tag = "WAIT"
         \/ state'[i] = state[i] /\ (state[i] # "connecting" \/ Answer(i).tag = "BADAUTHORIZER")
  BY <1>1, <1>2 DEF Answers
<1>5. EndInv(i)'
  BY <1>1, <1>2, <1>3, <1>4 DEF EndInv, ExpectedAnswer
<1>6. \A k \in Pipes : sock'[k].peer = sock[k].peer /\ (k # i => sock'[k] = sock[k])
  BY <1>2, TookEffect
<1>7. \A k \in Pipes \ {i} : Kept(k)
  BY <1>2, <1>4, <1>6 DEF Kept
<1>8. ASSUME NEW j \in Pipes, Live(sock, i), j = sock[i].peer
      PROVE  Paired(i, j)' /\ Kept(j)
  <2>1. Kept(j) /\ rd' = rd
    BY <1>2, <1>7, <1>8, PeerIsPipe
  <2>2. /\ Answer(i).tag \notin Granting => Refused(i, j)
        /\ Answer(i).tag \in Granting => Told(i, j)
    BY <1>2, <1>8, AnsweredPair
  <2>3. state[i] \in {"connecting", "closed"}
    BY <1>1, <1>3 DEF EndInv
  <2>4. GaveUp(i, j)'
    <3>1. CASE Answer(i).tag \notin Granting
      BY <1>3, <1>4, <2>1, <2>2, <2>3, <3>1 DEF Refused, GaveUp, Undecided, Kept
    <3>2. CASE Answer(i).tag \in Granting
      <4>1. state'[i] = "closed"
        BY <1>4, <2>3, <3>2 DEF Granting
      <4> QED BY <1>3, <1>4, <2>1, <2>2, <3>2, <4>1 DEF Told, GaveUp, Opened, Kept
    <3> QED BY <3>1, <3>2
  <2> QED BY <2>1, <2>4 DEF Paired
<1> QED BY <1>5, <1>6, <1>7, <1>8, PairStep

(* The loop of connect() goes round.                                       *)
LEMMA AgainWInv ==
  ASSUME TInv, WInv, NEW i \in Pipes, Answered(i), state[i] = "connecting",
         Answer(i).tag \notin Granting,
         NEW cseq \in Nat, NEW gseq \in Nat, NEW bad, Again(i, cseq, gseq, bad),
         pipe'[i].connect_seq = cseq, \A k \in Pipes \ {i} : pipe'[k] = pipe[k]
  PROVE  WInv'
<1> DEFINE f == Attempt(cseq, gseq)
<1>1. /\ sock' = Put(Took(sock, i), i, f) /\ UNCHANGED <<state, rd, wr>>
      /\ loc' = [loc EXCEPT ![i].cseq = cseq, ![i].gseq = gseq, ![i].bad_auth = bad]
  BY DEF Again
<1>2. f \in Frames /\ f.cseq = cseq
  BY AttemptType DEF Attempt
<1> HIDE DEF f
<1>3. /\ loc'[i].cseq = cseq /\ \A k \in Pipes \ {i} : loc'[k] = loc[k]
  BY <1>1 DEF TInv, DataOK, LocType
<1>4. /\ \A k \in Pipes : sock'[k].peer = sock[k].peer
      /\ \A k \in Pipes \ {i} : k # sock[i].peer => sock'[k] = sock[k]
      /\ sock'[i].in = Tail(sock[i].in)
      /\ Live(sock, i) => sock'[sock[i].peer].in = Append(sock[sock[i].peer].in, f)
  <2>1. sock' = Put(Took(sock, i), i, f)
    BY <1>1
  <2>2. \A k \in Pipes : sock'[k].peer = sock[k].peer
    BY <2>1, AnswerEffect DEF AnsweredWith
  <2>3. \A k \in Pipes \ {i} : k # sock[i].peer => sock'[k] = sock[k]
    BY <2>1, AnswerEffect DEF AnsweredWith
  <2>4. sock'[i].in = Tail(sock[i].in)
    BY <2>1, AnswerEffect DEF AnsweredWith
  <2>5. Live(sock, i) => sock'[sock[i].peer].in = Append(sock[sock[i].peer].in, f)
    BY <2>1, AnswerEffect DEF AnsweredWith
  <2> QED BY <2>2, <2>3, <2>4, <2>5
<1>5. wr[i] = "await" /\ EndInv(i) /\ sock'[i].in = <<>>
  BY <1>4, AnsweredPair DEF Answered, WInv
<1>6. EndInv(i)'
  BY <1>1, <1>3, <1>5 DEF EndInv
<1>7. \A k \in Pipes \ {i} : k # sock[i].peer => Kept(k)
  BY <1>1, <1>3, <1>4 DEF Kept
<1>8. ASSUME NEW j \in Pipes, Live(sock, i), j = sock[i].peer
      PROVE  Paired(i, j)' /\ EndInv(j)'
  <2>1. Refused(i, j) /\ j # i
    BY <1>8, AnsweredPair, PeerIsPipe
  <2>2. sock'[j].in = Append(<<>>, f)
    BY <1>4, <1>8, <2>1 DEF Refused
  <2>3. Len(sock'[j].in) = 1 /\ Head(sock'[j].in) = f
    BY <2>2
  <2>4. Asked(i, j)'
    BY <1>1, <1>2, <1>3, <1>5, <2>1, <2>3 DEF Asked, Refused, Undecided, Request
  <2>5. wr[j] = "none"
    BY <2>1 DEF Refused, Undecided, TInv, PipeInv
  <2>6. EndInv(j)'
    BY <1>1, <2>1, <2>5 DEF Refused, Undecided, EndInv
  <2> QED BY <1>1, <1>5, <2>4, <2>6 DEF Paired, Calling
<1> QED BY <1>4, <1>6, <1>7, <1>8, PairStep

LEMMA ConnectRetriesWInv ==
  ASSUME TInv, WInv, NEW i \in Pipes,
         \/ ConnectRetriesAuth(i) \/ ConnectResets(i)
         \/ ConnectRetriesGlobal(i) \/ ConnectRetriesSession(i)
  PROVE  WInv'
<1>1. /\ Answered(i) /\ state[i] = "connecting"
      /\ Answer(i).tag \in {"BADAUTHORIZER", "RESETSESSION", "RETRY_GLOBAL", "RETRY_SESSION"}
  BY DEF ConnectRetriesAuth, ConnectResets, ConnectRetriesGlobal, ConnectRetriesSession, Answers
<1>2. /\ pipe \in [Pipes -> PipeType] /\ loc[i] \in LocType
      /\ loc[i].cseq \in Nat /\ loc[i].gseq \in Nat
      /\ Answer(i).gseq \in Nat /\ Answer(i).cseq \in Nat /\ global_seq[Owner(i)] \in Nat
  BY <1>1, ConnectingPipe, OwnerIsPeer DEF TInv, DataOK, LocType
<1>3. pipe[i].connect_seq = loc[i].cseq /\ Answer(i).tag \notin Granting
  BY <1>1 DEF WInv, EndInv, Answered, Granting
<1>4. CASE ConnectRetriesAuth(i)
  <2>1. Again(i, loc[i].cseq, loc[i].gseq, TRUE) /\ pipe' = pipe
    BY <1>4 DEF ConnectRetriesAuth
  <2> QED BY <1>1, <1>2, <1>3, <2>1, AgainWInv
<1>5. CASE ConnectResets(i)
  <2>1. Again(i, 0, loc[i].gseq, loc[i].bad_auth) /\ pipe' = [pipe EXCEPT ![i] = WasReset(@)]
    BY <1>5 DEF ConnectResets
  <2>2. pipe'[i].connect_seq = 0 /\ \A k \in Pipes \ {i} : pipe'[k] = pipe[k]
    BY <1>2, <2>1 DEF WasReset, PipeType
  <2> QED BY <1>1, <1>2, <1>3, <2>1, <2>2, AgainWInv
<1>6. CASE ConnectRetriesGlobal(i)
  <2>1. PICK g : /\ g = NextGlobalSeq(Owner(i), Answer(i).gseq)
                 /\ Again(i, loc[i].cseq, g, loc[i].bad_auth) /\ pipe' = pipe
    BY <1>6 DEF ConnectRetriesGlobal
  <2>2. g \in Nat
    BY <1>2, <2>1 DEF NextGlobalSeq
  <2> QED BY <1>1, <1>2, <1>3, <2>1, <2>2, AgainWInv
<1>7. CASE ConnectRetriesSession(i)
  <2>1. /\ Again(i, Answer(i).cseq, loc[i].gseq, loc[i].bad_auth)
        /\ pipe' = [pipe EXCEPT ![i].connect_seq = Answer(i).cseq]
    BY <1>7 DEF ConnectRetriesSession
  <2>2. pipe'[i].connect_seq = Answer(i).cseq /\ \A k \in Pipes \ {i} : pipe'[k] = pipe[k]
    BY <1>2, <2>1 DEF PipeType
  <2> QED BY <1>1, <1>2, <1>3, <2>1, <2>2, AgainWInv
<1> QED BY <1>4, <1>5, <1>6, <1>7

LEMMA ConnectReadyWInv ==
  ASSUME TInv, WInv, NEW i \in Pipes, ConnectReady(i)
  PROVE  WInv'
<1> DEFINE f == [kind |-> "seq", seq |-> pipe[i].in_seq]
<1>1. /\ Answered(i) /\ Answer(i).tag \in Granting
      /\ sock' = Put(Took(sock, i), i, f) \/ sock' = Took(sock, i)
      /\ pipe' = [pipe EXCEPT ![i] = [@ EXCEPT !.peer_global_seq = Answer(i).gseq,
                                               !.lossy = Answer(i).lossy,
                                               !.connect_seq = loc[i].cseq + 1]]
      /\ state' = [state EXCEPT ![i] = "open"] /\ rd' = [rd EXCEPT ![i] = "read"]
      /\ wr' = [wr EXCEPT ![i] = "loop"] /\ loc' = [loc EXCEPT ![i] = NoLoc]
  BY DEF ConnectReady, Answers, Granting
<1>2. f \in Frames
  <2>1. pipe[i].in_seq \in Nat
    BY DEF TInv, DataOK, PipeType
  <2> QED BY <2>1, FrameTypes
<1> HIDE DEF f
<1>3. /\ state \in [Pipes -> States] /\ rd \in [Pipes -> ReaderPC] /\ wr \in [Pipes -> WriterPC]
      /\ loc \in [Pipes -> LocType] /\ pipe \in [Pipes -> PipeType]
  BY DEF TInv, LInv, Control, DataOK
<1>4. /\ state'[i] = "open" /\ rd'[i] = "read" /\ wr'[i] = "loop"
      /\ pipe'[i].connect_seq = loc[i].cseq + 1
      /\ \A k \in Pipes \ {i} : /\ state'[k] = state[k] /\ rd'[k] = rd[k] /\ wr'[k] = wr[k]
                                /\ loc'[k] = loc[k] /\ pipe'[k] = pipe[k]
  BY <1>1, <1>3 DEF PipeType
<1>5. EndInv(i)'
  BY <1>4 DEF EndInv
<1>6. /\ \A k \in Pipes : sock'[k].peer = sock[k].peer
      /\ \A k \in Pipes \ {i} : k # sock[i].peer => sock'[k] = sock[k]
  BY <1>1, AnswerEffect, TookEffect DEF AnsweredWith
<1>7. \A k \in Pipes \ {i} : k # sock[i].peer => Kept(k)
  BY <1>4, <1>6 DEF Kept
<1>8. ASSUME NEW j \in Pipes, Live(sock, i), j = sock[i].peer
      PROVE  Paired(i, j)' /\ EndInv(j)'
  <2>1. Told(i, j) /\ j # i /\ EndInv(j)
    BY <1>1, <1>8, AnsweredPair, PeerIsPipe DEF WInv
  <2>2. state[j] = "open" /\ wr[j] # "await"
    BY <2>1 DEF Told, Opened, EndInv
  <2>3. EndInv(j)'
    BY <1>4, <2>1, <2>2 DEF EndInv
  <2>4. Joined(i, j)'
    BY <1>4, <2>1 DEF Joined, Told, Opened
  <2> QED BY <2>3, <2>4 DEF Paired
<1> QED BY <1>5, <1>6, <1>7, <1>8, PairStep

(* A new connection: the old one of i is gone, the ends of the new one are *)
(* i, which waits, and a new Pipe with the request.                        *)
LEMMA ConnectOpensWInv ==
  ASSUME TInv, WInv, NEW i \in Pipes, ConnectOpens(i)
  PROVE  WInv'
<1> DEFINE q == Other(Owner(i))
           f == Attempt(loc[i].cseq, loc[i].gseq)
<1>1. q \in Peers /\ Other(q) = Owner(i)
  BY OwnerIsPeer, OtherPeer
<1>2. PICK j \in Pipes : j = FreePipe(q) /\ state[j] = "free" /\ Owner(j) = q
  BY <1>1, FreePipeIsFree DEF ConnectOpens, CanMakePipe
<1>3. PICK c : c = Cut(sock, i)
  OBVIOUS
<1>4. /\ state' = [state EXCEPT ![j] = "accepting"]
      /\ pipe' = [pipe EXCEPT ![j] = NewPipe(q, FreshId(q))]
      /\ rd' = [rd EXCEPT ![j] = "accept"] /\ wr' = [wr EXCEPT ![i] = "await"]
      /\ sock' = [c EXCEPT ![i] = [peer |-> j, up |-> TRUE, in |-> <<>>],
                           ![j] = [peer |-> i, up |-> TRUE, in |-> <<f>>]]
      /\ wr[i] = "join" /\ ReaderGone(i) /\ loc' = loc
  BY <1>2, <1>3 DEF ConnectOpens
<1>5. /\ pipe \in [Pipes -> PipeType] /\ sock \in Socks /\ EndInv(i)
      /\ state \in [Pipes -> States] /\ rd \in [Pipes -> ReaderPC] /\ wr \in [Pipes -> WriterPC]
  BY DEF TInv, DataOK, LInv, Control, Socks, WInv
<1>6. f.cseq = loc[i].cseq
  BY DEF Attempt
<1> HIDE DEF f, q
<1>7. wr[j] = "none" /\ i # j
  BY <1>2, <1>4 DEF TInv, LInv, FreeIsClean
<1>8. /\ DOMAIN c = Pipes /\ Severing(c) /\ ~Live(c, i)
      /\ \A k \in Pipes \ {i} : c[k].in = sock[k].in
  BY <1>3, CutSevers DEF Cut
<1>9. /\ state'[i] = state[i] /\ rd'[i] = rd[i] /\ wr'[i] = "await" /\ pipe'[i] = pipe[i]
      /\ state'[j] = "accepting" /\ rd'[j] = "accept" /\ wr'[j] = "none"
      /\ \A k \in Pipes \ {i, j} : /\ state'[k] = state[k] /\ rd'[k] = rd[k] /\ wr'[k] = wr[k]
                                   /\ pipe'[k] = pipe[k] /\ sock'[k] = c[k]
      /\ sock'[i].peer = j /\ sock'[i].in = <<>> /\ sock'[j].peer = i /\ sock'[j].in = <<f>>
  BY <1>4, <1>5, <1>7, <1>8
<1>10. EndInv(i)'
  BY <1>4, <1>5, <1>9 DEF EndInv, ReaderGone
<1>11. EndInv(j)'
  BY <1>9 DEF EndInv
<1>12. Paired(i, j)' /\ Paired(j, i)'
  <2>1. Len(sock'[j].in) = 1 /\ Head(sock'[j].in) = f
    BY <1>9
  <2>2. Asked(i, j)'
    BY <1>4, <1>6, <1>9, <2>1 DEF Asked, Undecided, Request
  <2>3. Calling(i, j)'
    BY <1>9, <2>2 DEF Calling
  <2> QED BY <2>3 DEF Paired
<1>13. \A k \in Pipes \ {i, j} : Kept(k)
  BY <1>4, <1>8, <1>9 DEF Kept
<1>14. LinkInv(i)' /\ LinkInv(j)'
  BY <1>1, <1>2, <1>9, <1>12 DEF LinkInv, q
<1>15. ASSUME NEW k \in Pipes \ {i, j}
       PROVE  EndInv(k)' /\ LinkInv(k)'
  <2>1. EndInv(k)' /\ Kept(k)
    BY <1>13, KeptEnd DEF WInv
  <2>2. ASSUME Live(sock', k)
        PROVE  LinkInv(k)'
    <3>1. Live(c, k) /\ sock'[k].peer = c[k].peer
      BY <1>9, <2>2 DEF Live
    <3>2. c[k].peer = sock[k].peer /\ Live(sock, k)
      BY <1>8, <3>1 DEF Severing, Live
    <3>3. PICK m \in Pipes : m = sock[k].peer
      BY <3>2, PeerIsPipe
    <3>4. /\ sock[m].peer = k /\ Live(sock, m) /\ Owner(m) = Other(Owner(k)) /\ Paired(k, m)
      BY <3>2, <3>3, PeerIsPipe DEF WInv, LinkInv
    <3>5. m # i
      <4> SUFFICES ASSUME m = i PROVE FALSE
        OBVIOUS
      <4>1. ~Live(c, sock[i].peer)
        BY <1>8, <3>4 DEF Severing
      <4> QED BY <3>1, <3>4, <4>1
    <3>6. m # j
      BY <1>2, <1>7, <3>4
         DEF Paired, Calling, Asked, Refused, Granted, Told, GaveUp, Joined, Undecided, Opened
    <3>7. sock'[m].peer = k
      <4>1. Live(c, m)
        BY <1>8, <3>1, <3>2, <3>3, <3>4 DEF Severing
      <4> QED BY <1>8, <1>9, <3>4, <3>5, <3>6, <4>1 DEF Severing, Live
    <3>8. Paired(k, m)'
      BY <1>13, <3>4, <3>5, <3>6, KeptPair
    <3> QED BY <3>1, <3>2, <3>3, <3>4, <3>7, <3>8 DEF LinkInv
  <2> QED BY <2>1, <2>2 DEF LinkInv
<1> QED BY <1>10, <1>11, <1>14, <1>15 DEF WInv

LEMMA ConnectingWInv ==
  ASSUME TInv, WInv, NEW i \in Pipes, Connecting(i)
  PROVE  WInv'
BY ConnectWInv, ConnectOpensWInv, ConnectFailsWInv, ConnectStopsWInv, ConnectRetriesWInv,
   ConnectReadyWInv DEF Connecting
-----------------------------------------------------------------------------
(* The reaper, the network and the application.                            *)

LEMMA ReapWInv ==
  ASSUME TInv, WInv, NEW i \in Pipes, Reap(i)
  PROVE  WInv'
<1>1. /\ rd' = [rd EXCEPT ![i] = "none"] /\ wr' = [wr EXCEPT ![i] = "none"]
      /\ state' = [state EXCEPT ![i] = "free"] /\ pipe' = [pipe EXCEPT ![i] = NoPipe(Owner(i))]
      /\ loc' = [loc EXCEPT ![i] = NoLoc] /\ sock' = Stopped(sock, i)
  BY DEF Reap
<1>2. state'[i] = "free" /\ wr'[i] = "none"
      /\ \A k \in Pipes \ {i} : /\ state'[k] = state[k] /\ rd'[k] = rd[k] /\ wr'[k] = wr[k]
                                /\ loc'[k] = loc[k] /\ pipe'[k] = pipe[k]
  BY <1>1 DEF TInv, LInv, Control, DataOK
<1>3. EndInv(i)'
  BY <1>2 DEF EndInv
<1>4. /\ Severing(sock') /\ ~Live(sock', i)
      /\ \A k \in Pipes \ {i} : sock'[k].in = sock[k].in
  BY <1>1, CutSevers
<1>5. \A k \in Pipes \ {i} : Kept(k)
  BY <1>2, <1>4 DEF Kept
<1> QED BY <1>3, <1>4, <1>5, BrokenStep

LEMMA NetFaultWInv ==
  ASSUME TInv, WInv, NEW i \in Pipes, NetFault(i)
  PROVE  WInv'
<1>1. sock' = Shut(sock, i) /\ UNCHANGED <<state, pipe, rd, wr, loc>>
  BY DEF NetFault
<1>2. /\ Severing(sock') /\ ~Live(sock', i)
      /\ \A k \in Pipes \ {i} : sock'[k].in = sock[k].in
  BY <1>1, CutSevers
<1>3. sock'[i].in = sock[i].in
  BY <1>1 DEF Shut, Cut, TInv, DataOK, SockType
<1>4. \A k \in Pipes : Kept(k)
  BY <1>1, <1>2, <1>3 DEF Kept
<1>5. EndInv(i)'
  BY <1>4, KeptEnd DEF WInv
<1> QED BY <1>2, <1>4, <1>5, BrokenStep

(* A step after which every connection that there still is is as it was.   *)
LEMMA KeptLinks ==
  ASSUME TInv, WInv, Severing(sock'),
         \A k \in Pipes : Kept(k) \/ (~Live(sock', k) /\ EndInv(k)')
  PROVE  WInv'
<1>1. ASSUME NEW k \in Pipes, NEW j \in Pipes, Live(sock', k), j = sock[k].peer
      PROVE  Kept(k) /\ Kept(j)
  <2>1. Live(sock, k)
    BY <1>1 DEF Severing, Live
  <2>2. Live(sock, j) /\ sock[j].peer = k
    BY <1>1, <2>1, PeerIsPipe
  <2>3. Live(sock', j)
    BY <1>1, <2>2 DEF Severing
  <2> QED BY <1>1, <2>3
<1>2. \A k \in Pipes : Kept(k) \/ EndInv(k)'
  OBVIOUS
<1> QED BY <1>1, <1>2, SurvivingLinks

LEMMA SubmitWInv ==
  ASSUME TInv, WInv, NEW p \in Peers, Submit(p)
  PROVE  WInv'
<1>1. sock' = sock /\ rd' = rd /\ loc' = loc
  BY DEF Submit
<1>2. Severing(sock')
  BY <1>1 DEF Severing, Live
<1>3. CASE UNCHANGED <<state, pipe, wr>>
  <2>1. \A k \in Pipes : Kept(k)
    BY <1>1, <1>3 DEF Kept
  <2> QED BY <1>2, <2>1, KeptLinks
<1>4. CASE ~UNCHANGED <<state, pipe, wr>>
  <2>1. /\ ~Policy[p].server /\ CanMakePipe(p)
        /\ state' = [state EXCEPT ![FreePipe(p)] = "connecting"]
        /\ pipe' = [pipe EXCEPT ![FreePipe(p)] = NewPipe(p, FreshId(p))]
        /\ wr' = [wr EXCEPT ![FreePipe(p)] = "loop"]
    BY <1>4 DEF Submit
  <2>2. PICK n \in Pipes : n = FreePipe(p) /\ state[n] = "free" /\ Owner(n) = p
    BY <2>1, FreePipeIsFree DEF CanMakePipe
  <2>3. /\ state'[n] = "connecting" /\ wr'[n] = "loop"
        /\ \A k \in Pipes \ {n} : state'[k] = state[k] /\ pipe'[k] = pipe[k] /\ wr'[k] = wr[k]
    BY <2>1, <2>2 DEF TInv, LInv, Control
  <2>4. EndInv(n)'
    BY <2>1, <2>2, <2>3 DEF EndInv
  <2>5. ~Live(sock, n)
    <3> SUFFICES ASSUME Live(sock, n) PROVE FALSE
      OBVIOUS
    <3>1. PICK j \in Pipes : j = sock[n].peer /\ Paired(n, j)
      BY PeerIsPipe DEF WInv, LinkInv
    <3>2. wr[n] = "none"
      BY <2>2 DEF TInv, LInv, FreeIsClean
    <3> QED BY <2>2, <3>1, <3>2
        DEF Paired, Calling, Asked, Refused, Granted, Told, GaveUp, Joined, Undecided, Opened
  <2>6. \A k \in Pipes \ {n} : Kept(k)
    BY <1>1, <2>3 DEF Kept
  <2> QED BY <1>1, <1>2, <2>4, <2>5, <2>6, KeptLinks
<1> QED BY <1>3, <1>4

LEMMA SendKeepaliveWInv ==
  ASSUME TInv, WInv, NEW p \in Peers, SendKeepalive(p)
  PROVE  WInv'
<1>1. /\ UNCHANGED <<state, rd, wr, loc, sock>>
      /\ \E e : pipe' = [pipe EXCEPT ![e].send_keepalive = TRUE]
  BY DEF SendKeepalive
<1>2. \A k \in Pipes : Kept(k)
  BY <1>1 DEF Kept, TInv, DataOK, PipeType
<1> QED BY <1>1, <1>2, KeptLinks DEF Severing, Live

LEMMA StopPipesWInv ==
  ASSUME TInv, WInv, NEW p \in Peers, NEW S, StopPipes(p, S)
  PROVE  WInv'
<1>1. /\ state' = [i \in Pipes |-> IF i \in S THEN "closed" ELSE state[i]]
      /\ pipe' = [i \in Pipes |-> IF i \in S THEN Detached(pipe[i]) ELSE pipe[i]]
      /\ sock' = Severed(S) /\ UNCHANGED <<rd, wr, loc>>
  BY DEF StopPipes
<1>2. \A k \in Pipes : /\ sock[k] \in SockType /\ pipe[k] \in PipeType
                       /\ state[k] = "accepting" => wr[k] = "none"
  BY DEF TInv, DataOK, LInv, AcceptingIsIdle
<1>3. \A k \in Pipes :
        /\ sock'[k].peer = IF k \in S \/ sock[k].peer \in S THEN None ELSE sock[k].peer
        /\ k \notin S => sock'[k].in = sock[k].in
        /\ k \in S /\ wr[k] # "none" => sock'[k].in = <<>>
  BY <1>1, <1>2 DEF Severed, NoSock, SockType
<1>4. Severing(sock')
  BY <1>3, PeerIsPipe DEF Severing, Live
<1>5. ASSUME NEW k \in Pipes, k \in S
      PROVE  EndInv(k)'
  <2>1. state'[k] = "closed" /\ ~pipe'[k].con /\ wr'[k] = wr[k] /\ rd'[k] = rd[k]
    BY <1>1, <1>2, <1>5 DEF Detached, PipeType
  <2>2. EndInv(k)
    BY DEF WInv
  <2> QED BY <1>3, <1>5, <2>1, <2>2 DEF EndInv
<1>6. \A k \in Pipes : k \notin S => Kept(k)
  BY <1>1, <1>3 DEF Kept
<1>7. \A k \in Pipes : Kept(k) \/ (~Live(sock', k) /\ EndInv(k)')
  BY <1>3, <1>5, <1>6 DEF Live
<1> QED BY <1>4, <1>7, KeptLinks

LEMMA RestartWInv ==
  ASSUME TInv, WInv, NEW p \in Peers, Restart(p)
  PROVE  WInv'
<1>1. PICK mine :
        /\ mine = {i \in Pipes : Owner(i) = p}
        /\ state' = [i \in Pipes |-> IF i \in mine THEN "free" ELSE state[i]]
        /\ pipe' = [i \in Pipes |-> IF i \in mine THEN NoPipe(p) ELSE pipe[i]]
        /\ rd' = [i \in Pipes |-> IF i \in mine THEN "none" ELSE rd[i]]
        /\ wr' = [i \in Pipes |-> IF i \in mine THEN "none" ELSE wr[i]]
        /\ loc' = [i \in Pipes |-> IF i \in mine THEN NoLoc ELSE loc[i]]
        /\ sock' = [i \in Pipes |-> IF i \in mine THEN NoSock ELSE Severed(mine)[i]]
  BY DEF Restart
<1>2. \A k \in Pipes :
        /\ sock'[k].peer = IF k \in mine \/ sock[k].peer \in mine THEN None ELSE sock[k].peer
        /\ k \notin mine => sock'[k].in = sock[k].in
  BY <1>1 DEF Severed, NoSock, TInv, DataOK, SockType
<1>3. Severing(sock')
  BY <1>2, PeerIsPipe DEF Severing, Live
<1>4. \A k \in Pipes : k \in mine => EndInv(k)'
  BY <1>1 DEF EndInv
<1>5. \A k \in Pipes : k \notin mine => Kept(k)
  BY <1>1, <1>2 DEF Kept
<1>6. \A k \in Pipes : Kept(k) \/ (~Live(sock', k) /\ EndInv(k)')
  BY <1>2, <1>4, <1>5 DEF Live
<1> QED BY <1>3, <1>6, KeptLinks

LEMMA InitWInv == Init => WInv
BY DEF Init, WInv, EndInv, LinkInv, Live, NoSock

LEMMA NextWInv == TInv /\ WInv /\ [Next]_vars => WInv'
<1> SUFFICES ASSUME TInv, WInv, [Next]_vars PROVE WInv'
  OBVIOUS
<1>1. ASSUME UNCHANGED <<state, pipe, rd, wr, loc, sock>> PROVE WInv'
  <2>1. \A k \in Pipes : Kept(k)
    BY <1>1 DEF Kept
  <2> QED BY <1>1, <2>1, KeptLinks DEF Severing, Live
<1>2. CASE UNCHANGED vars
  BY <1>1, <1>2 DEF vars
<1>3. ASSUME NEW i \in Pipes, Accepting(i) PROVE WInv'
  BY <1>3, AcceptFailsWInv, AcceptRefusesWInv, AcceptOpensWInv, AcceptRepliedWInv, ReadingWInv
  DEF Accepting
<1>4. ASSUME NEW p \in Peers, Application(p) PROVE WInv'
  <2>1. CASE Deliver(p)
    BY <1>1, <2>1 DEF Deliver
  <2> QED BY <1>4, <2>1, SubmitWInv, SendKeepaliveWInv, StopPipesWInv, RestartWInv
      DEF Application, MarkDown, MarkDownAll
<1> QED BY <1>2, <1>3, <1>4, ReadingWInv, ConnectingWInv, WriterWInv, ReapWInv, NetFaultWInv
        DEF Next

LEMMA SpecWInv == Spec => [](TInv /\ WInv)
<1> QED BY InitTInv, InitWInv, NextTInv, NextWInv, PTL DEF Spec

(* However the two messengers race, retry, replace, reset, mark down or    *)
(* restart: two open ends of one connection have the same connect_seq.     *)
THEOREM AgreedSession == Spec => []SessionsAgree
<1> QED BY AgreeFromWInv, SpecWInv, PTL

(* The assertions of the code about the other side of a race, the numbers  *)
(* in a reply, the Pipe the reaper finds and the threads of a Pipe.        *)
THEOREM AssertsHold == Spec => []CodeAsserts
<1>1. RaceAssert /\ ReplyAssert /\ ReapAssert /\ ThreadAssert => CodeAsserts
  BY DEF CodeAsserts
<1>2. TInv /\ WInv => CodeAsserts
  BY <1>1, AssertsFromWInv
<1> QED BY <1>2, SpecWInv, PTL
=============================================================================
