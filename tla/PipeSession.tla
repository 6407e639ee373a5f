----------------------------- MODULE PipeSession -----------------------------
(***************************************************************************)
(* Two SimpleMessengers that talk to each other through Pipes.             *)
(*                                                                         *)
(* A Pipe owns one TCP socket, a reader thread (accept() and then the read *)
(* loop), a writer thread (connect() and then the write loop) and one end  *)
(* of a session that outlives its sockets: connect_seq, in_seq and the     *)
(* queue of messages to send.  Everything the threads do under pipe_lock   *)
(* (or the messenger's lock) between two unlocks is one action; the points *)
(* where they drop the lock are the values of rd and wr.                   *)
(*                                                                         *)
(* A pipe is named <<p, n>>: the n-th Pipe object of messenger p.  A name  *)
(* is used again once the reaper has destroyed the object.                 *)
(***************************************************************************)
EXTENDS OutQueue

CONSTANTS
  NumPipes,       \* bound: Pipe objects a messenger has at one time
  NumConns,       \* bound: connections it knows at one time
  Policy,         \* Policy[p]: the messenger's policy towards its peer
  MaxSubmit,      \* bound: MaxSubmit[p] messages are submitted at p
  Urgent,         \* the messages submitted at CEPH_MSG_PRIO_HIGHEST
  FastDispatch,   \* ms_can_fast_dispatch of every message
  StartSeqs,      \* values randomize_out_seq can leave in out_seq
  MaxFaults,      \* bound: sockets that break, connects that fail
  MaxMarkDowns,   \* bound: mark_down and mark_down_all calls
  MaxRestarts,    \* bound: processes that die and start again on their address
  MaxRejects,     \* bound: BADAUTHORIZER, FEATURES and BADPROTOVER replies
  MaxKeepalives,  \* bound: send_keepalive calls
  MaxGlobalSeq,   \* bound: connection attempts of one messenger
  MaxConnectSeq   \* bound: the connect_seq two ends can bid each other up to

Peers == {1, 2}
Other(p) == 3 - p
AddrLess(p, q) == p < q

PolicyType == [lossy : BOOLEAN, server : BOOLEAN, standby : BOOLEAN, resetcheck : BOOLEAN]

ASSUME ConstantsAssumption ==
  /\ NumPipes \in Nat \ {0} /\ NumConns \in Nat \ {0}
  /\ Policy \in [Peers -> PolicyType]
  /\ MaxSubmit \in [Peers -> Nat]
  /\ FastDispatch \in BOOLEAN
  /\ StartSeqs \subseteq Nat
  /\ MaxFaults \in Nat /\ MaxMarkDowns \in Nat /\ MaxRestarts \in Nat /\ MaxRejects \in Nat
  /\ MaxKeepalives \in Nat /\ MaxGlobalSeq \in Nat /\ MaxConnectSeq \in Nat

VARIABLES
  state,       \* Pipe::state, "free" when there is no such object
  pipe,        \* the other fields of the session the Pipe carries
  outq,        \* its out_q, sent and out_seq
  rd, wr,      \* where its reader and writer threads are
  loc,         \* the local variables those threads keep while unlocked
  sock,        \* its socket: the pipe at the other end, and what has arrived
  rank_pipe,   \* SimpleMessenger::rank_pipe: the registered Pipe
  global_seq,  \* SimpleMessenger::global_seq
  in_q,        \* its DispatchQueue: the messages to deliver, by conn_id
  submitted,   \* how many messages the application has submitted
  delivered,   \* the messages it has been given, in order
  excused,     \* those of its messages whose loss it has been told of
  used         \* how much of each bound has been used

msgrVars == <<rank_pipe, global_seq, in_q>>
appVars  == <<submitted, delivered, excused>>
vars     == <<state, pipe, outq, rd, wr, loc, sock, msgrVars, appVars, used>>
-----------------------------------------------------------------------------
Slots == 1..NumPipes
Pipes == Peers \X Slots
None  == <<0, 0>>
Owner(i) == i[1]
ConnIds  == 1..NumConns
Ids      == Nat

States == {"free", "accepting", "connecting", "open", "standby", "closed", "wait"}
ReaderPC == {"none", "accept", "reply", "seq", "read", "sleep", "dispatch"}
WriterPC == {"none", "loop", "join", "await", "keepalive", "keepalive_ack", "ack", "msg"}

PipeType == [connect_seq : Nat, peer_global_seq : Nat, in_seq : Nat, in_seq_acked : Nat,
             lossy : BOOLEAN, send_keepalive : BOOLEAN, send_keepalive_ack : BOOLEAN,
             con : BOOLEAN, conn_id : ConnIds \cup {0}]

ReplyTags == {"READY", "SEQ", "WAIT", "RETRY_SESSION", "RETRY_GLOBAL", "RESETSESSION",
              "FEATURES", "BADPROTOVER", "BADAUTHORIZER"}
Connects == [kind : {"connect"}, gseq : Nat, cseq : Nat]
Replies  == [kind : {"reply"}, tag : ReplyTags, gseq : Nat, cseq : Nat, acked : Nat, lossy : BOOLEAN]
Frames   == Connects \cup Replies
              \cup [kind : {"seq", "ack"}, seq : Nat]
              \cup [kind : {"msg"}, msg : Message(Ids)]
              \cup [kind : {"keepalive", "keepalive_ack"}]

LocType == [cseq : Nat, gseq : Nat, bad_auth : BOOLEAN,      \* connect()
            seq : Nat, msg : Message(Ids),                   \* writer()
            reply : Replies, replaced : BOOLEAN, id : Ids]   \* accept(), reader()

SockType == [peer : Pipes \cup {None}, up : BOOLEAN, in : Seq(Frames)]
Budgets  == [faults : Nat, downs : Nat, restarts : Nat, rejects : Nat, keepalives : Nat]

Reply(tag, gseq, cseq, acked, lossy) ==
  [kind |-> "reply", tag |-> tag, gseq |-> gseq, cseq |-> cseq, acked |-> acked, lossy |-> lossy]

NewPipe(p, c) == [connect_seq |-> 0, peer_global_seq |-> 0, in_seq |-> 0, in_seq_acked |-> 0,
                  lossy |-> Policy[p].lossy, send_keepalive |-> FALSE,
                  send_keepalive_ack |-> FALSE, con |-> TRUE, conn_id |-> c]
(* clear_pipe(): the Connection no longer leads to this Pipe; and the      *)
(* mutant in which it still does.                                          *)
StillAttached(r) == r
Detached(r) == [r EXCEPT !.con = FALSE]

NoPipe(p) == Detached(NewPipe(p, 0))
NoLoc  == [cseq |-> 0, gseq |-> 0, bad_auth |-> FALSE, seq |-> 0, msg |-> [id |-> 0, seq |-> 0],
           reply |-> Reply("READY", 0, 0, 0, FALSE), replaced |-> FALSE, id |-> 0]
NoSock == [peer |-> None, up |-> FALSE, in |-> <<>>]

Init ==
  /\ state = [i \in Pipes |-> "free"]
  /\ pipe = [i \in Pipes |-> NoPipe(Owner(i))]
  /\ outq = [i \in Pipes |-> EmptyOutQ(0)]
  /\ rd = [i \in Pipes |-> "none"] /\ wr = [i \in Pipes |-> "none"]
  /\ loc = [i \in Pipes |-> NoLoc]
  /\ sock = [i \in Pipes |-> NoSock]
  /\ rank_pipe = [p \in Peers |-> None]
  /\ global_seq = [p \in Peers |-> 0]
  /\ in_q = [p \in Peers |-> [c \in ConnIds |-> <<>>]]
  /\ submitted = [p \in Peers |-> 0]
  /\ delivered = [p \in Peers |-> <<>>]
  /\ excused = [p \in Peers |-> {}]
  /\ used = [faults |-> 0, downs |-> 0, restarts |-> 0, rejects |-> 0, keepalives |-> 0]
-----------------------------------------------------------------------------
(* Sockets.                                                                *)

(* peer is the other end while the connection holds: when one end closes,  *)
(* shuts down or loses it, neither has a peer any more.                    *)
Live(sk, i) == sk[i].peer # None

(* What a successful write does: when the other end has gone the bytes are *)
(* accepted and lost.                                                      *)
Put(sk, i, f) == IF Live(sk, i) THEN [sk EXCEPT ![sk[i].peer].in = Append(@, f)] ELSE sk
Took(sk, i)   == [sk EXCEPT ![i].in = Tail(@)]
Cut(sk, i)    == [j \in Pipes |-> IF j = i \/ sk[j].peer = i
                                  THEN [sk[j] EXCEPT !.peer = None] ELSE sk[j]]
(* shutdown_socket(); what has arrived can still be read.                  *)
Shut(sk, i)   == [Cut(sk, i) EXCEPT ![i].up = FALSE]
(* stop(): a closed Pipe ignores whatever it could still read.             *)
Stopped(sk, i) == [Cut(sk, i) EXCEPT ![i] = NoSock]

Arrived(i, kind) == sock[i].in # <<>> /\ Head(sock[i].in).kind = kind
Broken(i) == ~Live(sock, i)

(* The Pipe objects a messenger can make and the ids it can give to their  *)
(* connections (get_id() counts; a forgotten id is used again here).       *)
Free(p) == {n \in Slots : state[<<p, n>>] = "free"}
FreePipe(p) == <<p, CHOOSE n \in Free(p) : TRUE>>
FreeIds(p) == {c \in ConnIds : in_q[p][c] = <<>>
                  /\ \A n \in Slots : state[<<p, n>>] # "free" => pipe[<<p, n>>].conn_id # c}
FreshId(p) == CHOOSE c \in FreeIds(p) : TRUE
CanMakePipe(p) == Free(p) # {} /\ FreeIds(p) # {}

(* A mutant: a closed Pipe that has not been reaped is seen.               *)
LookupAny(p) == rank_pipe[p]

(* _lookup_pipe: a closed Pipe that is still registered is not seen.       *)
Lookup(p) == LET e == rank_pipe[p]
             IN  IF e # None /\ state[e] # "closed" THEN e ELSE None
Unregistered(i) == [p \in Peers |-> IF rank_pipe[p] = i THEN None ELSE rank_pipe[p]]

IsQueued(r, q) == HasOut(q) \/ r.send_keepalive \/ r.send_keepalive_ack

(* stop() makes a Pipe's state closed; and the mutant that only shuts the  *)
(* socket.                                                                 *)
StillRunning(st, e) == st
StoppedState(st, e) == IF e = None THEN st ELSE [st EXCEPT ![e] = "closed"]

(* discard_queue(conn_id) on the messages waiting at p.                    *)
Discarded(p, c) == [in_q EXCEPT ![p][c] = <<>>]

(* A mutant: the event is not queued.                                      *)
Untold(told) == excused' = excused

(* A reset or remote_reset event for a session: the application is told    *)
(* that messages submitted so far, in both directions, may be lost.        *)
Excuse(told) == excused' = IF told THEN [p \in Peers |-> 1..submitted[p]] ELSE excused

(* Where the reader goes when it re-examines the state at the top of its   *)
(* loop.                                                                   *)
ReaderNext(st) == CASE st \in {"closed", "connecting"} -> "none"
                    [] st = "standby" -> "sleep"
                    [] OTHER -> "read"
-----------------------------------------------------------------------------
(* fault() on a Pipe that is to keep its session: the state it leaves,      *)
(* given the one it finds and the queue with the sent messages put back.   *)
FaultState(i, st, q) ==
  IF Policy[Owner(i)].standby /\ ~IsQueued(pipe[i], q) THEN "standby"
  ELSE IF st # "connecting" /\ Policy[Owner(i)].server THEN "standby"
  ELSE "connecting"

(* st is the state in which fault() is called and q the out queue it finds.*)
FaultIgnored(i, st, onread, q) ==
  /\ st = "connecting" /\ onread
  /\ state' = [state EXCEPT ![i] = st]
  /\ outq' = [outq EXCEPT ![i] = q]
  /\ UNCHANGED <<pipe, sock, rank_pipe, in_q, excused>>

FaultClosed(i, st, q) ==
  /\ st = "closed"
  /\ state' = [state EXCEPT ![i] = st]
  /\ pipe' = [pipe EXCEPT ![i] = Detached(@)]
  /\ outq' = [outq EXCEPT ![i] = q]
  /\ Excuse(pipe[i].con /\ rank_pipe[Owner(i)] = i)
  /\ sock' = Stopped(sock, i)
  /\ UNCHANGED <<rank_pipe, in_q>>

FaultLossy(i, st) ==
  /\ pipe[i].lossy /\ st \notin {"closed", "connecting"}
  /\ state' = StoppedState(state, i)
  /\ pipe' = [pipe EXCEPT ![i] = Detached(@)]
  /\ outq' = [outq EXCEPT ![i] = EmptyOutQ(@.out_seq)]
  /\ sock' = Stopped(sock, i)
  /\ rank_pipe' = Unregistered(i)
  /\ in_q' = Discarded(Owner(i), pipe[i].conn_id)
  /\ Excuse(pipe[i].con)

FaultLossless(i, st, onread, q) ==
  /\ st # "closed" /\ ~(st = "connecting" /\ onread)
  /\ st = "connecting" \/ ~pipe[i].lossy
  /\ LET rq == requeue_sent(q)
         new == FaultState(i, st, rq)
     IN  /\ state' = [state EXCEPT ![i] = new]
         /\ outq' = [outq EXCEPT ![i] = rq]
         /\ pipe' = IF new = "connecting" /\ st # "connecting"
                    THEN [pipe EXCEPT ![i].connect_seq = @ + 1] ELSE pipe
  /\ sock' = Shut(sock, i)
  /\ UNCHANGED <<rank_pipe, in_q, excused>>

Fault(i, st, onread, q) ==
  \/ FaultIgnored(i, st, onread, q)
  \/ FaultClosed(i, st, q)
  \/ FaultLossy(i, st)
  \/ FaultLossless(i, st, onread, q)
-----------------------------------------------------------------------------
(* accept(): the reader thread of a Pipe made for an incoming connection.  *)

(* The request and the registered Pipe e have the same connect_seq: either *)
(* e has opened already or two connection attempts are racing.             *)
RaceVerdict(p, e) ==
  IF state[e] \in {"open", "standby"} THEN "RETRY_SESSION"
  ELSE IF AddrLess(Other(p), p) \/ Policy[p].server THEN "replace"
  ELSE "WAIT"

(* The peer has lost the session and starts anew.                          *)
HardReset(f, x) == f.cseq = 0 /\ x.connect_seq > 0

(* What accept() decides about a connect request f when e is the Pipe      *)
(* already registered for the peer.                                        *)
Verdict(p, f, e) ==
  IF e = None THEN IF f.cseq > 0 THEN "RESETSESSION" ELSE "open"
  ELSE LET x == pipe[e]
       IN CASE f.gseq < x.peer_global_seq -> "RETRY_GLOBAL"
            [] f.gseq >= x.peer_global_seq /\ x.lossy -> "replace_lossy"
            [] OTHER ->
               CASE HardReset(f, x) -> "replace_reset"
                 [] ~HardReset(f, x) /\ f.cseq < x.connect_seq -> "RETRY_SESSION"
                 [] f.cseq = x.connect_seq -> RaceVerdict(p, e)
                 [] OTHER -> \* f.cseq > x.connect_seq
                    IF Policy[p].resetcheck /\ x.connect_seq = 0 THEN "RESETSESSION"
                    ELSE "replace"

AtConnect(i) == rd[i] = "accept" /\ Arrived(i, "connect")
Request(i)   == Head(sock[i].in)
(* A request is decided only while the existing Pipe's reader is not in    *)
(* fast dispatch: accept() waits for it and looks again.                   *)
Deciding(i) == /\ AtConnect(i) /\ state[i] = "accepting"
               /\ LET e == Lookup(Owner(i)) IN e # None => rd[e] # "dispatch"
DecidedAs(i) == Verdict(Owner(i), Request(i), Lookup(Owner(i)))

(* shutting_down: mark_down_all() stopped the Pipe before it was accepted. *)
AcceptStopped(i) ==
  /\ AtConnect(i) /\ state[i] # "accepting"
  /\ FaultClosed(i, "closed", outq[i])
  /\ rd' = [rd EXCEPT ![i] = "none"]
  /\ UNCHANGED <<wr, loc, global_seq, submitted, delivered, used>>

(* A reply that sends the connecting side round its loop again.            *)
AcceptReply(i, r) ==
  /\ sock' = Put(Took(sock, i), i, r)
  /\ UNCHANGED <<state, outq, rd, wr, loc, msgrVars, appVars>>

AcceptRefuse(i) ==
  /\ Deciding(i)
  /\ LET e == Lookup(Owner(i))
         v == DecidedAs(i)
     IN  /\ v \in {"RETRY_GLOBAL", "RETRY_SESSION", "RESETSESSION", "WAIT"}
         /\ AcceptReply(i, Reply(v, IF v = "RETRY_GLOBAL" THEN pipe[e].peer_global_seq ELSE 0,
                                 IF v = "RETRY_SESSION" THEN pipe[e].connect_seq + 1 ELSE 0,
                                 0, FALSE))
         /\ pipe' = IF v = "WAIT" THEN [pipe EXCEPT ![e].send_keepalive = TRUE] ELSE pipe
         /\ UNCHANGED used

(* The request fails the protocol version, feature or authorizer check.    *)
AcceptReject(i) ==
  /\ AtConnect(i) /\ state[i] = "accepting" /\ used.rejects < MaxRejects
  /\ \E tag \in {"BADPROTOVER", "FEATURES", "BADAUTHORIZER"} :
        AcceptReply(i, Reply(tag, 0, 0, 0, FALSE))
  /\ used' = [used EXCEPT !.rejects = @ + 1]
  /\ UNCHANGED pipe

(* open: the Pipe takes the request's session and is registered; the reply *)
(* is written after the locks are dropped.                                 *)
AcceptOpened(i, e, tag, acked) ==
  LET p == Owner(i)
      f == Request(i)
  IN  /\ state' = [StoppedState(state, e) EXCEPT ![i] = "open"]
      /\ sock' = IF e = None THEN Took(sock, i) ELSE Stopped(Took(sock, i), e)
      /\ global_seq' = [global_seq EXCEPT ![p] = @ + 1]
      /\ rank_pipe' = [rank_pipe EXCEPT ![p] = i]
      /\ rd' = [rd EXCEPT ![i] = "reply"]
      /\ loc' = [loc EXCEPT ![i].reply = Reply(tag, global_seq[p] + 1, f.cseq + 1, acked,
                                               Policy[p].lossy),
                            ![i].replaced = (e # None)]
      /\ UNCHANGED <<wr, submitted, delivered, used>>

AcceptNew(i) ==
  /\ Deciding(i) /\ DecidedAs(i) = "open"
  /\ AcceptOpened(i, None, "READY", 0)
  /\ pipe' = [pipe EXCEPT ![i].connect_seq = Request(i).cseq + 1,
                          ![i].peer_global_seq = Request(i).gseq]
  /\ UNCHANGED <<outq, in_q, excused>>

(* was_session_reset() on a Pipe's fields; its queue becomes EmptyOutQ.    *)
WasReset(r) == [r EXCEPT !.in_seq = 0, !.connect_seq = 0]

(* A lossy Pipe is replaced: its session is over.                          *)
AcceptReplaceLossy(i) ==
  /\ Deciding(i) /\ DecidedAs(i) = "replace_lossy"
  /\ LET e == Lookup(Owner(i))
     IN  /\ AcceptOpened(i, e, "SEQ", 0)
         /\ pipe' = [pipe EXCEPT ![i].connect_seq = Request(i).cseq + 1,
                                 ![i].peer_global_seq = Request(i).gseq,
                                 ![e] = Detached(WasReset(@))]
         /\ \E start \in StartSeqs : outq' = [outq EXCEPT ![e] = EmptyOutQ(start)]
         /\ in_q' = Discarded(Owner(i), pipe[e].conn_id)
         /\ Excuse(TRUE)

(* A lossless Pipe is replaced: the new one takes its Connection, conn_id, *)
(* in_seq and queue.  hard: the peer lost the session (is_reset_from_peer).*)
TakeOver(i, e, x, q, hard) ==
  LET seq == IF hard THEN 0 ELSE x.in_seq
  IN  /\ pipe' = [pipe EXCEPT
           ![i] = [@ EXCEPT !.connect_seq = Request(i).cseq + 1,
                            !.peer_global_seq = Request(i).gseq,
                            !.in_seq = seq, !.in_seq_acked = seq,
                            !.conn_id = x.conn_id],
           ![e] = [Detached(x) EXCEPT !.conn_id = pipe[i].conn_id]]
      /\ outq' = [outq EXCEPT ![i] = Stolen(q),
                              ![e] = EmptyOutQ(Stolen(q).out_seq)]

(* A mutant: every reconnect is taken for a hard reset.                    *)
AcceptReplaceAsReset(i) ==
  /\ Deciding(i) /\ DecidedAs(i) = "replace"
  /\ LET e == Lookup(Owner(i))
     IN  /\ AcceptOpened(i, e, "READY", 0)
         /\ TakeOver(i, e, pipe[e], outq[e], TRUE)
  /\ UNCHANGED <<in_q, excused>>

AcceptReplace(i) ==
  /\ Deciding(i) /\ DecidedAs(i) = "replace"
  /\ LET e == Lookup(Owner(i))
     IN  /\ AcceptOpened(i, e, "SEQ", pipe[e].in_seq)
         /\ TakeOver(i, e, pipe[e], outq[e], FALSE)
  /\ UNCHANGED <<in_q, excused>>

AcceptReplaceReset(i) ==
  /\ Deciding(i) /\ DecidedAs(i) = "replace_reset"
  /\ LET e == Lookup(Owner(i))
     IN  /\ AcceptOpened(i, e, "READY", 0)
         /\ IF Policy[Owner(i)].resetcheck
            THEN /\ \E start \in StartSeqs :
                       TakeOver(i, e, WasReset(pipe[e]), EmptyOutQ(start), TRUE)
                 /\ in_q' = Discarded(Owner(i), pipe[e].conn_id)
                 /\ Excuse(TRUE)
            ELSE /\ TakeOver(i, e, pipe[e], outq[e], TRUE)
                 /\ UNCHANGED <<in_q, excused>>

(* The handshake is over: requeued messages the peer has are discarded and *)
(* the writer is started.                                                  *)
AcceptDone(i, n) ==
  /\ outq' = [outq EXCEPT ![i] = discard_requeued_up_to(@, n)]
  /\ wr' = IF state[i] = "closed" THEN wr ELSE [wr EXCEPT ![i] = "loop"]
  /\ rd' = [rd EXCEPT ![i] = ReaderNext(state[i])]
  /\ loc' = [loc EXCEPT ![i] = NoLoc]

AcceptReplied(i) ==
  /\ rd[i] = "reply" /\ sock[i].up
  /\ sock' = Put(sock, i, loc[i].reply)
  /\ IF loc[i].reply.tag = "SEQ"
     THEN /\ rd' = [rd EXCEPT ![i] = "seq"]
          /\ UNCHANGED <<outq, wr, loc>>
     ELSE AcceptDone(i, 0)
  /\ UNCHANGED <<state, pipe, msgrVars, appVars, used>>

AcceptSeq(i) ==
  /\ rd[i] = "seq" /\ Arrived(i, "seq")
  /\ AcceptDone(i, Head(sock[i].in).seq)
  /\ sock' = Took(sock, i)
  /\ UNCHANGED <<state, pipe, msgrVars, appVars, used>>

(* fail_unlocked and fail_registered: the socket broke during accept().    *)
AcceptFailState(i) ==
  IF state[i] = "closed" THEN "closed"
  ELSE IF IsQueued(pipe[i], outq[i])
  THEN IF Policy[Owner(i)].server THEN "standby" ELSE "connecting"
  ELSE IF loc[i].replaced THEN "standby" ELSE "closed"

AcceptFailed(i) ==
  /\ rd[i] \in {"accept", "reply", "seq"} /\ Broken(i)
  /\ loc' = [loc EXCEPT ![i] = NoLoc]
  /\ IF state[i] = "closed"
     THEN UNCHANGED <<state, pipe, outq, wr, sock, rank_pipe, in_q, excused>>
     ELSE /\ Fault(i, AcceptFailState(i), FALSE, outq[i])
          /\ wr' = IF IsQueued(pipe[i], outq[i]) \/ loc[i].replaced
                   THEN [wr EXCEPT ![i] = "loop"] ELSE wr
  /\ rd' = [rd EXCEPT ![i] = ReaderNext(state'[i])]
  /\ UNCHANGED <<global_seq, submitted, delivered, used>>
-----------------------------------------------------------------------------
(* reader(): the read loop.                                                *)

Reads(i, kind) == rd[i] = "read" /\ Arrived(i, kind)

ReadMsg(i) ==
  /\ Reads(i, "msg")
  /\ sock' = Took(sock, i)
  /\ LET m == Head(sock[i].in).msg
         p == Owner(i)
     IN  IF state[i] \in {"closed", "connecting"} \/ m.seq <= pipe[i].in_seq
         THEN /\ rd' = [rd EXCEPT ![i] = ReaderNext(state[i])]
              /\ UNCHANGED <<pipe, loc, in_q>>
         ELSE /\ pipe' = [pipe EXCEPT ![i].in_seq = m.seq]
              /\ IF FastDispatch
                 THEN /\ rd' = [rd EXCEPT ![i] = "dispatch"]
                      /\ loc' = [loc EXCEPT ![i].id = m.id]
                      /\ UNCHANGED in_q
                 ELSE /\ rd' = [rd EXCEPT ![i] = ReaderNext(state[i])]
                      /\ in_q' = [in_q EXCEPT ![p][pipe[i].conn_id] = Append(@, m.id)]
                      /\ UNCHANGED loc
  /\ UNCHANGED <<state, outq, wr, rank_pipe, global_seq, appVars, used>>

(* fast_dispatch() runs without the lock; then the reader goes on.         *)
Dispatched(i) ==
  /\ rd[i] = "dispatch"
  /\ delivered' = [delivered EXCEPT ![Owner(i)] = Append(@, loc[i].id)]
  /\ loc' = [loc EXCEPT ![i].id = 0]
  /\ rd' = [rd EXCEPT ![i] = ReaderNext(state[i])]
  /\ UNCHANGED <<state, pipe, outq, wr, sock, msgrVars, submitted, excused, used>>

ReadAck(i) ==
  /\ Reads(i, "ack")
  /\ sock' = Took(sock, i)
  /\ outq' = IF state[i] = "closed" THEN outq
             ELSE [outq EXCEPT ![i] = handle_ack(@, Head(sock[i].in).seq)]
  /\ rd' = [rd EXCEPT ![i] = ReaderNext(state[i])]
  /\ UNCHANGED <<state, pipe, wr, loc, msgrVars, appVars, used>>

ReadKeepalive(i) ==
  /\ Reads(i, "keepalive") \/ Reads(i, "keepalive_ack")
  /\ sock' = Took(sock, i)
  /\ pipe' = IF Head(sock[i].in).kind = "keepalive"
             THEN [pipe EXCEPT ![i].send_keepalive_ack = TRUE] ELSE pipe
  /\ rd' = [rd EXCEPT ![i] = ReaderNext(state[i])]
  /\ UNCHANGED <<state, outq, wr, loc, msgrVars, appVars, used>>

ReadError(i) ==
  /\ rd[i] = "read" /\ Broken(i)
  /\ Fault(i, state[i], TRUE, outq[i])
  /\ rd' = [rd EXCEPT ![i] = ReaderNext(state'[i])]
  /\ UNCHANGED <<wr, loc, global_seq, submitted, delivered, used>>

(* A reader asleep in standby is woken when the state changes, which is to *)
(* connecting or to closed, and exits; this changes nothing else.          *)
ReaderGone(i) == rd[i] = "none" \/ (rd[i] = "sleep" /\ state[i] # "standby")
-----------------------------------------------------------------------------
(* connect(): the writer thread of a Pipe in state connecting.             *)

(* The writer connects a Pipe that is connecting, or in standby with       *)
(* something to send; and the mutant that leaves it in standby.            *)
OnlyConnecting(i) == state[i] = "connecting"
MayConnect(i) ==
  \/ state[i] = "connecting"
  \/ state[i] = "standby" /\ IsQueued(pipe[i], outq[i]) /\ ~Policy[Owner(i)].server

(* It takes a global_seq and drops the lock to join the reader; after that *)
(* nothing re-examines the state until a reply has been read.              *)
Connect(i) ==
  LET p == Owner(i)
  IN  /\ wr[i] = "loop" /\ MayConnect(i) /\ global_seq[p] < MaxGlobalSeq
      /\ state' = [state EXCEPT ![i] = "connecting"]
      /\ global_seq' = [global_seq EXCEPT ![p] = @ + 1]
      /\ loc' = [loc EXCEPT ![i].cseq = pipe[i].connect_seq,
                            ![i].gseq = global_seq[p] + 1, ![i].bad_auth = FALSE]
      /\ wr' = [wr EXCEPT ![i] = "join"]
      /\ UNCHANGED <<pipe, outq, rd, sock, rank_pipe, in_q, appVars, used>>

Attempt(cseq, gseq) == [kind |-> "connect", gseq |-> gseq, cseq |-> cseq]

(* The old socket is closed, the peer's Accepter makes a Pipe for the new  *)
(* one (add_accept_pipe), and the first connect request is sent.           *)
ConnectOpens(i) ==
  LET p == Owner(i)
      q == Other(p)
      j == FreePipe(q)
  IN  /\ wr[i] = "join" /\ ReaderGone(i) /\ CanMakePipe(q)
      /\ state' = [state EXCEPT ![j] = "accepting"]
      /\ pipe' = [pipe EXCEPT ![j] = NewPipe(q, FreshId(q))]
      /\ rd' = [rd EXCEPT ![j] = "accept"]
      /\ sock' = [Cut(sock, i) EXCEPT
           ![i] = [peer |-> j, up |-> TRUE, in |-> <<>>],
           ![j] = [peer |-> i, up |-> TRUE, in |-> <<Attempt(loc[i].cseq, loc[i].gseq)>>]]
      /\ wr' = [wr EXCEPT ![i] = "await"]
      /\ UNCHANGED <<outq, loc, msgrVars, appVars, used>>

(* fail: the connection is refused or times out.                           *)
ConnectFails(i, q) ==
  /\ wr' = [wr EXCEPT ![i] = "loop"]
  /\ loc' = [loc EXCEPT ![i] = NoLoc]
  /\ UNCHANGED <<rd, global_seq, submitted, delivered>>
  /\ IF state[i] = "connecting" THEN Fault(i, "connecting", FALSE, q)
     ELSE UNCHANGED <<state, pipe, outq, sock, rank_pipe, in_q, excused>>

ConnectRefused(i) ==
  /\ wr[i] = "join" /\ ReaderGone(i) /\ used.faults < MaxFaults
  /\ ConnectFails(i, outq[i])
  /\ used' = [used EXCEPT !.faults = @ + 1]

ConnectBroken(i) ==
  /\ wr[i] = "await" /\ Broken(i)
  /\ ConnectFails(i, outq[i])
  /\ UNCHANGED used

Answered(i) == wr[i] = "await" /\ Arrived(i, "reply")
Answer(i)   == Head(sock[i].in)
(* A mutant: the state is not checked once the lock is held again.         *)
AnswersInAnyState(i, tags) == Answered(i) /\ Answer(i).tag \in tags
Answers(i, tags) == Answered(i) /\ state[i] = "connecting" /\ Answer(i).tag \in tags

(* A reply read by a Pipe that is no longer connecting, WAIT, or a second  *)
(* BADAUTHORIZER: stop_locked.                                             *)
ConnectStops(i) ==
  /\ \/ Answered(i) /\ state[i] # "connecting"
     \/ Answers(i, {"WAIT"})
     \/ Answers(i, {"BADAUTHORIZER"}) /\ loc[i].bad_auth
  /\ state' = IF Answers(i, {"WAIT"}) THEN [state EXCEPT ![i] = "wait"] ELSE state
  /\ sock' = Took(sock, i)
  /\ wr' = [wr EXCEPT ![i] = "loop"]
  /\ loc' = [loc EXCEPT ![i] = NoLoc]
  /\ UNCHANGED <<pipe, outq, rd, msgrVars, appVars, used>>

ConnectRejected(i) ==
  /\ Answers(i, {"FEATURES", "BADPROTOVER"})
  /\ ConnectFails(i, outq[i])
  /\ UNCHANGED used

(* A mutant: the new connect_seq is sent but not remembered.               *)
AgainForgetful(i, cseq, gseq, bad) ==
  /\ sock' = Put(Took(sock, i), i, Attempt(cseq, gseq))
  /\ loc' = [loc EXCEPT ![i].gseq = gseq, ![i].bad_auth = bad]
  /\ UNCHANGED <<state, rd, wr, rank_pipe, submitted, delivered, used>>

(* The loop goes round with new numbers.                                   *)
Again(i, cseq, gseq, bad) ==
  /\ sock' = Put(Took(sock, i), i, Attempt(cseq, gseq))
  /\ loc' = [loc EXCEPT ![i].cseq = cseq, ![i].gseq = gseq, ![i].bad_auth = bad]
  /\ UNCHANGED <<state, rd, wr, rank_pipe, submitted, delivered, used>>

ConnectRetriesAuth(i) ==
  /\ Answers(i, {"BADAUTHORIZER"}) /\ ~loc[i].bad_auth
  /\ Again(i, loc[i].cseq, loc[i].gseq, TRUE)
  /\ UNCHANGED <<pipe, outq, global_seq, in_q, excused>>

ConnectResets(i) ==
  /\ Answers(i, {"RESETSESSION"})
  /\ Again(i, 0, loc[i].gseq, loc[i].bad_auth)
  /\ pipe' = [pipe EXCEPT ![i] = WasReset(@)]
  /\ \E start \in StartSeqs : outq' = [outq EXCEPT ![i] = EmptyOutQ(start)]
  /\ in_q' = Discarded(Owner(i), pipe[i].conn_id)
  /\ Excuse(TRUE)
  /\ UNCHANGED global_seq

(* get_global_seq(old): at least one more than old.                        *)
NextGlobalSeq(p, old) == (IF old > global_seq[p] THEN old ELSE global_seq[p]) + 1

ConnectRetriesGlobal(i) ==
  LET g == NextGlobalSeq(Owner(i), Answer(i).gseq)
  IN  /\ Answers(i, {"RETRY_GLOBAL"}) /\ g <= MaxGlobalSeq
      /\ Again(i, loc[i].cseq, g, loc[i].bad_auth)
      /\ global_seq' = [global_seq EXCEPT ![Owner(i)] = g]
      /\ UNCHANGED <<pipe, outq, in_q, excused>>

ConnectRetriesSession(i) ==
  /\ Answers(i, {"RETRY_SESSION"}) /\ Answer(i).cseq <= MaxConnectSeq
  /\ Again(i, Answer(i).cseq, loc[i].gseq, loc[i].bad_auth)
  /\ pipe' = [pipe EXCEPT ![i].connect_seq = Answer(i).cseq]
  /\ UNCHANGED <<outq, global_seq, in_q, excused>>

(* READY or SEQ.  With SEQ the messages the peer already has are discarded *)
(* and in_seq is sent back.                                                *)
ConnectReady(i) ==
  LET r == Answer(i)
  IN  /\ Answers(i, {"READY", "SEQ"})
      /\ sock' = IF r.tag = "SEQ"
                 THEN Put(Took(sock, i), i, [kind |-> "seq", seq |-> pipe[i].in_seq])
                 ELSE Took(sock, i)
      /\ outq' = IF r.tag = "SEQ" THEN [outq EXCEPT ![i] = discard_acked(@, r.acked)]
                                  ELSE outq
      /\ pipe' = [pipe EXCEPT ![i].peer_global_seq = r.gseq, ![i].lossy = r.lossy,
                              ![i].connect_seq = loc[i].cseq + 1]
      /\ state' = [state EXCEPT ![i] = "open"]
      /\ rd' = [rd EXCEPT ![i] = "read"]
      /\ wr' = [wr EXCEPT ![i] = "loop"]
      /\ loc' = [loc EXCEPT ![i] = NoLoc]
      /\ UNCHANGED <<msgrVars, appVars, used>>

(* The write of in_seq fails: fail_locked, the discarding already done.    *)
ConnectSeqFails(i) ==
  /\ Answers(i, {"SEQ"}) /\ Broken(i)
  /\ ConnectFails(i, discard_acked(outq[i], Answer(i).acked))
  /\ UNCHANGED used
-----------------------------------------------------------------------------
(* writer(): the write loop of an open Pipe.  One round writes, in this    *)
(* order and each without the lock, a keepalive, a keepalive ack, an ack   *)
(* and a message, whichever of them are due.                               *)
Round == <<"keepalive", "keepalive_ack", "ack", "msg">>

IsDue(w, r, q) == \/ w = "keepalive" /\ r.send_keepalive
                  \/ w = "keepalive_ack" /\ r.send_keepalive_ack
                  \/ w = "ack" /\ r.in_seq > r.in_seq_acked
                  \/ w = "msg" /\ HasOut(q)

(* What the writer does from the k-th part of a round on: the next write,  *)
(* or back to the top of the loop.                                         *)
NextWrite(k, r, q) ==
  LET due == {n \in k..4 : IsDue(Round[n], r, q)}
  IN  IF due = {} THEN "loop" ELSE Round[CHOOSE n \in due : \A m \in due : n <= m]

(* It captures what it will write and drops the lock.                      *)
StartWrite(i, k, r) ==
  LET w == NextWrite(k, r, outq[i])
  IN  /\ wr' = [wr EXCEPT ![i] = w]
      /\ loc' = [loc EXCEPT ![i].seq = IF w = "ack" THEN r.in_seq ELSE 0,
                            ![i].msg = IF w = "msg" THEN Numbered(outq[i]) ELSE NoLoc.msg]
      /\ outq' = IF w = "msg" THEN [outq EXCEPT ![i] = Transmit(@, r.lossy)] ELSE outq

WriterRound(i) ==
  /\ wr[i] = "loop" /\ state[i] \notin {"closed", "connecting", "wait", "standby", "free"}
  /\ IsQueued(pipe[i], outq[i]) \/ pipe[i].in_seq > pipe[i].in_seq_acked
  /\ StartWrite(i, 1, pipe[i])
  /\ UNCHANGED <<state, pipe, rd, sock, msgrVars, appVars, used>>

(* The frame a pending write carries, and the fields once it is written.   *)
WriteFrame(i) == CASE wr[i] = "ack" -> [kind |-> "ack", seq |-> loc[i].seq]
                   [] wr[i] = "msg" -> [kind |-> "msg", msg |-> loc[i].msg]
                   [] OTHER -> [kind |-> wr[i]]
AfterWrite(i) == CASE wr[i] = "keepalive" -> [pipe[i] EXCEPT !.send_keepalive = FALSE]
                   [] wr[i] = "keepalive_ack" -> [pipe[i] EXCEPT !.send_keepalive_ack = FALSE]
                   [] wr[i] = "ack" -> [pipe[i] EXCEPT !.in_seq_acked = loc[i].seq]
                   [] OTHER -> pipe[i]

Writing(i) == \E k \in 1..4 : wr[i] = Round[k]

Wrote(i) ==
  /\ Writing(i) /\ sock[i].up
  /\ sock' = Put(sock, i, WriteFrame(i))
  /\ pipe' = [pipe EXCEPT ![i] = AfterWrite(i)]
  /\ \E k \in 1..4 : /\ wr[i] = Round[k]
                     /\ StartWrite(i, IF k = 4 THEN 5 ELSE k + 1, AfterWrite(i))
  /\ UNCHANGED <<state, rd, msgrVars, appVars, used>>

WriteFails(i) ==
  /\ Writing(i) /\ Broken(i)
  /\ Fault(i, state[i], FALSE, outq[i])
  /\ wr' = [wr EXCEPT ![i] = "loop"]
  /\ loc' = [loc EXCEPT ![i].seq = 0, ![i].msg = NoLoc.msg]
  /\ UNCHANGED <<rd, global_seq, submitted, delivered, used>>

(* A writer at the top of its loop exits once the Pipe is closed.          *)
WriterGone(i) == wr[i] = "none" \/ (wr[i] = "loop" /\ state[i] = "closed")

(* unlock_maybe_reap(), queue_reap() and reaper(): neither thread is left. *)
Reap(i) ==
  /\ state[i] # "free" /\ ReaderGone(i) /\ WriterGone(i)
  /\ rd' = [rd EXCEPT ![i] = "none"] /\ wr' = [wr EXCEPT ![i] = "none"]
  /\ state' = [state EXCEPT ![i] = "free"]
  /\ pipe' = [pipe EXCEPT ![i] = NoPipe(Owner(i))]
  /\ outq' = [outq EXCEPT ![i] = EmptyOutQ(0)]
  /\ sock' = Stopped(sock, i)
  /\ loc' = [loc EXCEPT ![i] = NoLoc]
  /\ rank_pipe' = Unregistered(i)
  /\ UNCHANGED <<global_seq, in_q, appVars, used>>
-----------------------------------------------------------------------------
(* The application, the dispatch thread and the network.                   *)

(* _send_message(m, dest), submit_message() and connect_rank().            *)
Submit(p) ==
  LET e == Lookup(p)
      m == [id |-> submitted[p] + 1, seq |-> 0]
      urgent == submitted[p] + 1 \in Urgent
      n == FreePipe(p)
  IN  /\ submitted[p] < MaxSubmit[p]
      /\ submitted' = [submitted EXCEPT ![p] = @ + 1]
      /\ UNCHANGED <<rd, loc, sock, global_seq, in_q, delivered, used>>
      /\ \/ /\ e # None
            /\ outq' = [outq EXCEPT ![e] = Send(@, m, urgent)]
            /\ UNCHANGED <<state, pipe, wr, rank_pipe, excused>>
         \/ /\ e = None /\ Policy[p].server      \* dropped: no session
            /\ excused' = [excused EXCEPT ![p] = @ \cup {m.id}]
            /\ UNCHANGED <<state, pipe, outq, wr, rank_pipe>>
         \/ /\ e = None /\ ~Policy[p].server /\ CanMakePipe(p)
            /\ state' = [state EXCEPT ![n] = "connecting"]
            /\ pipe' = [pipe EXCEPT ![n] = NewPipe(p, FreshId(p))]
            /\ outq' = [outq EXCEPT ![n] = Send(EmptyOutQ(0), m, urgent)]
            /\ wr' = [wr EXCEPT ![n] = "loop"]
            /\ rank_pipe' = [rank_pipe EXCEPT ![p] = n]
            /\ UNCHANGED excused

SendKeepalive(p) ==
  /\ Lookup(p) # None /\ used.keepalives < MaxKeepalives
  /\ pipe' = [pipe EXCEPT ![Lookup(p)].send_keepalive = TRUE]
  /\ used' = [used EXCEPT !.keepalives = @ + 1]
  /\ UNCHANGED <<state, outq, rd, wr, loc, sock, msgrVars, appVars>>

(* The sockets when every Pipe of S has lost its own; a connect request    *)
(* that had arrived can still be read.                                     *)
Severed(S) ==
  [i \in Pipes |-> IF i \in S THEN IF state[i] = "accepting"
                                   THEN [sock[i] EXCEPT !.peer = None, !.up = FALSE] ELSE NoSock
                   ELSE IF sock[i].peer \in S THEN [sock[i] EXCEPT !.peer = None] ELSE sock[i]]

(* stop() and clear_pipe() on every Pipe of S, which are unregistered.     *)
StopPipes(p, S) ==
  /\ used.downs < MaxMarkDowns /\ S # {}
  /\ state' = [i \in Pipes |-> IF i \in S THEN "closed" ELSE state[i]]
  /\ pipe' = [i \in Pipes |-> IF i \in S THEN Detached(pipe[i]) ELSE pipe[i]]
  /\ sock' = Severed(S)
  /\ rank_pipe' = IF rank_pipe[p] \in S THEN [rank_pipe EXCEPT ![p] = None] ELSE rank_pipe
  /\ Excuse(rank_pipe[p] \in S /\ pipe[rank_pipe[p]].con)
  /\ used' = [used EXCEPT !.downs = @ + 1]
  /\ UNCHANGED <<outq, rd, wr, loc, global_seq, in_q, submitted, delivered>>

MarkDown(p) == StopPipes(p, {Lookup(p)} \ {None})
MarkDownAll(p) == StopPipes(p, ({rank_pipe[p]} \ {None})
                     \cup {i \in Pipes : Owner(i) = p /\ state[i] = "accepting"})

(* The process dies and its successor binds the same address: a new        *)
(* SimpleMessenger with no Pipes, whose global_seq starts again.           *)
Restart(p) ==
  LET mine == {i \in Pipes : Owner(i) = p}
      Fresh(f, new) == [i \in Pipes |-> IF i \in mine THEN new ELSE f[i]]
  IN  /\ used.restarts < MaxRestarts
      /\ state' = Fresh(state, "free")
      /\ pipe' = Fresh(pipe, NoPipe(p))
      /\ outq' = Fresh(outq, EmptyOutQ(0))
      /\ rd' = Fresh(rd, "none") /\ wr' = Fresh(wr, "none") /\ loc' = Fresh(loc, NoLoc)
      /\ sock' = [i \in Pipes |-> IF i \in mine THEN NoSock ELSE Severed(mine)[i]]
      /\ rank_pipe' = [rank_pipe EXCEPT ![p] = None]
      /\ global_seq' = [global_seq EXCEPT ![p] = 0]
      /\ in_q' = [in_q EXCEPT ![p] = [c \in ConnIds |-> <<>>]]
      /\ Excuse(TRUE)
      /\ used' = [used EXCEPT !.restarts = @ + 1]
      /\ UNCHANGED <<submitted, delivered>>

(* The dispatch thread delivers the first message waiting from some        *)
(* connection (mqueue is fair between conn_ids, FIFO within one).          *)
Deliver(p) ==
  \E c \in ConnIds :
    /\ in_q[p][c] # <<>>
    /\ in_q' = [in_q EXCEPT ![p][c] = Tail(@)]
    /\ delivered' = [delivered EXCEPT ![p] = Append(@, Head(in_q[p][c]))]
    /\ UNCHANGED <<state, pipe, outq, rd, wr, loc, sock, rank_pipe, global_seq,
                   submitted, excused, used>>

(* A connection breaks: from now on an end that reads or writes may get an *)
(* error, before or after reading what has already arrived.                *)
NetFault(i) ==
  /\ Live(sock, i) /\ used.faults < MaxFaults
  /\ sock' = Shut(sock, i)
  /\ used' = [used EXCEPT !.faults = @ + 1]
  /\ UNCHANGED <<state, pipe, outq, rd, wr, loc, msgrVars, appVars>>
-----------------------------------------------------------------------------
Accepting(i) == \/ AcceptStopped(i) \/ AcceptRefuse(i) \/ AcceptReject(i)
                \/ AcceptNew(i) \/ AcceptReplaceLossy(i)
                \/ AcceptReplace(i) \/ AcceptReplaceReset(i)
                \/ AcceptReplied(i) \/ AcceptSeq(i) \/ AcceptFailed(i)

Reading(i) == \/ ReadMsg(i) \/ Dispatched(i) \/ ReadAck(i) \/ ReadKeepalive(i)
              \/ ReadError(i)

Connecting(i) == \/ Connect(i) \/ ConnectOpens(i) \/ ConnectRefused(i)
                 \/ ConnectBroken(i) \/ ConnectStops(i) \/ ConnectRejected(i)
                 \/ ConnectRetriesAuth(i) \/ ConnectResets(i)
                 \/ ConnectRetriesGlobal(i) \/ ConnectRetriesSession(i)
                 \/ ConnectReady(i) \/ ConnectSeqFails(i)

WriterStep(i) == WriterRound(i) \/ Wrote(i) \/ WriteFails(i)

Application(p) == Submit(p) \/ SendKeepalive(p) \/ MarkDown(p) \/ MarkDownAll(p)
                  \/ Restart(p) \/ Deliver(p)

Next == \/ \E i \in Pipes : \/ Accepting(i) \/ Reading(i) \/ Connecting(i)
                            \/ WriterStep(i) \/ Reap(i) \/ NetFault(i)
        \/ \E p \in Peers : Application(p)

Spec == Init /\ [][Next]_vars
-----------------------------------------------------------------------------
(* Every thread that can take a step eventually takes one, a reset socket  *)
(* is noticed, and the reaper and the dispatch thread keep up.  Nothing is *)
(* assumed of the application or of the network.                           *)
Fairness ==
  /\ \A i \in Pipes : /\ WF_vars(Accepting(i)) /\ WF_vars(Reading(i))
                      /\ WF_vars(Connecting(i)) /\ WF_vars(WriterStep(i))
                      /\ WF_vars(Reap(i))
  /\ \A p \in Peers : WF_vars(Deliver(p))

FairSpec == Spec /\ Fairness
-----------------------------------------------------------------------------
(* Every variable keeps its type: in particular no counter becomes         *)
(* negative (out_seq is unsigned and requeue_sent decrements it).          *)
TypeOK ==
  /\ state \in [Pipes -> States]
  /\ pipe \in [Pipes -> PipeType]
  /\ outq \in [Pipes -> OutQ(Ids)]
  /\ rd \in [Pipes -> ReaderPC] /\ wr \in [Pipes -> WriterPC]
  /\ loc \in [Pipes -> LocType]
  /\ sock \in [Pipes -> SockType]
  /\ rank_pipe \in [Peers -> Pipes \cup {None}]
  /\ global_seq \in [Peers -> Nat]
  /\ in_q \in [Peers -> [ConnIds -> Seq(Ids)]]
  /\ submitted \in [Peers -> Nat]
  /\ delivered \in [Peers -> Seq(Ids)]
  /\ excused \in [Peers -> SUBSET Ids]
  /\ used \in Budgets

(* The messages in every out queue carry consistent numbers, so a message  *)
(* that is sent again is sent with its first number and out_seq never      *)
(* wraps below zero.                                                       *)
OutQueuesNumbered == \A i \in Pipes : WellNumbered(outq[i])

(* At most one Pipe of a messenger is in use for the peer, and it is the   *)
(* registered one: nobody can send on, replace or mark down another.       *)
InUse(i) == state[i] \in {"connecting", "open", "standby", "wait"}
LivePipeRegistered == \A i \in Pipes : InUse(i) => rank_pipe[Owner(i)] = i

(* What the application sees is a channel that delivers in order, at most  *)
(* once, and without an unannounced gap.                                   *)
Channel == INSTANCE ReliableChannel WITH submitted <- submitted, delivered <- delivered,
                                         excused <- excused, MaxSubmit <- MaxSubmit
ImplementsChannel == Channel!Spec

IdsIn(s) == {s[k].id : k \in 1..Len(s)}
Held(p) == LET e == Lookup(p)
           IN  IF e = None THEN {}
               ELSE IdsIn(outq[e].high) \cup IdsIn(outq[e].dflt) \cup IdsIn(outq[e].sent)
Elements(q) == {q[k] : k \in 1..Len(q)}
Received(p) == (UNION {Elements(in_q[p][c]) : c \in ConnIds}) \cup Elements(delivered[p])
                 \cup {loc[i].id : i \in {j \in Pipes : Owner(j) = p /\ rd[j] = "dispatch"}}

(* A lossless session never forgets a message: until it is at the receiver *)
(* the registered Pipe of the sender holds it, or an end has been told     *)
(* that the session was reset.                                             *)
NoSilentLoss ==
  \A p \in Peers : \A id \in 1..submitted[p] :
     id \in Held(p) \cup Received(Other(p)) \cup excused[p]

(* Two open ends of one connection agree on the number of their session.   *)
SessionsAgree ==
  \A i \in Pipes : Live(sock, i) /\ state[i] = "open" /\ state[sock[i].peer] = "open"
     => pipe[i].connect_seq = pipe[sock[i].peer].connect_seq

(* accept() and connect() assert what they believe about the other side.   *)
RaceAssert ==      \* Pipe.cc:629, 643: only an attempt in progress can race
  \A i \in Pipes : Deciding(i) =>
    LET p == Owner(i)
        e == Lookup(p)
    IN  /\ DecidedAs(i) = "WAIT" => state[e] = "connecting"
        /\ DecidedAs(i) = "replace" /\ Request(i).cseq = pipe[e].connect_seq
             => state[e] \in {"connecting", "wait"}

ReplyAssert ==     \* Pipe.cc:1251, 1303: the numbers in a reply are the expected ones
  \A i \in Pipes :
    /\ Answers(i, {"RETRY_SESSION"}) => Answer(i).cseq > pipe[i].connect_seq
    /\ Answers(i, {"READY", "SEQ"}) => Answer(i).cseq = loc[i].cseq + 1

ReapAssert ==      \* SimpleMessenger.cc reaper(): a dead Pipe was detached from its Connection
  \A i \in Pipes : state[i] # "free" /\ ReaderGone(i) /\ WriterGone(i)
     => state[i] = "closed" /\ ~pipe[i].con

ThreadAssert ==    \* start_writer(): not running; writer(): a server never connects
  \A i \in Pipes : /\ rd[i] \in {"accept", "reply", "seq"} => wr[i] = "none"
                   /\ state[i] = "connecting" => ~Policy[Owner(i)].server

CodeAsserts == RaceAssert /\ ReplyAssert /\ ReapAssert /\ ThreadAssert

(* A reconnected session goes on exactly where it stopped: connect() pops  *)
(* one queued message for each number the peer has acknowledged, and       *)
(* asserts (Pipe.cc:1285, 1288) that there is one and that it was sent;    *)
(* ms_die_on_old_message and ms_die_on_skipped_message (Pipe.cc:1747,      *)
(* 1754): the peer neither sends again what this end has received nor      *)
(* leaves out what it has not.                                             *)
DiscardAssert ==
  \A i \in Pipes : Answers(i, {"SEQ"}) =>
    LET q == outq[i]
        k == AckedCount(q, Answer(i).acked)
    IN  /\ k <= Len(q.high)
        /\ \A n \in 1..k : q.high[n].seq \in 1..Answer(i).acked

NextInSequence ==
  \A i \in Pipes : Reads(i, "msg") /\ state[i] \notin {"closed", "connecting"}
     => Head(sock[i].in).msg.seq = pipe[i].in_seq + 1

ResumesExactly == DiscardAssert /\ NextInSequence

(* Once no more connections break, every message is delivered unless an    *)
(* end has been told that it was lost.                                     *)
EventuallyDelivered ==
  \A p \in Peers : \A id \in 1..MaxSubmit[p] :
     (submitted[p] >= id) ~> (id \in excused[p] \cup Received(Other(p)))
=============================================================================
