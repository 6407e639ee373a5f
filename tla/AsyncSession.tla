----------------------------- MODULE AsyncSession -----------------------------
(***************************************************************************)
(* Two AsyncMessengers that talk to each other.                            *)
(*                                                                         *)
(* An AsyncConnection is an event-driven state machine: its center's       *)
(* worker calls process() when its socket can be read, handle_write() when *)
(* it is asked to write, and runs what other threads dispatched, in order. *)
(* An incoming connection that belongs to a known session gives its socket *)
(* to the registered connection, which may have to move to another center. *)
(* What a worker does between two points where it holds no lock of a       *)
(* connection is one action; those points are the values of busy.  The     *)
(* socket takes all that is written, so the states that wait for it to     *)
(* take more are left out.                                                 *)
(*                                                                         *)
(* A connection is named <<p, n>>: the n-th of messenger p.  A name is     *)
(* used again once nothing refers to the object any more.                  *)
(***************************************************************************)
EXTENDS OutQueue

CONSTANTS
  NumConns,       \* bound: connections a messenger has at one time
  NumLinks,       \* bound: TCP connections at one time
  Scenarios,      \* what a behaviour may start with: policies, workers, bounds
  MaxSubmit,      \* bound: messages submitted at p in any scenario
  MaxGlobalSeq,   \* bound: connection attempts of one messenger
  ReapDeadConnectionThreshold

Peers == {1, 2}
Other(p) == 3 - p
AddrLess(p, q) == p < q

PolicyType == [lossy : BOOLEAN, server : BOOLEAN, standby : BOOLEAN, resetcheck : BOOLEAN]
Bounds == [submit : [Peers -> Nat], faults : Nat, downs : Nat, keepalives : Nat]

ASSUME NumbersAssumption ==
  /\ NumConns \in Nat \ {0} /\ NumLinks \in Nat \ {0} /\ MaxGlobalSeq \in Nat
  /\ ReapDeadConnectionThreshold \in Nat \ {0} /\ MaxSubmit \in [Peers -> Nat]

(* The accepting end tells the connecting end whether it is lossy.          *)
ASSUME ScenariosAssumption ==
  \A s \in Scenarios :
    /\ s.policy \in [Peers -> PolicyType] /\ s.workers \in [Peers -> Nat \ {0}]
    /\ s.left \in Bounds
    /\ s.policy[1].lossy = s.policy[2].lossy
    /\ \A p \in Peers : s.left.submit[p] <= MaxSubmit[p]

VARIABLES
  conn,            \* the connections
  conns,           \* the one registered for the peer
  deleted_conns,   \* closed ones that _lookup_conn() must not return
  global_seq,
  link,            \* TCP connections: what each peer can read
  events,          \* external events of each worker's center
  busy,            \* where a worker is when it holds no lock within a handler
  aborted,         \* the assertion that ended a process, or "no"
  submitted, delivered, excused,   \* as in ReliableChannel
  policy, workers, left            \* the scenario: what each bound has left

msgrVars == <<conns, deleted_conns, global_seq>>
appVars  == <<submitted, delivered, excused>>
setup    == <<policy, workers>>
vars == <<conn, msgrVars, link, events, busy, aborted, appVars, setup, left>>
-----------------------------------------------------------------------------
ConnIds == Peers \X (1..NumConns)
None == <<0, 0>>
Links == 1..NumLinks
Workers == {<<p, k>> : p \in Peers, k \in 1..2}

Open       == {"OPEN", "OPEN_MESSAGE"}
Connecting == {"CONNECTING", "CONNECTING_WAIT_CONNECT_REPLY"}
Accepting  == {"ACCEPTING_WAIT_CONNECT_MSG", "ACCEPTING_WAIT_CONNECT_MSG_AUTH"}
States == Open \cup Connecting \cup Accepting
            \cup {"NONE", "ACCEPTING_WAIT_SEQ", "STANDBY", "CLOSED", "WAIT"}

NewConn(k) ==
  [state |-> "NONE", cs |-> 0, worker |-> k, connect_seq |-> 0, peer_global_seq |-> 0,
   global_seq |-> 0, in_seq |-> 0, q |-> EmptyOutQ(0), can_write |-> "NOWRITE",
   replacing |-> FALSE, reset |-> FALSE, once_ready |-> FALSE, ack_left |-> FALSE,
   keepalive |-> FALSE, timer |-> FALSE, freed |-> FALSE]

(* What cleanup() leaves of a connection, and a name not in use.            *)
Gone == [NewConn(1) EXCEPT !.state = "CLOSED", !.can_write = "CLOSED", !.freed = TRUE]

NoMessage == [id |-> 0, seq |-> 0]
Request(g, c) == [kind |-> "connect", gseq |-> g, cseq |-> c]
Reply(tag, g, c, n) == [kind |-> "reply", tag |-> tag, gseq |-> g, cseq |-> c, seq |-> n]
NoFrame == [kind |-> "keepalive"]

Event(kind, c) == [kind |-> kind, of |-> c, cs |-> 0, to |-> 0]
Idle == [op |-> "idle", c |-> None, existing |-> None, f |-> NoFrame, m |-> NoMessage,
         ok |-> FALSE]

NoLink == [up |-> FALSE, in |-> [p \in Peers |-> <<>>]]

Init ==
  /\ conn = [c \in ConnIds |-> Gone]
  /\ conns = [p \in Peers |-> None] /\ deleted_conns = [p \in Peers |-> {}]
  /\ global_seq = [p \in Peers |-> 0]
  /\ link = [l \in Links |-> NoLink]
  /\ events = [w \in Workers |-> <<>>] /\ busy = [w \in Workers |-> Idle]
  /\ aborted = "no"
  /\ submitted = [p \in Peers |-> 0] /\ delivered = [p \in Peers |-> <<>>]
  /\ excused = [p \in Peers |-> {}]
  /\ \E s \in Scenarios : policy = s.policy /\ workers = s.workers /\ left = s.left

Owner(c) == c[1]
Home(c) == <<Owner(c), conn[c].worker>>

(* A step of worker w, in an operation of its own; the process has not      *)
(* ended.                                                                   *)
At(w, op) == aborted = "no" /\ busy[w].op = op
IsIdle(w) == At(w, "idle")
-----------------------------------------------------------------------------
(* Sockets.  What has arrived can still be read when the other end closes. *)
Close(lk, l, p) ==
  IF l = 0 THEN lk ELSE [lk EXCEPT ![l].up = FALSE, ![l].in[p] = <<>>]
Put(lk, l, p, f) ==
  IF l # 0 /\ lk[l].up THEN [lk EXCEPT ![l].in[Other(p)] = Append(@, f)] ELSE lk
Took(lk, l, p) == [lk EXCEPT ![l].in[p] = Tail(@)]

Arrived(c, kind) ==
  /\ conn[c].cs # 0 /\ link[conn[c].cs].in[Owner(c)] # <<>>
  /\ Head(link[conn[c].cs].in[Owner(c)]).kind = kind
Frame(c) == Head(link[conn[c].cs].in[Owner(c)])
Consumed(c) == Took(link, conn[c].cs, Owner(c))

(* process() is called for c in a state that reads such a frame.            *)
Reads(c, states, kind) ==
  IsIdle(Home(c)) /\ conn[c].state \in states /\ Arrived(c, kind)

UnusedLinks ==
  {l \in Links : /\ \A c \in ConnIds : conn[c].cs # l
                 /\ \A w \in Workers : \A i \in 1..Len(events[w]) : events[w][i].cs # l}

(* Names not in use: nothing leads to the object any more.                  *)
Unreferenced(c) ==
  /\ conns[Owner(c)] # c /\ c \notin deleted_conns[Owner(c)]
  /\ \A w \in Workers : /\ busy[w].c # c /\ busy[w].existing # c
                        /\ \A i \in 1..Len(events[w]) : events[w][i].of # c
FreeNames(p) == {c \in ConnIds : Owner(c) = p /\ conn[c].freed /\ Unreferenced(c)}
FreshName(p) == CHOOSE c \in FreeNames(p) : \A d \in FreeNames(p) : c[2] <= d[2]
-----------------------------------------------------------------------------
Push(ev, w, e) == [ev EXCEPT ![w] = Append(@, e)]
Wake(ev, kind, c) == Push(ev, Home(c), Event(kind, c))

(* _stop(): unregister_conn() only marks it deleted; its center cleans up   *)
(* after what is already queued there.                                      *)
Stopped(r) == [r EXCEPT !.state = "CLOSED", !.can_write = "CLOSED",
                        !.q = EmptyOutQ(@.out_seq)]
Deleted(c) == [deleted_conns EXCEPT ![Owner(c)] = @ \cup {c}]
Reaps(c) == Cardinality(deleted_conns[Owner(c)] \cup {c}) >= ReapDeadConnectionThreshold
(* A mutant: the cleanup overtakes what is queued.                          *)
CleansFirst(ev, c) == [ev EXCEPT ![Home(c)] = <<Event("clean", c)>> \o @]
StopEvents(ev, c) ==
  Wake(IF Reaps(c) THEN Push(ev, <<Owner(c), 1>>, Event("reap", None)) ELSE ev, "clean", c)

(* A reset or remote_reset event: the application is told that messages of *)
(* the session, in both directions, may be lost.                           *)
Excuse == excused' = [p \in Peers |-> 1..submitted[p]]

was_session_reset(r) ==
  [r EXCEPT !.q = EmptyOutQ(0), !.in_seq = 0, !.connect_seq = 0, !.ack_left = FALSE,
            !.once_ready = FALSE, !.can_write = "NOWRITE"]
-----------------------------------------------------------------------------
(* fault() on c, whose record is r, with lk and ev what the handler has     *)
(* made of the sockets and the events.                                      *)
FaultLeaves(r) == [r EXCEPT !.can_write = "NOWRITE", !.cs = 0, !.timer = FALSE,
                            !.reset = FALSE, !.replacing = FALSE, !.q = requeue_sent(@)]

FaultIgnored(c, r, lk, ev) ==
  /\ r.state \in {"CLOSED", "NONE"}
  /\ conn' = [conn EXCEPT ![c] = r]
  /\ link' = lk /\ events' = ev
  /\ UNCHANGED <<deleted_conns, excused>>

FaultLossy(c, r, lk, ev) ==
  /\ r.state \notin {"CLOSED", "NONE"} \cup Connecting /\ policy[Owner(c)].lossy
  /\ conn' = [conn EXCEPT ![c] = Stopped(r)]
  /\ link' = lk /\ events' = StopEvents(ev, c)
  /\ deleted_conns' = Deleted(c)
  /\ IF conns[Owner(c)] = c THEN Excuse ELSE UNCHANGED excused

(* An incoming connection that never became a session.                      *)
Hopeless(r) == /\ ~r.once_ready /\ ~HasOut(requeue_sent(r.q))
               /\ r.state \in Accepting /\ ~r.replacing

FaultAccepting(c, r, lk, ev) ==
  /\ Hopeless(r) /\ ~policy[Owner(c)].lossy
  /\ conn' = [conn EXCEPT ![c] = Stopped(FaultLeaves(r))]
  /\ link' = Close(lk, r.cs, Owner(c)) /\ events' = StopEvents(ev, c)
  /\ deleted_conns' = Deleted(c)
  /\ UNCHANGED excused

(* A session: it stays for its queue.  One that was open connects again, or *)
(* waits for the peer if there is nothing to send or it is a server; one    *)
(* that was connecting tries again after a backoff.                         *)
AfterFault(c, r) ==
  LET new == FaultLeaves(r)
      waits == policy[Owner(c)].standby /\ ~HasOut(new.q) /\ r.state # "WAIT"
  IN  CASE waits -> [new EXCEPT !.state = "STANDBY"]
        [] ~waits /\ r.state \in Connecting \cup {"WAIT"} ->
             [new EXCEPT !.state = "CONNECTING", !.timer = TRUE]
        [] OTHER -> IF policy[Owner(c)].server THEN [new EXCEPT !.state = "STANDBY"]
                    ELSE [new EXCEPT !.state = "CONNECTING", !.connect_seq = @ + 1]

FaultRetries(c, r, lk, ev) ==
  LET next == AfterFault(c, r)
      waits == policy[Owner(c)].standby /\ ~HasOut(next.q) /\ r.state # "WAIT"
  IN  /\ r.state \notin {"CLOSED", "NONE"} /\ ~Hopeless(r)
      /\ r.state \in Connecting \/ ~policy[Owner(c)].lossy
      /\ conn' = [conn EXCEPT ![c] = next]
      /\ link' = Close(lk, r.cs, Owner(c))
      /\ events' = IF waits \/ next.timer THEN ev ELSE Wake(ev, "read", c)
      /\ UNCHANGED <<deleted_conns, excused>>

Fault(c, r, lk, ev) ==
  \/ FaultIgnored(c, r, lk, ev) \/ FaultLossy(c, r, lk, ev)
  \/ FaultAccepting(c, r, lk, ev) \/ FaultRetries(c, r, lk, ev)

Abort(what) ==
  /\ aborted' = what
  /\ UNCHANGED <<conn, msgrVars, link, appVars, setup, left>>
-----------------------------------------------------------------------------
(* The connecting end.                                                      *)

(* STATE_CONNECTING up to the request; the peer's Processor gives the       *)
(* accepted socket to any of its workers.                                   *)
Connect(c, r, ev) ==
  LET p == Owner(c)
      n == FreshName(Other(p))
      l == CHOOSE x \in UnusedLinks : TRUE
      g == global_seq[p] + 1
  IN  /\ global_seq[p] < MaxGlobalSeq /\ FreeNames(Other(p)) # {} /\ UnusedLinks # {}
      /\ global_seq' = [global_seq EXCEPT ![p] = g]
      /\ \E k \in 1..workers[Other(p)] :
           conn' = [conn EXCEPT
             ![c] = [r EXCEPT !.state = "CONNECTING_WAIT_CONNECT_REPLY", !.cs = l,
                              !.global_seq = g],
             ![n] = [NewConn(k) EXCEPT !.state = "ACCEPTING_WAIT_CONNECT_MSG", !.cs = l]]
      /\ link' = Put([link EXCEPT ![l].up = TRUE], l, p, Request(g, r.connect_seq))
      /\ events' = ev
      /\ UNCHANGED <<conns, deleted_conns, excused>>

(* process() called from the queue or by the backoff timer.                 *)
Process(c, r, ev) ==
  IF r.state = "CONNECTING" /\ ~policy[Owner(c)].server
  THEN Connect(c, r, ev) /\ UNCHANGED aborted
  ELSE /\ aborted' = IF r.state = "CONNECTING" THEN "!policy.server" ELSE aborted
       /\ conn' = [conn EXCEPT ![c] = r] /\ events' = ev
       /\ UNCHANGED <<msgrVars, link, excused>>

BackoffOver(c) ==
  /\ IsIdle(Home(c)) /\ conn[c].timer
  /\ Process(c, [conn[c] EXCEPT !.timer = FALSE], events)
  /\ UNCHANGED <<busy, submitted, delivered, setup, left>>

(* handle_connect_reply() for the tags that make it ask again.              *)
Again(c, r) ==
  /\ conn' = [conn EXCEPT ![c] = r]
  /\ link' = Put(Consumed(c), r.cs, Owner(c), Request(r.global_seq, r.connect_seq))
  /\ UNCHANGED <<conns, deleted_conns, events, busy, submitted, delivered, setup, left>>

ReadReply(c, tag) ==
  Reads(c, {"CONNECTING_WAIT_CONNECT_REPLY"}, "reply") /\ Frame(c).tag = tag

ReplyResetSession(c) ==
  /\ ReadReply(c, "RESETSESSION")
  /\ Again(c, was_session_reset(conn[c]))
  /\ Excuse
  /\ UNCHANGED <<global_seq, aborted>>

ReplyRetryGlobal(c) ==
  LET p == Owner(c)
      g == (IF Frame(c).gseq > global_seq[p] THEN Frame(c).gseq ELSE global_seq[p]) + 1
  IN  /\ ReadReply(c, "RETRY_GLOBAL") /\ g <= MaxGlobalSeq
      /\ global_seq' = [global_seq EXCEPT ![p] = g]
      /\ Again(c, [conn[c] EXCEPT !.global_seq = g])
      /\ UNCHANGED <<excused, aborted>>

ReplyRetrySession(c) ==
  /\ ReadReply(c, "RETRY_SESSION")
  /\ IF Frame(c).cseq > conn[c].connect_seq
     THEN /\ Again(c, [conn[c] EXCEPT !.connect_seq = Frame(c).cseq])
          /\ UNCHANGED <<global_seq, excused, aborted>>
     ELSE Abort("reply.connect_seq > connect_seq") /\ UNCHANGED <<events, busy>>

(* STATE_WAIT: process() goes on, finds that state and calls fault().       *)
ReplyWait(c) ==
  /\ ReadReply(c, "WAIT")
  /\ Fault(c, [conn[c] EXCEPT !.state = "WAIT"], Consumed(c), events)
  /\ UNCHANGED <<conns, global_seq, busy, aborted, submitted, delivered, setup, left>>

(* STATE_*_READY: from now on messages are written.                         *)
(* A mutant does not ask for the writer when there is something to write.   *)
Opened(r) == [r EXCEPT !.state = "OPEN", !.can_write = "CANWRITE"]
NotWoken(c, q) == events
OpenedEvents(c, q) == IF HasOut(q) THEN Wake(events, "write", c) ELSE events

(* READY, and SEQ with what the peer has received: what it has is dropped   *)
(* and it is told in turn.                                                  *)
ReplyReady(c) ==
  LET f == Frame(c)
      r == conn[c]
      q == IF f.tag = "SEQ" THEN discard_requeued_up_to(r.q, f.seq) ELSE r.q
  IN  /\ ReadReply(c, "READY") \/ ReadReply(c, "SEQ")
      /\ IF f.cseq # r.connect_seq + 1
         THEN Abort("connect_seq == connect_reply.connect_seq") /\ UNCHANGED <<events, busy>>
         ELSE /\ conn' = [conn EXCEPT ![c] =
                   [Opened(r) EXCEPT !.q = q, !.peer_global_seq = f.gseq,
                                     !.once_ready = TRUE, !.connect_seq = @ + 1]]
              /\ link' = IF f.tag = "SEQ"
                         THEN Put(Consumed(c), r.cs, Owner(c), [kind |-> "seq", seq |-> r.in_seq])
                         ELSE Consumed(c)
              /\ events' = OpenedEvents(c, q)
              /\ UNCHANGED <<msgrVars, busy, aborted, appVars, setup, left>>
-----------------------------------------------------------------------------
(* The accepting end: handle_connect_msg().                                 *)

(* _lookup_conn(): a deleted connection is erased instead of returned.      *)
Found(p) == IF conns[p] \in deleted_conns[p] THEN None ELSE conns[p]
Lookup(p) ==
  /\ conns' = [conns EXCEPT ![p] = Found(p)]
  /\ deleted_conns' = [deleted_conns EXCEPT ![p] = IF conns[p] \in @ THEN @ \ {conns[p]} ELSE @]

(* The request is read, the lock dropped to verify the authorizer, and the  *)
(* registered connection looked up.                                         *)
ReadConnect(c) ==
  /\ Reads(c, {"ACCEPTING_WAIT_CONNECT_MSG"}, "connect")
  /\ Lookup(Owner(c))
  /\ busy' = [busy EXCEPT ![Home(c)] =
                [Idle EXCEPT !.op = "judge", !.c = c, !.existing = Found(Owner(c)),
                             !.f = Frame(c)]]
  /\ conn' = [conn EXCEPT ![c].state = "ACCEPTING_WAIT_CONNECT_MSG_AUTH"]
  /\ link' = Consumed(c)
  /\ UNCHANGED <<global_seq, events, aborted, appVars, setup, left>>

(* Both have the same connect_seq: the session is open, or two attempts     *)
(* race.                                                                    *)
RaceVerdict(p, x) ==
  IF x.state \in {"OPEN", "STANDBY"}
  THEN IF policy[p].resetcheck /\ x.connect_seq = 0 THEN "replace" ELSE "RETRY_SESSION"
  ELSE IF AddrLess(Other(p), p) \/ policy[p].server THEN "replace" ELSE "WAIT"

(* A mutant judges a connection that is being replaced like any other.      *)
VerdictAlways(p, x, f) ==
  CASE x.state = "CLOSED" -> "open"
    [] x.state # "CLOSED" /\ f.gseq < x.peer_global_seq -> "RETRY_GLOBAL"
    [] OTHER -> IF policy[p].lossy THEN "replace_lossy" ELSE "replace"

Verdict(p, x, f) ==
  CASE x.state = "CLOSED" -> "open"
    [] x.state # "CLOSED" /\ (x.replacing \/ f.gseq < x.peer_global_seq) -> "RETRY_GLOBAL"
    [] OTHER ->
       CASE policy[p].lossy -> "replace_lossy"
         [] ~policy[p].lossy /\ f.cseq = 0 /\ x.connect_seq > 0 -> "replace_reset"
         [] OTHER ->
            CASE f.cseq < x.connect_seq -> "RETRY_SESSION"
              [] f.cseq = x.connect_seq -> RaceVerdict(p, x)
              [] f.cseq > x.connect_seq ->
                   IF policy[p].resetcheck /\ x.connect_seq = 0 THEN "RESETSESSION"
                   ELSE "replace"

(* The verdict on b, a request under judgement; it was not stopped.         *)
Existing(b) == IF b.existing = b.c THEN None ELSE b.existing
Judged(b) ==
  IF Existing(b) # None THEN Verdict(Owner(b.c), conn[b.existing], b.f)
  ELSE IF ~conn[b.c].replacing /\ b.f.cseq > 0 THEN "RESETSESSION" ELSE "open"

Judging(w) == At(w, "judge")
InAuth(w) == conn[busy[w].c].state = "ACCEPTING_WAIT_CONNECT_MSG_AUTH"
Rests(w) == busy' = [busy EXCEPT ![w] = Idle]

(* Stopped while the lock was dropped.                                      *)
JudgeStopped(w) ==
  /\ Judging(w) /\ ~InAuth(w)
  /\ IF conn[busy[w].c].state = "CLOSED"
     THEN /\ Rests(w)
          /\ UNCHANGED <<conn, msgrVars, link, events, aborted, appVars, setup, left>>
     ELSE Abort("state == STATE_CLOSED (judge)") /\ UNCHANGED <<events, busy>>

JudgeRefuse(w) ==
  LET b == busy[w]
      v == Judged(b)
      x == conn[Existing(b)]
  IN  /\ Judging(w) /\ InAuth(w)
      /\ v \in {"RETRY_GLOBAL", "RETRY_SESSION", "RESETSESSION", "WAIT"}
      /\ conn' = [conn EXCEPT ![b.c].state = "ACCEPTING_WAIT_CONNECT_MSG"]
      /\ link' = Put(link, conn[b.c].cs, w[1],
                     Reply(v, IF v = "RETRY_GLOBAL" THEN x.peer_global_seq ELSE 0,
                           IF v = "RETRY_SESSION" THEN x.connect_seq + 1 ELSE 0, 0))
      /\ Rests(w)
      /\ UNCHANGED <<msgrVars, events, aborted, appVars, setup, left>>

(* replace: the registered connection x takes this one's socket; this one   *)
(* is stopped.  x's own center must first let go of what x has.             *)
Replaced(x) == [x EXCEPT !.can_write = "REPLACING", !.replacing = TRUE, !.state = "NONE"]
JudgeReplace(w) ==
  LET b == busy[w]
      v == Judged(b)
      e == b.existing
      x == IF v = "replace_reset"
           THEN [IF policy[w[1]].resetcheck THEN was_session_reset(conn[e]) ELSE conn[e]
                   EXCEPT !.reset = TRUE]
           ELSE conn[e]
      r == conn[b.c]
  IN  /\ Judging(w) /\ InAuth(w) /\ v \in {"replace", "replace_reset"}
      /\ conn' = [conn EXCEPT ![b.c] = [Stopped(r) EXCEPT !.cs = 0], ![e] = Replaced(x)]
      /\ deleted_conns' = Deleted(b.c)
      /\ events' = Push(StopEvents(events, b.c), Home(e),
                        [kind |-> "deactivate", of |-> e, cs |-> r.cs, to |-> w[2]])
      /\ IF v = "replace_reset" /\ policy[w[1]].resetcheck THEN Excuse ELSE UNCHANGED excused
      /\ Rests(w)
      /\ UNCHANGED <<conns, global_seq, link, aborted, submitted, delivered, setup, left>>

(* open: the connection takes the request's session and says what it has    *)
(* received of it, unless the peer starts anew; the mutant never says it.   *)
(* A lossy one that is registered is stopped first.                         *)
AlwaysReady(r) == "READY"
ReplyTag(r) == IF r.reset THEN "READY" ELSE "SEQ"
JudgeOpen(w) ==
  LET b == busy[w]
      v == Judged(b)
      e == b.existing
      r == conn[b.c]
      tag == ReplyTag(r)
      g == global_seq[w[1]] + 1
      opened == [r EXCEPT !.connect_seq = b.f.cseq + 1, !.peer_global_seq = b.f.gseq,
                          !.in_seq = IF tag = "READY" THEN 0 ELSE @, !.reset = FALSE]
  IN  /\ Judging(w) /\ InAuth(w) /\ v \in {"open", "replace_lossy"}
      /\ IF v = "replace_lossy"
         THEN /\ conn' = [conn EXCEPT ![b.c] = opened, ![e] = Stopped(was_session_reset(@))]
              /\ deleted_conns' = Deleted(e) /\ events' = StopEvents(events, e)
              /\ Excuse
         ELSE /\ conn' = [conn EXCEPT ![b.c] = opened]
              /\ UNCHANGED <<deleted_conns, events, excused>>
      /\ global_seq' = [global_seq EXCEPT ![w[1]] = g]
      /\ busy' = [busy EXCEPT ![w] =
                    [Idle EXCEPT !.op = "register", !.c = b.c,
                                 !.f = Reply(tag, g, b.f.cseq + 1, opened.in_seq)]]
      /\ UNCHANGED <<conns, link, aborted, submitted, delivered, setup, left>>

(* accept_conn(), with no lock of the connection: it may take the place of  *)
(* one that is deleted.  The mutant looks at nothing.                       *)
TakesAnyPlace(p, c) == TRUE
MayRegister(p, c) == Found(p) \in {None, c}
Register(w) ==
  LET b == busy[w]
      p == w[1]
      e == conns[p]
      dead == e \in deleted_conns[p]
      ok == MayRegister(p, b.c)
  IN  /\ At(w, "register")
      /\ busy' = [busy EXCEPT ![w].op = "finish", ![w].ok = ok]
      /\ conns' = IF ok THEN [conns EXCEPT ![p] = b.c] ELSE conns
      /\ deleted_conns' = IF dead THEN [deleted_conns EXCEPT ![p] = @ \ {e}] ELSE deleted_conns
      /\ UNCHANGED <<conn, global_seq, link, events, aborted, appVars, setup, left>>

(* With the lock again: the reply is sent.                                  *)
Finishing(w) == At(w, "finish")
NotReplacing(c) == [conn[c] EXCEPT !.replacing = FALSE]

FinishFails(w) ==
  LET c == busy[w].c
  IN  /\ Finishing(w) /\ (~busy[w].ok \/ ~InAuth(w))
      /\ IF busy[w].ok /\ conn[c].state # "CLOSED"
         THEN Abort("state == STATE_CLOSED") /\ UNCHANGED <<events, busy>>
         ELSE /\ Fault(c, NotReplacing(c), link, events)
              /\ Rests(w)
              /\ UNCHANGED <<conns, global_seq, aborted, submitted, delivered, setup, left>>

Finish(w) ==
  LET b == busy[w]
      r == [NotReplacing(b.c) EXCEPT !.once_ready = TRUE]
  IN  /\ Finishing(w) /\ b.ok /\ InAuth(w)
      /\ link' = Put(link, r.cs, w[1], b.f)
      /\ IF b.f.tag = "SEQ"
         THEN /\ conn' = [conn EXCEPT ![b.c] = [r EXCEPT !.state = "ACCEPTING_WAIT_SEQ"]]
              /\ UNCHANGED events
         ELSE /\ conn' = [conn EXCEPT ![b.c] = Opened(r)]
              /\ events' = OpenedEvents(b.c, r.q)
      /\ Rests(w)
      /\ UNCHANGED <<msgrVars, aborted, appVars, setup, left>>

ReadSeq(c) ==
  LET q == discard_requeued_up_to(conn[c].q, Frame(c).seq)
  IN  /\ Reads(c, {"ACCEPTING_WAIT_SEQ"}, "seq")
      /\ conn' = [conn EXCEPT ![c] = [Opened(@) EXCEPT !.q = q]]
      /\ link' = Consumed(c)
      /\ events' = OpenedEvents(c, q)
      /\ UNCHANGED <<msgrVars, busy, aborted, appVars, setup, left>>
-----------------------------------------------------------------------------
(* STATE_OPEN and after.                                                    *)

(* A message of which only a part has arrived.                              *)
ReadHeader(c) ==
  /\ Reads(c, {"OPEN"}, "msg")
  /\ conn' = [conn EXCEPT ![c].state = "OPEN_MESSAGE"]
  /\ UNCHANGED <<msgrVars, link, events, busy, aborted, appVars, setup, left>>

(* The rest of it; the writer is asked to acknowledge.  A message that was  *)
(* received before ends the process if ms_die_on_old_message is set.        *)
ReadMsg(c) ==
  LET m == Frame(c).m
      p == Owner(c)
  IN  /\ Reads(c, Open, "msg")
      /\ IF m.seq <= conn[c].in_seq
         THEN Abort("old msgs despite reconnect_seq feature") /\ UNCHANGED <<events, busy>>
         ELSE /\ conn' = [conn EXCEPT ![c].in_seq = m.seq, ![c].state = "OPEN",
                                      ![c].ack_left = @ \/ ~policy[p].lossy]
              /\ delivered' = [delivered EXCEPT ![p] = Append(@, m.id)]
              /\ link' = Consumed(c)
              /\ events' = IF policy[p].lossy THEN events ELSE Wake(events, "write", c)
              /\ UNCHANGED <<msgrVars, busy, aborted, submitted, excused, setup, left>>

ReadAck(c) ==
  /\ Reads(c, {"OPEN"}, "ack")
  /\ conn' = [conn EXCEPT ![c].q = handle_ack(@, Frame(c).seq)]
  /\ link' = Consumed(c)
  /\ UNCHANGED <<msgrVars, events, busy, aborted, appVars, setup, left>>

(* KEEPALIVE2: its answer, which nothing here depends on, wakes the writer. *)
ReadKeepalive(c) ==
  /\ Reads(c, {"OPEN"}, "keepalive")
  /\ link' = Consumed(c)
  /\ events' = Wake(events, "write", c)
  /\ UNCHANGED <<conn, msgrVars, busy, aborted, appVars, setup, left>>

(* read_until() fails: the connection is broken and nothing is left to read.*)
ReadFails(c) ==
  LET r == conn[c]
  IN  /\ IsIdle(Home(c)) /\ r.cs # 0
      /\ r.state \in Open \cup {"CONNECTING_WAIT_CONNECT_REPLY", "ACCEPTING_WAIT_CONNECT_MSG",
                                "ACCEPTING_WAIT_SEQ"}
      /\ ~link[r.cs].up /\ link[r.cs].in[Owner(c)] = <<>>
      /\ Fault(c, r, link, events)
      /\ UNCHANGED <<conns, global_seq, busy, aborted, submitted, delivered, setup, left>>
-----------------------------------------------------------------------------
(* What a worker finds in its queue.                                        *)
Next1(w) == Head(events[w])
Popped(w) == [events EXCEPT ![w] = Tail(@)]
Runs(w, kind) == IsIdle(w) /\ events[w] # <<>> /\ Next1(w).kind = kind

RunRead(w) ==
  /\ Runs(w, "read")
  /\ Process(Next1(w).of, conn[Next1(w).of], Popped(w))
  /\ UNCHANGED <<busy, submitted, delivered, setup, left>>

(* handle_write(): the next message goes from the queue to the sent list    *)
(* under write_lock, is numbered and sent without it.                       *)
(* A mutant does not keep it.                                               *)
TakenForGood(q, lossy) == PopOutgoing(q)
Taken(q, lossy) ==
  [PopOutgoing(q) EXCEPT !.sent = IF lossy THEN @ ELSE Append(@, NextOutgoing(q))]
Written(q, m) ==
  LET n == Len(q.sent)
      there == n # 0 /\ q.sent[n].id = m.id
  IN  [q EXCEPT !.out_seq = @ + 1,
                !.sent = IF there THEN [@ EXCEPT ![n].seq = q.out_seq + 1] ELSE @]

(* The keepalive goes out before the loop; one that is requested while a    *)
(* message is being written waits for the next call.                        *)
Requested(w, c) == At(w, "write") /\ conn[c].keepalive

Takes(w, c, q) ==
  /\ busy' = [busy EXCEPT ![w] = [Idle EXCEPT !.op = "write", !.c = c, !.m = NextOutgoing(q)]]
  /\ conn' = [conn EXCEPT ![c].q = Taken(q, policy[w[1]].lossy), ![c].keepalive = Requested(w, c)]

(* No more messages: an acknowledgement of what was read.                   *)
Acknowledges(w, c, q, lk) ==
  LET r == conn[c]
  IN  /\ busy' = [busy EXCEPT ![w] = Idle]
      /\ conn' = [conn EXCEPT ![c].q = q, ![c].ack_left = FALSE, ![c].keepalive = Requested(w, c)]
      /\ link' = IF r.ack_left THEN Put(lk, r.cs, w[1], [kind |-> "ack", seq |-> r.in_seq])
                               ELSE lk

RunWrite(w) ==
  LET c == Next1(w).of
      r == conn[c]
      alive == IF r.keepalive THEN Put(link, r.cs, w[1], NoFrame) ELSE link
  IN  /\ Runs(w, "write") /\ r.can_write = "CANWRITE" /\ Home(c) = w
      /\ events' = Popped(w)
      /\ \/ /\ HasOut(r.q) /\ Takes(w, c, r.q)
            /\ link' = alive
         \/ ~HasOut(r.q) /\ Acknowledges(w, c, r.q, alive)
      /\ UNCHANGED <<msgrVars, aborted, appVars, setup, left>>

WriteMessage(w) ==
  LET b == busy[w]
      r == conn[b.c]
      q == Written(r.q, b.m)
      sent == Put(link, r.cs, w[1], [kind |-> "msg", m |-> [b.m EXCEPT !.seq = q.out_seq]])
      more == r.can_write = "CANWRITE" /\ HasOut(q)
  IN  /\ At(w, "write")
      /\ \/ /\ more /\ Takes(w, b.c, q)
            /\ link' = sent
         \/ ~more /\ Acknowledges(w, b.c, q, sent)
      /\ UNCHANGED <<msgrVars, events, aborted, appVars, setup, left>>

(* Nothing may be written: a connection in standby is told to connect.      *)
RunWriteNot(w) ==
  LET c == Next1(w).of
      r == conn[c]
      connects == r.state = "STANDBY" /\ ~policy[w[1]].server /\ HasOut(r.q)
      tries == ~connects /\ r.cs # 0 /\ r.state \notin {"NONE", "CONNECTING", "CLOSED"}
  IN  /\ Runs(w, "write") /\ (r.can_write # "CANWRITE" \/ Home(c) # w)
      /\ IF (tries \/ r.can_write = "CANWRITE") /\ Home(c) # w
         THEN Abort("center->in_thread()") /\ UNCHANGED <<events, busy>>
         ELSE /\ conn' = IF connects THEN [conn EXCEPT ![c].state = "CONNECTING"] ELSE conn
              /\ events' = IF connects THEN Wake(Popped(w), "read", c) ELSE Popped(w)
              /\ UNCHANGED <<msgrVars, link, busy, aborted, appVars, setup, left>>

(* C_clean_handler: cleanup() frees the handlers.                           *)
RunClean(w) ==
  LET c == Next1(w).of
  IN  /\ Runs(w, "clean")
      /\ conn' = [conn EXCEPT ![c] = Gone]
      /\ link' = Close(link, conn[c].cs, w[1])
      /\ events' = Popped(w)
      /\ UNCHANGED <<msgrVars, busy, aborted, appVars, setup, left>>

(* reap_dead().                                                             *)
RunReap(w) ==
  LET p == w[1]
  IN  /\ Runs(w, "reap")
      /\ conns' = [conns EXCEPT ![p] = Found(p)]
      /\ deleted_conns' = [deleted_conns EXCEPT ![p] = {}]
      /\ events' = Popped(w)
      /\ UNCHANGED <<conn, global_seq, link, busy, aborted, appVars, setup, left>>

(* deactivate_existing, in the old center, and transfer_existing, in the    *)
(* new one: at once if they are the same.                                   *)
Transferred(x) == [x EXCEPT !.state = "ACCEPTING_WAIT_CONNECT_MSG"]
AskAgain(lk, x, p) == Put(lk, x.cs, p, Reply("RETRY_GLOBAL", x.peer_global_seq, 0, 0))

RunDeactivate(w) ==
  LET p == w[1]
      e == Next1(w).of
      to == <<p, Next1(w).to>>
      x == [conn[e] EXCEPT !.q = requeue_sent(@), !.cs = Next1(w).cs, !.worker = to[2],
                           !.timer = FALSE]
      closed == Close(link, conn[e].cs, p)
  IN  /\ Runs(w, "deactivate")
      /\ CASE conn[e].state = "NONE" /\ to = w ->
                /\ conn' = [conn EXCEPT ![e] = Transferred(x)]
                /\ link' = AskAgain(closed, x, p)
                /\ events' = Popped(w)
                /\ UNCHANGED aborted
           [] conn[e].state = "NONE" /\ to # w ->
                /\ conn' = [conn EXCEPT ![e] = x]
                /\ link' = closed
                /\ events' = Push(Popped(w), to, Event("transfer", e))
                /\ UNCHANGED aborted
           [] conn[e].state = "CLOSED" ->
                /\ events' = Push(Popped(w), to, [Event("close", None) EXCEPT !.cs = Next1(w).cs])
                /\ UNCHANGED <<conn, link, aborted>>
           [] OTHER -> /\ aborted' = "deactivate"
                       /\ UNCHANGED <<conn, link, events>>
      /\ UNCHANGED <<msgrVars, busy, appVars, setup, left>>

RunTransfer(w) ==
  LET e == Next1(w).of
      x == conn[e]
  IN  /\ Runs(w, "transfer")
      /\ events' = Popped(w)
      /\ IF x.state = "NONE"
         THEN /\ conn' = [conn EXCEPT ![e] = Transferred(x)]
              /\ link' = AskAgain(link, x, w[1])
              /\ UNCHANGED aborted
         ELSE /\ aborted' = IF x.state = "CLOSED" THEN aborted ELSE "state == STATE_NONE"
              /\ UNCHANGED <<conn, link>>
      /\ UNCHANGED <<msgrVars, busy, appVars, setup, left>>

RunClose(w) ==
  /\ Runs(w, "close")
  /\ link' = Close(link, Next1(w).cs, w[1])
  /\ events' = Popped(w)
  /\ UNCHANGED <<conn, msgrVars, busy, aborted, appVars, setup, left>>
-----------------------------------------------------------------------------
(* Other threads and the network.                                           *)

(* send_message() to the peer's address, under the messenger's lock.        *)
Queued(r, m) == [r EXCEPT !.q = Send(@, m, FALSE)]

SubmitKnown(p) ==
  LET e == Found(p)
      m == [id |-> submitted[p] + 1, seq |-> 0]
  IN  /\ e # None
      /\ IF conn[e].can_write = "CLOSED" THEN UNCHANGED <<conn, events>>
         ELSE /\ conn' = [conn EXCEPT ![e] = Queued(@, m)]
              /\ events' = IF conn[e].can_write = "REPLACING" THEN events
                           ELSE Wake(events, "write", e)
      /\ UNCHANGED excused

SubmitNew(p) ==
  LET m == [id |-> submitted[p] + 1, seq |-> 0]
      n == FreshName(p)
  IN  /\ Found(p) = None
      /\ IF policy[p].server                    \* dropped
         THEN /\ conns' = [conns EXCEPT ![p] = None]
              /\ excused' = [excused EXCEPT ![p] = @ \cup {m.id}]
              /\ UNCHANGED <<conn, events>>
         ELSE /\ FreeNames(p) # {}
              /\ conns' = [conns EXCEPT ![p] = n]
              /\ \E k \in 1..workers[p] :
                   /\ conn' = [conn EXCEPT ![n] = Queued([NewConn(k) EXCEPT !.state = "CONNECTING"], m)]
                   /\ events' = Push(Push(events, <<p, k>>, Event("read", n)),
                                     <<p, k>>, Event("write", n))
              /\ UNCHANGED excused

(* What a scenario still allows.                                            *)
Allowed(n) == aborted = "no" /\ n > 0

Submit(p) ==
  /\ Allowed(left.submit[p])
  /\ left' = [left EXCEPT !.submit[p] = @ - 1]
  /\ submitted' = [submitted EXCEPT ![p] = @ + 1]
  /\ deleted_conns' = [deleted_conns EXCEPT ![p] = IF conns[p] \in @ THEN @ \ {conns[p]} ELSE @]
  /\ (SubmitKnown(p) /\ UNCHANGED conns) \/ SubmitNew(p)
  /\ UNCHANGED <<global_seq, link, busy, aborted, delivered, setup>>

SendKeepalive(p) ==
  LET e == conns[p]
  IN  /\ Allowed(left.keepalives) /\ left' = [left EXCEPT !.keepalives = @ - 1]
      /\ e # None /\ conn[e].can_write # "CLOSED"
      /\ conn' = [conn EXCEPT ![e].keepalive = TRUE]
      /\ events' = Wake(events, "write", e)
      /\ UNCHANGED <<msgrVars, link, busy, aborted, appVars, setup>>

MarkDown(p) ==
  LET e == Found(p)
  IN  /\ Allowed(left.downs) /\ left' = [left EXCEPT !.downs = @ - 1]
      /\ e # None /\ conn[e].state # "CLOSED"
      /\ conn' = [conn EXCEPT ![e] = Stopped(@)]
      /\ deleted_conns' = Deleted(e)
      /\ events' = StopEvents(events, e)
      /\ Excuse
      /\ UNCHANGED <<conns, global_seq, link, busy, aborted, submitted, delivered, setup>>

(* A connection breaks; of what was under way a part still arrives.         *)
Break(l) ==
  /\ Allowed(left.faults) /\ left' = [left EXCEPT !.faults = @ - 1]
  /\ link[l].up
  /\ \E n \in [Peers -> Nat \cap (0..4)] :
       /\ \A p \in Peers : n[p] <= Len(link[l].in[p])
       /\ link' = [link EXCEPT ![l] =
             [up |-> FALSE, in |-> [p \in Peers |-> SubSeq(@.in[p], 1, n[p])]]]
  /\ UNCHANGED <<conn, msgrVars, events, busy, aborted, appVars, setup>>
-----------------------------------------------------------------------------
ConnectionRuns(c) ==
  \/ BackoffOver(c)
  \/ ReplyResetSession(c) \/ ReplyRetryGlobal(c) \/ ReplyRetrySession(c)
  \/ ReplyWait(c) \/ ReplyReady(c)
  \/ ReadConnect(c) \/ ReadSeq(c)
  \/ ReadMsg(c) \/ ReadAck(c) \/ ReadKeepalive(c) \/ ReadFails(c)

WorkerRuns(w) ==
  \/ JudgeStopped(w) \/ JudgeRefuse(w) \/ JudgeReplace(w) \/ JudgeOpen(w)
  \/ Register(w) \/ FinishFails(w) \/ Finish(w) \/ WriteMessage(w)
  \/ RunRead(w) \/ RunWrite(w) \/ RunWriteNot(w) \/ RunClean(w) \/ RunReap(w)
  \/ RunDeactivate(w) \/ RunTransfer(w) \/ RunClose(w)

Next ==
  \/ \E c \in ConnIds : ConnectionRuns(c) \/ ReadHeader(c)
  \/ \E w \in Workers : WorkerRuns(w)
  \/ \E p \in Peers : Submit(p) \/ SendKeepalive(p) \/ MarkDown(p)
  \/ \E l \in Links : Break(l)

Spec == Init /\ [][Next]_vars

(* Threads and the network run; nothing is said of faults and callers.      *)
FairSpec ==
  /\ Spec
  /\ \A c \in ConnIds : WF_vars(ConnectionRuns(c))
  /\ \A w \in Workers : WF_vars(WorkerRuns(w))
-----------------------------------------------------------------------------
ReplyTags == {"RETRY_GLOBAL", "RETRY_SESSION", "RESETSESSION", "WAIT", "SEQ", "READY"}
Frames ==
  [kind : {"connect"}, gseq : Nat, cseq : Nat]
    \cup [kind : {"reply"}, tag : ReplyTags, gseq : Nat, cseq : Nat, seq : Nat]
    \cup [kind : {"seq", "ack"}, seq : Nat]
    \cup [kind : {"msg"}, m : Message(Nat)]
    \cup [kind : {"keepalive"}]
Conn ==
  [state : States, cs : Links \cup {0}, worker : {1, 2}, connect_seq : Nat,
   peer_global_seq : Nat, global_seq : Nat, in_seq : Nat, q : OutQ(Nat),
   can_write : {"NOWRITE", "REPLACING", "CANWRITE", "CLOSED"}, replacing : BOOLEAN,
   reset : BOOLEAN, once_ready : BOOLEAN, ack_left : BOOLEAN, keepalive : BOOLEAN,
   timer : BOOLEAN, freed : BOOLEAN]
EventKinds == {"read", "write", "clean", "reap", "deactivate", "transfer", "close"}

(* Every variable keeps its type.                                           *)
TypeOK ==
  /\ conn \in [ConnIds -> Conn]
  /\ conns \in [Peers -> ConnIds \cup {None}]
  /\ deleted_conns \in [Peers -> SUBSET ConnIds]
  /\ global_seq \in [Peers -> Nat]
  /\ link \in [Links -> [up : BOOLEAN, in : [Peers -> Seq(Frames)]]]
  /\ events \in [Workers -> Seq([kind : EventKinds, of : ConnIds \cup {None},
                                  cs : Links \cup {0}, to : {0, 1, 2}])]
  /\ busy \in [Workers -> [op : {"idle", "judge", "register", "finish", "write"},
                            c : ConnIds \cup {None}, existing : ConnIds \cup {None},
                            f : Frames, m : Message(Nat), ok : BOOLEAN]]
  /\ submitted \in [Peers -> Nat] /\ delivered \in [Peers -> Seq(Nat)]
  /\ excused \in [Peers -> SUBSET Nat]
  /\ policy \in [Peers -> PolicyType] /\ workers \in [Peers -> Nat] /\ left \in Bounds

(* A connection of p that is or was a session: not one that is still being  *)
(* accepted, nor a closed one.                                              *)
InUse(c) == conn[c].state \notin Accepting \cup {"CLOSED"}

(* accept_conn() and create_connect(): p has at most one session with its   *)
(* peer, and it is the one that _lookup_conn() finds.                       *)
OneSession == \A c \in ConnIds : InUse(c) => Found(Owner(c)) = c

(* _stop(), deleted_conns (AsyncMessenger.h:268): a closed connection that  *)
(* is still in conns can be replaced by anyone, so it must be marked        *)
(* deleted for accept_conn() and _lookup_conn() to see it.                  *)
ClosedCanBeReplaced ==
  \A p \in Peers : conns[p] # None /\ conn[conns[p]].state = "CLOSED"
    => conns[p] \in deleted_conns[p]

(* requeue_sent(), the replacement and the handshakes: what was submitted   *)
(* on a lossless connection and neither delivered nor excused is held by    *)
(* the registered connection.                                               *)
Holds(q, id) ==
  \E s \in {q.high, q.dflt, q.sent} : \E i \in 1..Len(s) : s[i].id = id
Received(p) == {delivered[p][i] : i \in 1..Len(delivered[p])}
NoSilentLoss ==
  \A p \in Peers : ~policy[p].lossy /\ ClosedCanBeReplaced =>
    \A id \in 1..submitted[p] :
      \/ id \in Received(Other(p)) \cup excused[p]
      \/ Found(p) # None /\ Holds(conn[Found(p)].q, id)

(* cleanup() deletes the handlers of a connection: none is queued in any    *)
(* center, not even in the one a replaced connection has left.              *)
NoHandlerDangles ==
  \A w \in Workers : \A i \in 1..Len(events[w]) :
    events[w][i].kind \in {"read", "write", "clean"} => ~conn[events[w][i].of].freed

(* No assertion fails but that of the accept window.                        *)
OnlyWindowAsserts == aborted \in {"no", "state == STATE_CLOSED"}

(* A peer that is told RETRY_GLOBAL asks again at once, for as long as the  *)
(* connection it is to replace is not ready: the bound may end that.        *)
AttemptsSpent == \E p \in Peers : global_seq[p] >= MaxGlobalSeq

(* fault(), the backoff and the replacement: once no more connections       *)
(* break, every message is delivered, unless an end has been told that it   *)
(* was lost or the attempts that the model allows are spent.                *)
EventuallyDelivered ==
  \A p \in Peers : \A id \in 1..MaxSubmit[p] :
     submitted[p] >= id
       ~> id \in excused[p] \cup Received(Other(p)) \/ AttemptsSpent

(* With lossless policies the two messengers are a reliable channel.        *)
Channel == INSTANCE ReliableChannel WITH submitted <- submitted, delivered <- delivered,
                                         excused <- excused, MaxSubmit <- MaxSubmit
ImplementsChannel == Channel!Spec
=============================================================================
