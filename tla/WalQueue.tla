------------------------------ MODULE WalQueue ------------------------------
(***************************************************************************)
(* The goroutines around the log: appenders and their bounded queue, the   *)
(* callers of Sync, Truncate and CutOffset, followers that wait for a      *)
(* commit, the interval flusher, Close, and the one writer that serves     *)
(* them all.  What the writer does to the files is in WalStore; here a     *)
(* commit is the LSNs it assigns, fsyncs and publishes.                    *)
(***************************************************************************)
EXTENDS Integers, Sequences, FiniteSets, Functions

CONSTANTS
  Appenders,    \* goroutines that call Append or AppendBatch
  Syncers,      \* goroutines that call Sync
  Cutters,      \* goroutines that call Truncate or CutOffset
  Followers,    \* goroutines in the Records loop of a follower
  Closers,      \* goroutines that call Close
  Flusher,      \* the goroutine of startFlusher
  SyncPolicy,   \* "SyncImmediate", "SyncBatched" or "SyncInterval"
  BatchSize,    \* WithBatchSize
  Cancelable,   \* callers whose contexts may end
  Failures,     \* what may fail: subset of {"write", "sync"}
  Nobody,       \* no goroutine
  MaxAppends    \* bound: calls of Append in a behaviour

Callers == Appenders \cup Syncers \cup Cutters \cup Followers \cup Closers
Submitters == Syncers \cup Cutters \cup {Flusher}

ASSUME WalQueueAssumption ==
  /\ SyncPolicy \in {"SyncImmediate", "SyncBatched", "SyncInterval"}
  /\ BatchSize \in Nat \ {0}
  /\ MaxAppends \in Nat
  /\ Appenders \cap (Syncers \cup Cutters \cup Followers \cup Closers) = {}
  /\ Syncers \cap (Cutters \cup Followers \cup Closers) = {}
  /\ Cutters \cap (Followers \cup Closers) = {}
  /\ Followers \cap Closers = {}
  /\ Flusher \notin Callers
  /\ Cancelable \subseteq Callers \ Closers
  /\ Nobody \notin Callers \cup {Flusher}

VARIABLES
  pc,         \* what each goroutine does next
  result,     \* what the last call of each caller returned
  done,       \* callers whose context is canceled or timed out
  reply,      \* the buffered result channel of each call
  readers,    \* appenders that hold closeMu for reading
  isClosed,   \* w.isClosed
  closed,     \* the channel w.closed is closed
  once,       \* closeOnce: "new", "running" or "done"
  queue,      \* w.requestCh
  wpc,        \* what the writer does next
  draining,   \* the writer is in drain
  batch,      \* the requests of the group commit
  outcome,    \* results of commit, for the requests it has gone through
  serving,    \* whose Sync, Truncate, CutOffset or flush the writer serves
  waiters,    \* w.pendingWaiters
  notified,   \* followers whose notify channel is closed
  nextLSN, lastLSN,
  synced,     \* the highest LSN on stable storage
  lsn,        \* LSN written for the call of an appender, or 0
  pos,        \* highest LSN each follower has consumed
  target,     \* LastLSN when a Sync was called
  appends     \* calls of Append so far

calls == <<pc, result, done, reply>>
shutdown == <<isClosed, closed, once>>
writer == <<wpc, draining, batch, outcome, serving>>
log == <<nextLSN, lastLSN, synced, lsn>>
wakeups == <<waiters, notified>>
history == <<pos, target, appends>>
vars == <<calls, readers, shutdown, queue, writer, log, wakeups, history>>

Init ==
  /\ pc = [p \in Callers \cup {Flusher} |->
             CASE p \in Followers -> "reading"
               [] p = Flusher -> IF SyncPolicy = "SyncInterval" THEN "ticking" ELSE "exited"
               [] OTHER -> "idle"]
  /\ result = [p \in Callers |-> "none"]
  /\ done = {}
  /\ reply = [p \in Callers \cup {Flusher} |-> "none"]
  /\ readers = {}
  /\ isClosed = FALSE /\ closed = FALSE /\ once = "new"
  /\ queue = << >>
  /\ wpc = "select" /\ draining = FALSE
  /\ batch = << >> /\ outcome = << >> /\ serving = Nobody
  /\ waiters = {} /\ notified = {}
  /\ nextLSN = 1 /\ lastLSN = 0 /\ synced = 0
  /\ lsn = [a \in Appenders |-> 0]
  /\ pos = [f \in Followers |-> 0]
  /\ target = [s \in Syncers |-> 0]
  /\ appends = 0

-----------------------------------------------------------------------------
(* Calls.                                                                  *)

Goto(p, step) == pc' = [pc EXCEPT ![p] = step]

Call(p, step) ==
  /\ pc[p] = "idle"
  /\ Goto(p, step)
  /\ result' = [result EXCEPT ![p] = "none"]
  /\ UNCHANGED <<done, reply>>

Return(p, r) ==
  /\ pc' = [pc EXCEPT ![p] = IF p \in Followers THEN "stopped" ELSE "idle"]
  /\ result' = [result EXCEPT ![p] = r]
  /\ done' = done \ {p}
  /\ reply' = [reply EXCEPT ![p] = "none"]

\* The context of a call ends.
ContextDone(p) ==
  /\ p \in Cancelable
  /\ pc[p] \notin {"idle", "stopped"} /\ p \notin done
  /\ done' = done \cup {p}
  /\ UNCHANGED <<pc, result, reply, readers, shutdown, queue, writer, log,
                 wakeups, history>>

\* Close waits for closeMu: a pending Lock keeps new readers out.
LockPending == \E k \in Closers : pc[k] = "locking"

\* Mutant: the context is looked at again when the result is there.
ContextFirst(p) == IF p \in done THEN "canceled" ELSE reply[p]

Received(p) == reply[p]

\* The result has arrived on the channel of the call.
Answered(p) ==
  /\ p \in Callers /\ pc[p] = "waiting" /\ reply[p] # "none"
  /\ Return(p, Received(p))
  /\ UNCHANGED <<readers, shutdown, queue, writer, log, wakeups, history>>

-----------------------------------------------------------------------------
(* AppendBatch and enqueue.                                                *)

CallAppend(a) ==
  /\ appends < MaxAppends
  /\ appends' = appends + 1
  /\ Call(a, "entering")
  /\ lsn' = [lsn EXCEPT ![a] = 0]
  /\ UNCHANGED <<readers, shutdown, queue, writer, nextLSN, lastLSN, synced,
                 wakeups, pos, target>>

\* Mutant: closeMu is released before the send.
CheckedOnly(a) == readers

HeldWhileSending(a) == readers \cup {a}

\* enqueue takes closeMu for reading and looks at isClosed under it.
EnterEnqueue(a) ==
  /\ pc[a] = "entering"
  /\ ~LockPending
  /\ IF isClosed
     THEN Return(a, "closed") /\ UNCHANGED readers
     ELSE /\ Goto(a, "sending")
          /\ readers' = HeldWhileSending(a)
          /\ UNCHANGED <<result, done, reply>>
  /\ UNCHANGED <<shutdown, queue, writer, log, wakeups, history>>

QueueSize == 2 * BatchSize

\* Mutant: RUnlock is missing where the request was sent.
StillHeld(a) == readers

Released(a) == readers \ {a}

Send(a) ==
  /\ pc[a] = "sending"
  /\ Len(queue) < QueueSize
  /\ queue' = Append(queue, a)
  /\ readers' = Released(a)
  /\ Goto(a, "waiting")
  /\ UNCHANGED <<result, done, reply, shutdown, writer, log, wakeups, history>>

SendCanceled(a) ==
  /\ pc[a] = "sending" /\ a \in done
  /\ readers' = readers \ {a}
  /\ Return(a, "canceled")
  /\ UNCHANGED <<shutdown, queue, writer, log, wakeups, history>>

-----------------------------------------------------------------------------
(* SyncContext and submitBoundaryOp, and requestIntervalFlush.             *)

CallOp(p) ==
  /\ Call(p, "entering")
  /\ target' = IF p \in Syncers THEN [target EXCEPT ![p] = lastLSN] ELSE target
  /\ UNCHANGED <<readers, shutdown, queue, writer, log, wakeups, pos, appends>>

\* isClosed is read under closeMu, which is released again; only
\* submitBoundaryOp looks at its context before it submits.
EnterOp(p) ==
  /\ pc[p] = "entering"
  /\ ~LockPending
  /\ IF isClosed THEN Return(p, "closed")
     ELSE IF p \in Cutters /\ p \in done THEN Return(p, "canceled")
     ELSE Goto(p, "submitting") /\ UNCHANGED <<result, done, reply>>
  /\ UNCHANGED <<readers, shutdown, queue, writer, log, wakeups, history>>

\* The other arms of the select that submits: it is left without an answer.
NotAccepted(p) ==
  /\ p \in Callers /\ pc[p] = "submitting"
  /\ \/ closed /\ Return(p, "closed")
     \/ p \in done /\ Return(p, "canceled")
  /\ UNCHANGED <<readers, shutdown, queue, writer, log, wakeups, history>>

Tick ==
  /\ pc[Flusher] = "ticking"
  /\ Goto(Flusher, "submitting")
  /\ UNCHANGED <<result, done, reply, readers, shutdown, queue, writer, log, wakeups, history>>

\* Mutant: the flusher's select has no arm for w.closed.
NotGivenUp == FALSE

GivenUp == closed

\* The flush is answered, or given up because the WAL is closing.
Flushed ==
  /\ \/ pc[Flusher] = "waiting" /\ reply[Flusher] # "none"
     \/ pc[Flusher] = "submitting" /\ GivenUp
  /\ Goto(Flusher, "ticking")
  /\ reply' = [reply EXCEPT ![Flusher] = "none"]
  /\ UNCHANGED <<result, done, readers, shutdown, queue, writer, log,
                 wakeups, history>>

FlusherExits ==
  /\ pc[Flusher] = "ticking" /\ closed
  /\ Goto(Flusher, "exited")
  /\ UNCHANGED <<result, done, reply, readers, shutdown, queue, writer, log,
                 wakeups, history>>

-----------------------------------------------------------------------------
(* Records in follow mode, and awaitCommit.                                *)

\* A snapshot of the bounds, and everything up to it is delivered.
ReadToTail(f) ==
  /\ pc[f] = "reading"
  /\ pos' = [pos EXCEPT ![f] = lastLSN]
  /\ Goto(f, "submitting")
  /\ UNCHANGED <<result, done, reply, readers, shutdown, queue, writer, log,
                 wakeups, target, appends>>

Woken(f) ==
  /\ pc[f] = "parked" /\ f \in notified
  /\ Goto(f, "reading")
  /\ notified' = notified \ {f}
  /\ UNCHANGED <<result, done, reply, readers, shutdown, queue, writer, log,
                 waiters, history>>

\* The waiter stays in pendingWaiters until the next wakeup.
ParkedCanceled(f) ==
  /\ pc[f] = "parked" /\ f \in done
  /\ Return(f, "canceled")
  /\ UNCHANGED <<readers, shutdown, queue, writer, log, wakeups, history>>

-----------------------------------------------------------------------------
(* Close.                                                                  *)

\* closeOnce: the first call closes, the others wait for it.
CallClose(k) ==
  /\ pc[k] = "idle" /\ once # "done"
  /\ Goto(k, IF once = "new" THEN "locking" ELSE "onceWait")
  /\ once' = "running"
  /\ UNCHANGED <<result, done, reply, readers, isClosed, closed, queue, writer,
                 log, wakeups, history>>

LockAndMark(k) ==
  /\ pc[k] = "locking"
  /\ readers = {}
  /\ isClosed' = TRUE
  /\ Goto(k, "closing")
  /\ UNCHANGED <<result, done, reply, readers, closed, once, queue, writer, log,
                 wakeups, history>>

CloseChannel(k) ==
  /\ pc[k] = "closing"
  /\ closed' = TRUE
  /\ Goto(k, "stopping")
  /\ UNCHANGED <<result, done, reply, readers, isClosed, once, queue, writer, log,
                 wakeups, history>>

\* wg.Wait, then the active segment and the directory are closed.
Release(k) ==
  /\ pc[k] = "stopping"
  /\ wpc = "exited" /\ pc[Flusher] = "exited"
  /\ once' = "done"
  /\ Return(k, "ok")
  /\ UNCHANGED <<readers, isClosed, closed, queue, writer, log,
                 wakeups, history>>

OnceDone(k) ==
  /\ pc[k] = "onceWait" /\ once = "done"
  /\ Return(k, "ok")
  /\ UNCHANGED <<readers, shutdown, queue, writer, log, wakeups, history>>

-----------------------------------------------------------------------------
(* The writer: writerLoop, gather and drain.                               *)

Writer(from, to) == wpc = from /\ wpc' = to

TakeFirst ==
  /\ queue # << >>
  /\ batch' = Append(batch, Head(queue))
  /\ queue' = Tail(queue)

\* Mutant: a group commit of one too many.
FullPlusOne == Len(batch) > BatchSize

Full == Len(batch) >= BatchSize

TakeRequest ==
  /\ Writer("select", "gather")
  /\ TakeFirst
  /\ UNCHANGED <<calls, readers, shutdown, draining, outcome, serving, log, wakeups,
                 history>>

GatherMore ==
  /\ Writer("gather", "gather")
  /\ ~Full
  /\ TakeFirst
  /\ UNCHANGED <<calls, readers, shutdown, draining, outcome, serving, log, wakeups,
                 history>>

\* SyncBatched lingers for more requests until its timer fires; drain does not.
Lingers == SyncPolicy = "SyncBatched" /\ ~draining

GatherEnd ==
  /\ Writer("gather", "commit")
  /\ Lingers \/ queue = << >> \/ Full
  /\ UNCHANGED <<calls, readers, shutdown, queue, draining, batch, outcome, serving,
                 log, wakeups, history>>

ObserveClosed ==
  /\ Writer("select", "drain")
  /\ closed
  /\ draining' = TRUE
  /\ UNCHANGED <<calls, readers, shutdown, queue, batch, outcome, serving, log,
                 wakeups, history>>

DrainNext ==
  /\ Writer("drain", "gather")
  /\ TakeFirst
  /\ UNCHANGED <<calls, readers, shutdown, draining, outcome, serving, log, wakeups,
                 history>>

\* Mutant: wakeFollowers wakes nobody.
NobodyWoken == {}

AllWoken == waiters

wakeFollowers ==
  /\ notified' = notified \cup AllWoken
  /\ waiters' = waiters \ AllWoken

\* Mutant: nothing is fsynced.
NothingFlushed == synced

\* An fsync of the active segment covers every record written: the others are
\* sealed.
AllFlushed == nextLSN - 1

\* Mutant: the writer leaves without draining.
DrainNothing == TRUE

Drained == queue = << >>

\* The queue is empty: finalFlush, which only logs an error, then wakeFollowers.
FinalFlush ==
  /\ Writer("drain", "exited")
  /\ Drained
  /\ \/ synced' = AllFlushed
     \/ "sync" \in Failures /\ UNCHANGED synced
  /\ wakeFollowers
  /\ UNCHANGED <<calls, readers, shutdown, queue, draining, batch, outcome, serving,
                 nextLSN, lastLSN, lsn, history>>

-----------------------------------------------------------------------------
(* commit: the requests in order, then one fsync, then the answers.        *)

Pending == batch[Len(outcome) + 1]

Skipped(a) == a \in done

\* A request that fails may have written some of its records.
CommitRequest ==
  /\ wpc = "commit" /\ Len(outcome) < Len(batch)
  /\ \/ /\ Skipped(Pending)
        /\ outcome' = Append(outcome, "canceled")
        /\ UNCHANGED <<nextLSN, lsn>>
     \/ /\ ~Skipped(Pending)
        /\ outcome' = Append(outcome, "ok")
        /\ lsn' = [lsn EXCEPT ![Pending] = nextLSN]
        /\ nextLSN' = nextLSN + 1
     \/ /\ ~Skipped(Pending) /\ "write" \in Failures
        /\ outcome' = Append(outcome, "failed")
        /\ nextLSN' \in {nextLSN, nextLSN + 1}
        /\ UNCHANGED lsn
  /\ UNCHANGED <<calls, readers, shutdown, queue, wpc, draining, batch, serving,
                 lastLSN, synced, wakeups, history>>

WroteAny == \E i \in DOMAIN outcome : outcome[i] = "ok"

\* Mutant: the requests of a commit that failed to fsync succeed.
FailureIgnored == outcome

FailedOutcome ==
  [i \in DOMAIN outcome |-> IF outcome[i] = "ok" THEN "failed" ELSE outcome[i]]

FinishBatch ==
  /\ Writer("commit", "answer")
  /\ Len(outcome) = Len(batch)
  /\ IF ~WroteAny
     THEN UNCHANGED <<outcome, lastLSN, synced, wakeups>>
     ELSE \/ /\ synced' = IF SyncPolicy = "SyncInterval" THEN synced ELSE AllFlushed
             /\ lastLSN' = nextLSN - 1
             /\ wakeFollowers
             /\ UNCHANGED outcome
          \/ /\ SyncPolicy # "SyncInterval" /\ "sync" \in Failures
             /\ outcome' = FailedOutcome
             /\ UNCHANGED <<lastLSN, synced, wakeups>>
  /\ UNCHANGED <<calls, readers, shutdown, queue, draining, batch, serving, nextLSN,
                 lsn, history>>

\* Mutant: only the requests that were written are answered.
WrittenOnly == {i \in DOMAIN batch : outcome[i] # "canceled"}

ToAnswer == DOMAIN batch

AnswerBatch ==
  /\ Writer("answer", IF draining THEN "drain" ELSE "select")
  /\ reply' = [p \in DOMAIN reply |->
                 IF \E i \in ToAnswer : batch[i] = p
                 THEN outcome[CHOOSE i \in ToAnswer : batch[i] = p] ELSE reply[p]]
  /\ batch' = << >>
  /\ outcome' = << >>
  /\ UNCHANGED <<pc, result, done, readers, shutdown, queue, draining, serving, log,
                 wakeups, history>>

-----------------------------------------------------------------------------
(* The other requests the writer takes.                                    *)

\* The channels are unbuffered: a request is handed over when the writer
\* takes it.
Accept(p) ==
  /\ p \in Submitters /\ pc[p] = "submitting"
  /\ Writer("select", "serve")
  /\ serving' = p
  /\ Goto(p, "waiting")
  /\ UNCHANGED <<result, done, reply, readers, shutdown, queue, draining, batch,
                 outcome, log, wakeups, history>>

\* syncActive; what doTruncate and doCut do to the log is in WalStore.
Serve ==
  /\ Writer("serve", "select")
  /\ \/ /\ reply' = [reply EXCEPT ![serving] = "ok"]
        /\ synced' = IF serving \in Cutters THEN synced ELSE AllFlushed
     \/ /\ "sync" \in Failures
        /\ reply' = [reply EXCEPT ![serving] = "failed"]
        /\ UNCHANGED synced
  /\ serving' = Nobody
  /\ UNCHANGED <<pc, result, done, readers, shutdown, queue, draining, batch, outcome,
                 nextLSN, lastLSN, lsn, wakeups, history>>

\* Mutant: every subscriber is parked.
AlwaysParked(f) == FALSE

Behind(f) == lastLSN > pos[f]

\* handleSubscribe.
Subscribe(f) ==
  /\ pc[f] = "submitting"
  /\ wpc = "select"
  /\ Goto(f, "parked")
  /\ IF Behind(f) THEN notified' = notified \cup {f} /\ UNCHANGED waiters
     ELSE waiters' = waiters \cup {f} /\ UNCHANGED notified
  /\ UNCHANGED <<result, done, reply, readers, shutdown, queue, writer, log, history>>

-----------------------------------------------------------------------------

Calling ==
  \/ \E a \in Appenders :
       CallAppend(a) \/ EnterEnqueue(a) \/ Send(a) \/ SendCanceled(a)
  \/ \E p \in Syncers \cup Cutters : CallOp(p) \/ EnterOp(p)
  \/ \E p \in Callers : ContextDone(p) \/ Answered(p) \/ NotAccepted(p)

Following == \E f \in Followers : ReadToTail(f) \/ Woken(f) \/ ParkedCanceled(f)

Flushing == Tick \/ Flushed \/ FlusherExits

Closing == \E k \in Closers :
  CallClose(k) \/ LockAndMark(k) \/ CloseChannel(k) \/ Release(k) \/ OnceDone(k)

\* The select of writerLoop.
Select ==
  \/ TakeRequest \/ ObserveClosed
  \/ \E p \in Submitters : Accept(p)
  \/ \E f \in Followers : Subscribe(f)

Work ==
  \/ GatherMore \/ GatherEnd \/ CommitRequest \/ FinishBatch \/ AnswerBatch
  \/ Serve \/ DrainNext \/ FinalFlush

Next == Calling \/ Following \/ Flushing \/ Closing \/ Select \/ Work

(***************************************************************************)
(* A goroutine that can go on does.  A select picks among the arms that    *)
(* are ready at random, so an arm that is ready again and again is picked; *)
(* that is assumed of the writer's select, but not of its arm for the      *)
(* flusher, on which no caller depends, and of the flusher's.  Nobody has  *)
(* to call anything, no context has to end and no fsync to be asked for.   *)
(***************************************************************************)
Fairness ==
  /\ WF_vars(Work)
  /\ SF_vars(TakeRequest) /\ SF_vars(ObserveClosed)
  /\ \A p \in Syncers \cup Cutters : SF_vars(Accept(p))
  /\ \A f \in Followers : SF_vars(Subscribe(f))
  /\ \A a \in Appenders : WF_vars(EnterEnqueue(a) \/ Send(a) \/ Answered(a))
  /\ \A p \in Syncers \cup Cutters :
       WF_vars(EnterOp(p) \/ NotAccepted(p) \/ Answered(p))
  /\ \A f \in Followers : WF_vars(ReadToTail(f) \/ NotAccepted(f) \/ Woken(f))
  /\ WF_vars(Flushed)
  /\ SyncPolicy = "SyncInterval" => SF_vars(FlusherExits)
  /\ \A k \in Closers :
       WF_vars(LockAndMark(k) \/ CloseChannel(k) \/ Release(k) \/ OnceDone(k))

Spec == Init /\ [][Next]_vars /\ Fairness
-----------------------------------------------------------------------------

Steps == {"idle", "entering", "sending", "submitting", "waiting", "reading", "parked",
          "stopped", "locking", "closing", "stopping", "onceWait", "ticking", "exited"}
Replies == {"none", "ok", "canceled", "failed"}

CallsTypeOK ==
  /\ pc \in [Callers \cup {Flusher} -> Steps]
  /\ result \in [Callers -> Replies \cup {"closed"}]
  /\ done \subseteq Callers
  /\ reply \in [Callers \cup {Flusher} -> Replies]
  /\ readers \subseteq Appenders
  /\ isClosed \in BOOLEAN /\ closed \in BOOLEAN
  /\ once \in {"new", "running", "done"}

WriterTypeOK ==
  /\ queue \in Seq(Appenders) /\ Len(queue) <= QueueSize
  /\ wpc \in {"select", "gather", "commit", "answer", "serve", "drain", "exited"}
  /\ draining \in BOOLEAN
  /\ batch \in Seq(Appenders) /\ Len(batch) <= BatchSize
  /\ outcome \in Seq(Replies) /\ Len(outcome) <= Len(batch)
  /\ serving \in Submitters \cup {Nobody}
  /\ waiters \subseteq Followers /\ notified \subseteq Followers

LogTypeOK ==
  /\ nextLSN \in Nat \ {0} /\ lastLSN \in Nat /\ synced \in Nat
  /\ lsn \in [Appenders -> Nat]
  /\ pos \in [Followers -> Nat]
  /\ target \in [Syncers -> Nat]
  /\ appends \in 0..MaxAppends

(***************************************************************************)
(* Every field keeps its type; the queue and the group commit stay within  *)
(* their limits, and commit answers no request it does not have.           *)
(***************************************************************************)
TypeOK == CallsTypeOK /\ WriterTypeOK /\ LogTypeOK

Copies(s, a) == Cardinality({i \in DOMAIN s : s[i] = a})

(***************************************************************************)
(* The request of a caller that waits for its result is in the queue, in   *)
(* the group commit, or answered, and in only one of them: no request is   *)
(* lost or written twice, and none is answered twice (the second answer    *)
(* would block the writer).                                                *)
(***************************************************************************)
RequestsConserved ==
  \A a \in Appenders :
    Copies(queue, a) + Copies(batch, a)
      + (IF pc[a] = "waiting" /\ reply[a] # "none" THEN 1 ELSE 0)
    = (IF pc[a] = "waiting" THEN 1 ELSE 0)

(***************************************************************************)
(* drain is the last of the queue: once the writer is gone no request is   *)
(* in the queue, and no appender can still put one there.                  *)
(***************************************************************************)
DrainIsComplete ==
  wpc = "exited" => queue = << >> /\ \A a \in Appenders : pc[a] # "sending"

(***************************************************************************)
(* A caller that was told its context had ended has written nothing: it    *)
(* may append the record again without a duplicate.                        *)
(***************************************************************************)
CanceledNotWritten ==
  \A a \in Appenders : result[a] = "canceled" => lsn[a] = 0

(***************************************************************************)
(* An append that returned its LSN can be read (LastLSN has reached it),   *)
(* and is on stable storage unless the flusher owns durability.            *)
(***************************************************************************)
AckedPublished ==
  \A a \in Appenders : result[a] = "ok" =>
    /\ lsn[a] \in 1..lastLSN
    /\ SyncPolicy # "SyncInterval" => lsn[a] <= synced

(***************************************************************************)
(* A Sync that returned nil covers all that was committed when it was      *)
(* called, and a Close all that was acknowledged before it returned, the   *)
(* requests it found in the queue included.                                *)
(***************************************************************************)
SyncCovers ==
  \A s \in Syncers : result[s] = "ok" => target[s] <= synced

CloseCovers ==
  once = "done" /\ "sync" \notin Failures =>
    \A a \in Appenders : lsn[a] <= synced

(***************************************************************************)
(* No wakeup is lost between a follower's reading of the tail and its      *)
(* subscription: one that is parked, and will not be woken, has consumed   *)
(* every commit, and the writer still knows of it.                         *)
(***************************************************************************)
NoLostWakeup ==
  \A f \in Followers : pc[f] = "parked" /\ f \notin notified =>
    f \in waiters /\ lastLSN <= pos[f]

-----------------------------------------------------------------------------
(* Liveness.                                                               *)

(***************************************************************************)
(* AppendBatch waits for its result on nothing else: every request that    *)
(* entered the queue is answered, by a commit or by the drain of Close.    *)
(***************************************************************************)
AppendReturns ==
  \A a \in Appenders : pc[a] = "waiting" ~> pc[a] = "idle"

(***************************************************************************)
(* Sync, Truncate, CutOffset and Close return.  The first three are        *)
(* overtaken by Close, and compete for the writer with appends and         *)
(* flushes.  Close waits for the appenders that hold closeMu at a full     *)
(* queue, for the drain, and for a flusher that may itself be waiting for  *)
(* the writer; a second Close waits for the first.                         *)
(***************************************************************************)
CallsReturn ==
  \A p \in Syncers \cup Cutters \cup Closers : pc[p] # "idle" ~> pc[p] = "idle"

(***************************************************************************)
(* A follower gets every commit unless it is stopped.                      *)
(***************************************************************************)
CommitsDelivered ==
  \A f \in Followers : \A n \in 1..MaxAppends :
    lastLSN >= n ~> pos[f] >= n \/ pc[f] = "stopped"

\* The Records loop of every follower ends once the WAL is closed.
FollowersEnd ==
  closed ~> \A f \in Followers : pc[f] = "stopped"
=============================================================================
