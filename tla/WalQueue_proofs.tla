-------------------------- MODULE WalQueue_proofs --------------------------
(***************************************************************************)
(* Safety of the queue in front of the writer, for every number of         *)
(* goroutines, batch size, sync policy and set of failures: types, the     *)
(* conservation of requests, the completeness of drain, wakeups, and what  *)
(* an answer promises its caller.                                          *)
(* A step lemma has one step per action that changes its variables; its    *)
(* last case is all the other actions.                                     *)
(***************************************************************************)
EXTENDS WalQueue, FiniteSetTheorems, TLAPS

-----------------------------------------------------------------------------
(* The inductive invariant.                                                *)

\* What the writer has in its hands at each of its steps.
BatchOK ==
  /\ wpc \in {"select", "serve", "drain", "exited"} => batch = << >>
  /\ wpc \in {"select", "serve", "drain", "exited", "gather"} => outcome = << >>
  /\ wpc = "answer" => Len(outcome) = Len(batch)
  /\ outcome \in Seq({"ok", "canceled", "failed"})
  /\ wpc = "serve" => serving \in Submitters

\* How closeMu orders the sends before the end of the queue.
ClosingOK ==
  /\ readers = {a \in Appenders : pc[a] = "sending"}
  /\ isClosed => readers = {}
  /\ \A k \in Closers : pc[k] = "closing" => isClosed
  /\ closed => isClosed
  /\ draining \/ wpc \in {"drain", "exited"} => closed
  /\ wpc = "exited" => queue = << >>

\* A result is on the channel of a call only while the call waits for it.
AnswersOK ==
  \A a \in Appenders : reply[a] # "none" => pc[a] = "waiting"

QueueInv ==
  TypeOK /\ BatchOK /\ ClosingOK /\ AnswersOK /\ RequestsConserved /\ NoLostWakeup

\* RequestsConserved for one appender.
Kept(a) ==
  Copies(queue, a) + Copies(batch, a)
    + (IF pc[a] = "waiting" /\ reply[a] # "none" THEN 1 ELSE 0)
  = (IF pc[a] = "waiting" THEN 1 ELSE 0)

-----------------------------------------------------------------------------
(* Sequences of requests.                                                  *)

\* Where a occurs in s.
Places(s, a) == {i \in DOMAIN s : s[i] = a}

(***************************************************************************)
(* An element has finitely many places in a sequence.                      *)
(***************************************************************************)
LEMMA PlacesFinite ==
  ASSUME NEW S, NEW s \in Seq(S), NEW a
  PROVE  IsFiniteSet(Places(s, a)) /\ Cardinality(Places(s, a)) \in Nat
<1>1. DOMAIN s = 1..Len(s) /\ Len(s) \in Int
  OBVIOUS
<1>2. IsFiniteSet(1..Len(s))
  BY <1>1, FS_Interval
<1>3. Places(s, a) \in SUBSET (1..Len(s))
  BY <1>1 DEF Places
<1>4. IsFiniteSet(Places(s, a))
  BY <1>2, <1>3, FS_Subset
<1>. QED
  BY <1>4, FS_CardinalityType

(***************************************************************************)
(* How often a occurs in s: never exactly if it is not there, once more    *)
(* or less when an element is appended or taken.                           *)
(***************************************************************************)
LEMMA CopiesNat ==
  ASSUME NEW S, NEW s \in Seq(S), NEW a
  PROVE  /\ Copies(s, a) \in Nat
         /\ Copies(s, a) = 0 <=> \A i \in DOMAIN s : s[i] # a
<1>1. Copies(s, a) = Cardinality(Places(s, a))
  BY DEF Copies, Places
<1>2. Cardinality(Places(s, a)) = 0 <=> Places(s, a) = {}
  BY PlacesFinite, FS_EmptySet
<1>3. Places(s, a) = {} <=> \A i \in DOMAIN s : s[i] # a
  BY DEF Places
<1>. QED
  BY <1>1, <1>2, <1>3, PlacesFinite

(***************************************************************************)
(* Nothing occurs in the empty sequence: what AnswerBatch leaves of a      *)
(* batch.                                                                  *)
(***************************************************************************)
LEMMA CopiesEmpty ==
  ASSUME NEW a
  PROVE  Copies(<< >>, a) = 0
<1>1. << >> \in Seq({}) /\ DOMAIN << >> = {}
  OBVIOUS
<1>. QED
  BY <1>1, CopiesNat

(***************************************************************************)
(* Appending an element adds one occurrence of it: a send on requestCh, or *)
(* a request that joins the batch.                                         *)
(***************************************************************************)
LEMMA CopiesAppend ==
  ASSUME NEW S, NEW s \in Seq(S), NEW e \in S, NEW a
  PROVE  Copies(Append(s, e), a) = Copies(s, a) + (IF e = a THEN 1 ELSE 0)
<1>1. Len(s) + 1 \notin Places(s, a)
  BY DEF Places
<1>2. Places(Append(s, e), a) =
        IF e = a THEN Places(s, a) \cup {Len(s) + 1} ELSE Places(s, a)
  BY DEF Places
<1>3. Cardinality(Places(s, a) \cup {Len(s) + 1}) = Cardinality(Places(s, a)) + 1
  BY <1>1, PlacesFinite, FS_AddElement
<1>4. /\ Copies(s, a) = Cardinality(Places(s, a))
      /\ Copies(Append(s, e), a) = Cardinality(Places(Append(s, e), a))
  BY DEF Copies, Places
<1>. QED
  BY <1>2, <1>3, <1>4, PlacesFinite

(***************************************************************************)
(* Taking the head removes one occurrence of it: a receive from requestCh. *)
(***************************************************************************)
LEMMA CopiesTail ==
  ASSUME NEW S, NEW s \in Seq(S), s # << >>, NEW a
  PROVE  Copies(Tail(s), a) = Copies(s, a) - (IF Head(s) = a THEN 1 ELSE 0)
<1>. DEFINE I == Places(s, a)
            J == Places(Tail(s), a)
            shift == [i \in J |-> i + 1]
<1>1. /\ Len(s) \in Nat \ {0} /\ DOMAIN s = 1..Len(s) /\ Head(s) = s[1]
      /\ Tail(s) \in Seq(S) /\ DOMAIN Tail(s) = 1..(Len(s) - 1)
      /\ \A i \in DOMAIN Tail(s) : Tail(s)[i] = s[i + 1]
  OBVIOUS
<1>2. IsFiniteSet(I) /\ Cardinality(I) \in Nat /\ IsFiniteSet(J)
  BY <1>1, PlacesFinite
<1>3. ExistsBijection(J, I \ {1})
  <2>1. shift \in [J -> I \ {1}]
    BY <1>1 DEF Places
  <2>2. \A i, j \in J : shift[i] = shift[j] => i = j
    BY <1>1 DEF Places
  <2>3. \A i \in I \ {1} : i - 1 \in J /\ shift[i - 1] = i
    BY <1>1 DEF Places
  <2>4. shift \in Injection(J, I \ {1})
    BY <2>1, <2>2 DEF Injection, IsInjective
  <2>5. \A i \in I \ {1} : \E j \in J : shift[j] = i
    BY <2>3
  <2>6. shift \in Surjection(J, I \ {1})
    BY <2>1, <2>5 DEF Surjection
  <2>. QED
    BY <2>4, <2>6 DEF ExistsBijection, Bijection
<1>4. 1 \in I <=> Head(s) = a
  BY <1>1 DEF Places
<1>. HIDE DEF I, J
<1>5. Cardinality(J) = Cardinality(I \ {1})
  BY <1>2, <1>3, FS_Bijection
<1>6. Cardinality(I \ {1}) = IF 1 \in I THEN Cardinality(I) - 1 ELSE Cardinality(I)
  BY <1>2, FS_RemoveElement
<1>7. Copies(s, a) = Cardinality(I) /\ Copies(Tail(s), a) = Cardinality(J)
  BY DEF I, J, Places, Copies
<1>. QED
  BY <1>2, <1>4, <1>5, <1>6, <1>7

-----------------------------------------------------------------------------
(* Types.                                                                  *)

(***************************************************************************)
(* Every step of a call, of Close or of an answer keeps the types of the   *)
(* callers' state.                                                         *)
(***************************************************************************)
LEMMA CallsTypeStep ==
  ASSUME TypeOK, BatchOK, [Next]_vars
  PROVE  CallsTypeOK'
<1>. USE WalQueueAssumption
  DEF TypeOK, CallsTypeOK, Callers, Steps, Replies, calls, shutdown, writer,
      log, wakeups, history
<1>1. ASSUME NEW a \in Appenders, CallAppend(a)
      PROVE  CallsTypeOK'
  BY <1>1 DEF CallAppend, Call, Goto
<1>2. ASSUME NEW a \in Appenders, EnterEnqueue(a)
      PROVE  CallsTypeOK'
  BY <1>2 DEF EnterEnqueue, Goto, Return, HeldWhileSending
<1>3. ASSUME NEW a \in Appenders, Send(a)
      PROVE  CallsTypeOK'
  BY <1>3 DEF Send, Goto, Released
<1>4. ASSUME NEW a \in Appenders, SendCanceled(a)
      PROVE  CallsTypeOK'
  BY <1>4 DEF SendCanceled, Return
<1>5. ASSUME NEW p \in Syncers \cup Cutters, CallOp(p)
      PROVE  CallsTypeOK'
  BY <1>5 DEF CallOp, Call, Goto
<1>6. ASSUME NEW p \in Syncers \cup Cutters, EnterOp(p)
      PROVE  CallsTypeOK'
  BY <1>6 DEF EnterOp, Goto, Return
<1>7. ASSUME NEW p \in Callers, ContextDone(p)
      PROVE  CallsTypeOK'
  BY <1>7 DEF ContextDone
<1>8. ASSUME NEW p \in Callers, Answered(p)
      PROVE  CallsTypeOK'
  BY <1>8 DEF Answered, Return, Received
<1>9. ASSUME NEW p \in Callers, NotAccepted(p)
      PROVE  CallsTypeOK'
  BY <1>9 DEF NotAccepted, Return
<1>10. ASSUME NEW f \in Followers, ReadToTail(f)
      PROVE  CallsTypeOK'
  BY <1>10 DEF ReadToTail, Goto
<1>11. ASSUME NEW f \in Followers, Woken(f)
      PROVE  CallsTypeOK'
  BY <1>11 DEF Woken, Goto
<1>12. ASSUME NEW f \in Followers, ParkedCanceled(f)
      PROVE  CallsTypeOK'
  BY <1>12 DEF ParkedCanceled, Return
<1>13. CASE Tick
  BY <1>13 DEF Tick, Goto
<1>14. CASE Flushed
  BY <1>14 DEF Flushed, Goto
<1>15. CASE FlusherExits
  BY <1>15 DEF FlusherExits, Goto
<1>16. ASSUME NEW k \in Closers, CallClose(k)
      PROVE  CallsTypeOK'
  BY <1>16 DEF CallClose, Goto
<1>17. ASSUME NEW k \in Closers, LockAndMark(k)
      PROVE  CallsTypeOK'
  BY <1>17 DEF LockAndMark, Goto
<1>18. ASSUME NEW k \in Closers, CloseChannel(k)
      PROVE  CallsTypeOK'
  BY <1>18 DEF CloseChannel, Goto
<1>19. ASSUME NEW k \in Closers, Release(k)
      PROVE  CallsTypeOK'
  BY <1>19 DEF Release, Return
<1>20. ASSUME NEW k \in Closers, OnceDone(k)
      PROVE  CallsTypeOK'
  BY <1>20 DEF OnceDone, Return
<1>21. ASSUME NEW p \in Submitters, Accept(p)
      PROVE  CallsTypeOK'
  BY <1>21 DEF Accept, Writer, Goto
<1>22. ASSUME NEW f \in Followers, Subscribe(f)
      PROVE  CallsTypeOK'
  BY <1>22 DEF Subscribe, Goto
<1>23. CASE AnswerBatch
  <2>1. /\ outcome \in Seq({"ok", "canceled", "failed"})
        /\ DOMAIN outcome = DOMAIN batch
    BY <1>23 DEF AnswerBatch, Writer, BatchOK, WriterTypeOK
  <2>2. ASSUME NEW p \in DOMAIN reply, \E i \in ToAnswer : batch[i] = p
        PROVE  outcome[CHOOSE i \in ToAnswer : batch[i] = p] \in Replies
    BY <2>1, <2>2 DEF ToAnswer, WriterTypeOK
  <2>3. reply' \in [Callers \cup {Flusher} -> Replies]
    BY <1>23, <2>2 DEF AnswerBatch
  <2>. QED
    BY <1>23, <2>3 DEF AnswerBatch
<1>24. CASE Serve
  BY <1>24 DEF Serve, Writer, AllFlushed
<1>25. CASE UNCHANGED <<pc, result, done, reply, readers, isClosed, closed, once>>
  BY <1>25
<1>. QED
  BY <1>1, <1>2, <1>3, <1>4, <1>5, <1>6, <1>7, <1>8, <1>9, <1>10, <1>11, <1>12,
        <1>13, <1>14, <1>15, <1>16, <1>17, <1>18, <1>19, <1>20, <1>21, <1>22,
        <1>23, <1>24, <1>25
  DEF Next, Calling, Following, Flushing, Closing, Select, Work, vars, calls,
        shutdown, writer, log, wakeups, history, TakeRequest, ObserveClosed,
        GatherMore, GatherEnd, CommitRequest, FinishBatch, DrainNext, FinalFlush
(***************************************************************************)
(* Every step keeps the types of the queue, the batch and the writer's     *)
(* locals, and the limits of the queue (2 * batchSize) and of a batch.     *)
(***************************************************************************)
LEMMA WriterTypeStep ==
  ASSUME TypeOK, BatchOK, [Next]_vars
  PROVE  WriterTypeOK'
<1>. USE WalQueueAssumption
  DEF TypeOK, WriterTypeOK, QueueSize, Replies, calls, shutdown, writer, log,
      wakeups, history
<1>1. ASSUME NEW a \in Appenders, Send(a)
      PROVE  WriterTypeOK'
  BY <1>1 DEF Send, Goto, Released
<1>2. ASSUME NEW f \in Followers, Woken(f)
      PROVE  WriterTypeOK'
  BY <1>2 DEF Woken, Goto
<1>3. CASE TakeRequest
  BY <1>3 DEF TakeRequest, Writer, TakeFirst, BatchOK
<1>4. CASE ObserveClosed
  BY <1>4 DEF ObserveClosed, Writer
<1>5. ASSUME NEW p \in Submitters, Accept(p)
      PROVE  WriterTypeOK'
  BY <1>5 DEF Accept, Writer, Goto
<1>6. ASSUME NEW f \in Followers, Subscribe(f)
      PROVE  WriterTypeOK'
  BY <1>6 DEF Subscribe, Goto
<1>7. CASE GatherMore
  BY <1>7 DEF GatherMore, Writer, TakeFirst, Full
<1>8. CASE GatherEnd
  BY <1>8 DEF GatherEnd, Writer
<1>9. CASE CommitRequest
  <2>1. PICK o \in {"ok", "canceled", "failed"} : outcome' = Append(outcome, o)
    BY <1>9 DEF CommitRequest
  <2>2. outcome' \in Seq(Replies) /\ Len(outcome') <= Len(batch)
    BY <1>9, <2>1 DEF CommitRequest
  <2>. QED
    BY <1>9, <2>2 DEF CommitRequest
<1>10. CASE FinishBatch
  BY <1>10
    DEF FinishBatch, Writer, FailedOutcome, wakeFollowers, AllWoken,
        AllFlushed
<1>11. CASE AnswerBatch
  BY <1>11 DEF AnswerBatch, Writer, ToAnswer
<1>12. CASE Serve
  BY <1>12 DEF Serve, Writer, AllFlushed
<1>13. CASE DrainNext
  BY <1>13 DEF DrainNext, Writer, TakeFirst, BatchOK
<1>14. CASE FinalFlush
  BY <1>14 DEF FinalFlush, Writer, wakeFollowers, AllWoken, AllFlushed, Drained
<1>15. CASE UNCHANGED <<queue, wpc, draining, batch, outcome, serving, waiters,
      notified>>
  BY <1>15
<1>. QED
  BY <1>1, <1>2, <1>3, <1>4, <1>5, <1>6, <1>7, <1>8, <1>9, <1>10, <1>11, <1>12,
        <1>13, <1>14, <1>15
  DEF Next, Calling, Following, Flushing, Closing, Select, Work, vars, calls,
        shutdown, writer, log, wakeups, history, CallAppend, EnterEnqueue,
        SendCanceled, CallOp, EnterOp, ContextDone, Answered, NotAccepted,
        ReadToTail, ParkedCanceled, Tick, Flushed, FlusherExits, CallClose,
        LockAndMark, CloseChannel, Release, OnceDone
(***************************************************************************)
(* Every step keeps LSNs natural numbers.                                  *)
(***************************************************************************)
LEMMA LogTypeStep ==
  ASSUME TypeOK, [Next]_vars
  PROVE  LogTypeOK'
<1>. USE WalQueueAssumption
  DEF TypeOK, LogTypeOK, WriterTypeOK, calls, shutdown, writer, log, wakeups,
      history
<1>1. ASSUME NEW a \in Appenders, CallAppend(a)
      PROVE  LogTypeOK'
  BY <1>1 DEF CallAppend, Call, Goto
<1>2. ASSUME NEW p \in Syncers \cup Cutters, CallOp(p)
      PROVE  LogTypeOK'
  BY <1>2 DEF CallOp, Call, Goto
<1>3. ASSUME NEW f \in Followers, ReadToTail(f)
      PROVE  LogTypeOK'
  BY <1>3 DEF ReadToTail, Goto
<1>4. CASE CommitRequest
  <2>1. nextLSN' \in {nextLSN, nextLSN + 1}
    BY <1>4 DEF CommitRequest
  <2>2. lsn' = lsn \/ lsn' = [lsn EXCEPT ![Pending] = nextLSN]
    BY <1>4 DEF CommitRequest
  <2>. QED
    BY <1>4, <2>1, <2>2 DEF CommitRequest
<1>5. CASE FinishBatch
  BY <1>5
    DEF FinishBatch, Writer, FailedOutcome, wakeFollowers, AllWoken,
        AllFlushed
<1>6. CASE Serve
  BY <1>6 DEF Serve, Writer, AllFlushed
<1>7. CASE FinalFlush
  BY <1>7 DEF FinalFlush, Writer, wakeFollowers, AllWoken, AllFlushed, Drained
<1>8. CASE UNCHANGED <<nextLSN, lastLSN, synced, lsn, pos, target, appends>>
  BY <1>8
<1>. QED
  BY <1>1, <1>2, <1>3, <1>4, <1>5, <1>6, <1>7, <1>8
  DEF Next, Calling, Following, Flushing, Closing, Select, Work, vars, calls,
        shutdown, writer, log, wakeups, history, EnterEnqueue, Send,
        SendCanceled, EnterOp, ContextDone, Answered, NotAccepted, Woken,
        ParkedCanceled, Tick, Flushed, FlusherExits, CallClose, LockAndMark,
        CloseChannel, Release, OnceDone, TakeRequest, ObserveClosed, Accept,
        Subscribe, GatherMore, GatherEnd, AnswerBatch, DrainNext
-----------------------------------------------------------------------------
(* The queue, Close and the wakeups.                                       *)

(***************************************************************************)
(* writerLoop and commit hold a batch exactly where they should: it is     *)
(* empty at the select, and has all its results when they are sent.        *)
(***************************************************************************)
LEMMA BatchStep ==
  ASSUME TypeOK, BatchOK, [Next]_vars
  PROVE  BatchOK'
<1>. USE WalQueueAssumption
  DEF TypeOK, WriterTypeOK, BatchOK, calls, shutdown, writer, log, wakeups,
      history
<1>1. CASE TakeRequest
  BY <1>1 DEF TakeRequest, Writer, TakeFirst
<1>2. CASE ObserveClosed
  BY <1>2 DEF ObserveClosed, Writer
<1>3. ASSUME NEW p \in Submitters, Accept(p)
      PROVE  BatchOK'
  BY <1>3 DEF Accept, Writer, Goto
<1>4. CASE GatherMore
  BY <1>4 DEF GatherMore, Writer, TakeFirst, Full
<1>5. CASE GatherEnd
  BY <1>5 DEF GatherEnd, Writer
<1>6. CASE CommitRequest
  <2>1. PICK o \in {"ok", "canceled", "failed"} : outcome' = Append(outcome, o)
    BY <1>6 DEF CommitRequest
  <2>. QED
    BY <1>6, <2>1 DEF CommitRequest
<1>7. CASE FinishBatch
  BY <1>7
    DEF FinishBatch, Writer, FailedOutcome, wakeFollowers, AllWoken,
        AllFlushed
<1>8. CASE AnswerBatch
  BY <1>8 DEF AnswerBatch, Writer, ToAnswer
<1>9. CASE Serve
  BY <1>9 DEF Serve, Writer, AllFlushed
<1>10. CASE DrainNext
  BY <1>10 DEF DrainNext, Writer, TakeFirst
<1>11. CASE FinalFlush
  BY <1>11 DEF FinalFlush, Writer, wakeFollowers, AllWoken, AllFlushed, Drained
<1>12. CASE UNCHANGED <<wpc, batch, outcome, serving>>
  BY <1>12
<1>. QED
  BY <1>1, <1>2, <1>3, <1>4, <1>5, <1>6, <1>7, <1>8, <1>9, <1>10, <1>11, <1>12
  DEF Next, Calling, Following, Flushing, Closing, Select, Work, vars, calls,
        shutdown, writer, log, wakeups, history, CallAppend, EnterEnqueue, Send,
        SendCanceled, CallOp, EnterOp, ContextDone, Answered, NotAccepted,
        ReadToTail, Woken, ParkedCanceled, Tick, Flushed, FlusherExits,
        CallClose, LockAndMark, CloseChannel, Release, OnceDone, Subscribe
(***************************************************************************)
(* enqueue's read lock orders its sends before Close's write lock: once    *)
(* isClosed is set nobody sends.                                           *)
(***************************************************************************)
LEMMA ClosingStep ==
  ASSUME TypeOK, ClosingOK, [Next]_vars
  PROVE  ClosingOK'
<1>. USE WalQueueAssumption
  DEF TypeOK, CallsTypeOK, WriterTypeOK, ClosingOK, Callers, calls, shutdown,
      writer, log, wakeups, history
<1>1. ASSUME NEW a \in Appenders, CallAppend(a)
      PROVE  ClosingOK'
  BY <1>1 DEF CallAppend, Call, Goto
<1>2. ASSUME NEW a \in Appenders, EnterEnqueue(a)
      PROVE  ClosingOK'
  BY <1>2 DEF EnterEnqueue, Goto, Return, HeldWhileSending
<1>3. ASSUME NEW a \in Appenders, Send(a)
      PROVE  ClosingOK'
  BY <1>3 DEF Send, Goto, Released
<1>4. ASSUME NEW a \in Appenders, SendCanceled(a)
      PROVE  ClosingOK'
  BY <1>4 DEF SendCanceled, Return
<1>5. ASSUME NEW p \in Syncers \cup Cutters, CallOp(p)
      PROVE  ClosingOK'
  BY <1>5 DEF CallOp, Call, Goto
<1>6. ASSUME NEW p \in Syncers \cup Cutters, EnterOp(p)
      PROVE  ClosingOK'
  BY <1>6 DEF EnterOp, Goto, Return
<1>7. ASSUME NEW p \in Callers, Answered(p)
      PROVE  ClosingOK'
  BY <1>7 DEF Answered, Return, Received
<1>8. ASSUME NEW p \in Callers, NotAccepted(p)
      PROVE  ClosingOK'
  BY <1>8 DEF NotAccepted, Return
<1>9. ASSUME NEW f \in Followers, ReadToTail(f)
      PROVE  ClosingOK'
  BY <1>9 DEF ReadToTail, Goto
<1>10. ASSUME NEW f \in Followers, Woken(f)
      PROVE  ClosingOK'
  BY <1>10 DEF Woken, Goto
<1>11. ASSUME NEW f \in Followers, ParkedCanceled(f)
      PROVE  ClosingOK'
  BY <1>11 DEF ParkedCanceled, Return
<1>12. CASE Tick
  BY <1>12 DEF Tick, Goto
<1>13. CASE Flushed
  BY <1>13 DEF Flushed, Goto
<1>14. CASE FlusherExits
  BY <1>14 DEF FlusherExits, Goto
<1>15. ASSUME NEW k \in Closers, CallClose(k)
      PROVE  ClosingOK'
  BY <1>15 DEF CallClose, Goto
<1>16. ASSUME NEW k \in Closers, LockAndMark(k)
      PROVE  ClosingOK'
  BY <1>16 DEF LockAndMark, Goto
<1>17. ASSUME NEW k \in Closers, CloseChannel(k)
      PROVE  ClosingOK'
  BY <1>17 DEF CloseChannel, Goto
<1>18. ASSUME NEW k \in Closers, Release(k)
      PROVE  ClosingOK'
  BY <1>18 DEF Release, Return
<1>19. ASSUME NEW k \in Closers, OnceDone(k)
      PROVE  ClosingOK'
  BY <1>19 DEF OnceDone, Return
<1>20. CASE TakeRequest
  BY <1>20 DEF TakeRequest, Writer, TakeFirst
<1>21. CASE ObserveClosed
  BY <1>21 DEF ObserveClosed, Writer
<1>22. ASSUME NEW p \in Submitters, Accept(p)
      PROVE  ClosingOK'
  BY <1>22 DEF Accept, Writer, Goto
<1>23. ASSUME NEW f \in Followers, Subscribe(f)
      PROVE  ClosingOK'
  BY <1>23 DEF Subscribe, Goto
<1>24. CASE GatherMore
  BY <1>24 DEF GatherMore, Writer, TakeFirst, Full
<1>25. CASE GatherEnd
  BY <1>25 DEF GatherEnd, Writer
<1>26. CASE FinishBatch
  BY <1>26
    DEF FinishBatch, Writer, FailedOutcome, wakeFollowers, AllWoken,
        AllFlushed
<1>27. CASE AnswerBatch
  BY <1>27 DEF AnswerBatch, Writer, ToAnswer
<1>28. CASE Serve
  BY <1>28 DEF Serve, Writer, AllFlushed
<1>29. CASE DrainNext
  BY <1>29 DEF DrainNext, Writer, TakeFirst
<1>30. CASE FinalFlush
  BY <1>30 DEF FinalFlush, Writer, wakeFollowers, AllWoken, AllFlushed, Drained
<1>31. CASE UNCHANGED <<pc, readers, isClosed, closed, draining, wpc, queue>>
  BY <1>31
<1>. QED
  BY <1>1, <1>2, <1>3, <1>4, <1>5, <1>6, <1>7, <1>8, <1>9, <1>10, <1>11, <1>12,
        <1>13, <1>14, <1>15, <1>16, <1>17, <1>18, <1>19, <1>20, <1>21, <1>22,
        <1>23, <1>24, <1>25, <1>26, <1>27, <1>28, <1>29, <1>30, <1>31
  DEF Next, Calling, Following, Flushing, Closing, Select, Work, vars, calls,
        shutdown, writer, log, wakeups, history, ContextDone, CommitRequest
(***************************************************************************)
(* commit sends a result only to a call that waits for it.                 *)
(***************************************************************************)
LEMMA AnswersStep ==
  ASSUME TypeOK, BatchOK, AnswersOK, RequestsConserved, [Next]_vars
  PROVE  AnswersOK'
<1>. USE WalQueueAssumption
  DEF TypeOK, CallsTypeOK, AnswersOK, Callers, Submitters, calls, shutdown,
      writer, log, wakeups, history
<1>1. ASSUME NEW a \in Appenders, CallAppend(a)
      PROVE  AnswersOK'
  BY <1>1 DEF CallAppend, Call, Goto
<1>2. ASSUME NEW a \in Appenders, EnterEnqueue(a)
      PROVE  AnswersOK'
  BY <1>2 DEF EnterEnqueue, Goto, Return, HeldWhileSending
<1>3. ASSUME NEW a \in Appenders, Send(a)
      PROVE  AnswersOK'
  BY <1>3 DEF Send, Goto, Released
<1>4. ASSUME NEW a \in Appenders, SendCanceled(a)
      PROVE  AnswersOK'
  BY <1>4 DEF SendCanceled, Return
<1>5. ASSUME NEW p \in Syncers \cup Cutters, CallOp(p)
      PROVE  AnswersOK'
  BY <1>5 DEF CallOp, Call, Goto
<1>6. ASSUME NEW p \in Syncers \cup Cutters, EnterOp(p)
      PROVE  AnswersOK'
  BY <1>6 DEF EnterOp, Goto, Return
<1>7. ASSUME NEW p \in Callers, Answered(p)
      PROVE  AnswersOK'
  BY <1>7 DEF Answered, Return, Received
<1>8. ASSUME NEW p \in Callers, NotAccepted(p)
      PROVE  AnswersOK'
  BY <1>8 DEF NotAccepted, Return
<1>9. ASSUME NEW f \in Followers, ReadToTail(f)
      PROVE  AnswersOK'
  BY <1>9 DEF ReadToTail, Goto
<1>10. ASSUME NEW f \in Followers, Woken(f)
      PROVE  AnswersOK'
  BY <1>10 DEF Woken, Goto
<1>11. ASSUME NEW f \in Followers, ParkedCanceled(f)
      PROVE  AnswersOK'
  BY <1>11 DEF ParkedCanceled, Return
<1>12. CASE Tick
  BY <1>12 DEF Tick, Goto
<1>13. CASE Flushed
  BY <1>13 DEF Flushed, Goto
<1>14. CASE FlusherExits
  BY <1>14 DEF FlusherExits, Goto
<1>15. ASSUME NEW k \in Closers, CallClose(k)
      PROVE  AnswersOK'
  BY <1>15 DEF CallClose, Goto
<1>16. ASSUME NEW k \in Closers, LockAndMark(k)
      PROVE  AnswersOK'
  BY <1>16 DEF LockAndMark, Goto
<1>17. ASSUME NEW k \in Closers, CloseChannel(k)
      PROVE  AnswersOK'
  BY <1>17 DEF CloseChannel, Goto
<1>18. ASSUME NEW k \in Closers, Release(k)
      PROVE  AnswersOK'
  BY <1>18 DEF Release, Return
<1>19. ASSUME NEW k \in Closers, OnceDone(k)
      PROVE  AnswersOK'
  BY <1>19 DEF OnceDone, Return
<1>20. ASSUME NEW p \in Submitters, Accept(p)
      PROVE  AnswersOK'
  BY <1>20 DEF Accept, Writer, Goto
<1>21. ASSUME NEW f \in Followers, Subscribe(f)
      PROVE  AnswersOK'
  BY <1>21 DEF Subscribe, Goto
<1>22. CASE AnswerBatch
  <2>. SUFFICES ASSUME NEW a \in Appenders, reply'[a] # reply[a]
                PROVE  pc[a] = "waiting"
    BY <1>22 DEF AnswerBatch
  <2>1. PICK i \in DOMAIN batch : batch[i] = a
    BY <1>22 DEF AnswerBatch, ToAnswer
  <2>2. Copies(batch, a) # 0 /\ Copies(batch, a) \in Nat /\ Copies(queue, a) \in Nat
    BY <2>1, CopiesNat DEF WriterTypeOK
  <2>. QED
    BY <2>2 DEF RequestsConserved
<1>23. CASE Serve
  BY <1>23 DEF Serve, Writer, AllFlushed, BatchOK
<1>24. CASE UNCHANGED <<pc, reply>>
  BY <1>24
<1>. QED
  BY <1>1, <1>2, <1>3, <1>4, <1>5, <1>6, <1>7, <1>8, <1>9, <1>10, <1>11, <1>12,
        <1>13, <1>14, <1>15, <1>16, <1>17, <1>18, <1>19, <1>20, <1>21, <1>22,
        <1>23, <1>24
  DEF Next, Calling, Following, Flushing, Closing, Select, Work, vars, calls,
        shutdown, writer, log, wakeups, history, ContextDone, TakeRequest,
        ObserveClosed, GatherMore, GatherEnd, CommitRequest, FinishBatch,
        DrainNext, FinalFlush
(***************************************************************************)
(* A follower that handleSubscribe parked stays in pendingWaiters, and up  *)
(* to date, until wakeFollowers closes its channel.                        *)
(***************************************************************************)
LEMMA WakeupStep ==
  ASSUME TypeOK, NoLostWakeup, [Next]_vars
  PROVE  NoLostWakeup'
<1>. USE WalQueueAssumption
  DEF TypeOK, CallsTypeOK, WriterTypeOK, LogTypeOK, NoLostWakeup, Callers,
      Submitters, calls, shutdown, writer, log, wakeups, history
<1>1. ASSUME NEW a \in Appenders, CallAppend(a)
      PROVE  NoLostWakeup'
  BY <1>1 DEF CallAppend, Call, Goto
<1>2. ASSUME NEW a \in Appenders, EnterEnqueue(a)
      PROVE  NoLostWakeup'
  BY <1>2 DEF EnterEnqueue, Goto, Return, HeldWhileSending
<1>3. ASSUME NEW a \in Appenders, Send(a)
      PROVE  NoLostWakeup'
  BY <1>3 DEF Send, Goto, Released
<1>4. ASSUME NEW a \in Appenders, SendCanceled(a)
      PROVE  NoLostWakeup'
  BY <1>4 DEF SendCanceled, Return
<1>5. ASSUME NEW p \in Syncers \cup Cutters, CallOp(p)
      PROVE  NoLostWakeup'
  BY <1>5 DEF CallOp, Call, Goto
<1>6. ASSUME NEW p \in Syncers \cup Cutters, EnterOp(p)
      PROVE  NoLostWakeup'
  BY <1>6 DEF EnterOp, Goto, Return
<1>7. ASSUME NEW p \in Callers, Answered(p)
      PROVE  NoLostWakeup'
  BY <1>7 DEF Answered, Return, Received
<1>8. ASSUME NEW p \in Callers, NotAccepted(p)
      PROVE  NoLostWakeup'
  BY <1>8 DEF NotAccepted, Return
<1>9. ASSUME NEW f \in Followers, ReadToTail(f)
      PROVE  NoLostWakeup'
  BY <1>9 DEF ReadToTail, Goto
<1>10. ASSUME NEW f \in Followers, Woken(f)
      PROVE  NoLostWakeup'
  BY <1>10 DEF Woken, Goto
<1>11. ASSUME NEW f \in Followers, ParkedCanceled(f)
      PROVE  NoLostWakeup'
  BY <1>11 DEF ParkedCanceled, Return
<1>12. CASE Tick
  BY <1>12 DEF Tick, Goto
<1>13. CASE Flushed
  BY <1>13 DEF Flushed, Goto
<1>14. CASE FlusherExits
  BY <1>14 DEF FlusherExits, Goto
<1>15. ASSUME NEW k \in Closers, CallClose(k)
      PROVE  NoLostWakeup'
  BY <1>15 DEF CallClose, Goto
<1>16. ASSUME NEW k \in Closers, LockAndMark(k)
      PROVE  NoLostWakeup'
  BY <1>16 DEF LockAndMark, Goto
<1>17. ASSUME NEW k \in Closers, CloseChannel(k)
      PROVE  NoLostWakeup'
  BY <1>17 DEF CloseChannel, Goto
<1>18. ASSUME NEW k \in Closers, Release(k)
      PROVE  NoLostWakeup'
  BY <1>18 DEF Release, Return
<1>19. ASSUME NEW k \in Closers, OnceDone(k)
      PROVE  NoLostWakeup'
  BY <1>19 DEF OnceDone, Return
<1>20. ASSUME NEW p \in Submitters, Accept(p)
      PROVE  NoLostWakeup'
  BY <1>20 DEF Accept, Writer, Goto
<1>21. ASSUME NEW f \in Followers, Subscribe(f)
      PROVE  NoLostWakeup'
  BY <1>21 DEF Subscribe, Goto, Behind
<1>22. CASE FinishBatch
  BY <1>22
    DEF FinishBatch, Writer, FailedOutcome, wakeFollowers, AllWoken,
        AllFlushed
<1>23. CASE FinalFlush
  BY <1>23 DEF FinalFlush, Writer, wakeFollowers, AllWoken, AllFlushed, Drained
<1>24. CASE UNCHANGED <<pc, notified, waiters, lastLSN, pos>>
  BY <1>24
<1>. QED
  BY <1>1, <1>2, <1>3, <1>4, <1>5, <1>6, <1>7, <1>8, <1>9, <1>10, <1>11, <1>12,
        <1>13, <1>14, <1>15, <1>16, <1>17, <1>18, <1>19, <1>20, <1>21, <1>22,
        <1>23, <1>24
  DEF Next, Calling, Following, Flushing, Closing, Select, Work, vars, calls,
        shutdown, writer, log, wakeups, history, ContextDone, TakeRequest,
        ObserveClosed, GatherMore, GatherEnd, CommitRequest, AnswerBatch, Serve,
        DrainNext

(***************************************************************************)
(* A receive from requestCh moves a request from the queue to the batch.   *)
(***************************************************************************)
LEMMA TakeFirstConserves ==
  ASSUME TypeOK, TakeFirst, NEW a \in Appenders
  PROVE  Copies(queue', a) + Copies(batch', a) = Copies(queue, a) + Copies(batch, a)
<1>1. queue \in Seq(Appenders) /\ batch \in Seq(Appenders) /\ Head(queue) \in Appenders
  BY DEF TypeOK, WriterTypeOK, TakeFirst
<1>2. Copies(queue', a) = Copies(queue, a) - (IF Head(queue) = a THEN 1 ELSE 0)
  BY <1>1, CopiesTail DEF TakeFirst
<1>3. Copies(batch', a) = Copies(batch, a) + (IF Head(queue) = a THEN 1 ELSE 0)
  BY <1>1, CopiesAppend DEF TakeFirst
<1>. QED
  BY <1>1, <1>2, <1>3, CopiesNat

(***************************************************************************)
(* No step loses or doubles the request of a waiting append: a send, a     *)
(* receive by gather or drain, and commit's answers move it along.         *)
(***************************************************************************)
LEMMA ConservedStep ==
  ASSUME TypeOK, BatchOK, AnswersOK, RequestsConserved, [Next]_vars
  PROVE  RequestsConserved'
<1>. SUFFICES ASSUME NEW b \in Appenders
              PROVE  Kept(b)'
  BY DEF RequestsConserved, Kept
<1>a. /\ Kept(b) /\ Copies(queue, b) \in Nat /\ Copies(batch, b) \in Nat
      /\ reply[b] # "none" => pc[b] = "waiting"
  BY CopiesNat DEF RequestsConserved, Kept, TypeOK, WriterTypeOK, AnswersOK
<1>. USE <1>a, WalQueueAssumption
  DEF Kept, CallsTypeOK, TypeOK, Callers, Submitters, calls, shutdown, writer,
      log, wakeups, history
<1>1. ASSUME NEW a \in Appenders, CallAppend(a)
      PROVE  Kept(b)'
  BY <1>1 DEF CallAppend, Call, Goto
<1>2. ASSUME NEW a \in Appenders, EnterEnqueue(a)
      PROVE  Kept(b)'
  BY <1>2 DEF EnterEnqueue, Goto, Return, HeldWhileSending
<1>3. ASSUME NEW a \in Appenders, Send(a)
      PROVE  Kept(b)'
  <2>1. Copies(queue', b) = Copies(queue, b) + (IF a = b THEN 1 ELSE 0)
    BY <1>3, CopiesAppend DEF Send, TypeOK, WriterTypeOK
  <2>2. a = b => reply[b] = "none"
    BY <1>3 DEF Send, AnswersOK
  <2>. QED
    BY <1>3, <2>1, <2>2 DEF Send, Goto, Released
<1>4. ASSUME NEW a \in Appenders, SendCanceled(a)
      PROVE  Kept(b)'
  BY <1>4 DEF SendCanceled, Return
<1>5. ASSUME NEW p \in Syncers \cup Cutters, CallOp(p)
      PROVE  Kept(b)'
  BY <1>5 DEF CallOp, Call, Goto
<1>6. ASSUME NEW p \in Syncers \cup Cutters, EnterOp(p)
      PROVE  Kept(b)'
  BY <1>6 DEF EnterOp, Goto, Return
<1>7. ASSUME NEW p \in Callers, Answered(p)
      PROVE  Kept(b)'
  BY <1>7 DEF Answered, Return, Received
<1>8. ASSUME NEW p \in Callers, NotAccepted(p)
      PROVE  Kept(b)'
  BY <1>8 DEF NotAccepted, Return
<1>9. ASSUME NEW f \in Followers, ReadToTail(f)
      PROVE  Kept(b)'
  BY <1>9 DEF ReadToTail, Goto
<1>10. ASSUME NEW f \in Followers, Woken(f)
      PROVE  Kept(b)'
  BY <1>10 DEF Woken, Goto
<1>11. ASSUME NEW f \in Followers, ParkedCanceled(f)
      PROVE  Kept(b)'
  BY <1>11 DEF ParkedCanceled, Return
<1>12. CASE Tick
  BY <1>12 DEF Tick, Goto
<1>13. CASE Flushed
  BY <1>13 DEF Flushed, Goto
<1>14. CASE FlusherExits
  BY <1>14 DEF FlusherExits, Goto
<1>15. ASSUME NEW k \in Closers, CallClose(k)
      PROVE  Kept(b)'
  BY <1>15 DEF CallClose, Goto
<1>16. ASSUME NEW k \in Closers, LockAndMark(k)
      PROVE  Kept(b)'
  BY <1>16 DEF LockAndMark, Goto
<1>17. ASSUME NEW k \in Closers, CloseChannel(k)
      PROVE  Kept(b)'
  BY <1>17 DEF CloseChannel, Goto
<1>18. ASSUME NEW k \in Closers, Release(k)
      PROVE  Kept(b)'
  BY <1>18 DEF Release, Return
<1>19. ASSUME NEW k \in Closers, OnceDone(k)
      PROVE  Kept(b)'
  BY <1>19 DEF OnceDone, Return
<1>20. CASE TakeRequest
  <2>1. UNCHANGED <<pc, reply>> /\ TakeFirst
    BY <1>20 DEF TakeRequest
  <2>. QED
    BY <2>1, TakeFirstConserves
<1>21. ASSUME NEW p \in Submitters, Accept(p)
      PROVE  Kept(b)'
  BY <1>21 DEF Accept, Writer, Goto
<1>22. ASSUME NEW f \in Followers, Subscribe(f)
      PROVE  Kept(b)'
  BY <1>22 DEF Subscribe, Goto
<1>23. CASE GatherMore
  <2>1. UNCHANGED <<pc, reply>> /\ TakeFirst
    BY <1>23 DEF GatherMore
  <2>. QED
    BY <2>1, TakeFirstConserves
<1>24. CASE AnswerBatch
  <2>1. UNCHANGED <<pc, queue>> /\ Copies(batch', b) = 0
    BY <1>24, CopiesEmpty DEF AnswerBatch
  <2>2. CASE \E i \in DOMAIN batch : batch[i] = b
    <3>1. Copies(batch, b) # 0
      BY <2>2, CopiesNat DEF TypeOK, WriterTypeOK
    <3>2. pc[b] = "waiting" /\ Copies(queue, b) = 0
      BY <3>1
    <3>3. \A i \in DOMAIN batch : outcome[i] # "none"
      <4>1. /\ outcome \in Seq({"ok", "canceled", "failed"})
            /\ DOMAIN outcome = DOMAIN batch
        BY <1>24 DEF AnswerBatch, Writer, BatchOK, WriterTypeOK
      <4>. QED
        BY <4>1
    <3>4. reply'[b] # "none"
      BY <1>24, <2>2, <3>3 DEF AnswerBatch, ToAnswer, Callers
    <3>. QED
      BY <2>1, <3>2, <3>4
  <2>3. CASE ~ \E i \in DOMAIN batch : batch[i] = b
    <3>1. Copies(batch, b) = 0
      BY <2>3, CopiesNat DEF TypeOK, WriterTypeOK
    <3>2. reply'[b] = reply[b]
      BY <1>24, <2>3 DEF AnswerBatch, ToAnswer, Callers
    <3>. QED
      BY <2>1, <3>1, <3>2
  <2>. QED
    BY <2>2, <2>3
<1>25. CASE Serve
  BY <1>25 DEF Serve, Writer, AllFlushed, BatchOK
<1>26. CASE DrainNext
  <2>1. UNCHANGED <<pc, reply>> /\ TakeFirst
    BY <1>26 DEF DrainNext
  <2>. QED
    BY <2>1, TakeFirstConserves
<1>27. CASE UNCHANGED <<pc, reply, queue, batch>>
  BY <1>27
<1>. QED
  BY <1>1, <1>2, <1>3, <1>4, <1>5, <1>6, <1>7, <1>8, <1>9, <1>10, <1>11, <1>12,
        <1>13, <1>14, <1>15, <1>16, <1>17, <1>18, <1>19, <1>20, <1>21, <1>22,
        <1>23, <1>24, <1>25, <1>26, <1>27
  DEF Next, Calling, Following, Flushing, Closing, Select, Work, vars, calls,
        shutdown, writer, log, wakeups, history, ContextDone, ObserveClosed,
        GatherEnd, CommitRequest, FinishBatch, FinalFlush

-----------------------------------------------------------------------------
(* The theorems.                                                           *)

(***************************************************************************)
(* Open starts with an empty queue and everyone idle.                      *)
(***************************************************************************)
LEMMA QueueInit ==
  Init => QueueInv
<1>. SUFFICES ASSUME Init PROVE QueueInv
  OBVIOUS
<1>. USE WalQueueAssumption DEF Init
<1>1. CallsTypeOK
  BY DEF CallsTypeOK, Callers, Steps, Replies
<1>2. QueueSize \in Nat /\ << >> \in Seq(Appenders) /\ << >> \in Seq(Replies)
  BY DEF QueueSize
<1>7. WriterTypeOK
  <2>1. /\ queue \in Seq(Appenders) /\ Len(queue) <= QueueSize
        /\ batch \in Seq(Appenders) /\ Len(batch) <= BatchSize
        /\ outcome \in Seq(Replies) /\ Len(outcome) <= Len(batch)
    BY <1>2
  <2>. QED
    BY <2>1 DEF WriterTypeOK
<1>8. LogTypeOK
  BY DEF LogTypeOK
<1>3. BatchOK /\ AnswersOK
  BY DEF BatchOK, AnswersOK, Callers
<1>4. ClosingOK
  BY DEF ClosingOK, Callers
<1>5. RequestsConserved
  BY CopiesEmpty DEF RequestsConserved, Callers
<1>6. NoLostWakeup
  BY DEF NoLostWakeup, Callers
<1>. QED
  BY <1>1, <1>3, <1>4, <1>5, <1>6, <1>7, <1>8 DEF QueueInv, TypeOK

(***************************************************************************)
(* Every step of every goroutine preserves the invariant of the queue.     *)
(***************************************************************************)
LEMMA QueueStep ==
  QueueInv /\ [Next]_vars => QueueInv'
  BY CallsTypeStep, WriterTypeStep, LogTypeStep, BatchStep, ClosingStep,
        AnswersStep,
     ConservedStep, WakeupStep
  DEF QueueInv, TypeOK

(***************************************************************************)
(* The invariant of the queue holds in every reachable state of the        *)
(* goroutines around writerLoop.                                           *)
(***************************************************************************)
THEOREM QueueInvariance == Spec => []QueueInv
  BY QueueInit, QueueStep, PTL DEF Spec

(***************************************************************************)
(* Every field of the queue and its callers keeps its type; requestCh      *)
(* holds at most 2 * batchSize requests and gather returns at most         *)
(* batchSize.                                                              *)
(***************************************************************************)
THEOREM QueueTypes == Spec => []TypeOK
  BY QueueInvariance, PTL DEF QueueInv

(***************************************************************************)
(* The request of every append that waits in AppendBatch is in requestCh,  *)
(* in the group commit or answered, and in only one of them.               *)
(***************************************************************************)
THEOREM Conservation == Spec => []RequestsConserved
  BY QueueInvariance, PTL DEF QueueInv

(***************************************************************************)
(* When writerLoop has returned, requestCh is empty and no appender is     *)
(* between its isClosed check and its send.                                *)
(***************************************************************************)
THEOREM CompleteDrain == Spec => []DrainIsComplete
<1>1. QueueInv => DrainIsComplete
  BY DEF QueueInv, ClosingOK, DrainIsComplete
<1>. QED
  BY <1>1, QueueInvariance, PTL

(***************************************************************************)
(* A follower that parks in awaitCommit has consumed every commit or will  *)
(* be woken: no wakeup is lost.                                            *)
(***************************************************************************)
THEOREM Wakeups == Spec => []NoLostWakeup
  BY QueueInvariance, PTL DEF QueueInv

-----------------------------------------------------------------------------
(* What an answer promises its caller: an acknowledged append is published *)
(* and durable, a canceled one has written nothing, Sync and Close cover   *)
(* what came before them.  The inductive invariant.                        *)

\* The LSNs in use, on stable storage and published are below the next one.
BoundsOK ==
  /\ lastLSN < nextLSN /\ synced < nextLSN
  /\ \A a \in Appenders : lsn[a] < nextLSN
  /\ \A s \in Syncers : target[s] <= lastLSN

\* The record of an appender can be read, and survives a power loss if the
\* policy fsyncs commits.
Backed(a) ==
  /\ lsn[a] \in 1..lastLSN
  /\ SyncPolicy # "SyncInterval" => lsn[a] <= synced

\* Nothing is written for a request before commit comes to it.
UnwrittenOK ==
  /\ \A a \in Appenders : pc[a] \in {"entering", "sending"} => lsn[a] = 0
  /\ \A i \in DOMAIN queue : lsn[queue[i]] = 0
  /\ \A i \in DOMAIN batch : i > Len(outcome) => lsn[batch[i]] = 0

\* What commit has noted of the requests it has gone through.
OutcomesOK ==
  \A i \in DOMAIN outcome :
    /\ outcome[i] = "canceled" => lsn[batch[i]] = 0
    /\ outcome[i] = "ok" => lsn[batch[i]] # 0
    /\ outcome[i] = "ok" /\ wpc = "answer" => Backed(batch[i])

\* A call that is under way has no result yet.
UnderWayOK ==
  /\ \A a \in Appenders : pc[a] \in {"idle", "entering", "sending", "waiting"}
  /\ \A p \in Appenders \cup Syncers :
       pc[p] \in {"entering", "sending", "submitting", "waiting"} => result[p] = "none"

\* What an answer means, on its channel and to the caller.
MeaningOK ==
  \A a \in Appenders :
    /\ reply[a] = "canceled" \/ result[a] = "canceled" => lsn[a] = 0
    /\ reply[a] = "ok" \/ result[a] = "ok" => Backed(a)

\* The writer answers only callers that wait.
HandedOverOK ==
  /\ \A p \in Submitters : reply[p] # "none" => pc[p] = "waiting"
  /\ wpc = "serve" => pc[serving] = "waiting" /\ reply[serving] = "none"

\* What the answer to a Sync means.
SyncedOK ==
  \A s \in Syncers :
    reply[s] = "ok" \/ result[s] = "ok" => target[s] <= synced

\* The final flush is the last the writer does, and Close waits for it.
ClosedOK ==
  /\ once = "done" => wpc = "exited"
  /\ wpc = "exited" /\ "sync" \notin Failures => nextLSN - 1 <= synced

Promises ==
  /\ QueueInv /\ BoundsOK /\ UnwrittenOK /\ OutcomesOK
  /\ UnderWayOK /\ MeaningOK /\ HandedOverOK /\ SyncedOK /\ ClosedOK

-----------------------------------------------------------------------------
(* Requests in the batch.                                                  *)

(***************************************************************************)
(* An element at two places occurs at least twice.                         *)
(***************************************************************************)
LEMMA CopiesTwice ==
  ASSUME NEW S, NEW s \in Seq(S), NEW i \in DOMAIN s, NEW j \in DOMAIN s,
         i # j, s[i] = s[j]
  PROVE  Copies(s, s[i]) >= 2
<1>1. {i, j} \in SUBSET Places(s, s[i])
  BY DEF Places
<1>2. Cardinality({i, j}) = 2
  <2>1. IsFiniteSet({i}) /\ Cardinality({i}) = 1 /\ j \notin {i}
    BY FS_Singleton
  <2>. DEFINE T == {i}
  <2>2. IsFiniteSet(T) /\ Cardinality(T) = 1 /\ j \notin T /\ {i, j} = T \cup {j}
    BY <2>1
  <2>. HIDE DEF T
  <2>3. Cardinality(T \cup {j}) = Cardinality(T) + 1
    BY <2>2, FS_AddElement
  <2>4. Cardinality({i, j}) = Cardinality(T \cup {j})
    BY <2>2, Zenon
  <2>. QED
    BY <2>2, <2>3, <2>4
<1>3. 2 <= Cardinality(Places(s, s[i]))
  BY <1>1, <1>2, PlacesFinite, FS_Subset
<1>. QED
  BY <1>3, PlacesFinite DEF Copies, Places

(***************************************************************************)
(* The appender of a request in the batch waits unanswered, and has no     *)
(* other request in the batch or in the queue.                             *)
(***************************************************************************)
LEMMA BatchApart ==
  ASSUME QueueInv, NEW i \in DOMAIN batch
  PROVE  /\ batch[i] \in Appenders
         /\ pc[batch[i]] = "waiting" /\ reply[batch[i]] = "none"
         /\ \A j \in DOMAIN batch : batch[j] = batch[i] => j = i
         /\ \A j \in DOMAIN queue : queue[j] # batch[i]
<1>. DEFINE a == batch[i]
<1>1. batch \in Seq(Appenders) /\ queue \in Seq(Appenders) /\ a \in Appenders
  BY DEF QueueInv, TypeOK, WriterTypeOK
<1>2. /\ Copies(batch, a) \in Nat \ {0} /\ Copies(queue, a) \in Nat
      /\ Copies(queue, a) = 0 <=> \A j \in DOMAIN queue : queue[j] # a
  BY <1>1, CopiesNat
<1>3. /\ pc[a] = "waiting" /\ reply[a] = "none"
      /\ Copies(batch, a) = 1 /\ Copies(queue, a) = 0
  BY <1>1, <1>2 DEF QueueInv, RequestsConserved
<1>4. \A j \in DOMAIN batch : batch[j] = batch[i] => j = i
  BY <1>1, <1>3, CopiesTwice
<1>. QED
  BY <1>1, <1>2, <1>3, <1>4
(***************************************************************************)
(* LSNs are assigned above all in use: lastLSN and what is on stable       *)
(* storage stay below nextLSN.                                             *)
(***************************************************************************)
LEMMA BoundsStep ==
  ASSUME Promises, [Next]_vars
  PROVE  BoundsOK'
<1>. USE WalQueueAssumption
  DEF Promises, BoundsOK, TypeOK, WriterTypeOK, LogTypeOK, QueueInv, calls,
      shutdown, writer, log, wakeups, history
<1>1. ASSUME NEW a \in Appenders, CallAppend(a)
      PROVE  BoundsOK'
  BY <1>1 DEF CallAppend, Call, Goto
<1>2. ASSUME NEW p \in Syncers \cup Cutters, CallOp(p)
      PROVE  BoundsOK'
  BY <1>2 DEF CallOp, Call, Goto
<1>3. CASE CommitRequest
  <2>1. nextLSN' \in {nextLSN, nextLSN + 1}
    BY <1>3 DEF CommitRequest
  <2>2. \/ lsn' = lsn
        \/ lsn' = [lsn EXCEPT ![Pending] = nextLSN] /\ nextLSN' = nextLSN + 1
    BY <1>3 DEF CommitRequest
  <2>3. ASSUME NEW a \in Appenders PROVE lsn'[a] < nextLSN'
    <3>1. lsn[a] \in Nat /\ lsn[a] < nextLSN /\ nextLSN \in Nat
      OBVIOUS
    <3>2. lsn'[a] = lsn[a] \/ (lsn'[a] = nextLSN /\ nextLSN' = nextLSN + 1)
      BY <2>2
    <3>. QED
      BY <2>1, <3>1, <3>2
  <2>. QED
    BY <1>3, <2>1, <2>3 DEF CommitRequest
<1>4. CASE FinishBatch
  BY <1>4
    DEF FinishBatch, Writer, FailedOutcome, wakeFollowers, AllWoken,
        AllFlushed
<1>5. CASE Serve
  BY <1>5 DEF Serve, Writer, AllFlushed
<1>6. CASE FinalFlush
  BY <1>6 DEF FinalFlush, Writer, wakeFollowers, AllWoken, AllFlushed, Drained
<1>7. CASE UNCHANGED <<nextLSN, lastLSN, synced, lsn, target>>
  BY <1>7
<1>. QED
  BY <1>1, <1>2, <1>3, <1>4, <1>5, <1>6, <1>7
  DEF Next, Calling, Following, Flushing, Closing, Select, Work, vars, calls,
        shutdown, writer, log, wakeups, history, EnterEnqueue, Send,
        SendCanceled, EnterOp, ContextDone, Answered, NotAccepted, ReadToTail,
        Woken, ParkedCanceled, Tick, Flushed, FlusherExits, CallClose,
        LockAndMark, CloseChannel, Release, OnceDone, TakeRequest,
        ObserveClosed, Accept, Subscribe, GatherMore, GatherEnd, AnswerBatch,
        DrainNext
(***************************************************************************)
(* Nothing is written for a request before commit comes to it.             *)
(***************************************************************************)
LEMMA UnwrittenStep ==
  ASSUME Promises, [Next]_vars
  PROVE  UnwrittenOK'
<1>. USE WalQueueAssumption
  DEF Promises, UnwrittenOK, CallsTypeOK, Callers, Submitters, TypeOK,
      WriterTypeOK, LogTypeOK, QueueInv, calls, shutdown, writer, log,
      wakeups, history
<1>1. ASSUME NEW a \in Appenders, CallAppend(a)
      PROVE  UnwrittenOK'
  BY <1>1 DEF CallAppend, Call, Goto
<1>2. ASSUME NEW a \in Appenders, EnterEnqueue(a)
      PROVE  UnwrittenOK'
  BY <1>2 DEF EnterEnqueue, Goto, Return, HeldWhileSending
<1>3. ASSUME NEW a \in Appenders, Send(a)
      PROVE  UnwrittenOK'
  <2>1. \A i \in DOMAIN queue' :
          (i \in DOMAIN queue /\ queue'[i] = queue[i]) \/ queue'[i] = a
    BY <1>3 DEF Send
  <2>. QED
    BY <1>3, <2>1 DEF Send, Goto
<1>4. ASSUME NEW a \in Appenders, SendCanceled(a)
      PROVE  UnwrittenOK'
  BY <1>4 DEF SendCanceled, Return
<1>5. ASSUME NEW p \in Syncers \cup Cutters, CallOp(p)
      PROVE  UnwrittenOK'
  BY <1>5 DEF CallOp, Call, Goto
<1>6. ASSUME NEW p \in Syncers \cup Cutters, EnterOp(p)
      PROVE  UnwrittenOK'
  BY <1>6 DEF EnterOp, Goto, Return
<1>7. ASSUME NEW p \in Callers, Answered(p)
      PROVE  UnwrittenOK'
  BY <1>7 DEF Answered, Return, Received
<1>8. ASSUME NEW p \in Callers, NotAccepted(p)
      PROVE  UnwrittenOK'
  BY <1>8 DEF NotAccepted, Return
<1>9. ASSUME NEW f \in Followers, ReadToTail(f)
      PROVE  UnwrittenOK'
  BY <1>9 DEF ReadToTail, Goto
<1>10. ASSUME NEW f \in Followers, Woken(f)
      PROVE  UnwrittenOK'
  BY <1>10 DEF Woken, Goto
<1>11. ASSUME NEW f \in Followers, ParkedCanceled(f)
      PROVE  UnwrittenOK'
  BY <1>11 DEF ParkedCanceled, Return
<1>12. CASE Tick
  BY <1>12 DEF Tick, Goto
<1>13. CASE Flushed
  BY <1>13 DEF Flushed, Goto
<1>14. CASE FlusherExits
  BY <1>14 DEF FlusherExits, Goto
<1>15. ASSUME NEW k \in Closers, CallClose(k)
      PROVE  UnwrittenOK'
  BY <1>15 DEF CallClose, Goto
<1>16. ASSUME NEW k \in Closers, LockAndMark(k)
      PROVE  UnwrittenOK'
  BY <1>16 DEF LockAndMark, Goto
<1>17. ASSUME NEW k \in Closers, CloseChannel(k)
      PROVE  UnwrittenOK'
  BY <1>17 DEF CloseChannel, Goto
<1>18. ASSUME NEW k \in Closers, Release(k)
      PROVE  UnwrittenOK'
  BY <1>18 DEF Release, Return
<1>19. ASSUME NEW k \in Closers, OnceDone(k)
      PROVE  UnwrittenOK'
  BY <1>19 DEF OnceDone, Return
<1>20. CASE TakeRequest
  <2>1. /\ Head(queue) = queue[1] /\ 1 \in DOMAIN queue
        /\ DOMAIN Tail(queue) = 1..(Len(queue) - 1)
        /\ \A i \in DOMAIN Tail(queue) :
             i + 1 \in DOMAIN queue /\ Tail(queue)[i] = queue[i + 1]
    BY <1>20 DEF TakeRequest, TakeFirst
  <2>2. \A i \in DOMAIN queue' : lsn[queue'[i]] = 0
    BY <1>20, <2>1 DEF TakeRequest, TakeFirst
  <2>3. \A i \in DOMAIN batch' : i > Len(outcome) => lsn[batch'[i]] = 0
    BY <1>20, <2>1 DEF TakeRequest, TakeFirst
  <2>. QED
    BY <1>20, <2>2, <2>3 DEF TakeRequest
<1>21. ASSUME NEW p \in Submitters, Accept(p)
      PROVE  UnwrittenOK'
  BY <1>21 DEF Accept, Writer, Goto
<1>22. ASSUME NEW f \in Followers, Subscribe(f)
      PROVE  UnwrittenOK'
  BY <1>22 DEF Subscribe, Goto
<1>23. CASE GatherMore
  <2>1. /\ Head(queue) = queue[1] /\ 1 \in DOMAIN queue
        /\ DOMAIN Tail(queue) = 1..(Len(queue) - 1)
        /\ \A i \in DOMAIN Tail(queue) :
             i + 1 \in DOMAIN queue /\ Tail(queue)[i] = queue[i + 1]
    BY <1>23 DEF GatherMore, TakeFirst
  <2>2. \A i \in DOMAIN queue' : lsn[queue'[i]] = 0
    BY <1>23, <2>1 DEF GatherMore, TakeFirst
  <2>3. \A i \in DOMAIN batch' : i > Len(outcome) => lsn[batch'[i]] = 0
    BY <1>23, <2>1 DEF GatherMore, TakeFirst
  <2>. QED
    BY <1>23, <2>2, <2>3 DEF GatherMore
<1>24. CASE CommitRequest
  <2>1. Len(outcome) + 1 \in DOMAIN batch /\ Len(outcome') = Len(outcome) + 1
    BY <1>24 DEF CommitRequest
  <2>2. /\ pc[Pending] = "waiting"
        /\ \A j \in DOMAIN batch : batch[j] = Pending => j = Len(outcome) + 1
        /\ \A j \in DOMAIN queue : queue[j] # Pending
    BY <2>1, BatchApart DEF Pending
  <2>3. \A a \in Appenders : a # Pending => lsn'[a] = lsn[a]
    BY <1>24 DEF CommitRequest
  <2>4. /\ UNCHANGED <<pc, queue, batch>>
        /\ \A i \in DOMAIN batch :
             i > Len(outcome') => i > Len(outcome) /\ i # Len(outcome) + 1
    BY <1>24, <2>1 DEF CommitRequest
  <2>. QED
    BY <2>2, <2>3, <2>4
<1>25. CASE FinishBatch
  <2>1. Len(outcome') = Len(outcome)
    BY <1>25 DEF FinishBatch, FailedOutcome
  <2>. QED
    BY <1>25, <2>1 DEF FinishBatch
<1>26. CASE AnswerBatch
  BY <1>26 DEF AnswerBatch, Writer, ToAnswer
<1>27. CASE DrainNext
  <2>1. /\ Head(queue) = queue[1] /\ 1 \in DOMAIN queue
        /\ DOMAIN Tail(queue) = 1..(Len(queue) - 1)
        /\ \A i \in DOMAIN Tail(queue) :
             i + 1 \in DOMAIN queue /\ Tail(queue)[i] = queue[i + 1]
    BY <1>27 DEF DrainNext, TakeFirst
  <2>2. \A i \in DOMAIN queue' : lsn[queue'[i]] = 0
    BY <1>27, <2>1 DEF DrainNext, TakeFirst
  <2>3. \A i \in DOMAIN batch' : i > Len(outcome) => lsn[batch'[i]] = 0
    BY <1>27, <2>1 DEF DrainNext, TakeFirst
  <2>. QED
    BY <1>27, <2>2, <2>3 DEF DrainNext
<1>28. CASE UNCHANGED <<pc, queue, batch, outcome, lsn>>
  BY <1>28
<1>. QED
  BY <1>1, <1>2, <1>3, <1>4, <1>5, <1>6, <1>7, <1>8, <1>9, <1>10, <1>11, <1>12,
        <1>13, <1>14, <1>15, <1>16, <1>17, <1>18, <1>19, <1>20, <1>21, <1>22,
        <1>23, <1>24, <1>25, <1>26, <1>27, <1>28
  DEF Next, Calling, Following, Flushing, Closing, Select, Work, vars, calls,
        shutdown, writer, log, wakeups, history, ContextDone, ObserveClosed,
        GatherEnd, Serve, FinalFlush
(***************************************************************************)
(* The results commit collects say what was written, and those it delivers *)
(* what is published and durable.                                          *)
(***************************************************************************)
LEMMA OutcomesStep ==
  ASSUME Promises, [Next]_vars
  PROVE  OutcomesOK'
<1>. USE WalQueueAssumption
  DEF Promises, OutcomesOK, Backed, CallsTypeOK, Callers, TypeOK,
      WriterTypeOK, LogTypeOK, QueueInv, calls, shutdown, writer, log,
      wakeups, history
<1>1. ASSUME NEW a \in Appenders, CallAppend(a)
      PROVE  OutcomesOK'
  <2>1. \A i \in DOMAIN outcome : batch[i] \in Appenders /\ batch[i] # a
    BY <1>1, BatchApart DEF CallAppend, Call
  <2>. QED
    BY <1>1, <2>1 DEF CallAppend
<1>2. CASE TakeRequest
  BY <1>2 DEF TakeRequest, Writer, TakeFirst, BatchOK
<1>3. CASE ObserveClosed
  BY <1>3 DEF ObserveClosed, Writer
<1>4. ASSUME NEW p \in Submitters, Accept(p)
      PROVE  OutcomesOK'
  BY <1>4 DEF Accept, Writer, Goto
<1>5. CASE GatherMore
  BY <1>5 DEF GatherMore, Writer, TakeFirst, Full, BatchOK
<1>6. CASE GatherEnd
  BY <1>6 DEF GatherEnd, Writer
<1>7. CASE CommitRequest
  <2>1. Len(outcome) + 1 \in DOMAIN batch /\ Pending \in Appenders
    BY <1>7 DEF CommitRequest, Pending
  <2>2. \A i \in DOMAIN outcome :
          i \in DOMAIN batch /\ batch[i] \in Appenders /\ batch[i] # Pending
    BY <2>1, BatchApart DEF Pending
  <2>3. \A a \in Appenders : a # Pending => lsn'[a] = lsn[a]
    BY <1>7 DEF CommitRequest
  <2>4. PICK o \in {"ok", "canceled", "failed"} :
          /\ outcome' = Append(outcome, o)
          /\ o = "ok" => lsn'[Pending] = nextLSN
          /\ o # "ok" => lsn' = lsn
    BY <1>7, <2>1 DEF CommitRequest
  <2>5. lsn[Pending] = 0 /\ nextLSN # 0
    BY <2>1 DEF UnwrittenOK, Pending
  <2>6. ASSUME NEW i \in DOMAIN outcome'
        PROVE  /\ outcome'[i] = "canceled" => lsn'[batch[i]] = 0
               /\ outcome'[i] = "ok" => lsn'[batch[i]] # 0
    <3>1. CASE i \in DOMAIN outcome
      BY <3>1, <2>2, <2>3, <2>4
    <3>2. CASE i = Len(outcome) + 1
      BY <3>2, <2>4, <2>5 DEF Pending
    <3>. QED
      BY <3>1, <3>2, <2>4
  <2>. QED
    BY <1>7, <2>6 DEF CommitRequest
<1>8. CASE FinishBatch
  <2>1. \A i \in DOMAIN outcome : batch[i] \in Appenders
    BY <1>8 DEF FinishBatch
  <2>2. CASE ~WroteAny
    BY <1>8, <2>2 DEF FinishBatch, WroteAny, Writer
  <2>3. CASE outcome' = FailedOutcome
    BY <1>8, <2>3 DEF FinishBatch, FailedOutcome
  <2>4. CASE UNCHANGED outcome /\ lastLSN' = nextLSN - 1
             /\ (SyncPolicy # "SyncInterval" => synced' = nextLSN - 1)
    BY <1>8, <2>1, <2>4 DEF FinishBatch, BoundsOK
  <2>. QED
    BY <1>8, <2>2, <2>3, <2>4 DEF FinishBatch, AllFlushed
<1>9. CASE AnswerBatch
  BY <1>9 DEF AnswerBatch, Writer, ToAnswer
<1>10. CASE Serve
  BY <1>10 DEF Serve, Writer, AllFlushed, BatchOK
<1>11. CASE DrainNext
  BY <1>11 DEF DrainNext, Writer, TakeFirst, BatchOK
<1>12. CASE FinalFlush
  BY <1>12
    DEF FinalFlush, Writer, wakeFollowers, AllWoken, AllFlushed, Drained,
        BatchOK
<1>13. CASE UNCHANGED <<outcome, batch, lsn, lastLSN, synced, wpc>>
  BY <1>13
<1>. QED
  BY <1>1, <1>2, <1>3, <1>4, <1>5, <1>6, <1>7, <1>8, <1>9, <1>10, <1>11, <1>12,
        <1>13
  DEF Next, Calling, Following, Flushing, Closing, Select, Work, vars, calls,
        shutdown, writer, log, wakeups, history, EnterEnqueue, Send,
        SendCanceled, CallOp, EnterOp, ContextDone, Answered, NotAccepted,
        ReadToTail, Woken, ParkedCanceled, Tick, Flushed, FlusherExits,
        CallClose, LockAndMark, CloseChannel, Release, OnceDone, Subscribe

(***************************************************************************)
(* A call that is under way has no result, and an append never waits on an *)
(* unbuffered channel.                                                     *)
(***************************************************************************)
LEMMA UnderWayStep ==
  ASSUME Promises, [Next]_vars
  PROVE  UnderWayOK'
<1>. USE WalQueueAssumption
  DEF Promises, UnderWayOK, QueueInv, TypeOK, CallsTypeOK, Callers,
      Submitters, calls, shutdown, writer, log, wakeups, history
<1>1. ASSUME NEW a \in Appenders, CallAppend(a)
      PROVE  UnderWayOK'
  BY <1>1 DEF CallAppend, Call, Goto
<1>2. ASSUME NEW a \in Appenders, EnterEnqueue(a)
      PROVE  UnderWayOK'
  BY <1>2 DEF EnterEnqueue, Goto, Return, HeldWhileSending
<1>3. ASSUME NEW a \in Appenders, Send(a)
      PROVE  UnderWayOK'
  BY <1>3 DEF Send, Goto, Released
<1>4. ASSUME NEW a \in Appenders, SendCanceled(a)
      PROVE  UnderWayOK'
  BY <1>4 DEF SendCanceled, Return
<1>5. ASSUME NEW p \in Syncers \cup Cutters, CallOp(p)
      PROVE  UnderWayOK'
  BY <1>5 DEF CallOp, Call, Goto
<1>6. ASSUME NEW p \in Syncers \cup Cutters, EnterOp(p)
      PROVE  UnderWayOK'
  BY <1>6 DEF EnterOp, Goto, Return
<1>7. ASSUME NEW p \in Callers, Answered(p)
      PROVE  UnderWayOK'
  BY <1>7 DEF Answered, Return, Received
<1>8. ASSUME NEW p \in Callers, NotAccepted(p)
      PROVE  UnderWayOK'
  BY <1>8 DEF NotAccepted, Return
<1>9. ASSUME NEW f \in Followers, ReadToTail(f)
      PROVE  UnderWayOK'
  BY <1>9 DEF ReadToTail, Goto
<1>10. ASSUME NEW f \in Followers, Woken(f)
      PROVE  UnderWayOK'
  BY <1>10 DEF Woken, Goto
<1>11. ASSUME NEW f \in Followers, ParkedCanceled(f)
      PROVE  UnderWayOK'
  BY <1>11 DEF ParkedCanceled, Return
<1>12. CASE Tick
  BY <1>12 DEF Tick, Goto
<1>13. CASE Flushed
  BY <1>13 DEF Flushed, Goto
<1>14. CASE FlusherExits
  BY <1>14 DEF FlusherExits, Goto
<1>15. ASSUME NEW k \in Closers, CallClose(k)
      PROVE  UnderWayOK'
  BY <1>15 DEF CallClose, Goto
<1>16. ASSUME NEW k \in Closers, LockAndMark(k)
      PROVE  UnderWayOK'
  BY <1>16 DEF LockAndMark, Goto
<1>17. ASSUME NEW k \in Closers, CloseChannel(k)
      PROVE  UnderWayOK'
  BY <1>17 DEF CloseChannel, Goto
<1>18. ASSUME NEW k \in Closers, Release(k)
      PROVE  UnderWayOK'
  BY <1>18 DEF Release, Return
<1>19. ASSUME NEW k \in Closers, OnceDone(k)
      PROVE  UnderWayOK'
  BY <1>19 DEF OnceDone, Return
<1>20. ASSUME NEW p \in Submitters, Accept(p)
      PROVE  UnderWayOK'
  BY <1>20 DEF Accept, Writer, Goto
<1>21. ASSUME NEW f \in Followers, Subscribe(f)
      PROVE  UnderWayOK'
  BY <1>21 DEF Subscribe, Goto
<1>22. CASE UNCHANGED <<pc, result>>
  BY <1>22
<1>. QED
  BY <1>1, <1>2, <1>3, <1>4, <1>5, <1>6, <1>7, <1>8, <1>9, <1>10, <1>11, <1>12,
        <1>13, <1>14, <1>15, <1>16, <1>17, <1>18, <1>19, <1>20, <1>21, <1>22
  DEF Next, Calling, Following, Flushing, Closing, Select, Work, vars, calls,
        shutdown, writer, log, wakeups, history, ContextDone, TakeRequest,
        ObserveClosed, GatherMore, GatherEnd, CommitRequest, FinishBatch,
        AnswerBatch, Serve, DrainNext, FinalFlush
(***************************************************************************)
(* An answer keeps meaning what it meant: published and durable if nil,    *)
(* nothing written if the context ended.                                   *)
(***************************************************************************)
LEMMA MeaningStep ==
  ASSUME Promises, [Next]_vars
  PROVE  MeaningOK'
<1>. USE WalQueueAssumption
  DEF Promises, MeaningOK, Backed, CallsTypeOK, Callers, TypeOK, WriterTypeOK,
      LogTypeOK, QueueInv, calls, shutdown, writer, log, wakeups, history
<1>1. ASSUME NEW a \in Appenders, CallAppend(a)
      PROVE  MeaningOK'
  BY <1>1 DEF CallAppend, Call, Goto, AnswersOK
<1>2. ASSUME NEW a \in Appenders, EnterEnqueue(a)
      PROVE  MeaningOK'
  BY <1>2 DEF EnterEnqueue, Goto, Return, HeldWhileSending, UnwrittenOK
<1>3. ASSUME NEW a \in Appenders, SendCanceled(a)
      PROVE  MeaningOK'
  BY <1>3 DEF SendCanceled, Return, UnwrittenOK
<1>4. ASSUME NEW p \in Syncers \cup Cutters, CallOp(p)
      PROVE  MeaningOK'
  BY <1>4 DEF CallOp, Call, Goto, AnswersOK
<1>5. ASSUME NEW p \in Syncers \cup Cutters, EnterOp(p)
      PROVE  MeaningOK'
  BY <1>5 DEF EnterOp, Goto, Return
<1>6. ASSUME NEW p \in Callers, Answered(p)
      PROVE  MeaningOK'
  BY <1>6 DEF Answered, Return, Received
<1>7. ASSUME NEW p \in Callers, NotAccepted(p)
      PROVE  MeaningOK'
  BY <1>7, ZenonT(30) DEF NotAccepted, Return, UnderWayOK
<1>8. ASSUME NEW f \in Followers, ParkedCanceled(f)
      PROVE  MeaningOK'
  BY <1>8 DEF ParkedCanceled, Return
<1>9. CASE Flushed
  BY <1>9 DEF Flushed, Goto
<1>10. ASSUME NEW k \in Closers, Release(k)
      PROVE  MeaningOK'
  BY <1>10 DEF Release, Return
<1>11. ASSUME NEW k \in Closers, OnceDone(k)
      PROVE  MeaningOK'
  BY <1>11 DEF OnceDone, Return
<1>12. CASE CommitRequest
  <2>1. /\ Len(outcome) + 1 \in DOMAIN batch
        /\ UNCHANGED <<pc, reply, result, lastLSN, synced>>
    BY <1>12 DEF CommitRequest
  <2>2. pc[Pending] = "waiting" /\ reply[Pending] = "none" /\ result[Pending] = "none"
    BY <2>1, BatchApart DEF Pending, UnderWayOK
  <2>3. \A a \in Appenders : a # Pending => lsn'[a] = lsn[a]
    BY <1>12 DEF CommitRequest
  <2>. QED
    BY <2>1, <2>2, <2>3
<1>13. CASE FinishBatch
  <2>1. /\ synced' \in Nat /\ synced <= synced'
        /\ lastLSN' \in Nat /\ lastLSN <= lastLSN'
    BY <1>13 DEF FinishBatch, AllFlushed, BoundsOK
  <2>. QED
    BY <1>13, <2>1 DEF FinishBatch
<1>14. CASE AnswerBatch
  <2>1. /\ wpc = "answer" /\ Len(outcome) = Len(batch)
        /\ UNCHANGED <<pc, result, lsn, lastLSN, synced>>
    BY <1>14 DEF AnswerBatch, Writer, BatchOK
  <2>2. ASSUME NEW a \in Appenders, \E i \in DOMAIN batch : batch[i] = a
        PROVE  /\ reply'[a] = "canceled" => lsn[a] = 0
               /\ reply'[a] = "ok" => Backed(a)
    <3>1. PICK i \in DOMAIN batch : batch[i] = a /\ reply'[a] = outcome[i]
      BY <1>14, <2>2 DEF AnswerBatch, ToAnswer, Callers
    <3>. QED
      BY <2>1, <3>1 DEF OutcomesOK
  <2>3. ASSUME NEW a \in Appenders, ~ \E i \in DOMAIN batch : batch[i] = a
        PROVE  reply'[a] = reply[a]
    BY <1>14, <2>3 DEF AnswerBatch, ToAnswer, Callers
  <2>. QED
    BY <2>1, <2>2, <2>3
<1>15. CASE Serve
  <2>1. synced' \in Nat /\ synced <= synced'
    BY <1>15 DEF Serve, AllFlushed, BoundsOK
  <2>. QED
    BY <1>15, <2>1 DEF Serve, Submitters, Callers, BatchOK
<1>16. CASE FinalFlush
  <2>1. synced' \in Nat /\ synced <= synced'
    BY <1>16 DEF FinalFlush, AllFlushed, BoundsOK
  <2>. QED
    BY <1>16, <2>1 DEF FinalFlush
<1>17. CASE UNCHANGED <<reply, result, lsn, lastLSN, synced>>
  BY <1>17
<1>. QED
  BY <1>1, <1>2, <1>3, <1>4, <1>5, <1>6, <1>7, <1>8, <1>9, <1>10, <1>11, <1>12,
        <1>13, <1>14, <1>15, <1>16, <1>17
  DEF Next, Calling, Following, Flushing, Closing, Select, Work, vars, calls,
        shutdown, writer, log, wakeups, history, Send, ContextDone, ReadToTail,
        Woken, Tick, FlusherExits, CallClose, LockAndMark, CloseChannel,
        TakeRequest, ObserveClosed, Accept, Subscribe, GatherMore, GatherEnd,
        DrainNext
(***************************************************************************)
(* writerLoop answers Sync, Truncate, CutOffset and the flusher only while *)
(* they wait.                                                              *)
(***************************************************************************)
LEMMA HandedOverStep ==
  ASSUME Promises, [Next]_vars
  PROVE  HandedOverOK'
<1>. USE WalQueueAssumption
  DEF Promises, HandedOverOK, BatchOK, QueueInv, TypeOK, CallsTypeOK, Callers,
      Submitters, calls, shutdown, writer, log, wakeups, history
<1>1. ASSUME NEW a \in Appenders, CallAppend(a)
      PROVE  HandedOverOK'
  BY <1>1 DEF CallAppend, Call, Goto
<1>2. ASSUME NEW a \in Appenders, EnterEnqueue(a)
      PROVE  HandedOverOK'
  BY <1>2 DEF EnterEnqueue, Goto, Return, HeldWhileSending
<1>3. ASSUME NEW a \in Appenders, Send(a)
      PROVE  HandedOverOK'
  BY <1>3 DEF Send, Goto, Released
<1>4. ASSUME NEW a \in Appenders, SendCanceled(a)
      PROVE  HandedOverOK'
  BY <1>4 DEF SendCanceled, Return
<1>5. ASSUME NEW p \in Syncers \cup Cutters, CallOp(p)
      PROVE  HandedOverOK'
  BY <1>5 DEF CallOp, Call, Goto
<1>6. ASSUME NEW p \in Syncers \cup Cutters, EnterOp(p)
      PROVE  HandedOverOK'
  BY <1>6 DEF EnterOp, Goto, Return
<1>7. ASSUME NEW p \in Callers, Answered(p)
      PROVE  HandedOverOK'
  BY <1>7 DEF Answered, Return, Received
<1>8. ASSUME NEW p \in Callers, NotAccepted(p)
      PROVE  HandedOverOK'
  BY <1>8 DEF NotAccepted, Return
<1>9. ASSUME NEW f \in Followers, ReadToTail(f)
      PROVE  HandedOverOK'
  BY <1>9 DEF ReadToTail, Goto
<1>10. ASSUME NEW f \in Followers, Woken(f)
      PROVE  HandedOverOK'
  BY <1>10 DEF Woken, Goto
<1>11. ASSUME NEW f \in Followers, ParkedCanceled(f)
      PROVE  HandedOverOK'
  BY <1>11 DEF ParkedCanceled, Return
<1>12. CASE Tick
  BY <1>12 DEF Tick, Goto
<1>13. CASE Flushed
  BY <1>13 DEF Flushed, Goto
<1>14. CASE FlusherExits
  BY <1>14 DEF FlusherExits, Goto
<1>15. ASSUME NEW k \in Closers, CallClose(k)
      PROVE  HandedOverOK'
  BY <1>15 DEF CallClose, Goto
<1>16. ASSUME NEW k \in Closers, LockAndMark(k)
      PROVE  HandedOverOK'
  BY <1>16 DEF LockAndMark, Goto
<1>17. ASSUME NEW k \in Closers, CloseChannel(k)
      PROVE  HandedOverOK'
  BY <1>17 DEF CloseChannel, Goto
<1>18. ASSUME NEW k \in Closers, Release(k)
      PROVE  HandedOverOK'
  BY <1>18 DEF Release, Return
<1>19. ASSUME NEW k \in Closers, OnceDone(k)
      PROVE  HandedOverOK'
  BY <1>19 DEF OnceDone, Return
<1>20. CASE TakeRequest
  BY <1>20 DEF TakeRequest, Writer, TakeFirst
<1>21. CASE ObserveClosed
  BY <1>21 DEF ObserveClosed, Writer
<1>22. ASSUME NEW p \in Submitters, Accept(p)
      PROVE  HandedOverOK'
  BY <1>22 DEF Accept, Writer, Goto
<1>23. ASSUME NEW f \in Followers, Subscribe(f)
      PROVE  HandedOverOK'
  BY <1>23 DEF Subscribe, Goto
<1>24. CASE GatherMore
  BY <1>24 DEF GatherMore, Writer, TakeFirst, Full
<1>25. CASE GatherEnd
  BY <1>25 DEF GatherEnd, Writer
<1>26. CASE FinishBatch
  BY <1>26
    DEF FinishBatch, Writer, FailedOutcome, wakeFollowers, AllWoken,
        AllFlushed
<1>27. CASE AnswerBatch
  <2>1. \A p \in Submitters : reply'[p] = reply[p]
    <3>1. \A p \in Submitters, i \in ToAnswer : batch[i] # p
      BY DEF ToAnswer, WriterTypeOK
    <3>. QED
      BY <1>27, <3>1 DEF AnswerBatch
  <2>. QED
    BY <1>27, <2>1 DEF AnswerBatch, Writer
<1>28. CASE Serve
  <2>1. serving \in Submitters /\ pc[serving] = "waiting"
    BY <1>28 DEF Serve, Writer, BatchOK
  <2>. QED
    BY <1>28, <2>1 DEF Serve, Writer
<1>29. CASE DrainNext
  BY <1>29 DEF DrainNext, Writer, TakeFirst
<1>30. CASE FinalFlush
  BY <1>30 DEF FinalFlush, Writer, wakeFollowers, AllWoken, AllFlushed, Drained
<1>31. CASE UNCHANGED <<pc, reply, wpc, serving>>
  BY <1>31
<1>. QED
  BY <1>1, <1>2, <1>3, <1>4, <1>5, <1>6, <1>7, <1>8, <1>9, <1>10, <1>11, <1>12,
        <1>13, <1>14, <1>15, <1>16, <1>17, <1>18, <1>19, <1>20, <1>21, <1>22,
        <1>23, <1>24, <1>25, <1>26, <1>27, <1>28, <1>29, <1>30, <1>31
  DEF Next, Calling, Following, Flushing, Closing, Select, Work, vars, calls,
        shutdown, writer, log, wakeups, history, ContextDone, CommitRequest
(***************************************************************************)
(* The answer nil to a Sync keeps covering what was published when it was  *)
(* called.                                                                 *)
(***************************************************************************)
LEMMA SyncedStep ==
  ASSUME Promises, [Next]_vars
  PROVE  SyncedOK'
<1>. USE WalQueueAssumption
  DEF Promises, SyncedOK, CallsTypeOK, Callers, Submitters, TypeOK,
      WriterTypeOK, LogTypeOK, QueueInv, calls, shutdown, writer, log,
      wakeups, history
<1>1. ASSUME NEW a \in Appenders, CallAppend(a)
      PROVE  SyncedOK'
  BY <1>1 DEF CallAppend, Call, Goto
<1>2. ASSUME NEW a \in Appenders, EnterEnqueue(a)
      PROVE  SyncedOK'
  BY <1>2 DEF EnterEnqueue, Goto, Return, HeldWhileSending
<1>3. ASSUME NEW a \in Appenders, SendCanceled(a)
      PROVE  SyncedOK'
  BY <1>3 DEF SendCanceled, Return
<1>4. ASSUME NEW p \in Syncers \cup Cutters, CallOp(p)
      PROVE  SyncedOK'
  BY <1>4 DEF CallOp, Call, Goto, HandedOverOK
<1>5. ASSUME NEW p \in Syncers \cup Cutters, EnterOp(p)
      PROVE  SyncedOK'
  BY <1>5 DEF EnterOp, Goto, Return
<1>6. ASSUME NEW p \in Callers, Answered(p)
      PROVE  SyncedOK'
  BY <1>6 DEF Answered, Return, Received
<1>7. ASSUME NEW p \in Callers, NotAccepted(p)
      PROVE  SyncedOK'
  BY <1>7 DEF NotAccepted, Return
<1>8. ASSUME NEW f \in Followers, ParkedCanceled(f)
      PROVE  SyncedOK'
  BY <1>8 DEF ParkedCanceled, Return
<1>9. CASE Flushed
  BY <1>9 DEF Flushed, Goto
<1>10. ASSUME NEW k \in Closers, Release(k)
      PROVE  SyncedOK'
  BY <1>10 DEF Release, Return
<1>11. ASSUME NEW k \in Closers, OnceDone(k)
      PROVE  SyncedOK'
  BY <1>11 DEF OnceDone, Return
<1>12. CASE FinishBatch
  <2>1. synced' \in Nat /\ synced <= synced'
    BY <1>12 DEF FinishBatch, AllFlushed, BoundsOK
  <2>. QED
    BY <1>12, <2>1 DEF FinishBatch
<1>13. CASE AnswerBatch
  <2>1. \A s \in Syncers : reply'[s] = reply[s]
    <3>1. \A s \in Syncers, i \in ToAnswer : batch[i] # s
      BY DEF ToAnswer, WriterTypeOK
    <3>. QED
      BY <1>13, <3>1 DEF AnswerBatch
  <2>. QED
    BY <1>13, <2>1 DEF AnswerBatch, Writer
<1>14. CASE Serve
  <2>1. /\ serving \in Submitters /\ (serving \in Syncers => serving \notin Cutters)
        /\ synced' \in Nat /\ synced <= synced'
    BY <1>14 DEF Serve, Writer, AllFlushed, BoundsOK, BatchOK
  <2>2. \A s \in Syncers :
          reply'[s] = "ok" => reply[s] = "ok" \/ (s = serving /\ synced' = nextLSN - 1)
    BY <1>14, <2>1 DEF Serve, AllFlushed, Submitters
  <2>3. \A s \in Syncers : target[s] <= nextLSN - 1
    BY DEF BoundsOK
  <2>. QED
    BY <1>14, <2>1, <2>2, <2>3 DEF Serve
<1>15. CASE FinalFlush
  <2>1. synced' \in Nat /\ synced <= synced'
    BY <1>15 DEF FinalFlush, AllFlushed, BoundsOK
  <2>. QED
    BY <1>15, <2>1 DEF FinalFlush
<1>16. CASE UNCHANGED <<reply, result, target, synced>>
  BY <1>16
<1>. QED
  BY <1>1, <1>2, <1>3, <1>4, <1>5, <1>6, <1>7, <1>8, <1>9, <1>10, <1>11, <1>12,
        <1>13, <1>14, <1>15, <1>16
  DEF Next, Calling, Following, Flushing, Closing, Select, Work, vars, calls,
        shutdown, writer, log, wakeups, history, Send, ContextDone, ReadToTail,
        Woken, Tick, FlusherExits, CallClose, LockAndMark, CloseChannel,
        TakeRequest, ObserveClosed, Accept, Subscribe, GatherMore, GatherEnd,
        CommitRequest, DrainNext
(***************************************************************************)
(* Close ends after the writer, whose last act is finalFlush.              *)
(***************************************************************************)
LEMMA ClosedStep ==
  ASSUME Promises, [Next]_vars
  PROVE  ClosedOK'
<1>. USE WalQueueAssumption
  DEF Promises, ClosedOK, CallsTypeOK, TypeOK, WriterTypeOK, LogTypeOK,
      QueueInv, calls, shutdown, writer, log, wakeups, history
<1>1. ASSUME NEW k \in Closers, CallClose(k)
      PROVE  ClosedOK'
  BY <1>1 DEF CallClose, Goto
<1>2. ASSUME NEW k \in Closers, Release(k)
      PROVE  ClosedOK'
  BY <1>2 DEF Release, Return
<1>3. CASE TakeRequest
  BY <1>3 DEF TakeRequest, Writer, TakeFirst
<1>4. CASE ObserveClosed
  BY <1>4 DEF ObserveClosed, Writer
<1>5. ASSUME NEW p \in Submitters, Accept(p)
      PROVE  ClosedOK'
  BY <1>5 DEF Accept, Writer, Goto
<1>6. CASE GatherMore
  BY <1>6 DEF GatherMore, Writer, TakeFirst, Full
<1>7. CASE GatherEnd
  BY <1>7 DEF GatherEnd, Writer
<1>8. CASE CommitRequest
  BY <1>8 DEF CommitRequest, Pending
<1>9. CASE FinishBatch
  BY <1>9
    DEF FinishBatch, Writer, FailedOutcome, wakeFollowers, AllWoken,
        AllFlushed
<1>10. CASE AnswerBatch
  BY <1>10 DEF AnswerBatch, Writer, ToAnswer
<1>11. CASE Serve
  BY <1>11 DEF Serve, Writer, AllFlushed
<1>12. CASE DrainNext
  BY <1>12 DEF DrainNext, Writer, TakeFirst
<1>13. CASE FinalFlush
  BY <1>13 DEF FinalFlush, Writer, wakeFollowers, AllWoken, AllFlushed, Drained
<1>14. CASE UNCHANGED <<once, wpc, synced, nextLSN>>
  BY <1>14
<1>. QED
  BY <1>1, <1>2, <1>3, <1>4, <1>5, <1>6, <1>7, <1>8, <1>9, <1>10, <1>11, <1>12,
        <1>13, <1>14
  DEF Next, Calling, Following, Flushing, Closing, Select, Work, vars, calls,
        shutdown, writer, log, wakeups, history, CallAppend, EnterEnqueue, Send,
        SendCanceled, CallOp, EnterOp, ContextDone, Answered, NotAccepted,
        ReadToTail, Woken, ParkedCanceled, Tick, Flushed, FlusherExits,
        LockAndMark, CloseChannel, OnceDone, Subscribe

(***************************************************************************)
(* Nothing is promised when Open returns.                                  *)
(***************************************************************************)
LEMMA PromisesInit ==
  Init => Promises
<1>. SUFFICES ASSUME Init PROVE Promises
  OBVIOUS
<1>1. QueueInv
  BY QueueInit
<1>. USE WalQueueAssumption DEF Init
<1>2. BoundsOK
  BY DEF BoundsOK
<1>3. UnwrittenOK /\ OutcomesOK
  BY DEF UnwrittenOK, OutcomesOK
<1>4. UnderWayOK /\ MeaningOK
  BY DEF UnderWayOK, MeaningOK, Callers
<1>5. HandedOverOK /\ SyncedOK
  BY DEF HandedOverOK, SyncedOK, Callers, Submitters
<1>6. ClosedOK
  BY DEF ClosedOK
<1>. QED
  BY <1>1, <1>2, <1>3, <1>4, <1>5, <1>6 DEF Promises

(***************************************************************************)
(* Every step of every goroutine preserves the promises made to callers.   *)
(***************************************************************************)
LEMMA PromisesStep ==
  Promises /\ [Next]_vars => Promises'
<1>. SUFFICES ASSUME Promises, [Next]_vars PROVE Promises'
  OBVIOUS
<1>1. QueueInv'
  BY QueueStep DEF Promises
<1>. QED
  BY <1>1, BoundsStep, UnwrittenStep, OutcomesStep, UnderWayStep, MeaningStep,
     HandedOverStep, SyncedStep, ClosedStep
  DEF Promises

-----------------------------------------------------------------------------
(* The theorems.                                                           *)

(***************************************************************************)
(* The invariant behind the answers holds in every reachable state.        *)
(***************************************************************************)
THEOREM PromisesKept == Spec => []Promises
  BY PromisesInit, PromisesStep, PTL DEF Spec

(***************************************************************************)
(* An append that returned the error of its context has written nothing,   *)
(* wherever the context ended: while enqueue waited, or in the queue.      *)
(***************************************************************************)
THEOREM CanceledAppends == Spec => []CanceledNotWritten
<1>1. Promises => CanceledNotWritten
  BY DEF Promises, MeaningOK, CanceledNotWritten
<1>. QED
  BY <1>1, PromisesKept, PTL

(***************************************************************************)
(* An append that returned nil can be read, and unless the flusher owns    *)
(* durability its record is on stable storage, whatever other requests of  *)
(* its group commit did.                                                   *)
(***************************************************************************)
THEOREM Acknowledgements == Spec => []AckedPublished
<1>1. Promises => AckedPublished
  BY DEF Promises, MeaningOK, Backed, AckedPublished
<1>. QED
  BY <1>1, PromisesKept, PTL

(***************************************************************************)
(* A Sync that returned nil covers every commit published before it was    *)
(* called, although the writer may take it after others.                   *)
(***************************************************************************)
THEOREM SyncIsEnough == Spec => []SyncCovers
<1>1. Promises => SyncCovers
  BY DEF Promises, SyncedOK, SyncCovers
<1>. QED
  BY <1>1, PromisesKept, PTL

(***************************************************************************)
(* When Close has returned, and no fsync can fail, everything that was     *)
(* written is on stable storage, what it found in the queue included.      *)
(***************************************************************************)
THEOREM CloseIsEnough == Spec => []CloseCovers
<1>1. Promises => CloseCovers
  BY DEF Promises, QueueInv, TypeOK, LogTypeOK, BoundsOK, ClosedOK, CloseCovers
<1>. QED
  BY <1>1, PromisesKept, PTL
=============================================================================
