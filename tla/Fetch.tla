------------------------------- MODULE Fetch -------------------------------
(***************************************************************************)
(* How a read command (find, count, and the read half of update, delete    *)
(* and findAndModify) gets its documents: the handler opens a transaction, *)
(* QueryDocuments starts a goroutine that reads PostgreSQL rows and sends  *)
(* them in batches over a bounded channel, the handler receives, filters,  *)
(* drains the channel, and only then commits or rolls back.                *)
(*                                                                         *)
(* A document is the position of its row in the table, 1..total.  A batch  *)
(* always holds consecutive rows, so a channel item is [first, last, err]. *)
(***************************************************************************)
EXTENDS Naturals, Sequences

CONSTANTS MaxRows,    \* bound on the number of rows of the table
          Matching,   \* the rows that the command's filter accepts
          BatchSize,  \* FetchedSliceCapacity
          ChanCap     \* FetchedChannelBufSize

ASSUME FetchAssumption ==
  /\ MaxRows \in Nat
  /\ Matching \subseteq 1..MaxRows
  /\ BatchSize \in Nat \ {0}
  /\ ChanCap \in Nat \ {0}

VARIABLES
  total,      \* number of rows the SELECT returns
  cancelled,  \* the context of the command is done
  hpc,        \* control of the handler
  ppc,        \* control of the fetching goroutine
  pos,        \* rows read so far from pgx.Rows
  first,      \* first row of the batch being collected
  pending,    \* the item writeFetched is trying to send
  allFetched, \* rows.Next returned false
  rowsErr,    \* rows.Err() is not nil
  rowsOpen,   \* pgx.Rows not closed: the connection is busy
  chan,       \* fetchedChan: the buffered items
  closed,     \* fetchedChan is closed
  resDocs,    \* rows the handler appended to its result
  err,        \* the transaction function returned an error
  tx,         \* the transaction on the PostgreSQL connection
  reply,      \* what the handler returned
  failed      \* history: something other than cancellation went wrong

vars == <<total, cancelled, hpc, ppc, pos, first, pending, allFetched, rowsErr,
          rowsOpen, chan, closed, resDocs, err, tx, reply, failed>>

prodVars == <<ppc, pos, first, pending, allFetched, rowsErr>>
handlerVars == <<hpc, resDocs, err, tx, reply>>

Docs(a, b) == [first |-> a, last |-> b, err |-> FALSE]
Failure == [first |-> 1, last |-> 0, err |-> TRUE]
NoItem == [first |-> 1, last |-> 0, err |-> FALSE]

Item == [first : 1..(MaxRows + 1), last : 0..MaxRows, err : BOOLEAN]

Init ==
  /\ total \in 0..MaxRows
  /\ cancelled = FALSE
  /\ hpc = "begin"
  /\ ppc = "none"
  /\ pos = 0
  /\ first = 1
  /\ pending = NoItem
  /\ allFetched = FALSE
  /\ rowsErr = FALSE
  /\ rowsOpen = FALSE
  /\ chan = <<>>
  /\ closed = FALSE
  /\ resDocs = {}
  /\ err = FALSE
  /\ tx = "none"
  /\ reply = "none"
  /\ failed = FALSE

-----------------------------------------------------------------------------
(* The context may be cancelled at any time: the listener's delayed        *)
(* shutdown, or a connection deadline.                                     *)
Cancel ==
  /\ ~cancelled
  /\ cancelled' = TRUE
  /\ UNCHANGED <<total, hpc, ppc, pos, first, pending, allFetched, rowsErr,
                 rowsOpen, chan, closed, resDocs, err, tx, reply, failed>>

-----------------------------------------------------------------------------
(* The handler.                                                            *)

\* InTransaction: pgPool.Begin fails when the context is done or PostgreSQL fails.
Begin ==
  /\ hpc = "begin"
  /\ \/ /\ ~cancelled
        /\ hpc' = "query"
        /\ tx' = "open"
        /\ UNCHANGED <<reply, failed>>
     \/ /\ hpc' = "done"
        /\ reply' = "error"
        /\ failed' = (failed \/ ~cancelled)
        /\ UNCHANGED tx
  /\ UNCHANGED <<total, cancelled, prodVars, rowsOpen, chan, closed, resDocs, err>>

\* QueryDocuments: no such table closes the channel and is no error; another
\* failure is returned at once; otherwise the fetching goroutine starts.
QueryDocuments ==
  /\ hpc = "query"
  /\ \/ /\ ~cancelled
        /\ hpc' = "receive"
        /\ ppc' = "loop"
        /\ rowsOpen' = TRUE
        /\ UNCHANGED <<closed, err, failed>>
     \/ /\ ~cancelled
        /\ total = 0
        /\ hpc' = "receive"
        /\ closed' = TRUE
        /\ UNCHANGED <<ppc, rowsOpen, err, failed>>
     \/ /\ hpc' = "end"
        /\ closed' = TRUE
        /\ err' = TRUE
        /\ failed' = (failed \/ ~cancelled)
        /\ UNCHANGED <<ppc, rowsOpen>>
  /\ UNCHANGED <<total, cancelled, pos, first, pending, allFetched, rowsErr,
                 chan, resDocs, tx, reply>>

\* One iteration of the loop over fetchedChan; FilterDocument may fail on any row
\* (the rows appended before it are dropped with the error).
Receive ==
  /\ hpc = "receive"
  /\ \/ /\ chan # <<>>
        /\ chan' = Tail(chan)
        /\ LET item == Head(chan) IN
           \/ /\ item.err
              /\ hpc' = "drain"
              /\ err' = TRUE
              /\ UNCHANGED <<resDocs, failed>>
           \/ /\ ~item.err
              /\ resDocs' = resDocs \cup ((item.first..item.last) \cap Matching)
              /\ UNCHANGED <<hpc, err, failed>>
           \/ /\ ~item.err
              /\ hpc' = "drain"
              /\ err' = TRUE
              /\ failed' = TRUE
              /\ UNCHANGED resDocs
     \/ /\ chan = <<>>
        /\ closed
        /\ hpc' = "drain"
        /\ UNCHANGED <<chan, resDocs, err, failed>>
  /\ UNCHANGED <<total, cancelled, prodVars, rowsOpen, closed, tx, reply>>

\* Faulty variant: the handler returns without draining.
FaultyDrain ==
  /\ hpc = "drain"
  /\ hpc' = "end"
  /\ UNCHANGED <<total, cancelled, prodVars, rowsOpen, chan, closed, resDocs, err,
                 tx, reply, failed>>

\* The deferred loop that empties the channel before the transaction function returns.
Drain ==
  /\ hpc = "drain"
  /\ \/ /\ chan # <<>>
        /\ chan' = Tail(chan)
        /\ UNCHANGED hpc
     \/ /\ chan = <<>>
        /\ closed
        /\ hpc' = "end"
        /\ UNCHANGED chan
  /\ UNCHANGED <<total, cancelled, prodVars, rowsOpen, closed, resDocs, err,
                 tx, reply, failed>>

\* Faulty variant: Commit runs with a context of its own.
FaultyCanCommit == ~err /\ ~rowsOpen

\* tx.Commit(ctx) can succeed: f returned nil, ctx is not done and the connection
\* is not busy with open rows.
CanCommit == ~err /\ ~cancelled /\ ~rowsOpen

\* InTransaction after f: PostgreSQL may still fail the commit; a failed commit
\* is rolled back.
EndTransaction ==
  /\ hpc = "end"
  /\ \/ /\ CanCommit
        /\ tx' = "committed"
        /\ hpc' = "reply"
        /\ UNCHANGED <<reply, failed>>
     \/ /\ tx' = "rolledback"
        /\ hpc' = "done"
        /\ reply' = "error"
        /\ failed' = (failed \/ (~err /\ ~cancelled))
  /\ UNCHANGED <<total, cancelled, prodVars, rowsOpen, chan, closed, resDocs, err>>

\* MsgFind after the transaction: sorting, limiting and projecting may fail.
Reply ==
  /\ hpc = "reply"
  /\ hpc' = "done"
  /\ \/ reply' = "ok" /\ UNCHANGED failed
     \/ reply' = "error" /\ failed' = TRUE
  /\ UNCHANGED <<total, cancelled, prodVars, rowsOpen, chan, closed, resDocs, err, tx>>

-----------------------------------------------------------------------------
(* The fetching goroutine.                                                 *)

\* Faulty variant: rows.Next is called once more between two batches.
FaultyFetchLoop ==
  /\ ppc = "loop"
  /\ ppc' = IF cancelled THEN "closeRows" ELSE "next"
  /\ first' = IF pos \in 1..(total - 1) THEN pos + 2 ELSE pos + 1
  /\ pos' = IF pos \in 1..(total - 1) THEN pos + 1 ELSE pos
  /\ UNCHANGED <<total, cancelled, handlerVars, pending, allFetched, rowsErr,
                 rowsOpen, chan, closed, failed>>

\* Top of iterateFetch's loop: ctx.Err() is checked once per batch.
FetchLoop ==
  /\ ppc = "loop"
  /\ ppc' = IF cancelled THEN "closeRows" ELSE "next"
  /\ first' = pos + 1
  /\ UNCHANGED <<total, cancelled, handlerVars, pos, pending, allFetched, rowsErr,
                 rowsOpen, chan, closed, failed>>

\* Faulty variant: rows.Err() is not looked at.
FaultyAfterBatch(last, broken) ==
  IF first <= last
  THEN ppc' = "write" /\ pending' = Docs(first, last)
  ELSE ppc' = "closeRows" /\ UNCHANGED pending

\* What iterateFetch does after the inner loop ended without a full batch:
\* send the rows first..last, else the error of the rows, else return.
AfterBatch(last, broken) ==
  \/ /\ first <= last
     /\ ppc' = "write"
     /\ pending' = Docs(first, last)
  \/ /\ first > last /\ broken
     /\ ppc' = "write"
     /\ pending' = Failure
  \/ /\ first > last /\ ~broken
     /\ ppc' = "closeRows"
     /\ UNCHANGED pending

\* rows.Next returned true, and Scan and Unmarshal succeeded.
RowRead ==
  /\ pos < total
  /\ pos' = pos + 1
  /\ IF pos + 2 - first = BatchSize
     THEN ppc' = "write" /\ pending' = Docs(first, pos + 1)
     ELSE UNCHANGED <<ppc, pending>>
  /\ UNCHANGED <<allFetched, rowsErr, rowsOpen, failed>>

\* Scan or Unmarshal failed: the rows already collected in res are dropped.
RowBad ==
  /\ pos < total
  /\ ppc' = "write"
  /\ pending' = Failure
  /\ failed' = TRUE
  /\ UNCHANGED <<pos, allFetched, rowsErr, rowsOpen>>

\* rows.Next returned false after the last row; pgx closes the rows.
RowsEnd ==
  /\ pos = total
  /\ allFetched' = TRUE
  /\ rowsErr' = FALSE
  /\ rowsOpen' = FALSE
  /\ AfterBatch(pos, FALSE)
  /\ UNCHANGED <<pos, failed>>

\* rows.Next returned false because the connection broke or the context was
\* cancelled while reading; pgx closes the rows and keeps the error.
RowsBroken ==
  /\ allFetched' = TRUE
  /\ rowsErr' = TRUE
  /\ rowsOpen' = FALSE
  /\ failed' = (failed \/ ~cancelled)
  /\ AfterBatch(pos, TRUE)
  /\ UNCHANGED pos

\* One rows.Next call of iterateFetch's inner loop.
FetchRow ==
  /\ ppc = "next"
  /\ RowRead \/ RowBad \/ RowsEnd \/ RowsBroken
  /\ UNCHANGED <<total, cancelled, handlerVars, first, chan, closed>>

\* A send on fetchedChan does not block.
ChanHasRoom == Len(chan) < ChanCap

\* Faulty variant: iterateFetch goes on after it sent an error.
FaultyMoreRows == ~allFetched

\* After a successful send iterateFetch starts another batch.
MoreRows == ~pending.err /\ ~allFetched

\* writeFetched and the code after it: select between ctx.Done and the send.
WriteFetched ==
  /\ ppc = "write"
  /\ \/ /\ cancelled
        /\ ppc' = "closeRows"
        /\ UNCHANGED <<chan, pending>>
     \/ /\ ChanHasRoom
        /\ chan' = Append(chan, pending)
        /\ \/ /\ MoreRows
              /\ ppc' = "loop"
              /\ UNCHANGED pending
           \/ /\ ~pending.err /\ allFetched /\ rowsErr
              /\ pending' = Failure
              /\ UNCHANGED ppc
           \/ /\ pending.err \/ (allFetched /\ ~rowsErr)
              /\ ppc' = "closeRows"
              /\ UNCHANGED pending
  /\ UNCHANGED <<total, cancelled, handlerVars, pos, first, allFetched, rowsErr,
                 rowsOpen, closed, failed>>

\* The deferred calls run in reverse order: rows.Close() first ...
CloseRows ==
  /\ ppc = "closeRows"
  /\ ppc' = "closeChan"
  /\ rowsOpen' = FALSE
  /\ UNCHANGED <<total, cancelled, handlerVars, pos, first, pending, allFetched,
                 rowsErr, chan, closed, failed>>

\* ... then close(fetchedChan), which is what lets the handler go on.
CloseChan ==
  /\ ppc = "closeChan"
  /\ ppc' = "done"
  /\ closed' = TRUE
  /\ UNCHANGED <<total, cancelled, handlerVars, pos, first, pending, allFetched,
                 rowsErr, rowsOpen, chan, failed>>

-----------------------------------------------------------------------------
Handler == Begin \/ QueryDocuments \/ Receive \/ Drain \/ EndTransaction \/ Reply

Fetcher == FetchLoop \/ FetchRow \/ WriteFetched \/ CloseRows \/ CloseChan

Finished == hpc = "done" /\ ppc \in {"none", "done"}

\* The command is over; nothing of it runs any more.
Terminated == Finished /\ UNCHANGED vars

Next == Cancel \/ Handler \/ Fetcher \/ Terminated

\* Both goroutines keep running while they can.
Fairness == WF_vars(Handler) /\ WF_vars(Fetcher)

Spec == Init /\ [][Next]_vars

FairSpec == Spec /\ Fairness

-----------------------------------------------------------------------------
(* Properties.                                                             *)

\* Every variable stays in its range: the channel never holds more than
\* FetchedChannelBufSize items and never more than total rows are read.
TypeOK ==
  /\ total \in 0..MaxRows
  /\ hpc \in {"begin", "query", "receive", "drain", "end", "reply", "done"}
  /\ ppc \in {"none", "loop", "next", "write", "closeRows", "closeChan", "done"}
  /\ pos \in 0..total
  /\ first \in 1..(total + 1)
  /\ pending \in Item
  /\ chan \in Seq(Item) /\ Len(chan) <= ChanCap
  /\ resDocs \subseteq Matching
  /\ tx \in {"none", "open", "committed", "rolledback"}
  /\ reply \in {"none", "ok", "error"}
  /\ cancelled \in BOOLEAN /\ allFetched \in BOOLEAN /\ rowsErr \in BOOLEAN /\ rowsOpen \in BOOLEAN
  /\ closed \in BOOLEAN /\ err \in BOOLEAN /\ failed \in BOOLEAN

\* A successful reply holds every row the filter accepts.  QueryDocuments
\* closes the channel without an error when the context is cancelled, so a
\* reader cannot tell a cancelled fetch from a complete one: only the commit
\* with the same context keeps MsgFind from answering with part of the rows.
NoTruncatedSuccess == reply = "ok" => resDocs = (1..total) \cap Matching

\* The connection goes back to the pool (commit or rollback) only after the
\* rows are closed and the fetching goroutine is gone: the drain in the handler
\* and the order of the goroutine's two deferred calls together ensure it.
TxEndsIdle ==
  tx \in {"committed", "rolledback"} => ~rowsOpen /\ ppc \in {"none", "done"}

\* "If an error occurs during fetching, the last message before closing the
\* channel contains an error": nothing is sent after an error item.
ErrorIsLast ==
  \A i \in DOMAIN chan :
    chan[i].err => i = Len(chan) /\ ppc \in {"closeRows", "closeChan", "done"}

\* The handler's result is always a prefix of the matching rows: no row is lost
\* or overtaken between two batches, in the channel or when the handler receives.
NoGap == \E k \in 0..pos : resDocs = (1..k) \cap Matching

\* The handler always answers and the fetching goroutine always ends, even
\* when the handler stops receiving early while the channel is full.
NoGoroutineLeak == <>Finished

\* The reader as the client sees it: its result appears when it is answered.
Abstract == INSTANCE AtomicRead WITH result <- IF reply = "ok" THEN resDocs ELSE {}

\* The pipeline of goroutines, channel and transaction is one atomic read.
RefinesAtomicRead == Abstract!Spec
=============================================================================
