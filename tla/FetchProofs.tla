---------------------------- MODULE FetchProofs ----------------------------
(***************************************************************************)
(* Proofs about Fetch, for every number of rows, filter, batch size and    *)
(* channel capacity: its types, that a successful answer is complete, that *)
(* the transaction ends only when nothing reads from its connection, that  *)
(* an error is the last item of the channel, and that the pipeline         *)
(* implements AtomicRead.                                                  *)
(***************************************************************************)
EXTENDS Fetch, TLAPS, SequenceTheorems

Closing == {"closeRows", "closeChan", "done"}

\* Where the handler is tells where the fetching goroutine can be.
Control ==
  /\ hpc \in {"begin", "query"} =>
       ppc = "none" /\ ~closed /\ resDocs = {} /\ ~err /\ chan = <<>> /\ pos = 0
  /\ ppc = "none" => ~rowsOpen /\ chan = <<>>
  /\ ppc \in {"closeChan", "done"} => ~rowsOpen
  /\ closed => ppc \in {"none", "done"}
  /\ ppc = "done" => closed
  /\ hpc \in {"end", "reply", "done"} => ppc \in {"none", "done"}
  /\ hpc = "receive" => ~err
  /\ tx \in {"committed", "rolledback"} => hpc \in {"reply", "done"}
  /\ reply # "none" => hpc = "done"

\* An error has a cause: cancellation or a failure.
Causes ==
  err \/ rowsErr \/ pending.err \/ (\E i \in DOMAIN chan : chan[i].err) => cancelled \/ failed

\* The batch being collected or sent ends at the last row read.
Batch ==
  /\ ppc = "next" => first <= pos + 1
  /\ ppc = "write" /\ ~pending.err => pending.first <= pending.last /\ pending.last = pos
  /\ allFetched /\ ~rowsErr => pos = total
  /\ rowsErr => allFetched
  /\ ppc \in {"none", "loop", "next"} => ~allFetched

\* With the rows up to k received, the channel and the batch being sent continue
\* without a gap; an end without an error is the end of the table.
Chain(k) ==
  LET m == IF chan = <<>> THEN k ELSE chan[Len(chan)].last IN
  /\ resDocs = (1..k) \cap Matching
  /\ chan # <<>> /\ ~chan[1].err => chan[1].first = k + 1
  /\ \A i \in 1..(Len(chan) - 1) : ~chan[i + 1].err => chan[i + 1].first = chan[i].last + 1
  /\ \A i \in 1..Len(chan) : ~chan[i].err => chan[i].first <= chan[i].last /\ chan[i].last <= pos
  /\ ppc = "none" => total = 0
  /\ ppc = "loop" => m = pos
  /\ ppc = "next" => m = first - 1
  /\ ppc = "write" /\ ~pending.err => m = pending.first - 1
  /\ ppc \in Closing /\ ~cancelled /\ (\A i \in 1..Len(chan) : ~chan[i].err) => m = total

Receiving == hpc = "receive" => \E k \in 0..pos : Chain(k)

\* After the loop over the channel: complete, unless err or ctx says otherwise.
Complete ==
  /\ hpc \in {"drain", "end"} /\ ~err /\ ~cancelled => resDocs = (1..total) \cap Matching
  /\ hpc = "reply" => resDocs = (1..total) \cap Matching

FetchInv ==
  /\ TypeOK /\ Control /\ Causes /\ Batch /\ ErrorIsLast
  /\ Receiving /\ Complete /\ NoGap /\ NoTruncatedSuccess

-----------------------------------------------------------------------------
(* The parts of the invariant, action by action.                           *)

\* TypeOK in three parts: flags, positions in the program and in the table, items.
Flags ==
  /\ cancelled \in BOOLEAN /\ allFetched \in BOOLEAN /\ rowsErr \in BOOLEAN /\ rowsOpen \in BOOLEAN
  /\ closed \in BOOLEAN /\ err \in BOOLEAN /\ failed \in BOOLEAN

Positions ==
  /\ total \in 0..MaxRows
  /\ hpc \in {"begin", "query", "receive", "drain", "end", "reply", "done"}
  /\ ppc \in {"none", "loop", "next", "write", "closeRows", "closeChan", "done"}
  /\ pos \in 0..total
  /\ first \in 1..(total + 1)
  /\ tx \in {"none", "open", "committed", "rolledback"}
  /\ reply \in {"none", "ok", "error"}

Items ==
  /\ pending \in Item
  /\ chan \in Seq(Item) /\ Len(chan) <= ChanCap
  /\ resDocs \subseteq Matching

\* The type invariant in three parts, ...
LEMMA TypeParts == TypeOK <=> Flags /\ Positions /\ Items
BY SMTT(60) DEF TypeOK, Flags, Positions, Items

\* ... each of which every step keeps: the flags, ...
LEMMA FlagsStep ==
  ASSUME Flags, [Next]_vars
  PROVE  Flags'
<1>1. CASE Cancel
  BY Zenon, <1>1 DEF Cancel, Flags
<1>2. CASE Begin
  BY Zenon, <1>2 DEF Begin, prodVars, Flags
<1>3. CASE QueryDocuments
  BY Zenon, <1>3 DEF QueryDocuments, Flags
<1>4. CASE Receive
  BY ZenonT(60), <1>4 DEF Receive, prodVars, Flags
<1>5. CASE Drain
  BY Zenon, <1>5 DEF Drain, prodVars, Flags
<1>6. CASE EndTransaction
  BY Zenon, <1>6 DEF EndTransaction, CanCommit, prodVars, Flags
<1>7. CASE Reply
  BY Zenon, <1>7 DEF Reply, prodVars, Flags
<1>8. CASE FetchLoop
  BY Zenon, <1>8 DEF FetchLoop, handlerVars, Flags
<1>9. CASE FetchRow
  BY ZenonT(60), <1>9 DEF FetchRow, RowRead, RowBad, RowsEnd, RowsBroken, AfterBatch, handlerVars, Flags
<1>10. CASE WriteFetched
  BY Zenon, <1>10 DEF WriteFetched, MoreRows, ChanHasRoom, handlerVars, Flags
<1>11. CASE CloseRows
  BY Zenon, <1>11 DEF CloseRows, handlerVars, Flags
<1>12. CASE CloseChan
  BY Zenon, <1>12 DEF CloseChan, handlerVars, Flags
<1>13. CASE UNCHANGED vars
  BY Zenon, <1>13 DEF vars, Flags
<1> QED
  BY Zenon, <1>1, <1>2, <1>3, <1>4, <1>5, <1>6, <1>7, <1>8, <1>9, <1>10, <1>11, <1>12, <1>13 DEF Next,
     Handler, Fetcher, Terminated

\* ... the positions in the rows and in the code, ...
LEMMA PositionsStep ==
  ASSUME Positions, [Next]_vars
  PROVE  Positions'
<1>1. CASE Cancel
  BY Zenon, <1>1 DEF Cancel, Positions
<1>2. CASE Begin
  BY Zenon, <1>2 DEF Begin, prodVars, Positions
<1>3. CASE QueryDocuments
  BY Zenon, <1>3 DEF QueryDocuments, Positions
<1>4. CASE Receive
  BY Zenon, <1>4 DEF Receive, prodVars, Positions
<1>5. CASE Drain
  BY Zenon, <1>5 DEF Drain, prodVars, Positions
<1>6. CASE EndTransaction
  BY Zenon, <1>6 DEF EndTransaction, CanCommit, prodVars, Positions
<1>7. CASE Reply
  BY Zenon, <1>7 DEF Reply, prodVars, Positions
<1>8. CASE FetchLoop
  BY <1>8, FetchAssumption DEF FetchLoop, handlerVars, Positions
<1>9. CASE FetchRow
  BY <1>9, FetchAssumption DEF FetchRow, RowRead, RowBad, RowsEnd, RowsBroken, AfterBatch,
     handlerVars, Positions
<1>10. CASE WriteFetched
  BY Zenon, <1>10 DEF WriteFetched, MoreRows, ChanHasRoom, handlerVars, Positions
<1>11. CASE CloseRows
  BY Zenon, <1>11 DEF CloseRows, handlerVars, Positions
<1>12. CASE CloseChan
  BY Zenon, <1>12 DEF CloseChan, handlerVars, Positions
<1>13. CASE UNCHANGED vars
  BY Zenon, <1>13 DEF vars, Positions
<1> QED
  BY Zenon, <1>1, <1>2, <1>3, <1>4, <1>5, <1>6, <1>7, <1>8, <1>9, <1>10, <1>11, <1>12, <1>13 DEF Next,
     Handler, Fetcher, Terminated

\* ... and the items of the channel.
LEMMA ItemsStep ==
  ASSUME Positions, Items, [Next]_vars
  PROVE  Items'
<1>1. CASE Cancel
  BY Zenon, <1>1 DEF Cancel, Items
<1>2. CASE Begin
  BY Zenon, <1>2 DEF Begin, prodVars, Items
<1>3. CASE QueryDocuments
  BY Zenon, <1>3 DEF QueryDocuments, Items
<1>4. CASE Receive
  <2>1. chan # <<>> => Tail(chan) \in Seq(Item) /\ Len(Tail(chan)) <= ChanCap
    BY FetchAssumption DEF Items
  <2> QED
    BY Zenon, <1>4, <2>1 DEF Receive, prodVars, Items
<1>5. CASE Drain
  <2>1. chan # <<>> => Tail(chan) \in Seq(Item) /\ Len(Tail(chan)) <= ChanCap
    BY FetchAssumption DEF Items
  <2> QED
    BY SMTT(60), <1>5, <2>1 DEF Drain, prodVars, Items
<1>6. CASE EndTransaction
  BY Zenon, <1>6 DEF EndTransaction, CanCommit, prodVars, Items
<1>7. CASE Reply
  BY Zenon, <1>7 DEF Reply, prodVars, Items
<1>8. CASE FetchLoop
  BY Zenon, <1>8 DEF FetchLoop, handlerVars, Items
<1>9. CASE FetchRow
  <2>1. pending' \in {pending, Failure, Docs(first, pos), Docs(first, pos + 1)}
    BY Zenon, <1>9 DEF FetchRow, RowRead, RowBad, RowsEnd, RowsBroken, AfterBatch
  <2>2. Docs(first, pos) \in Item /\ (pos < total => Docs(first, pos + 1) \in Item)
    BY FetchAssumption DEF Positions, Docs, Item
  <2>3. pending' = Docs(first, pos + 1) => pos < total \/ pending' \in {pending, Failure, Docs(first, pos)}
    BY Zenon, <1>9 DEF FetchRow, RowRead, RowBad, RowsEnd, RowsBroken, AfterBatch
  <2>4. Failure \in Item
    BY FetchAssumption DEF Failure, Item
  <2>5. pending' \in Item
    BY Zenon, <2>1, <2>2, <2>3, <2>4 DEF Items
  <2> QED
    BY Zenon, <1>9, <2>5 DEF FetchRow, handlerVars, Items
<1>10. CASE WriteFetched
  <2>1. Failure \in Item
    BY FetchAssumption DEF Failure, Item
  <2>2. pending' \in {pending, Failure} /\ resDocs' = resDocs
    BY Zenon, <1>10 DEF WriteFetched, handlerVars
  <2>3. chan' = chan \/ (Len(chan) < ChanCap /\ chan' = Append(chan, pending))
    BY Zenon, <1>10 DEF WriteFetched, ChanHasRoom
  <2>4. chan' \in Seq(Item) /\ Len(chan') <= ChanCap
    BY <2>3, FetchAssumption DEF Items
  <2> QED
    BY Zenon, <2>1, <2>2, <2>4 DEF Items
<1>11. CASE CloseRows
  BY Zenon, <1>11 DEF CloseRows, handlerVars, Items
<1>12. CASE CloseChan
  BY Zenon, <1>12 DEF CloseChan, handlerVars, Items
<1>13. CASE UNCHANGED vars
  BY Zenon, <1>13 DEF vars, Items
<1> QED
  BY Zenon, <1>1, <1>2, <1>3, <1>4, <1>5, <1>6, <1>7, <1>8, <1>9, <1>10, <1>11, <1>12, <1>13 DEF Next,
     Handler, Fetcher, Terminated

\* Every step keeps where the handler and the goroutine can be, ...
LEMMA ControlStep ==
  ASSUME Flags, Positions, Items, Control, [Next]_vars
  PROVE  Control'
<1>1. CASE Cancel
  BY Zenon, <1>1 DEF Cancel, Control, Flags, Positions
<1>2. CASE Begin
  BY Zenon, <1>2 DEF Begin, prodVars, Control, Flags, Positions
<1>3. CASE QueryDocuments
  BY <1>3 DEF QueryDocuments, Control, Flags, Positions, Items
<1>4. CASE Receive
  BY <1>4 DEF Receive, prodVars, Control, Flags, Positions
<1>5. CASE Drain
  BY Zenon, <1>5 DEF Drain, prodVars, Control, Flags, Positions
<1>6. CASE EndTransaction
  BY Zenon, <1>6 DEF EndTransaction, CanCommit, prodVars, Control, Flags, Positions
<1>7. CASE Reply
  BY Zenon, <1>7 DEF Reply, prodVars, Control, Flags, Positions
<1>8. CASE FetchLoop
  BY Zenon, <1>8 DEF FetchLoop, handlerVars, Control, Flags, Positions
<1>9. CASE FetchRow
  BY Zenon, <1>9 DEF FetchRow, RowRead, RowBad, RowsEnd, RowsBroken, AfterBatch, handlerVars, Control,
     Flags, Positions
<1>10. CASE WriteFetched
  BY Zenon, <1>10 DEF WriteFetched, MoreRows, ChanHasRoom, handlerVars, Control, Flags, Positions
<1>11. CASE CloseRows
  BY Zenon, <1>11 DEF CloseRows, handlerVars, Control, Flags, Positions
<1>12. CASE CloseChan
  BY Zenon, <1>12 DEF CloseChan, handlerVars, Control, Flags, Positions
<1>13. CASE UNCHANGED vars
  BY Zenon, <1>13 DEF vars, Control, Flags, Positions
<1> QED
  BY SMTT(60), <1>1, <1>2, <1>3, <1>4, <1>5, <1>6, <1>7, <1>8, <1>9, <1>10, <1>11, <1>12, <1>13 DEF Next,
     Handler, Fetcher, Terminated

\* ... that an error has a cause, ...
LEMMA CausesStep ==
  ASSUME Flags, Items, Causes, [Next]_vars
  PROVE  Causes'
<1>1. CASE Cancel
  BY Zenon, <1>1 DEF Cancel, Flags, Items, Causes
<1>2. CASE Begin
  BY Zenon, <1>2 DEF Begin, prodVars, Flags, Items, Causes
<1>3. CASE QueryDocuments
  BY Zenon, <1>3 DEF QueryDocuments, Flags, Items, Causes
<1>4. CASE Receive
  BY SMTT(60), <1>4 DEF Receive, prodVars, Flags, Items, Causes
<1>5. CASE Drain
  BY <1>5 DEF Drain, prodVars, Flags, Items, Causes
<1>6. CASE EndTransaction
  BY Zenon, <1>6 DEF EndTransaction, CanCommit, prodVars, Flags, Items, Causes
<1>7. CASE Reply
  BY Zenon, <1>7 DEF Reply, prodVars, Flags, Items, Causes
<1>8. CASE FetchLoop
  BY Zenon, <1>8 DEF FetchLoop, handlerVars, Flags, Items, Causes
<1>9. CASE FetchRow
  <2>1. cancelled' = cancelled /\ chan' = chan /\ err' = err
    BY Zenon, <1>9 DEF FetchRow, handlerVars
  <2>2. CASE RowRead
    BY <2>1, <2>2 DEF RowRead, Causes, Docs
  <2>3. CASE RowBad
    BY Zenon, <2>3 DEF RowBad, Causes
  <2>4. CASE RowsEnd
    BY <2>1, <2>4 DEF RowsEnd, AfterBatch, Causes, Docs
  <2>5. CASE RowsBroken
    BY Zenon, <2>1, <2>5 DEF RowsBroken, Causes
  <2> QED
    BY Zenon, <1>9, <2>2, <2>3, <2>4, <2>5 DEF FetchRow
<1>10. CASE WriteFetched
  BY <1>10 DEF WriteFetched, MoreRows, ChanHasRoom, handlerVars, Flags, Items, Causes, Failure
<1>11. CASE CloseRows
  BY Zenon, <1>11 DEF CloseRows, handlerVars, Flags, Items, Causes
<1>12. CASE CloseChan
  BY Zenon, <1>12 DEF CloseChan, handlerVars, Flags, Items, Causes
<1>13. CASE UNCHANGED vars
  BY Zenon, <1>13 DEF vars, Flags, Items, Causes
<1> QED
  BY SMTT(60), <1>1, <1>2, <1>3, <1>4, <1>5, <1>6, <1>7, <1>8, <1>9, <1>10, <1>11, <1>12, <1>13 DEF Next,
     Handler, Fetcher, Terminated

\* ... where the batch being collected ends, ...
LEMMA BatchStep ==
  ASSUME Flags, Positions, Items, Control, Batch, [Next]_vars
  PROVE  Batch'
<1>1. CASE Cancel
  BY Zenon, <1>1 DEF Cancel, Batch
<1>2. CASE Begin
  BY Zenon, <1>2 DEF Begin, prodVars, Batch
<1>3. CASE QueryDocuments
  BY Zenon, <1>3 DEF QueryDocuments, Batch, Control
<1>4. CASE Receive
  BY Zenon, <1>4 DEF Receive, prodVars, Batch
<1>5. CASE Drain
  BY Zenon, <1>5 DEF Drain, prodVars, Batch
<1>6. CASE EndTransaction
  BY Zenon, <1>6 DEF EndTransaction, CanCommit, prodVars, Batch
<1>7. CASE Reply
  BY Zenon, <1>7 DEF Reply, prodVars, Batch
<1>8. CASE FetchLoop
  BY SMTT(60), <1>8 DEF FetchLoop, handlerVars, Batch, Positions
<1>9. CASE FetchRow
  BY <1>9 DEF FetchRow, RowRead, RowBad, RowsEnd, RowsBroken, AfterBatch, handlerVars, Batch,
     Positions, Flags, Docs, Failure
<1>10. CASE WriteFetched
  BY <1>10 DEF WriteFetched, MoreRows, ChanHasRoom, handlerVars, Batch, Flags, Failure
<1>11. CASE CloseRows
  BY Zenon, <1>11 DEF CloseRows, handlerVars, Batch
<1>12. CASE CloseChan
  BY Zenon, <1>12 DEF CloseChan, handlerVars, Batch
<1>13. CASE UNCHANGED vars
  BY Zenon, <1>13 DEF vars, Batch
<1> QED
  BY SMTT(60), <1>1, <1>2, <1>3, <1>4, <1>5, <1>6, <1>7, <1>8, <1>9, <1>10, <1>11, <1>12, <1>13 DEF Next,
     Handler, Fetcher, Terminated

\* ... and that an error comes last.
LEMMA ErrorStep ==
  ASSUME Items, Control, ErrorIsLast, [Next]_vars
  PROVE  ErrorIsLast'
<1>1. CASE Cancel
  BY Zenon, <1>1 DEF Cancel, Items, ErrorIsLast
<1>2. CASE Begin
  BY Zenon, <1>2 DEF Begin, prodVars, Items, ErrorIsLast
<1>3. CASE QueryDocuments
  BY Zenon, <1>3 DEF QueryDocuments, Items, ErrorIsLast, Control
<1>4. CASE Receive
  BY <1>4 DEF Receive, prodVars, Items, ErrorIsLast
<1>5. CASE Drain
  BY <1>5 DEF Drain, prodVars, Items, ErrorIsLast
<1>6. CASE EndTransaction
  BY Zenon, <1>6 DEF EndTransaction, CanCommit, prodVars, Items, ErrorIsLast
<1>7. CASE Reply
  BY Zenon, <1>7 DEF Reply, prodVars, Items, ErrorIsLast
<1>8. CASE FetchLoop
  BY Zenon, <1>8 DEF FetchLoop, handlerVars, Items, ErrorIsLast
<1>9. CASE FetchRow
  BY Zenon, <1>9 DEF FetchRow, RowRead, RowBad, RowsEnd, RowsBroken, AfterBatch, handlerVars, Items,
     ErrorIsLast
<1>10. CASE WriteFetched
  BY SMTT(60), <1>10 DEF WriteFetched, MoreRows, ChanHasRoom, handlerVars, Items, ErrorIsLast, Failure
<1>11. CASE CloseRows
  BY Zenon, <1>11 DEF CloseRows, handlerVars, Items, ErrorIsLast
<1>12. CASE CloseChan
  BY Zenon, <1>12 DEF CloseChan, handlerVars, Items, ErrorIsLast
<1>13. CASE UNCHANGED vars
  BY Zenon, <1>13 DEF vars, Items, ErrorIsLast
<1> QED
  BY SMTT(60), <1>1, <1>2, <1>3, <1>4, <1>5, <1>6, <1>7, <1>8, <1>9, <1>10, <1>11, <1>12, <1>13 DEF Next,
     Handler, Fetcher, Terminated

\* One more batch received extends the prefix of matching rows.
LEMMA PrefixGrows ==
  ASSUME NEW k \in Nat, NEW l \in Nat, k <= l
  PROVE  ((1..k) \cap Matching) \cup (((k + 1)..l) \cap Matching) = (1..l) \cap Matching
BY SMTT(60)

\* A step that leaves the handler's result and the channel alone.
LEMMA ChainSame ==
  ASSUME NEW k \in 0..pos, Chain(k), Positions, Positions', Items, Flags, Flags',
         UNCHANGED <<resDocs, chan, total>>, pos <= pos',
         LET m == IF chan = <<>> THEN k ELSE chan[Len(chan)].last IN
         /\ ppc' = "none" => total = 0
         /\ ppc' = "loop" => m = pos'
         /\ ppc' = "next" => m = first' - 1
         /\ ppc' = "write" /\ ~pending'.err => m = pending'.first - 1
         /\ ppc' \in Closing /\ ~cancelled' /\ (\A i \in 1..Len(chan) : ~chan[i].err) => m = total
  PROVE  k \in 0..pos' /\ Chain(k)'
<1>1. k \in 0..pos'
  BY DEF Positions
<1>2. \A i \in 1..Len(chan) : ~chan[i].err => chan[i].last <= pos'
  <2> SUFFICES ASSUME NEW i \in 1..Len(chan), ~chan[i].err PROVE chan[i].last <= pos'
    BY SMTT(60)
  <2>1. chan[i].last <= pos /\ chan[i] \in Item
    BY SMTT(60) DEF Chain, Items
  <2>2. chan[i].last \in Nat
    BY <2>1 DEF Item
  <2> QED
    BY SMTT(60), <2>1, <2>2 DEF Positions
<1> QED
  BY Zenon, <1>1, <1>2 DEF Chain

\* Receiving an item, ...
LEMMA ReceiveChain ==
  ASSUME Flags, Positions, Items, Control, ErrorIsLast, Receiving, Receive, hpc' = "receive"
  PROVE  Receiving'
<1>1. PICK k \in 0..pos : Chain(k)
  BY Zenon DEF Receive, Receiving
<1> DEFINE item == Head(chan)
<1>0. PICK l : l = item.last
  BY Zenon
<1>2. /\ chan # <<>> /\ chan' = Tail(chan) /\ ~item.err
      /\ resDocs' = resDocs \cup ((item.first..l) \cap Matching)
      /\ UNCHANGED <<total, cancelled, ppc, pos, first, pending>>
  BY Zenon, <1>0 DEF Receive, prodVars
<1>3. item = chan[1] /\ item \in Item /\ Len(chan) \in Nat /\ Len(chan) > 0
  BY SMTT(60), <1>2 DEF Items
<1>4. item.first = k + 1 /\ item.first <= l /\ l <= pos /\ l \in Nat /\ k \in Nat
  BY <1>0, <1>1, <1>2, <1>3 DEF Chain, Item, Positions
<1>5. k <= l /\ l \in 0..pos
  BY SMTT(60), <1>4 DEF Positions
<1>6. resDocs' = (1..l) \cap Matching
  BY Zenon, <1>1, <1>2, <1>4, <1>5, PrefixGrows DEF Chain
<1>7. /\ Len(chan') = Len(chan) - 1
      /\ \A i \in 1..Len(chan') : chan'[i] = chan[i + 1] /\ i + 1 \in 1..Len(chan)
      /\ chan' = <<>> <=> Len(chan) = 1
  <2>1. chan \in Seq(Item) /\ chan' = Tail(chan) /\ chan # <<>>
    BY Zenon, <1>2 DEF Items
  <2>2. chan' \in Seq(Item) /\ Len(chan') = Len(chan) - 1
    BY <2>1
  <2>3. \A i \in 1..Len(chan') : chan'[i] = chan[i + 1] /\ i + 1 \in 1..Len(chan)
    BY <2>1
  <2>4. chan' = <<>> <=> Len(chan') = 0
    BY Zenon, <2>2, EmptySeq
  <2> QED
    BY <1>3, <2>2, <2>3, <2>4
<1>8. (IF chan' = <<>> THEN l ELSE chan'[Len(chan')].last)
        = (IF chan = <<>> THEN k ELSE chan[Len(chan)].last)
  BY SMTT(60), <1>0, <1>2, <1>3, <1>7
<1>9. chan' # <<>> /\ ~chan'[1].err => chan'[1].first = l + 1
  BY SMTT(60), <1>0, <1>1, <1>3, <1>7 DEF Chain
<1>10. \A i \in 1..(Len(chan') - 1) : ~chan'[i + 1].err => chan'[i + 1].first = chan'[i].last + 1
  <2> SUFFICES ASSUME NEW i \in 1..(Len(chan') - 1), ~chan'[i + 1].err
               PROVE  chan'[i + 1].first = chan'[i].last + 1
    BY Zenon
  <2>1. i + 1 \in 1..(Len(chan) - 1) /\ chan'[i] = chan[i + 1] /\ chan'[i + 1] = chan[(i + 1) + 1]
    BY SMTT(60), <1>3, <1>7
  <2> QED
    BY Zenon, <1>1, <2>1 DEF Chain
<1>11. \A i \in 1..Len(chan') :
         ~chan'[i].err => chan'[i].first <= chan'[i].last /\ chan'[i].last <= pos'
  BY Zenon, <1>1, <1>2, <1>7 DEF Chain
<1>12. (\A i \in 1..Len(chan') : ~chan'[i].err) => (\A i \in 1..Len(chan) : ~chan[i].err)
  <2> SUFFICES ASSUME \A i \in 1..Len(chan') : ~chan'[i].err, NEW i \in 1..Len(chan)
               PROVE  ~chan[i].err
    BY Zenon
  <2>1. CASE i = 1
    BY Zenon, <1>2, <1>3, <2>1
  <2>2. CASE i # 1
    <3>1. i - 1 \in 1..Len(chan') /\ chan'[i - 1] = chan[(i - 1) + 1] /\ (i - 1) + 1 = i
      BY SMTT(60), <1>3, <1>7, <2>2
    <3> QED
      BY Zenon, <3>1
  <2> QED
    BY Zenon, <2>1, <2>2
<1> HIDE DEF item
<1>13. Chain(l)'
  <2> DEFINE m == IF chan' = <<>> THEN l ELSE chan'[Len(chan')].last
             n == IF chan = <<>> THEN k ELSE chan[Len(chan)].last
  <2>1. m = n
    BY SMTT(60), <1>8
  <2>2. /\ ppc = "none" => total = 0
        /\ ppc = "loop" => n = pos
        /\ ppc = "next" => n = first - 1
        /\ ppc = "write" /\ ~pending.err => n = pending.first - 1
        /\ ppc \in Closing /\ ~cancelled /\ (\A i \in 1..Len(chan) : ~chan[i].err) => n = total
    BY Zenon, <1>1 DEF Chain
  <2> HIDE DEF m, n
  <2>3. /\ ppc' = "none" => total' = 0
        /\ ppc' = "loop" => m = pos'
        /\ ppc' = "next" => m = first' - 1
        /\ ppc' = "write" /\ ~pending'.err => m = pending'.first - 1
        /\ ppc' \in Closing /\ ~cancelled' /\ (\A i \in 1..Len(chan') : ~chan'[i].err) => m = total'
    BY SMTT(60), <1>2, <1>12, <2>1, <2>2
  <2> QED
    BY Zenon, <1>6, <1>9, <1>10, <1>11, <2>3 DEF Chain, m
<1> QED
  BY SMTT(60), <1>2, <1>5, <1>13 DEF Receiving

\* ... and sending one, keep the batches in a chain without gaps, ...
LEMMA WriteChain ==
  ASSUME Flags, Positions, Items, Items', Batch, ErrorIsLast, Receiving, WriteFetched,
         hpc = "receive"
  PROVE  Receiving'
<1>1. PICK k \in 0..pos : Chain(k)
  BY SMTT(60) DEF Receiving
<1>2. /\ ppc = "write" /\ UNCHANGED <<total, cancelled, pos, first, resDocs, hpc, allFetched, rowsErr>>
      /\ pending \in Item /\ chan \in Seq(Item) /\ k \in Nat /\ pos \in Nat
  BY DEF WriteFetched, handlerVars, Items, Positions
<1>3. \A i \in 1..Len(chan) : ~chan[i].err
  BY SMTT(60), <1>2 DEF ErrorIsLast, Items
<1>4. CASE cancelled /\ ppc' = "closeRows" /\ UNCHANGED <<chan, pending>>
  BY Zenon, <1>1, <1>2, <1>4 DEF Chain, Receiving
<1>5. CASE chan' = Append(chan, pending)
  <2>1. /\ Len(chan') = Len(chan) + 1 /\ chan'[Len(chan')] = pending
        /\ \A i \in 1..Len(chan) : chan'[i] = chan[i]
        /\ chan' # <<>> /\ Len(chan) \in Nat
    BY <1>2, <1>5
  <2>2. pending.first \in Nat /\ pending.last \in Nat
    BY <1>2 DEF Item
  <2>3. ~pending.err => pending.first <= pending.last /\ pending.last = pos
    BY SMTT(60), <1>2 DEF Batch
  <2>4. ~pending.err =>
          pending.first = (IF chan = <<>> THEN k ELSE chan[Len(chan)].last) + 1
    <3>1. chan # <<>> => chan[Len(chan)] \in Item
      BY <1>2
    <3>2. chan # <<>> => chan[Len(chan)].last \in Nat
      BY <3>1 DEF Item
    <3> QED
      BY SMTT(60), <1>1, <1>2, <2>2, <3>2 DEF Chain
  <2>5. chan = <<>> <=> Len(chan) = 0
    BY Zenon, <1>2, EmptySeq
  <2>6. ~chan'[1].err => chan'[1].first = k + 1
    <3>1. CASE chan = <<>>
      BY SMTT(60), <2>1, <2>4, <2>5, <3>1
    <3>2. CASE chan # <<>>
      BY SMTT(60), <1>1, <2>1, <2>5, <3>2 DEF Chain
    <3> QED
      BY Zenon, <3>1, <3>2
  <2>7. \A i \in 1..(Len(chan') - 1) : ~chan'[i + 1].err => chan'[i + 1].first = chan'[i].last + 1
    <3> SUFFICES ASSUME NEW i \in 1..(Len(chan') - 1), ~chan'[i + 1].err
                 PROVE  chan'[i + 1].first = chan'[i].last + 1
      BY Zenon
    <3>1. CASE i = Len(chan)
      BY SMTT(60), <2>1, <2>4, <2>5, <3>1
    <3>2. CASE i # Len(chan)
      <4>1. i \in 1..(Len(chan) - 1) /\ i + 1 \in 1..Len(chan)
        BY <2>1, <3>2
      <4>2. chan'[i] = chan[i] /\ chan'[i + 1] = chan[i + 1]
        BY <2>1, <4>1
      <4> QED
        BY SMTT(60), <1>1, <4>1, <4>2 DEF Chain
    <3> QED
      BY Zenon, <3>1, <3>2
  <2>8. \A i \in 1..Len(chan') :
          ~chan'[i].err => chan'[i].first <= chan'[i].last /\ chan'[i].last <= pos'
    <3> SUFFICES ASSUME NEW i \in 1..Len(chan'), ~chan'[i].err
                 PROVE  chan'[i].first <= chan'[i].last /\ chan'[i].last <= pos'
      BY Zenon
    <3>1. CASE i = Len(chan')
      BY SMTT(60), <1>2, <2>1, <2>3, <3>1
    <3>2. CASE i # Len(chan')
      <4>1. i \in 1..Len(chan)
        BY SMTT(60), <2>1, <3>2
      <4> QED
        BY Zenon, <1>1, <1>2, <2>1, <4>1 DEF Chain
    <3> QED
      BY Zenon, <3>1, <3>2
  <2>9. /\ ppc' = "none" => total' = 0
        /\ ppc' = "loop" => pending.last = pos'
        /\ ppc' # "next"
        /\ ppc' = "write" => pending'.err
        /\ ppc' \in Closing /\ (\A i \in 1..Len(chan') : ~chan'[i].err) => pending.last = total'
    <3>1. /\ \/ MoreRows /\ ppc' = "loop"
             \/ pending' = Failure /\ ppc' = ppc
             \/ (pending.err \/ (allFetched /\ ~rowsErr)) /\ ppc' = "closeRows"
             \/ cancelled /\ ppc' = "closeRows" /\ UNCHANGED chan
      BY Zenon DEF WriteFetched
    <3>2. chan' # chan
      BY <2>1
    <3>3. pending' = Failure => pending'.err
      BY DEF Failure
    <3>4. (\A i \in 1..Len(chan') : ~chan'[i].err) => ~pending.err
      BY <2>1
    <3>5. allFetched /\ ~rowsErr => pos = total
      BY SMTT(60) DEF Batch
    <3> QED
      BY SMTT(60), <1>2, <2>3, <3>1, <3>2, <3>3, <3>4, <3>5 DEF MoreRows, Closing
  <2>10. resDocs' = (1..k) \cap Matching
    BY SMTT(60), <1>1, <1>2 DEF Chain
  <2>11. Chain(k)'
    BY Zenon, <2>1, <2>6, <2>7, <2>8, <2>9, <2>10 DEF Chain
  <2> QED
    BY Zenon, <1>2, <2>11 DEF Receiving
<1> QED
  BY Zenon, <1>4, <1>5 DEF WriteFetched

\* ... and so does every other step.
LEMMA ReceivingStep ==
  ASSUME Flags, Positions, Items, Control, Batch, ErrorIsLast, Receiving,
         Flags', Positions', Items', [Next]_vars
  PROVE  Receiving'
<1> SUFFICES ASSUME hpc' = "receive" PROVE \E k \in 0..pos' : Chain(k)'
  BY Zenon DEF Receiving
<1>1. CASE QueryDocuments
  <2>1. /\ resDocs' = {} /\ chan' = <<>> /\ pos' = 0 /\ total' = total
        /\ ppc' = "loop" \/ (ppc' = "none" /\ total = 0)
    BY Zenon, <1>1 DEF QueryDocuments, Control
  <2>2. (1..0) \cap Matching = {} /\ Len(chan') = 0
    BY <2>1
  <2>3. Chain(0)'
    BY <2>1, <2>2 DEF Chain, Closing
  <2>4. 0 \in 0..pos'
    BY <2>1
  <2> QED
    BY SMTT(60), <2>3, <2>4
<1>2. CASE Receive
  BY Zenon, <1>2, ReceiveChain DEF Receiving
<1>3. CASE WriteFetched
  <2>1. hpc = "receive"
    BY SMTT(60), <1>3 DEF WriteFetched, handlerVars
  <2> QED
    BY SMTT(60), <1>3, <2>1, WriteChain DEF Receiving
<1>4. CASE Begin \/ Drain \/ EndTransaction \/ Reply
  BY Zenon, <1>4 DEF Begin, Drain, EndTransaction, Reply
<1>5. CASE Cancel \/ FetchLoop \/ FetchRow \/ CloseRows \/ CloseChan \/ UNCHANGED vars
  <2>1. hpc = "receive" /\ UNCHANGED <<resDocs, chan, total>>
    BY Zenon, <1>5 DEF Cancel, FetchLoop, FetchRow, CloseRows, CloseChan, handlerVars, vars
  <2>2. PICK k \in 0..pos : Chain(k)
    BY SMTT(60), <2>1 DEF Receiving
  <2> DEFINE m == IF chan = <<>> THEN k ELSE chan[Len(chan)].last
             clean == \A i \in 1..Len(chan) : ~chan[i].err
  <2>3. /\ ppc = "none" => total = 0
        /\ ppc = "loop" => m = pos
        /\ ppc = "next" => m = first - 1
        /\ ppc = "write" /\ ~pending.err => m = pending.first - 1
        /\ ppc \in Closing /\ ~cancelled /\ clean => m = total
    BY Zenon, <2>2 DEF Chain
  <2>4. pos \in Nat /\ first \in Nat
    BY SMTT(60) DEF Positions
  <2> HIDE DEF m, clean
  <2>5. /\ pos <= pos'
        /\ ppc' = "none" => total = 0
        /\ ppc' = "loop" => m = pos'
        /\ ppc' = "next" => m = first' - 1
        /\ ppc' = "write" /\ ~pending'.err => m = pending'.first - 1
        /\ ppc' \in Closing /\ ~cancelled' /\ clean => m = total
    <3>1. CASE Cancel
      BY SMTT(60), <2>3, <2>4, <3>1 DEF Cancel
    <3>2. CASE FetchLoop
      BY SMTT(60), <2>3, <2>4, <3>2 DEF FetchLoop, Closing
    <3>3. CASE FetchRow
      <4>1. ppc = "next" /\ first' = first /\ m = first - 1 /\ first <= pos + 1
        BY SMTT(60), <2>3, <3>3 DEF FetchRow, Batch
      <4>2. CASE RowRead
        BY SMTT(60), <2>4, <4>1, <4>2 DEF RowRead, Docs, Closing
      <4>3. CASE RowBad
        BY SMTT(60), <2>4, <4>1, <4>3 DEF RowBad, Failure, Closing
      <4>4. CASE RowsEnd
        BY SMTT(60), <2>4, <4>1, <4>4 DEF RowsEnd, AfterBatch, Docs, Closing, Positions
      <4>5. CASE RowsBroken
        BY SMTT(60), <2>4, <4>1, <4>5 DEF RowsBroken, AfterBatch, Docs, Failure, Closing
      <4> QED
        BY SMTT(60), <3>3, <4>2, <4>3, <4>4, <4>5 DEF FetchRow
    <3>4. CASE CloseRows
      BY SMTT(60), <2>3, <2>4, <3>4 DEF CloseRows, Closing
    <3>5. CASE CloseChan
      BY SMTT(60), <2>3, <2>4, <3>5 DEF CloseChan, Closing
    <3>6. CASE UNCHANGED vars
      BY SMTT(60), <2>3, <2>4, <3>6 DEF vars
    <3> QED
      BY SMTT(60), <1>5, <3>1, <3>2, <3>3, <3>4, <3>5, <3>6
  <2>6. k \in 0..pos' /\ Chain(k)'
    BY SMTT(60), <2>1, <2>2, <2>5, ChainSame DEF m, clean
  <2> QED
    BY SMTT(60), <2>6
<1> QED
  BY Zenon, <1>1, <1>2, <1>3, <1>4, <1>5 DEF Next, Handler, Fetcher, Terminated

\* When the handler stops receiving without an error it has every row.
LEMMA CompleteStep ==
  ASSUME Flags, Positions, Control, Receiving, Complete, [Next]_vars
  PROVE  Complete'
<1>1. CASE Receive
  <2>1. CASE hpc' = "drain" /\ ~err'
    <3>1. /\ chan = <<>> /\ closed /\ hpc = "receive"
          /\ UNCHANGED <<resDocs, total, cancelled>>
      BY Zenon, <1>1, <2>1 DEF Receive, Control
    <3>2. PICK k \in 0..pos : Chain(k)
      BY Zenon, <3>1 DEF Receiving
    <3>3. ppc \in {"none", "done"} /\ Len(chan) = 0
      BY SMTT(60), <3>1 DEF Control
    <3>4. ~cancelled => k = total
      BY <3>1, <3>2, <3>3 DEF Chain, Closing, Positions
    <3> QED
      BY SMTT(60), <2>1, <3>1, <3>2, <3>4 DEF Complete, Chain
  <2>2. CASE hpc' = "drain" /\ err'
    BY Zenon, <2>2 DEF Complete
  <2>3. CASE hpc' = "receive"
    BY SMTT(60), <2>3 DEF Complete
  <2> QED
    BY SMTT(60), <1>1, <2>1, <2>2, <2>3 DEF Receive, Flags
<1>2. CASE QueryDocuments
  BY Zenon, <1>2 DEF QueryDocuments, Complete
<1>3. CASE Drain
  BY Zenon, <1>3 DEF Drain, Complete
<1>4. CASE EndTransaction
  BY SMTT(60), <1>4 DEF EndTransaction, CanCommit, Complete
<1>5. CASE Begin \/ Reply
  BY Zenon, <1>5 DEF Begin, Reply, Complete
<1>6. CASE Cancel \/ Fetcher \/ UNCHANGED vars
  <2>1. UNCHANGED <<hpc, err, resDocs, total>> /\ (cancelled' = cancelled \/ cancelled')
    BY Zenon, <1>6 DEF Cancel, Fetcher, FetchLoop, FetchRow, WriteFetched, CloseRows, CloseChan,
                handlerVars, vars
  <2> QED
    BY SMTT(60), <2>1 DEF Complete
<1> QED
  BY SMTT(60), <1>1, <1>2, <1>3, <1>4, <1>5, <1>6 DEF Next, Handler, Terminated

\* So a successful answer has all of them, ...
LEMMA AnswerStep ==
  ASSUME Control, Complete, NoTruncatedSuccess, [Next]_vars
  PROVE  NoTruncatedSuccess'
<1>1. CASE Reply
  BY Zenon, <1>1 DEF Reply, Complete, NoTruncatedSuccess
<1>2. CASE Begin \/ EndTransaction
  BY SMTT(60), <1>2 DEF Begin, EndTransaction, NoTruncatedSuccess
<1>3. CASE Receive
  BY SMTT(60), <1>3 DEF Receive, Control, NoTruncatedSuccess
<1>4. CASE Cancel \/ QueryDocuments \/ Drain \/ Fetcher \/ UNCHANGED vars
  BY Zenon, <1>4 DEF Cancel, QueryDocuments, Drain, Fetcher, FetchLoop, FetchRow, WriteFetched,
              CloseRows, CloseChan, handlerVars, vars, NoTruncatedSuccess
<1> QED
  BY Zenon, <1>1, <1>2, <1>3, <1>4 DEF Next, Handler, Terminated

\* ... and at no time is there a gap in what was received.
LEMMA NoGapStep ==
  ASSUME Positions, Positions', Receiving', NoGap, [Next]_vars
  PROVE  NoGap'
<1>1. CASE hpc' = "receive"
  BY SMTT(60), <1>1 DEF Receiving, NoGap, Chain
<1>2. CASE hpc' # "receive"
  <2>1. resDocs' = resDocs
    <3>1. CASE Handler
      BY Zenon, <1>2, <3>1 DEF Handler, Begin, QueryDocuments, Receive, Drain, EndTransaction, Reply
    <3>2. CASE Fetcher
      BY Zenon, <3>2 DEF Fetcher, FetchLoop, FetchRow, WriteFetched, CloseRows, CloseChan, handlerVars
    <3>3. CASE Cancel \/ Terminated \/ UNCHANGED vars
      BY Zenon, <3>3 DEF Cancel, Terminated, vars
    <3> QED
      BY Zenon, <3>1, <3>2, <3>3 DEF Next
  <2>2. pos' = pos \/ pos' = pos + 1
    <3>1. CASE Handler
      BY Zenon, <3>1 DEF Handler, Begin, QueryDocuments, Receive, Drain, EndTransaction, Reply, prodVars
    <3>2. CASE Fetcher
      BY Zenon, <3>2 DEF Fetcher, FetchLoop, FetchRow, RowRead, RowBad, RowsEnd, RowsBroken,
                         WriteFetched, CloseRows, CloseChan
    <3>3. CASE Cancel \/ Terminated \/ UNCHANGED vars
      BY Zenon, <3>3 DEF Cancel, Terminated, prodVars, vars
    <3> QED
      BY Zenon, <3>1, <3>2, <3>3 DEF Next
  <2> QED
    BY SMTT(60), <2>1, <2>2 DEF NoGap, Positions
<1> QED
  BY SMTT(60), <1>1, <1>2

-----------------------------------------------------------------------------
(* The theorems.                                                           *)

\* The inductive invariant holds initially, ...
LEMMA FetchInit ==
  ASSUME Init
  PROVE  FetchInv
<1>1. TypeOK
  <2>1. NoItem \in Item
    BY FetchAssumption DEF NoItem, Item
  <2>2. Flags
    BY Zenon DEF Init, Flags
  <2>3. Positions
    BY FetchAssumption DEF Init, Positions
  <2>4. Items
    BY SMTT(60), <2>1, FetchAssumption, EmptySeq DEF Init, Items
  <2> QED
    BY SMTT(60), <2>2, <2>3, <2>4, TypeParts
<1>2. Control /\ Batch /\ Receiving /\ Complete /\ NoTruncatedSuccess
  BY Zenon DEF Init, Control, Batch, Receiving, Complete, NoTruncatedSuccess
<1>3. Causes /\ ErrorIsLast
  BY DEF Init, Causes, ErrorIsLast, NoItem
<1>4. NoGap
  <2>1. {} = (1..0) \cap Matching /\ 0 \in 0..pos
    BY DEF Init
  <2> QED
    BY Zenon, <2>1 DEF Init, NoGap
<1> QED
  BY Zenon, <1>1, <1>2, <1>3, <1>4 DEF FetchInv

\* ... and is kept by every step.
LEMMA FetchNext ==
  ASSUME FetchInv, [Next]_vars
  PROVE  FetchInv'
<1> USE DEF FetchInv
<1>1. Flags /\ Positions /\ Items
  BY Zenon, TypeParts
<1>2. Flags' /\ Positions' /\ Items'
  BY Zenon, <1>1, FlagsStep, PositionsStep, ItemsStep
<1>3. TypeOK'
  <2>1. (Flags /\ Positions /\ Items)' => TypeOK'
    BY Zenon DEF TypeOK, Flags, Positions, Items
  <2> QED
    BY SMTT(60), <1>2, <2>1
<1>4. Control' /\ Causes' /\ Batch' /\ ErrorIsLast'
  BY Zenon, <1>1, ControlStep, CausesStep, BatchStep, ErrorStep
<1>5. Receiving'
  BY Zenon, <1>1, <1>2, ReceivingStep
<1>6. Complete' /\ NoTruncatedSuccess' /\ NoGap'
  BY Zenon, <1>1, <1>2, <1>5, CompleteStep, AnswerStep, NoGapStep
<1> QED
  BY Zenon, <1>3, <1>4, <1>5, <1>6

\* The inductive invariant of the pipeline.
LEMMA FetchInvariant == Spec => []FetchInv
<1>1. Init => FetchInv
  BY Zenon, FetchInit
<1>2. FetchInv /\ [Next]_vars => FetchInv'
  BY Zenon, FetchNext
<1> QED
  BY <1>1, <1>2, PTL DEF Spec

\* Every variable of the pipeline stays in its range, in particular the channel
\* within its capacity.
THEOREM FetchTypeCorrect == Spec => []TypeOK
<1>1. FetchInv => TypeOK
  BY Zenon DEF FetchInv
<1> QED
  BY <1>1, FetchInvariant, PTL

\* MsgFind never answers ok with part of the matching rows, however cancellation,
\* row errors and the two goroutines interleave.
THEOREM FindComplete == Spec => []NoTruncatedSuccess
<1>1. FetchInv => NoTruncatedSuccess
  BY SMTT(60) DEF FetchInv
<1> QED
  BY <1>1, FetchInvariant, PTL

\* InTransaction never commits or rolls back while the rows of its connection are
\* open or the goroutine that reads them runs.
THEOREM TransactionEndsIdle == Spec => []TxEndsIdle
<1>1. FetchInv => TxEndsIdle
  BY Zenon DEF FetchInv, TypeOK, Control, TxEndsIdle
<1> QED
  BY <1>1, FetchInvariant, PTL

\* An error is the last item that iterateFetch sends on the channel.
THEOREM ErrorSentLast == Spec => []ErrorIsLast
<1>1. FetchInv => ErrorIsLast
  BY Zenon DEF FetchInv
<1> QED
  BY <1>1, FetchInvariant, PTL

\* The handler's result is at any time a prefix of the matching rows.
THEOREM ResultIsPrefix == Spec => []NoGap
<1>1. FetchInv => NoGap
  BY Zenon DEF FetchInv
<1> QED
  BY <1>1, FetchInvariant, PTL

\* The pipeline implements one atomic read: every step of handler and goroutine is
\* a step of AtomicRead or leaves its variables unchanged.
THEOREM FetchRefinesAtomicRead == Spec => RefinesAtomicRead
<1>1. Init => Abstract!Init
  BY SMTT(60) DEF Init, Abstract!Init
<1>2. FetchInv /\ [Next]_vars => [Abstract!Next]_(Abstract!vars)
  <2> SUFFICES ASSUME FetchInv, [Next]_vars PROVE [Abstract!Next]_(Abstract!vars)
    BY SMTT(60)
  <2> USE DEF Abstract!Next, Abstract!vars
  <2>1. CASE Cancel
    BY Zenon, <2>1 DEF Cancel, Abstract!Cancel
  <2>2. CASE Begin
    BY Zenon, <2>2 DEF Begin, Abstract!AnswerError, FetchInv, Control, TypeOK
  <2>3. CASE QueryDocuments
    BY ZenonT(60), <2>3 DEF QueryDocuments, Abstract!Fail, FetchInv, TypeOK
  <2>4. CASE Receive
    BY Zenon, <2>4 DEF Receive, Abstract!Fail, FetchInv, Control, TypeOK
  <2>5. CASE EndTransaction
    BY Zenon, <2>5 DEF EndTransaction, Abstract!AnswerError, FetchInv, Control, Causes, TypeOK
  <2>6. CASE Reply
    BY Zenon, <2>6 DEF Reply, Abstract!AnswerError, Abstract!AnswerRows, FetchInv, Control, Complete, TypeOK
  <2>7. CASE FetchRow
    BY Zenon, <2>7 DEF FetchRow, RowRead, RowBad, RowsEnd, RowsBroken, handlerVars, Abstract!Fail,
       FetchInv, TypeOK
  <2>8. CASE Drain \/ FetchLoop \/ WriteFetched \/ CloseRows \/ CloseChan \/ UNCHANGED vars
    BY Zenon, <2>8 DEF Drain, FetchLoop, WriteFetched, CloseRows, CloseChan, handlerVars, vars
  <2> QED
    BY SMTT(60), <2>1, <2>2, <2>3, <2>4, <2>5, <2>6, <2>7, <2>8 DEF Next, Handler, Fetcher, Terminated
<1> QED
  BY <1>1, <1>2, FetchInvariant, PTL DEF Spec, RefinesAtomicRead, Abstract!Spec

=============================================================================
