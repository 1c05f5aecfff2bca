----------------------------- MODULE LogStream -----------------------------
(***************************************************************************)
(* The log of one run, from the worker that posts its output chunk by      *)
(* chunk, through a file the server appends to, to the readers that follow *)
(* it: the event stream of the API and the dialog of the web console.  A   *)
(* reader asks for the size of the file and for the run's status at        *)
(* different moments, and stops when the run is over.  The stream asks for *)
(* one chunk after the other; the dialog fetches a chunk every three       *)
(* seconds, and when its user asks for it, whether the fetch before has    *)
(* been answered or not.                                                   *)
(***************************************************************************)
EXTENDS Naturals, Sequences

CONSTANTS
  Chunks,    \* how many chunks a run may print
  Limit,     \* how many of them one read returns at most (1 MB)
  MaxEmpty,  \* empty reads after which a stream gives up (300)
  Fetches,   \* the fetches of a dialog that may be open at once
  MaxMishaps \* bound on fetches that overlap or fail

ASSUME LogAssumption ==
  Chunks \in Nat /\ MaxMishaps \in Nat /\ {Limit, MaxEmpty} \subseteq Nat \ {0}

VARIABLES
  log,       \* the file: the chunks appended to it; there is none when empty
  over,      \* the run's record has a final status
  producer,  \* the goroutine that posts output: [step, sent]
  inFlight,  \* the chunks posted and not yet answered or lost
  note,      \* the server's own line on why it ended the run
  reader,    \* the stream, if it follows: what it has asked and holds
  offset,    \* where its next read begins
  dialog,    \* the dialog, if it follows: what it holds, and its offset
  fetch      \* [Fetches -> a fetch of the dialog and its answer]

logVars == <<log, over, producer, inFlight, note, reader, offset, dialog,
             fetch>>
run == <<over, producer, inFlight, note>>
stream == <<reader, offset>>
window == <<dialog, fetch>>
follower == <<stream, window>>

Kinds == {"stream", "dialog"}
Printed == 1..Chunks
Lines == Printed \cup {0}   \* 0: the server's own line
Reader(texts) ==
  [kind : Kinds, step : {"size", "status", "ended"},
   size : 0..(Chunks + 1), empty : 0..MaxEmpty,
   settled : BOOLEAN, complete : BOOLEAN, text : texts]
NoFetch == [step |-> "none", from |-> 0, size |-> 0, to |-> 0, ends |-> FALSE]
Fetched ==
  [step : {"none", "size", "status", "answered"}, from : 0..(Chunks + 1),
   size : 0..(Chunks + 1), to : 0..(Chunks + 1), ends : BOOLEAN]
Dialog(texts) ==
  [step : {"polling", "again", "ended"}, offset : 0..(Chunks + 1),
   overlapped : BOOLEAN, mishaps : 0..MaxMishaps, text : texts]

(* Nothing more is going to be appended.                                   *)
Settled == over /\ producer.step = "done" /\ inFlight = {} /\ note # "due"

LogTypeOK ==
  /\ log \in Seq(Lines) /\ Len(log) <= Chunks + 1
  /\ over \in BOOLEAN
  /\ producer \in [step : {"printing", "waiting", "finishing", "done"},
                   sent : 0..Chunks]
  /\ inFlight \subseteq Printed
  /\ note \in {"none", "due", "written"}
  /\ reader.text \in Seq(Lines) /\ offset \in 0..(Chunks + 1)
  /\ reader \in Reader({reader.text})
  /\ dialog.text \in Seq(Lines) /\ dialog \in Dialog({dialog.text})
  /\ fetch \in [Fetches -> Fetched]

(* A dialog is opened on a run that goes on, or on one that is over, and   *)
(* then fetches once.                                                      *)
LogInit ==
  /\ log = <<>>
  /\ over = FALSE
  /\ producer = [step |-> "printing", sent |-> 0]
  /\ inFlight = {}
  /\ note = "none"
  /\ \E kind \in Kinds :
       reader = [kind |-> kind, step |-> "size", size |-> 0, empty |-> 0,
                 settled |-> FALSE, complete |-> FALSE, text |-> <<>>]
  /\ offset = 0
  /\ \E step \in IF reader.kind = "dialog" THEN {"polling", "again"}
                  ELSE {"polling"} :
       dialog = [step |-> step, offset |-> 0, overlapped |-> FALSE,
                 mishaps |-> 0, text |-> <<>>]
  /\ fetch = [f \in Fetches |-> NoFetch]

-----------------------------------------------------------------------------
(* The worker.  It waits for the answer to each chunk, for ten seconds at  *)
(* most; a post it has given up may still be appended, after later ones,   *)
(* or never.                                                               *)
SendLog ==
  /\ producer.step = "printing"
  /\ producer.sent < Chunks
  /\ producer' = [step |-> "waiting", sent |-> producer.sent + 1]
  /\ inFlight' = inFlight \cup {producer.sent + 1}
  /\ UNCHANGED <<log, over, note, follower>>

AddLine(line) == log' = Append(log, line)
Answered(c) ==
  producer' = IF producer.step = "waiting" /\ producer.sent = c
              THEN [producer EXCEPT !.step = "printing"] ELSE producer

AppendLog(c) ==
  /\ c \in inFlight
  /\ AddLine(c)
  /\ inFlight' = inFlight \ {c}
  /\ Answered(c)
  /\ UNCHANGED <<over, note, follower>>

PostLost(c) ==
  /\ c \in inFlight
  /\ inFlight' = inFlight \ {c}
  /\ Answered(c)
  /\ UNCHANGED <<log, over, note, follower>>

PostTimesOut ==
  /\ producer.step = "waiting"
  /\ producer' = [producer EXCEPT !.step = "printing"]
  /\ UNCHANGED <<log, over, inFlight, note, follower>>

(* The output ends, or the worker sees that the run is over and kills it.  *)
OutputEnds ==
  /\ producer.step = "printing"
  /\ producer' =
       [producer EXCEPT !.step = IF over THEN "done" ELSE "finishing"]
  /\ UNCHANGED <<log, over, inFlight, note, follower>>

FinishExecution ==
  /\ producer.step = "finishing"
  /\ over' = TRUE
  /\ producer' = [producer EXCEPT !.step = "done"]
  /\ UNCHANGED <<log, inFlight, note, follower>>

(* The server cancels or recovers the run: the status first, then the line.*)
EndByServer ==
  /\ ~over
  /\ over' = TRUE
  /\ note' = "due"
  /\ UNCHANGED <<log, producer, inFlight, follower>>

WriteNote ==
  /\ note = "due"
  /\ note' = "written"
  /\ AddLine(0)
  /\ UNCHANGED <<over, producer, inFlight, follower>>

-----------------------------------------------------------------------------
(* read_log_chunk: the size of the file first.                             *)
AskSize ==
  /\ reader.kind = "stream" /\ reader.step = "size"
  /\ reader' = [reader EXCEPT !.step = "status", !.size = Len(log),
                              !.settled = Settled]
  /\ UNCHANGED <<log, offset, run, window>>

(* Then a chunk, if the offset is not beyond that, and the status.         *)
LesserOf(a, b) == IF a < b THEN a ELSE b
ChunkEnd(from, size) ==
  IF from >= size THEN from ELSE LesserOf(from + Limit, Len(log))
CompleteAt(size) == over /\ size > 0

ChunkRead == SubSeq(log, offset + 1, ChunkEnd(offset, reader.size))
EmptyReads(chunk) ==
  IF chunk = <<>> THEN LesserOf(reader.empty + 1, MaxEmpty) ELSE 0
Complete == CompleteAt(reader.size)

(* Mutant: the next read begins at the size of the file.                   *)
ReceivedToSize(chunk, empty, ends) ==
  /\ offset' = IF chunk = <<>> THEN offset ELSE reader.size
  /\ reader' = [reader EXCEPT
       !.step = IF ends THEN "ended" ELSE "size", !.text = @ \o chunk,
       !.empty = empty, !.complete = ends /\ Complete]
Received(chunk, empty, ends) ==
  /\ offset' = offset + Len(chunk)
  /\ reader' = [reader EXCEPT
       !.step = IF ends THEN "ended" ELSE "size", !.text = @ \o chunk,
       !.empty = empty, !.complete = ends /\ Complete]

(* Without a file a read is never complete.  The event stream ends when a  *)
(* read is empty and complete, or after so many empty ones of a run that   *)
(* is over.                                                                *)
(* Mutant: the stream ends with the first complete answer.                 *)
StreamReadsOnce ==
  LET chunk == ChunkRead
      empty == EmptyReads(chunk) IN
  /\ reader.step = "status"
  /\ Received(chunk, empty, Complete \/ (over /\ empty = MaxEmpty))
  /\ UNCHANGED <<log, run, window>>
(* Mutant: only a complete answer ends the stream.                         *)
StreamReadsOn ==
  LET chunk == ChunkRead
      empty == EmptyReads(chunk) IN
  /\ reader.step = "status"
  /\ Received(chunk, empty, chunk = <<>> /\ Complete)
  /\ UNCHANGED <<log, run, window>>
StreamReads ==
  LET chunk == ChunkRead
      empty == EmptyReads(chunk) IN
  /\ reader.step = "status"
  /\ Received(chunk, empty,
       chunk = <<>> /\ (Complete \/ (over /\ empty = MaxEmpty)))
  /\ UNCHANGED <<log, run, window>>

-----------------------------------------------------------------------------
(* The dialog.  A fetch asks from the offset of the moment.                *)
Open == {f \in Fetches : fetch[f].step # "none"}
Begin(f, step) ==
  /\ reader.kind = "dialog" /\ f \notin Open
  /\ Open = {} \/ dialog.mishaps < MaxMishaps
  /\ fetch' = [fetch EXCEPT ![f] =
       [NoFetch EXCEPT !.step = "size", !.from = dialog.offset]]
  /\ dialog' = [dialog EXCEPT
       !.step = step,
       !.overlapped = @ \/ Open # {},
       !.mishaps = IF Open = {} THEN @ ELSE @ + 1]
  /\ UNCHANGED <<log, run, stream>>

(* The interval's turn, or the effect's, which runs again when the polling *)
(* stops.  The user may refresh at any time.                               *)
FetchChunk(f) ==
  /\ dialog.step # "ended"
  /\ Begin(f, IF dialog.step = "again" THEN "ended" ELSE "polling")
Refresh(f) == Begin(f, dialog.step)

FetchSize(f) ==
  /\ fetch[f].step = "size"
  /\ fetch' = [fetch EXCEPT ![f].step = "status", ![f].size = Len(log)]
  /\ UNCHANGED <<log, run, stream, dialog>>

AnswerFetch(f) ==
  /\ fetch[f].step = "status"
  /\ fetch' = [fetch EXCEPT
       ![f].step = "answered",
       ![f].to = ChunkEnd(fetch[f].from, fetch[f].size),
       ![f].ends = CompleteAt(fetch[f].size)]
  /\ UNCHANGED <<log, run, stream, dialog>>

(* Mutant: the next fetch begins at the size of the file.                  *)
ShowChunkToSize(f) ==
  /\ fetch[f].step = "answered"
  /\ dialog' = [dialog EXCEPT
       !.text = @ \o SubSeq(log, fetch[f].from + 1, fetch[f].to),
       !.offset = fetch[f].size,
       !.step = IF fetch[f].ends /\ @ = "polling" THEN "again" ELSE @]
  /\ fetch' = [fetch EXCEPT ![f] = NoFetch]
  /\ UNCHANGED <<log, run, stream>>
(* The chunk is put behind what is shown, whichever answer this is, and    *)
(* the first complete answer stops the polling.                            *)
ShowChunk(f) ==
  /\ fetch[f].step = "answered"
  /\ dialog' = [dialog EXCEPT
       !.text = @ \o SubSeq(log, fetch[f].from + 1, fetch[f].to),
       !.offset = fetch[f].to,
       !.step = IF fetch[f].ends /\ @ = "polling" THEN "again" ELSE @]
  /\ fetch' = [fetch EXCEPT ![f] = NoFetch]
  /\ UNCHANGED <<log, run, stream>>

(* A fetch that fails is passed over in silence.                           *)
FetchFails(f) ==
  /\ f \in Open
  /\ dialog.mishaps < MaxMishaps
  /\ dialog' = [dialog EXCEPT !.mishaps = @ + 1]
  /\ fetch' = [fetch EXCEPT ![f] = NoFetch]
  /\ UNCHANGED <<log, run, stream>>

ProducerStep ==
  SendLog \/ PostTimesOut \/ OutputEnds \/ FinishExecution
ServerStep == EndByServer \/ WriteNote
ReaderStep ==
  \/ AskSize \/ StreamReads
  \/ \E f \in Fetches :
       FetchChunk(f) \/ FetchSize(f) \/ AnswerFetch(f) \/ ShowChunk(f)
LogNext ==
  \/ ProducerStep
  \/ ServerStep
  \/ \E c \in inFlight : AppendLog(c) \/ PostLost(c)
  \/ ReaderStep
  \/ \E f \in Fetches : Refresh(f) \/ FetchFails(f)

LogSpec == LogInit /\ [][LogNext]_logVars
LogFairness == WF_logVars(ReaderStep)

-----------------------------------------------------------------------------
(* A reader holds the log from its beginning, without a gap or a           *)
(* repetition: each read begins where the last one ended, however much the *)
(* file has grown in between and however much is left.  Two fetches of a   *)
(* dialog that overlap may bring it one chunk twice.                       *)
Beginning(text) ==
  Len(text) <= Len(log) /\ \A i \in DOMAIN text : text[i] = log[i]
ReaderHoldsPrefix ==
  Beginning(reader.text) /\ (~dialog.overlapped => Beginning(dialog.text))

(* But whichever fetches of a dialog overlap, fail or answer out of order, *)
(* it shows no line before the lines in front of it.                       *)
ShowsNoGap ==
  \E n \in 0..Len(log) :
    {dialog.text[i] : i \in DOMAIN dialog.text} = {log[i] : i \in 1..n}

(* An event stream that ends as complete has the whole log, if the run had *)
(* settled before the last read.  If it had not, what is appended between  *)
(* the question for the size and the one for the status is missing, and so *)
(* is the line the server appends after the status.                        *)
CompleteStreamIsWhole ==
  /\ reader.step = "ended" /\ reader.complete /\ reader.settled
  => reader.text = log

(* Who follows a run that is over comes to an end: a stream even when      *)
(* nothing was ever printed; a dialog stops polling when something was.    *)
ReaderStops ==
  /\ over /\ reader.kind = "stream" ~> reader.step = "ended"
  /\ over /\ reader.kind = "dialog" /\ log # <<>> ~> dialog.step # "polling"
=============================================================================
