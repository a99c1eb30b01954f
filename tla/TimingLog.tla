------------------------------ MODULE TimingLog ------------------------------
(***************************************************************************)
(* timing_log.cpp: the CSV file, and the stdio stream the process holds on *)
(* it.  A process that dies takes the stream and its buffer along; what    *)
(* was flushed is in the file.  The stream is detached if the file was     *)
(* deleted under it: what is written then reaches no file that has a name. *)
(***************************************************************************)
EXTENDS Integers, Sequences

VARIABLES
  log,       \* the file at timing_log_path: its pieces, as in CaptureLog
  stream,    \* s_file: closed (NULL), open or detached
  buffered   \* what was printed to s_file and not flushed yet

logVars == <<log, stream, buffered>>

Header == 0

\* ftell() after fseek() to the end.  Without fseek() the position of a stream opened
\* for append may be 0 until the first write.
BrokenNeedsHeader == TRUE
NeedsHeader == log = <<>>

\* timing_log_init with a path, when fopen succeeds.  A process that dies between fopen and
\* fflush leaves an empty file, which is as good as none.
OpenLog ==
  /\ stream' = "open"
  /\ log' = IF NeedsHeader THEN Append(log, Header) ELSE log
  /\ UNCHANGED buffered

\* timing_log_record up to fprintf
BrokenPrintRow(n) == buffered' = Append(buffered, n) /\ UNCHANGED <<log, stream>>
PrintRow(n) ==
  /\ buffered' = IF stream = "closed" THEN buffered ELSE Append(buffered, n)
  /\ UNCHANGED <<log, stream>>

\* fflush.  The row goes to the file in one write().
Written == IF stream = "open" THEN log \o buffered ELSE log
BrokenFlushRow == UNCHANGED logVars
FlushRow == log' = Written /\ buffered' = <<>> /\ UNCHANGED stream

\* timing_log_close, and exit(), which closes every stream
CloseLog == log' = Written /\ buffered' = <<>> /\ stream' = "closed"

\* The process is killed.
DropStream == buffered' = <<>> /\ stream' = "closed" /\ UNCHANGED log
=============================================================================
