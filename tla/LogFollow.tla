----------------------------- MODULE LogFollow -----------------------------
(***************************************************************************)
(* neubox wait (client/neubox/internal/cli/commands_wait.go) on a task     *)
(* whose log is being written: the writer of the log (_read_stdout of      *)
(* executor/command.py, the stream thread of a container task), the two    *)
(* requests of the client, of which the log request measures the file and  *)
(* reads it in two steps, and a DELETE of the finished task.               *)
(*                                                                         *)
(* A log is the number of its bytes; what they say, and the replacement of *)
(* characters cut by a page, is left out.                                  *)
(***************************************************************************)
EXTENDS Naturals

CONSTANTS
    None,     \* no file, no request
    MaxSize,  \* bound: the bytes the task writes
    Chunk     \* waitLogChunkSize

ASSUME LogAssumption == MaxSize \in Nat /\ Chunk \in Nat \ {0} /\ None \notin Nat

VARIABLES
    size,     \* the size of the log file; None without a file
    status,   \* the row of the task: "running", "ended", "deleted"
    sizeEnd,  \* the size when the result of the task was recorded
    \* get_task_log, between its look at the size and its read
    request,  \* the offset asked for, or None
    total,    \* file_size, or None
    \* the client
    pc,       \* "status", "log", "print", "exit" (with the result), "error"
    seen,     \* the status of the last GET /tasks/<id>
    offset,   \* logOffset
    page,     \* the answer: offset, total_size and how many bytes
    printed   \* how often each byte was written to stdout

serverVars == <<request, total>>
vars == <<size, status, sizeEnd, serverVars, pc, seen, offset, page, printed>>

Bytes == 0 .. MaxSize - 1
Pages == [offset : 0 .. MaxSize, total : 0 .. MaxSize, length : 0 .. Chunk]
NoPage == [offset |-> 0, total |-> 0, length |-> 0]

\* Types; the client never asks for bytes beyond those the task writes.
TypeOK ==
    /\ size \in 0 .. MaxSize \cup {None} /\ sizeEnd \in 0 .. MaxSize
    /\ status \in {"running", "ended", "deleted"}
    /\ request \in 0 .. MaxSize \cup {None} /\ total \in 0 .. MaxSize \cup {None}
    /\ pc \in {"status", "log", "print", "exit", "error"}
    /\ seen \in {"running", "ended"} /\ offset \in 0 .. MaxSize /\ page \in Pages
    /\ printed \in [Bytes -> Nat]

Init ==
    /\ size = None /\ status = "running" /\ sizeEnd = 0
    /\ request = None /\ total = None
    /\ pc = "status" /\ seen = "running" /\ offset = 0 /\ page = NoPage
    /\ printed = [b \in Bytes |-> 0]

-----------------------------------------------------------------------------
(* The Worker. *)

Size == IF size = None THEN 0 ELSE size

\* The writer does not wait for anybody; executors join it for some seconds
\* only, so a late write may come after the end of the task, and after its
\* DELETE (_TaskLog.write then makes a new file).
Append(n) ==
    /\ Size + n <= MaxSize
    /\ size' = Size + n
    /\ UNCHANGED <<status, sizeEnd, serverVars, pc, seen, offset, page, printed>>

Finish ==
    /\ status = "running"
    /\ status' = "ended" /\ sizeEnd' = Size
    /\ UNCHANGED <<size, serverVars, pc, seen, offset, page, printed>>

\* delete_tasks removes the row and the file of a finished task.
Delete ==
    /\ status = "ended"
    /\ status' = "deleted" /\ size' = None
    /\ UNCHANGED <<sizeEnd, serverVars, pc, seen, offset, page, printed>>

LeastOf(a, b) == IF a < b THEN a ELSE b
MostOf(a, b) == IF a < b THEN b ELSE a

Answer(p) ==
    /\ page' = p /\ pc' = "print"
    /\ request' = None /\ total' = None
    /\ UNCHANGED <<size, status, sizeEnd, seen, offset, printed>>

\* get_task_log: no file is an empty log.
Measure ==
    /\ request # None /\ total = None
    /\ IF size = None THEN Answer(NoPage)
       ELSE total' = size
            /\ UNCHANGED <<size, status, sizeEnd, request, pc, seen, offset, page, printed>>

\* The range is cut to the size that was measured, but never below one byte;
\* the read is cut to the size by then.  A file that has gone is an error.
PageAt(from, limit) ==
    [offset |-> from, total |-> total,
     length |-> IF from < size THEN LeastOf(limit, size - from) ELSE 0]

ReadFromEnd ==
    /\ total # None /\ size # None
    /\ LET from == LeastOf(request, total)
       IN  Answer([PageAt(from, LeastOf(Chunk, total - from)) EXCEPT !.total = size])
Read ==
    /\ total # None
    /\ IF size # None
       THEN LET from == LeastOf(request, total)
            IN  Answer(PageAt(from, MostOf(1, LeastOf(Chunk, total - from))))
       ELSE /\ pc' = "error" /\ request' = None /\ total' = None
            /\ UNCHANGED <<size, status, sizeEnd, seen, offset, page, printed>>

-----------------------------------------------------------------------------
(* The client: runWait and drainTaskLog. *)

\* One GET /tasks/<id>; a task that is not there ends the command.
FetchStatus ==
    /\ pc = "status"
    /\ IF status = "deleted" THEN pc' = "error" /\ UNCHANGED seen
       ELSE pc' = "log" /\ seen' = status
    /\ UNCHANGED <<size, status, sizeEnd, serverVars, offset, page, printed>>

RequestLog ==
    /\ pc = "log" /\ request = None
    /\ request' = offset
    /\ UNCHANGED <<size, status, sizeEnd, total, pc, seen, offset, page, printed>>

\* The page is printed; the client goes on by what total_size says of it, and
\* asks again until it is at the end of what the answer measured.
Consumed == LeastOf(Chunk, page.total - page.offset)
Reached  == page.offset + Consumed

WriteOut ==
    printed' = [b \in Bytes |->
        printed[b] + IF b \in page.offset .. page.offset + page.length - 1 THEN 1 ELSE 0]

WritePageLength ==
    /\ pc = "print" /\ WriteOut
    /\ offset' = page.offset + Chunk
    /\ pc' = IF Reached < page.total THEN "log" ELSE IF seen = "ended" THEN "exit" ELSE "status"
    /\ UNCHANGED <<size, status, sizeEnd, serverVars, seen, page>>
WritePageLatest ==
    /\ pc = "print" /\ WriteOut
    /\ offset' = Reached
    /\ pc' = IF Reached < page.total THEN "log" ELSE IF status = "ended" THEN "exit" ELSE "status"
    /\ UNCHANGED <<size, status, sizeEnd, serverVars, seen, page>>
WritePage ==
    /\ pc = "print" /\ WriteOut
    /\ offset' = Reached
    /\ pc' = IF Reached < page.total THEN "log" ELSE IF seen = "ended" THEN "exit" ELSE "status"
    /\ UNCHANGED <<size, status, sizeEnd, serverVars, seen, page>>

\* A request that fails, --timeout, the interrupt of the user.
GiveUp ==
    /\ pc \notin {"exit", "error"}
    /\ pc' = "error" /\ request' = None /\ total' = None
    /\ UNCHANGED <<size, status, sizeEnd, seen, offset, page, printed>>

-----------------------------------------------------------------------------
Next ==
    \/ \E n \in 1 .. MaxSize : Append(n)
    \/ Finish \/ Delete
    \/ Measure \/ Read
    \/ FetchStatus \/ RequestLog \/ WritePage \/ GiveUp

Spec == Init /\ [][Next]_vars

-----------------------------------------------------------------------------
(* Properties. *)

\* wait that returns a result has printed everything the log held when the
\* result was recorded, unless the log was deleted meanwhile: the status is
\* fetched before the log, and the pages of a growing file meet.
ResultMeansWholeLog ==
    pc = "exit" /\ status # "deleted" => \A b \in Bytes : b < sizeEnd => printed[b] > 0

\* As long as nobody deletes the log, its pages leave no gap, and no byte is
\* printed more than twice: a page that began at the end may print a byte that
\* the client does not count, and the next page begins with it.
PagesMeet ==
    status # "deleted" => \A b \in Bytes : (b < offset => printed[b] > 0) /\ printed[b] <= 2
=============================================================================
