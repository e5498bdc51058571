----------------------------- MODULE LogStream -----------------------------
(***************************************************************************)
(* internal/api/handlers_sse.go and ReadBuildLogChunk: readers follow the  *)
(* build log of a deployment while it is written.  A line stands for a     *)
(* part of the log, Chunk of them for the 16 KiB that one read takes.      *)
(***************************************************************************)
EXTENDS Sequences, Naturals

CONSTANTS
    Logs,     \* deployments, each with its log
    Streams,  \* connections to the event stream
    Chunk,    \* how much of a log one read takes
    Nothing   \* no deployment

ASSUME StreamAssumption == Chunk \in Nat \ {0} /\ Nothing \notin Logs

VARIABLES
    log,      \* how many lines each log has
    stream    \* each stream: where it is, what it follows and the lines it has sent

streamVars == <<log, stream>>

NoStream == [at |-> "closed", of |-> Nothing, sent |-> <<>>]

StreamTypeOK ==
    /\ log \in [Logs -> Nat]
    /\ stream \in [Streams -> [at: {"closed", "waiting", "asking", "last", "done"},
                               of: Logs \cup {Nothing}, sent: Seq(Nat)]]

\* The writer: one more line.
Say(d) == log' = [log EXCEPT ![d] = @ + 1]

\* A browser opens the stream.  That of a deployment that has ended sends one
\* chunk and ends.
Open(s, d, ended) ==
    /\ stream[s].at = "closed"
    /\ stream' = [stream EXCEPT ![s] = [at |-> IF ended THEN "last" ELSE "waiting", of |-> d,
                                        sent |-> <<>>]]
    /\ UNCHANGED log

\* Mutant of Lines: a read begins at the last line that was sent.
LinesAgain(from, count) == [i \in 1..count |-> IF from = 0 THEN i ELSE from + i - 1]

\* The lines of a read, from an offset on.
Lines(from, count) == [i \in 1..count |-> from + i]

\* The ticker: streamLogSSEFrom reads from the offset on, without a lock.  The
\* status is read after that.
Read(s) ==
    LET d == stream[s].of
        offset == Len(stream[s].sent)
        rest == log[d] - offset
        count == IF rest > Chunk THEN Chunk ELSE rest
    IN /\ stream[s].at \in {"waiting", "last"}
       /\ stream' = [stream EXCEPT
             ![s] = [at |-> IF stream[s].at = "waiting" THEN "asking" ELSE "done", of |-> d,
                     sent |-> stream[s].sent \o Lines(offset, count)]]
       /\ UNCHANGED log

\* Mutant of Ask: the final status is answered and the loop is not left.
AskOnce(s, ended) ==
    /\ stream[s].at = "asking"
    /\ stream' = [stream EXCEPT ![s].at = IF ended THEN "asking" ELSE "waiting"]
    /\ UNCHANGED log

\* The round ends with the status; a status that is final ends the stream.
Ask(s, ended) ==
    /\ stream[s].at = "asking"
    /\ stream' = [stream EXCEPT ![s].at = IF ended THEN "done" ELSE "waiting"]
    /\ UNCHANGED log

\* The browser leaves, or has its "done" event.
Close(s) ==
    /\ stream[s].at # "closed"
    /\ stream' = [stream EXCEPT ![s] = NoStream]
    /\ UNCHANGED log

=============================================================================
