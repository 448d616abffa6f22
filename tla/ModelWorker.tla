----------------------------- MODULE ModelWorker -----------------------------
(***************************************************************************)
(* One managed engine: the requests of the daemon to a worker process over *)
(* a pair of pipes, under a lock that callers take in turn and that close  *)
(* does not wait for.                                                      *)
(*                                                                         *)
(* A line is the number of the request it answers and what it is: "pcm",   *)
(* "ok" or "bad".  The pipes die with their process.                       *)
(***************************************************************************)
EXTENDS Naturals, Sequences

CONSTANTS MaxBlocks,  \* bound: PCM blocks of one stream
          MaxRequests \* bound: requests made

ASSUME WorkerAssumption == MaxBlocks \in Nat /\ MaxRequests \in Nat

VARIABLES process,  \* whether there is a process
          shut,     \* _closed
          stdin, stdout, \* the pipes
          unread,   \* _buffer: lines read from the pipe and not taken yet
          holder,   \* who has the lock: its stage and kind of request
          blocks,   \* PCM blocks the worker has sent for this request
          asked,    \* requests so far
          marked    \* a close has set _closed and not yet stopped the worker
workerVars == <<process, shut, stdin, stdout, unread, holder, blocks, asked, marked>>

Kinds == {"warmup", "file", "stream", "evidence"}
NoHolder == [stage |-> "none", kind |-> "file"]

WorkerTypeOK ==
  /\ {process, shut, marked} \subseteq BOOLEAN
  /\ asked \in 0 .. MaxRequests /\ blocks \in 0 .. MaxBlocks
  /\ holder.stage \in {"none", "starting", "waiting", "yielded"} /\ holder.kind \in Kinds
  /\ \A q \in {stdout, unread} : \A k \in DOMAIN q : q[k].to \in 1 .. asked

WorkerInit ==
  /\ process = FALSE /\ shut = FALSE /\ stdin = <<>> /\ stdout = <<>> /\ unread = <<>>
  /\ holder = NoHolder /\ blocks = 0 /\ asked = 0 /\ marked = FALSE

StopWorker == process' = FALSE /\ stdin' = <<>> /\ stdout' = <<>> /\ unread' = <<>>
Release == holder' = NoHolder /\ blocks' = 0

-----------------------------------------------------------------------------
(* The caller *)

\* A request: refused once closed, written to the worker there is, or to one
\* that has first to be started.
Ask(kind) ==
  /\ holder.stage = "none" /\ ~shut /\ asked < MaxRequests
  /\ asked' = asked + 1
  /\ holder' = [stage |-> IF process THEN "waiting" ELSE "starting", kind |-> kind]
  /\ stdin' = IF process THEN Append(stdin, asked') ELSE stdin
  /\ UNCHANGED <<process, shut, stdout, unread, blocks, marked>>

\* The process appears, whatever was closed since the check.
Spawn ==
  /\ holder.stage = "starting"
  /\ process' = TRUE /\ stdin' = <<asked>> /\ stdout' = <<>>
  /\ holder' = [holder EXCEPT !.stage = "waiting"]
  /\ UNCHANGED <<shut, unread, blocks, asked, marked>>

\* A read returns what there is, however many lines.
ReadBlock ==
  /\ holder.stage = "waiting" /\ process /\ unread = <<>> /\ stdout # <<>>
  /\ \E n \in 1 .. Len(stdout) :
       /\ unread' = SubSeq(stdout, 1, n)
       /\ stdout' = SubSeq(stdout, n + 1, Len(stdout))
  /\ UNCHANGED <<process, shut, stdin, holder, blocks, asked, marked>>

\* The answer is complete, or one more block is yielded.
TakeLine ==
  /\ holder.stage = "waiting" /\ unread # <<>>
  /\ unread' = Tail(unread)
  /\ LET line == Head(unread) IN
       \/ /\ line.is = "pcm" /\ holder.kind = "stream"
          /\ holder' = [holder EXCEPT !.stage = "yielded"]
          /\ UNCHANGED <<process, stdin, stdout, blocks>>
       \/ /\ line.is = "ok" \/ holder.kind # "stream"
          /\ Release /\ UNCHANGED <<process, stdin, stdout>>
  /\ UNCHANGED <<shut, asked, marked>>

\* The worker refused a stream: what it may still send is retired with it.
StreamFails ==
  /\ holder.stage = "waiting" /\ holder.kind = "stream"
  /\ unread # <<>> /\ Head(unread).is = "bad"
  /\ StopWorker /\ Release
  /\ UNCHANGED <<shut, asked, marked>>

NextBlock ==
  /\ holder.stage = "yielded" /\ holder' = [holder EXCEPT !.stage = "waiting"]
  /\ UNCHANGED <<process, shut, stdin, stdout, unread, blocks, asked, marked>>

\* Mutant: an abandoned stream leaves its worker, and its responses, alone.
AbandonUnread ==
  /\ holder.stage = "yielded" /\ Release
  /\ UNCHANGED <<process, shut, stdin, stdout, unread, asked, marked>>

\* The consumer of a stream gives up: its render failed or was cut short.
Abandon ==
  /\ holder.stage = "yielded" /\ StopWorker /\ Release
  /\ UNCHANGED <<shut, asked, marked>>

\* No worker, its end of file, or no answer in time: the engine closes itself.
NoAnswer ==
  /\ holder.stage = "waiting" /\ unread = <<>>
  /\ StopWorker /\ Release /\ shut' = TRUE
  /\ UNCHANGED <<asked, marked>>

\* A reload discards the worker, reopens the engine and asks for a warm-up.
RestartWorker ==
  /\ holder.stage = "none" /\ StopWorker /\ shut' = FALSE
  /\ UNCHANGED <<holder, blocks, asked, marked>>

\* Closing does not wait for the lock: first the mark, then the worker.
CloseMarks ==
  /\ ~marked /\ marked' = TRUE /\ shut' = TRUE
  /\ UNCHANGED <<process, stdin, stdout, unread, holder, blocks, asked>>

CloseStops ==
  /\ marked /\ marked' = FALSE /\ StopWorker
  /\ UNCHANGED <<shut, holder, blocks, asked>>

-----------------------------------------------------------------------------
(* The worker process: one request after the other *)

Says(what) == stdout' = Append(stdout, [to |-> Head(stdin), is |-> what])

WorkerStreams ==
  /\ process /\ stdin # <<>> /\ holder.kind = "stream" /\ blocks < MaxBlocks
  /\ Says("pcm") /\ blocks' = blocks + 1
  /\ UNCHANGED <<process, shut, stdin, unread, holder, asked, marked>>

WorkerAnswers ==
  /\ process /\ stdin # <<>>
  /\ \E what \in {"ok", "bad"} : Says(what)
  /\ stdin' = Tail(stdin)
  /\ UNCHANGED <<process, shut, unread, holder, blocks, asked, marked>>

WorkerDies ==
  /\ process /\ stdin' = <<>> /\ stdout' = <<>> /\ process' = FALSE
  /\ UNCHANGED <<shut, unread, holder, blocks, asked, marked>>

WorkerNext ==
  \/ \E kind \in Kinds : Ask(kind)
  \/ Spawn \/ ReadBlock \/ TakeLine \/ StreamFails \/ NextBlock \/ Abandon \/ NoAnswer
  \/ RestartWorker \/ CloseMarks \/ CloseStops
  \/ WorkerStreams \/ WorkerAnswers \/ WorkerDies

WorkerSpec == WorkerInit /\ [][WorkerNext]_workerVars

\* What a caller takes answers what it asked: no block or answer of an earlier
\* request, abandoned, timed out or closed, is taken for this one's, and between
\* requests nothing is left to be taken.
AnswersMatch ==
  /\ \A q \in {stdout, unread} : \A k \in DOMAIN q : q[k].to = asked
  /\ holder.stage \in {"none", "starting"} => unread = <<>> /\ stdout = <<>> /\ stdin = <<>>
=============================================================================
