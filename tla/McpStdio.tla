------------------------------ MODULE McpStdio ------------------------------
(***************************************************************************)
(* internal/mcp: one StdioClient, from Connect and ListTools, which        *)
(* newManager runs at startup, through tool calls that may overlap, to     *)
(* Close.  Critical sections of c.mu and c.writeMu, channel operations and *)
(* reads and writes of the pipes are separate steps.                       *)
(*                                                                         *)
(* The child process is the environment: it may answer any request that    *)
(* was made, in any order and more than once, or never, write lines nobody *)
(* asked for or that are not JSON, stop reading, and exit.  A line without *)
(* an id and an answer to a request that is over are one line, "other":    *)
(* nobody waits for either.  A child that closes a pipe and lives on is    *)
(* left out.                                                               *)
(*                                                                         *)
(* A message to the child is a request, named by its id, the notification  *)
(* "initialized", or the cancellation of a request.  What is sent up to    *)
(* the first tools/list is a few hundred bytes and always fits into the    *)
(* pipe.  A later tools/list carries the cursor that the child has chosen, *)
(* and a call its arguments: either may be longer than the pipe.           *)
(***************************************************************************)
EXTENDS Naturals, Sequences, FiniteSets

CONSTANTS
  Setup,    \* what newManager sends: initialize, initialized, tools/list ...
  Calls,    \* requests of CallTool
  None,     \* nobody
  LineRoom  \* lines that fit into the pipe from the child

SetupPosts == {Setup[i] : i \in DOMAIN Setup}
Initialized == Setup[2]
Requests == (SetupPosts \cup Calls) \ {Initialized}
Posts == SetupPosts \cup Calls

(* Sent before the child has chosen a cursor. *)
Short == {Setup[i] : i \in 1..3}

ReaderStates == {"off", "scan", "fail", "stopped"}

ASSUME McpAssumption ==
  /\ Setup \in Seq(SetupPosts)
  /\ Len(Setup) > 2
  /\ SetupPosts \cap Calls = {}
  /\ None \notin Posts
  /\ Posts \cap (ReaderStates \cup {"garbage", "other"}) = {}
  /\ LineRoom \in Nat

VARIABLES
  pending,  \* c.pending: requests with a channel in the map
  channel,  \* the response channel of each request, of capacity 1
  answered, \* messages of Setup that returned without error
  pc,       \* where each request or notification is
  writer,   \* who holds c.writeMu
  stdin,    \* the write end of the child's input is open
  full,     \* the pipe to the child has no room for a byte more
  lines,    \* lines in the pipe from the child
  reader,   \* where readResponses is, or the request it has an answer for
  once,     \* progress of c.closeOnce: "open", "swap", "send", "over"
  toSend,   \* fail: requests it still has to notify
  closed,   \* c.closed
  closer,   \* where Close is
  process,  \* the child, and what became of cmd.Wait
  boot,     \* where newManager is
  step      \* the message of Setup it is at

requestVars == <<pending, channel, answered, pc>>
pipeVars == <<writer, full>>
failVars == <<once, toSend>>
closeVars == <<closed, closer, stdin>>
bootVars == <<boot, step>>
vars == <<requestVars, pipeVars, lines, reader, failVars, closeVars, process, bootVars>>

(* c.done, which fail closes first. *)
Done == once # "open"

InFlight == {"lock", "write", "await", "drop", "cancel", "noteLock", "noteWrite"}

TypeOK ==
  /\ pending \subseteq Requests
  /\ channel \in [Requests -> {"empty", "response", "error"}]
  /\ answered \subseteq SetupPosts
  /\ pc \in [Posts -> {"idle", "ended"} \cup InFlight]
  /\ writer \in Posts \cup {None}
  /\ stdin \in BOOLEAN /\ closed \in BOOLEAN /\ full \in BOOLEAN
  /\ lines \in Seq(Requests \cup {"garbage", "other"})
  /\ reader \in ReaderStates \cup Requests
  /\ once \in {"open", "swap", "send", "over"}
  /\ toSend \subseteq Requests
  /\ closer \in {"idle", "stdin", "wait1", "wait2", "wait3", "fail", "returned", "error"}
  /\ process \in {"none", "up", "exited", "reported", "received"}
  /\ boot \in {"off", "setup", "ready", "failed"}
  /\ step \in DOMAIN Setup

Init ==
  /\ pending = {}
  /\ channel = [r \in Requests |-> "empty"]
  /\ answered = {}
  /\ pc = [p \in Posts |-> "idle"]
  /\ writer = None
  /\ stdin = TRUE
  /\ full = FALSE
  /\ lines = << >>
  /\ reader = "off"
  /\ once = "open"
  /\ toSend = {}
  /\ closed = FALSE
  /\ closer = "idle"
  /\ process = "none"
  /\ boot = "off"
  /\ step = 1

-----------------------------------------------------------------------------
(* newManager and Connect *)

(* cmd.Start fails or starts the child, its reader and cmd.Wait. *)
Connect ==
  /\ boot = "off"
  /\ \/ boot' = "setup" /\ process' = "up" /\ reader' = "scan"
     \/ boot' = "failed" /\ UNCHANGED <<process, reader>>
  /\ UNCHANGED <<requestVars, pipeVars, lines, failVars, closeVars, step>>

(* The next message, the end of the handshake, after which no further page *)
(* is asked for, or an error.  An answer may be refused for its version,   *)
(* its capabilities, a repeated cursor, a definition that                  *)
(* validateToolDefinitions rejects, or as one page more than allowed.      *)
SetupStep ==
  /\ boot = "setup"
  /\ pc[Setup[step]] = "ended"
  /\ \/ /\ Setup[step] \in answered
        /\ step < Len(Setup)
        /\ step' = step + 1
        /\ UNCHANGED <<boot, pc, answered>>
     \/ /\ Setup[step] \in answered
        /\ step > 2
        /\ boot' = "ready"
        /\ pc' = [p \in Posts |-> IF p \in SetupPosts /\ pc[p] = "idle" THEN "ended" ELSE pc[p]]
        /\ step' = 1
        /\ answered' = {}
     \/ /\ ~(Setup[step] \in answered /\ Setup[step] = Initialized)
        /\ boot' = "failed"
        /\ UNCHANGED <<step, pc, answered>>
  /\ UNCHANGED <<pending, channel, pipeVars, lines, reader, failVars, closeVars, process>>

MayStart(p) ==
  \/ p \in Calls /\ boot = "ready"
  \/ boot = "setup" /\ p = Setup[step]

-----------------------------------------------------------------------------
(* request, notify and writeJSON *)

Goto(p, place) == pc' = [pc EXCEPT ![p] = place]

Register(p) ==
  /\ pc[p] = "idle"
  /\ MayStart(p)
  /\ IF p = Initialized
       THEN Goto(p, "lock") /\ UNCHANGED pending
       ELSE IF closed THEN Goto(p, "ended") /\ UNCHANGED pending
       ELSE Goto(p, "lock") /\ pending' = pending \cup {p}
  /\ UNCHANGED <<channel, answered, pipeVars, lines, reader, failVars, closeVars, process, bootVars>>

(* After a failed write: a request leaves the map, a notification is over. *)
WriteRefused(p) ==
  IF pc[p] \in {"noteLock", "noteWrite"} \/ p = Initialized
  THEN "ended" ELSE "drop"

(* writeMu is taken; c.closed is read under both mutexes. *)
LockWriter(p) ==
  /\ pc[p] \in {"lock", "noteLock"}
  /\ writer = None
  /\ IF closed
       THEN Goto(p, WriteRefused(p)) /\ UNCHANGED writer
       ELSE /\ Goto(p, IF pc[p] = "lock" THEN "write" ELSE "noteWrite")
            /\ writer' = p
  /\ UNCHANGED <<pending, channel, answered, full, lines, reader, failVars, closeVars, process, bootVars>>

(* A part of a long message fills the pipe: the writer waits for the child *)
(* and keeps writeMu.  No deadline is looked at.                           *)
WriteBlocks(p) ==
  /\ pc[p] \in {"write", "noteWrite"}
  /\ stdin /\ process = "up"
  /\ p \notin Short
  /\ ~full /\ full' = TRUE
  /\ UNCHANGED <<requestVars, writer, lines, reader, failVars, closeVars, process, bootVars>>

(* The message, or the rest of it, goes in. *)
Write(p) ==
  /\ pc[p] \in {"write", "noteWrite"}
  /\ stdin /\ process = "up"
  /\ \/ p \in Short /\ UNCHANGED full
     \/ p \notin Short /\ ~full /\ full' \in BOOLEAN
  /\ writer' = None
  /\ Goto(p, IF pc[p] = "write" /\ p # Initialized THEN "await" ELSE "ended")
  /\ answered' = IF p = Initialized THEN answered \cup {p} ELSE answered
  /\ UNCHANGED <<pending, channel, lines, reader, failVars, closeVars, process, bootVars>>

WriteFails(p) ==
  /\ pc[p] \in {"write", "noteWrite"}
  /\ ~stdin \/ process # "up"
  /\ writer' = None
  /\ Goto(p, WriteRefused(p))
  /\ UNCHANGED <<pending, channel, answered, full, lines, reader, failVars, closeVars, process, bootVars>>

(* The select of request: an answer, which may itself be an error, ...     *)
Receive(r) ==
  /\ pc[r] = "await"
  /\ channel[r] # "empty"
  /\ channel' = [channel EXCEPT ![r] = "empty"]
  /\ \/ channel[r] = "response" /\ answered' = answered \cup ({r} \cap SetupPosts)
     \/ UNCHANGED answered
  /\ Goto(r, "ended")
  /\ UNCHANGED <<pending, pipeVars, lines, reader, failVars, closeVars, process, bootVars>>

(* Fault: The handshake uses the caller's context as it is, which never ends. *)
TimeOutOfCallsOnly(r) ==
  /\ pc[r] = "await"
  /\ r \in Calls
  /\ Goto(r, "cancel")
  /\ UNCHANGED <<pending, channel, answered, pipeVars, lines, reader, failVars, closeVars, process, bootVars>>

(* ... the timeout or the end of the caller's context, ...                 *)
TimeOut(r) ==
  /\ pc[r] = "await"
  /\ Goto(r, "cancel")
  /\ UNCHANGED <<pending, channel, answered, pipeVars, lines, reader, failVars, closeVars, process, bootVars>>

(* ... or c.done.                                                          *)
ProcessStopped(r) ==
  /\ pc[r] = "await"
  /\ Done
  /\ Goto(r, "drop")
  /\ UNCHANGED <<pending, channel, answered, pipeVars, lines, reader, failVars, closeVars, process, bootVars>>

(* Fault: A timed-out request does not call removePending. *)
TimedOutStaysPending(r) ==
  /\ pc[r] \in {"drop", "cancel"}
  /\ pending' = IF pc[r] = "drop" THEN pending \ {r} ELSE pending
  /\ Goto(r, IF pc[r] = "drop" THEN "ended" ELSE "noteLock")
  /\ UNCHANGED <<channel, answered, pipeVars, lines, reader, failVars, closeVars, process, bootVars>>

(* removePending; after a timeout the child is told. *)
RemovePending(r) ==
  /\ pc[r] \in {"drop", "cancel"}
  /\ pending' = pending \ {r}
  /\ Goto(r, IF pc[r] = "drop" THEN "ended" ELSE "noteLock")
  /\ UNCHANGED <<channel, answered, pipeVars, lines, reader, failVars, closeVars, process, bootVars>>

-----------------------------------------------------------------------------
(* The child *)

ChildReads ==
  /\ process = "up"
  /\ full /\ full' = FALSE
  /\ UNCHANGED <<requestVars, writer, lines, reader, failVars, closeVars, process, bootVars>>

(* What it writes when nobody reads any more is left out.                  *)
ChildWrites ==
  /\ process = "up"
  /\ reader \notin {"fail", "stopped"}
  /\ Len(lines) < LineRoom
  /\ \E line \in {r \in Requests : pc[r] \in InFlight} \cup {"garbage", "other"} :
       lines' = Append(lines, line)
  /\ UNCHANGED <<requestVars, pipeVars, reader, failVars, closeVars, process, bootVars>>

ChildExits ==
  /\ process = "up"
  /\ process' = "exited"
  /\ UNCHANGED <<requestVars, pipeVars, lines, reader, failVars, closeVars, bootVars>>

(* cmd.Wait returns and its result goes into c.processDone. *)
WaitReturns ==
  /\ process = "exited"
  /\ process' = "reported"
  /\ UNCHANGED <<requestVars, pipeVars, lines, reader, failVars, closeVars, bootVars>>

-----------------------------------------------------------------------------
(* readResponses *)

(* Fault: The entry stays in the map until the answer is delivered. *)
ReadLineKeepsEntry ==
  /\ reader = "scan"
  /\ lines # << >>
  /\ lines' = Tail(lines)
  /\ reader' = IF Head(lines) = "garbage" THEN "fail"
               ELSE IF Head(lines) \in pending THEN Head(lines) ELSE reader
  /\ UNCHANGED <<requestVars, pipeVars, failVars, closeVars, process, bootVars>>

(* The entry leaves the map under the mutex, before the channel is used. *)
ReadLine ==
  /\ reader = "scan"
  /\ lines # << >>
  /\ LET line == Head(lines) IN
       CASE line = "garbage" -> reader' = "fail" /\ lines' = << >> /\ UNCHANGED pending
         [] line \in pending -> reader' = line /\ lines' = Tail(lines) /\ pending' = pending \ {line}
         [] OTHER -> lines' = Tail(lines) /\ UNCHANGED <<reader, pending>>
  /\ UNCHANGED <<channel, answered, pc, pipeVars, failVars, closeVars, process, bootVars>>

Deliver(r) ==
  /\ reader = r
  /\ channel[r] = "empty"
  /\ channel' = [channel EXCEPT ![r] = "response"]
  /\ reader' = "scan"
  /\ UNCHANGED <<pending, answered, pc, pipeVars, lines, failVars, closeVars, process, bootVars>>

(* Fault: The reader returns at the end of the output without calling fail. *)
ReadEndsSilently ==
  /\ reader = "scan"
  /\ \/ process = "exited" /\ lines = << >>
     \/ process \in {"reported", "received"}
  /\ reader' = "stopped"
  /\ lines' = << >>
  /\ UNCHANGED <<requestVars, pipeVars, failVars, closeVars, process, bootVars>>

(* The end of the child's output.  cmd.Wait closes the pipe as soon as the *)
(* child has exited, and may take lines away that nobody has read.         *)
ReadEnds ==
  /\ reader = "scan"
  /\ \/ process = "exited" /\ lines = << >>
     \/ process \in {"reported", "received"}
  /\ reader' = "fail"
  /\ lines' = << >>
  /\ UNCHANGED <<requestVars, pipeVars, failVars, closeVars, process, bootVars>>

-----------------------------------------------------------------------------
(* fail, called by the reader and by Close; the second waits for the first *)

FailClosesDone ==
  /\ once = "open"
  /\ reader = "fail" \/ closer = "fail"
  /\ once' = "swap"
  /\ UNCHANGED <<requestVars, pipeVars, lines, reader, toSend, closeVars, process, bootVars>>

FailSwapsPending ==
  /\ once = "swap"
  /\ once' = "send"
  /\ toSend' = pending
  /\ pending' = {}
  /\ UNCHANGED <<channel, answered, pc, pipeVars, lines, reader, closeVars, process, bootVars>>

FailSends(r) ==
  /\ once = "send"
  /\ r \in toSend
  /\ channel[r] = "empty"
  /\ channel' = [channel EXCEPT ![r] = "error"]
  /\ toSend' = toSend \ {r}
  /\ UNCHANGED <<pending, answered, pc, pipeVars, lines, reader, once, closeVars, process, bootVars>>

FailOver ==
  /\ once = "send"
  /\ toSend = {}
  /\ once' = "over"
  /\ UNCHANGED <<requestVars, pipeVars, lines, reader, toSend, closeVars, process, bootVars>>

ReaderStops ==
  /\ reader = "fail"
  /\ once = "over"
  /\ reader' = "stopped"
  /\ UNCHANGED <<requestVars, pipeVars, lines, failVars, closeVars, process, bootVars>>

-----------------------------------------------------------------------------
(* Close; a second call finds c.closed and returns at once *)

CloseBegin ==
  /\ boot \in {"ready", "failed"}
  /\ closer = "idle"
  /\ closed' = TRUE
  /\ closer' = "stdin"
  /\ UNCHANGED <<requestVars, pipeVars, lines, reader, failVars, stdin, process, bootVars>>

(* Blocked writers fail from here on; what the pipe holds does not matter. *)
CloseStdin ==
  /\ closer = "stdin"
  /\ stdin' = FALSE
  /\ full' = FALSE
  /\ closer' = IF process = "none" THEN "fail" ELSE "wait1"
  /\ UNCHANGED <<requestVars, writer, lines, reader, failVars, closed, process, bootVars>>

WaitForProcess ==
  /\ closer \in {"wait1", "wait2", "wait3"}
  /\ process = "reported"
  /\ process' = "received"
  /\ closer' = "fail"
  /\ UNCHANGED <<requestVars, pipeVars, lines, reader, failVars, stdin, closed, bootVars>>

(* Fault: Close gives up after SIGTERM. *)
GraceOverNoKill ==
  /\ closer = "wait1" /\ closer' = "fail"
  /\ UNCHANGED <<requestVars, pipeVars, lines, reader, failVars, stdin, closed, process, bootVars>>

(* A grace period, or the context of Close, is over: SIGTERM after the     *)
(* first, SIGKILL after the second, an error after the third.              *)
GraceOver ==
  /\ \/ closer = "wait1" /\ closer' = "wait2"
     \/ closer = "wait2" /\ closer' = "wait3"
     \/ closer = "wait3" /\ closer' = "error"
  /\ UNCHANGED <<requestVars, pipeVars, lines, reader, failVars, stdin, closed, process, bootVars>>

Killed == closer \in {"wait3", "error"}

CloseReturns ==
  /\ closer = "fail"
  /\ once = "over"
  /\ closer' = "returned"
  /\ UNCHANGED <<requestVars, pipeVars, lines, reader, failVars, stdin, closed, process, bootVars>>

-----------------------------------------------------------------------------
PostStep(p) ==
  \/ Register(p) \/ LockWriter(p) \/ WriteBlocks(p) \/ Write(p) \/ WriteFails(p)

RequestStep(r) ==
  \/ Receive(r) \/ TimeOut(r) \/ ProcessStopped(r) \/ RemovePending(r)

ChildStep == ChildReads \/ ChildWrites \/ ChildExits \/ WaitReturns

ReaderStep ==
  \/ ReadLine \/ ReadEnds \/ ReaderStops
  \/ \E r \in Requests : Deliver(r)

FailStep ==
  \/ FailClosesDone \/ FailSwapsPending \/ FailOver
  \/ \E r \in Requests : FailSends(r)

Finished ==
  /\ closer \in {"returned", "error"}
  /\ process \notin {"up", "exited"}
  /\ reader \in {"off", "stopped"}
  /\ \A p \in Posts : pc[p] \in {"idle", "ended"}
  /\ UNCHANGED vars

CloseStep == CloseBegin \/ CloseStdin \/ WaitForProcess \/ GraceOver \/ CloseReturns

Next ==
  \/ Connect \/ SetupStep
  \/ \E p \in Posts : PostStep(p)
  \/ \E r \in Requests : RequestStep(r)
  \/ ChildStep \/ ReaderStep \/ FailStep \/ CloseStep
  \/ Finished

(* A request or notification whose goroutine waits for no mutex.           *)
Runs(p) ==
  \/ Write(p) \/ WriteFails(p)
  \/ p \in Requests /\ (Receive(p) \/ ProcessStopped(p) \/ RemovePending(p))

(* newManager, which is alone until it is ready or has failed. *)
SetupRuns ==
  \/ SetupStep
  \/ boot = "failed" /\ CloseBegin
  \/ \E p \in SetupPosts :
       \/ Register(p) \/ LockWriter(p) \/ Runs(p)
       \/ p \in Requests /\ TimeOut(p)

(***************************************************************************)
(* The goroutines run; a Go mutex does not starve its waiters; a killed    *)
(* child exits, and its exit is reported.  Strong fairness of SetupRuns is *)
(* that a message has an end: a child that makes room again and again has  *)
(* it all at last.  Nothing is assumed of a living child, and nothing of   *)
(* the timeout of a tool call: only the handshake relies on its timeouts.  *)
(***************************************************************************)
Fairness ==
  /\ SF_vars(SetupRuns)
  /\ \A p \in Calls : SF_vars(LockWriter(p)) /\ WF_vars(Runs(p))
  /\ WF_vars((Killed /\ ChildExits) \/ WaitReturns)
  /\ WF_vars(ReaderStep)
  /\ WF_vars(FailStep)
  /\ WF_vars(CloseStdin \/ WaitForProcess \/ GraceOver \/ CloseReturns)

SafeSpec == Init /\ [][Next]_vars
Spec == SafeSpec /\ Fairness

-----------------------------------------------------------------------------
(* The reader and fail never block on a response channel: each channel is  *)
(* used once, although an answer, a second answer, a timeout and the end   *)
(* of the process race for it.  stdio.go:283-288, 316-321.                 *)
SendNeverBlocks ==
  /\ reader \in Requests => channel[reader] = "empty"
  /\ once = "send" => \A r \in toSend : channel[r] = "empty"

(* The map holds requests that are under way and no others: whatever ends  *)
(* a request takes its entry away.  stdio.go:209-237.                      *)
PendingIsUnderWay ==
  \A r \in pending : pc[r] \in {"lock", "write", "await", "drop", "cancel"}

(* A living child makes room in its input again and again; what else it    *)
(* does, and whether it ever answers, is left to it.                       *)
ChildReadsOn == []<>(~full \/ process # "up")

(* newManager ends with a server or an error if the child reads on or      *)
(* dies, whatever it answers: the timeouts limit the handshake.  Without   *)
(* the condition this is false.  A child that sends a long cursor and      *)
(* stops reading blocks the next tools/list in a write that has no         *)
(* deadline, and nobody calls Close yet.  manager.go:75-92,                *)
(* stdio.go:157-159, 241-264.                                              *)
StartupEnds == ChildReadsOn => ((boot = "setup") ~> (boot # "setup"))

(* A failed start, or Close, ends the child, also if it ignores the end of *)
(* its input and SIGTERM, and also if Close reports an error.              *)
(* stdio.go:326-358, manager.go:75-91.                                     *)
CloseEndsProcess ==
  (boot = "failed" \/ closed) ~> (process \notin {"up", "exited"})

(* Close releases every tool call that is under way, without its timeout:  *)
(* one that waits for an answer, one that waits for the write mutex, and   *)
(* one that is blocked in a write to a child that does not read.           *)
CloseReleasesCalls ==
  closed ~> (\A p \in Posts : pc[p] \in {"idle", "ended"})
=============================================================================
