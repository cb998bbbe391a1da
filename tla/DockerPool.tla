----------------------------- MODULE DockerPool -----------------------------
(***************************************************************************)
(* internal/sandbox/pool.go and the life of a container in docker.go: any  *)
(* number of concurrent Gets, the creation they merge into, and Close.     *)
(*                                                                         *)
(* A *poolEntry, its executor and its container are made by one call of    *)
(* Get and are named by that call.  Every critical section of p.mu, every  *)
(* docker command and every select is a step.  The outcomes of docker      *)
(* commands are free, as far as the code tells them apart.                 *)
(*                                                                         *)
(* The mounts of an agent are read once at startup, so the digest of a     *)
(* session never changes and the refusal at pool.go:67 is left out.        *)
(***************************************************************************)
EXTENDS Naturals, FiniteSets

CONSTANTS
  Calls,     \* calls of Get; each is made at most once
  Sessions,  \* cache keys: (agent, session)
  SessionOf, \* the key a call asks for
  None       \* no entry

ASSUME PoolAssumption ==
  /\ SessionOf \in [Calls -> Sessions]
  /\ None \notin Calls

VARIABLES
  entries, \* p.entries: session -> entry, or None
  pc,      \* where a call of Get is
  ctx,     \* the context of a call: the context of one tool execution
  entryOf, \* the entry a call made or waits for
  answer,  \* (executor, err) of a call; entry.err once the entry is ready
  ready,   \* entries whose ready channel is closed
  box,     \* the container of each entry, as the docker daemon has it
  closed,  \* p.closed
  closer,  \* where Close is
  todo,    \* Close: entries still to be closed
  target,  \* Close: the entry it waits for or closes
  late,    \* the context of Close is done
  reported \* Close: closeErrors is not empty

callVars == <<entries, pc, ctx, entryOf, answer, ready>>
closeVars == <<closed, closer, todo, target, late, reported>>
vars == <<callVars, box, closeVars>>

Errors == {"closed", "failed", "canceled", "expired"}
Creating == {"create", "startup", "cleanup", "publish"}

(***************************************************************************)
(* lost:  made by the daemon, but nobody has its id;                       *)
(* dead:  stopped by itself while in use;                                  *)
(* stuck: `docker rm --force` failed.                                      *)
(***************************************************************************)
Boxes == {"none", "made", "running", "dead", "lost", "gone", "stuck"}
Live == {"made", "running"}

PoolTypeOK ==
  /\ entries \in [Sessions -> Calls \cup {None}]
  /\ pc \in [Calls -> {"idle", "waiting", "done"} \cup Creating]
  /\ ctx \in [Calls -> {"live", "canceled", "expired"}]
  /\ entryOf \in [Calls -> Calls \cup {None}]
  /\ answer \in [Calls -> {"none", "ok"} \cup Errors]
  /\ ready \subseteq Calls
  /\ box \in [Calls -> Boxes]
  /\ closed \in BOOLEAN
  /\ closer \in {"absent", "next", "blocked", "returned"}
  /\ todo \subseteq Calls
  /\ target \in Calls \cup {None}
  /\ late \in BOOLEAN
  /\ reported \in BOOLEAN

Init ==
  /\ entries = [s \in Sessions |-> None]
  /\ pc = [c \in Calls |-> "idle"]
  /\ ctx = [c \in Calls |-> "live"]
  /\ entryOf = [c \in Calls |-> None]
  /\ answer = [c \in Calls |-> "none"]
  /\ ready = {}
  /\ box = [c \in Calls |-> "none"]
  /\ closed = FALSE
  /\ closer = "absent"
  /\ todo = {}
  /\ target = None
  /\ late = FALSE
  /\ reported = FALSE

-----------------------------------------------------------------------------
(* Get *)

Goto(c, place) == pc' = [pc EXCEPT ![c] = place]
Answer(c, value) == answer' = [answer EXCEPT ![c] = value]
Become(c, state) == box' = [box EXCEPT ![c] = state]
CtxDone(c) == ctx[c] # "live"

Refuse(c) ==
  /\ pc[c] = "idle"
  /\ closed
  /\ Answer(c, "closed")
  /\ Goto(c, "done")
  /\ UNCHANGED <<entries, ctx, entryOf, ready, box, closeVars>>

Join(c) ==
  /\ pc[c] = "idle"
  /\ ~closed
  /\ entries[SessionOf[c]] # None
  /\ entryOf' = [entryOf EXCEPT ![c] = entries[SessionOf[c]]]
  /\ Goto(c, "waiting")
  /\ UNCHANGED <<entries, ctx, answer, ready, box, closeVars>>

(* Fault: the placeholder is not put into the map. *)
ReserveUnpublished(c) ==
  /\ pc[c] = "idle"
  /\ ~closed
  /\ entries[SessionOf[c]] = None
  /\ entryOf' = [entryOf EXCEPT ![c] = c]
  /\ Goto(c, "create")
  /\ UNCHANGED <<entries, ctx, answer, ready, box, closeVars>>

(* The placeholder is published before docker is called. *)
Reserve(c) ==
  /\ pc[c] = "idle"
  /\ ~closed
  /\ entries[SessionOf[c]] = None
  /\ entries' = [entries EXCEPT ![SessionOf[c]] = c]
  /\ entryOf' = [entryOf EXCEPT ![c] = c]
  /\ Goto(c, "create")
  /\ UNCHANGED <<ctx, answer, ready, box, closeVars>>

Wake(c) ==
  /\ pc[c] = "waiting"
  /\ entryOf[c] \in ready
  /\ Answer(c, answer[entryOf[c]])
  /\ Goto(c, "done")
  /\ UNCHANGED <<entries, ctx, entryOf, ready, box, closeVars>>

Leave(c) ==
  /\ pc[c] = "waiting"
  /\ CtxDone(c)
  /\ Answer(c, ctx[c])
  /\ Goto(c, "done")
  /\ UNCHANGED <<entries, ctx, entryOf, ready, box, closeVars>>

-----------------------------------------------------------------------------
(* p.factory, which is NewDockerExecutor *)

CreateContainer(c) ==
  /\ pc[c] = "create"
  /\ ~CtxDone(c)
  /\ Become(c, "made")
  /\ Goto(c, "startup")
  /\ UNCHANGED <<entries, ctx, entryOf, answer, ready, closeVars>>

(* A check before `docker create` fails, docker refuses, or what it       *)
(* printed, warnings included, is not just an id: then the container is   *)
(* made and its id is dropped (docker.go:73).                          *)
CreateFails(c) ==
  /\ pc[c] = "create"
  /\ Answer(c, "failed")
  /\ \E b \in {"none", "lost"} : Become(c, b)
  /\ Goto(c, "publish")
  /\ UNCHANGED <<entries, ctx, entryOf, ready, closeVars>>

(* Fault: the command runs without the context of the call. *)
CreateIgnoresContext(c) == ~CtxDone(c) /\ CreateFails(c)

(* exec.CommandContext does not start a command whose context is done:    *)
(* the error wraps ctx.Err().  A command under way is killed, and its     *)
(* error is the signal, or ctx.Err() if it had just ended with success;   *)
(* what the daemon did for it by then stays, without an id.               *)
CreateInterrupted(c) ==
  /\ pc[c] = "create"
  /\ CtxDone(c)
  /\ Answer(c, ctx[c]) \/ Answer(c, "failed")
  /\ \E b \in {"none", "lost"} : Become(c, b)
  /\ Goto(c, "publish")
  /\ UNCHANGED <<entries, ctx, entryOf, ready, closeVars>>

BecomesRunning(c) ==
  /\ pc[c] = "startup"
  /\ ~CtxDone(c)
  /\ Become(c, "running")
  /\ Answer(c, "ok")
  /\ Goto(c, "publish")
  /\ UNCHANGED <<entries, ctx, entryOf, ready, closeVars>>

(* The keeper cannot be started, the container stops, or the deadline of  *)
(* waitUntilRunning passes; or its context is done.                       *)
StartupFails(c) ==
  /\ pc[c] = "startup"
  /\ Answer(c, "failed")
  /\ Goto(c, "cleanup")
  /\ UNCHANGED <<entries, ctx, entryOf, ready, box, closeVars>>

StartupInterrupted(c) ==
  /\ pc[c] = "startup"
  /\ CtxDone(c)
  /\ Answer(c, ctx[c])
  /\ Goto(c, "cleanup")
  /\ UNCHANGED <<entries, ctx, entryOf, ready, box, closeVars>>

(* executor.Close, or `docker rm`, with a context of its own; the error   *)
(* is dropped.                                                            *)
CleanUp(c) ==
  /\ pc[c] = "cleanup"
  /\ \E b \in {"gone", "stuck"} : Become(c, b)
  /\ Goto(c, "publish")
  /\ UNCHANGED <<entries, ctx, entryOf, answer, ready, closeVars>>

(* Fault: the entry is removed whatever the factory returned. *)
PublishForgets(c) ==
  /\ pc[c] = "publish"
  /\ entries' = [entries EXCEPT ![SessionOf[c]] = None]
  /\ ready' = ready \cup {c}
  /\ Goto(c, "done")
  /\ UNCHANGED <<ctx, entryOf, answer, box, closeVars>>

(* The rest of Get, under p.mu: a failed entry is removed so that a later *)
(* call may try again.                                                    *)
Publish(c) ==
  /\ pc[c] = "publish"
  /\ entries' = IF answer[c] = "ok" THEN entries
                ELSE [entries EXCEPT ![SessionOf[c]] = None]
  /\ ready' = ready \cup {c}
  /\ Goto(c, "done")
  /\ UNCHANGED <<ctx, entryOf, answer, box, closeVars>>

-----------------------------------------------------------------------------
(* Close *)

(* Fault: creations under way are not waited for. *)
CloseBeginReady ==
  /\ closer = "absent"
  /\ closed' = TRUE
  /\ todo' = {entries[s] : s \in Sessions} \cap ready
  /\ closer' = "next"
  /\ UNCHANGED <<callVars, box, target, late, reported>>

CloseBegin ==
  /\ closer = "absent"
  /\ closed' = TRUE
  /\ todo' = {entries[s] : s \in Sessions} \ {None}
  /\ closer' = "next"
  /\ UNCHANGED <<callVars, box, target, late, reported>>

(* Fault: an entry that was dealt with comes up again. *)
CloseNextAgain ==
  /\ closer = "next"
  /\ \E e \in todo : target' = e
  /\ closer' = "blocked"
  /\ UNCHANGED <<callVars, box, closed, todo, late, reported>>

(* The entries come in the order of a map, one at a time. *)
CloseNext ==
  /\ closer = "next"
  /\ \E e \in todo : target' = e /\ todo' = todo \ {e}
  /\ closer' = "blocked"
  /\ UNCHANGED <<callVars, box, closed, late, reported>>

SkipFailed ==
  /\ closer = "blocked"
  /\ target \in ready
  /\ answer[target] # "ok"
  /\ closer' = "next"
  /\ target' = None
  /\ UNCHANGED <<callVars, box, closed, todo, late, reported>>

(* executor.Close: an error is the context's, after which the container   *)
(* is removed all the same, or that of `docker rm`.                       *)
CloseExecutor ==
  /\ closer = "blocked"
  /\ target \in ready
  /\ answer[target] = "ok"
  /\ \/ Become(target, "gone") /\ reported' \in {reported, reported \/ late}
     \/ Become(target, "stuck") /\ reported' = TRUE
  /\ closer' = "next"
  /\ target' = None
  /\ UNCHANGED <<callVars, closed, todo, late>>

CloseGivesUp ==
  /\ closer = "blocked"
  /\ late
  /\ reported' = TRUE
  /\ closer' = "returned"
  /\ target' = None
  /\ UNCHANGED <<callVars, box, closed, todo, late>>

CloseReturn ==
  /\ closer = "next"
  /\ todo = {}
  /\ closer' = "returned"
  /\ UNCHANGED <<callVars, box, closed, todo, target, late, reported>>

-----------------------------------------------------------------------------
(* The environment *)

EndContext(c, why) ==
  /\ pc[c] \notin {"idle", "done"}
  /\ ~CtxDone(c)
  /\ ctx' = [ctx EXCEPT ![c] = why]
  /\ UNCHANGED <<entries, pc, entryOf, answer, ready, box, closeVars>>

Cancel(c) == EndContext(c, "canceled")
Expire(c) == EndContext(c, "expired")

ContainerDies(c) ==
  /\ box[c] = "running"
  /\ Become(c, "dead")
  /\ UNCHANGED <<callVars, closeVars>>

CloseDeadline ==
  /\ closer \in {"next", "blocked"}
  /\ ~late
  /\ late' = TRUE
  /\ UNCHANGED <<callVars, box, closed, closer, todo, target, reported>>

(* Nobody calls the pool any more. *)
Quiet ==
  /\ \A c \in Calls : pc[c] = "done"
  /\ closer = "returned"
  /\ UNCHANGED vars

Get(c) == Refuse(c) \/ Join(c) \/ Reserve(c) \/ Wake(c) \/ Leave(c)

Factory(c) ==
  \/ CreateContainer(c) \/ CreateFails(c) \/ CreateInterrupted(c)
  \/ BecomesRunning(c) \/ StartupFails(c) \/ StartupInterrupted(c) \/ CleanUp(c)

Close ==
  \/ CloseBegin \/ CloseNext \/ SkipFailed \/ CloseExecutor
  \/ CloseGivesUp \/ CloseReturn

Next ==
  \/ \E c \in Calls :
       Get(c) \/ Factory(c) \/ Publish(c) \/ Cancel(c) \/ Expire(c) \/ ContainerDies(c)
  \/ Close \/ CloseDeadline \/ Quiet

(***************************************************************************)
(* Runnable goroutines run; timers fire; a tool execution always has a     *)
(* deadline; `docker rm` returns.  docker need not finish anything else    *)
(* before the context that was given to it is done.                        *)
(***************************************************************************)
Fairness ==
  /\ \A c \in Calls :
       /\ WF_vars(Wake(c)) /\ WF_vars(Leave(c)) /\ WF_vars(Publish(c))
       /\ WF_vars(CreateInterrupted(c)) /\ WF_vars(StartupInterrupted(c))
       /\ WF_vars(CleanUp(c)) /\ WF_vars(Expire(c))
  /\ WF_vars(CloseNext) /\ WF_vars(SkipFailed \/ CloseExecutor)
  /\ WF_vars(CloseGivesUp) /\ WF_vars(CloseReturn) /\ WF_vars(CloseDeadline)

SafeSpec == Init /\ [][Next]_vars
Spec == SafeSpec /\ Fairness

-----------------------------------------------------------------------------
(* Properties *)

(***************************************************************************)
(* The workspace of a session is mounted into one container at a time:     *)
(* concurrent first calls merge, and a retry after a failure starts only   *)
(* when the failed container has been dealt with (pool.go:65-91).  Left    *)
(* out are containers the program has no id of, or could not remove.       *)
(***************************************************************************)
OneContainerPerSession ==
  \A c, d \in Calls :
    (SessionOf[c] = SessionOf[d] /\ box[c] \in Live /\ box[d] \in Live) => c = d

(***************************************************************************)
(* All calls of a session that got an executor got the same one, and it is *)
(* the one a later call will find: no failed creation, late publication or *)
(* Close ever takes a working entry out of the map.                        *)
(***************************************************************************)
SessionKeepsItsExecutor ==
  \A c \in Calls :
    (pc[c] = "done" /\ answer[c] = "ok") => entries[SessionOf[c]] = entryOf[c]

(***************************************************************************)
(* When Close returns without an error, no container is in use any more    *)
(* and none is being made: those under way were waited for                 *)
(* (pool.go:97-128).  It does not speak of a container that is lost, or    *)
(* whose removal failed after a failed creation: the pool never knew it.   *)
(***************************************************************************)
CloseReclaims ==
  (closer = "returned" /\ ~reported) =>
    \A c \in Calls : box[c] \notin Live /\ pc[c] \notin Creating

(***************************************************************************)
(* Every Get returns, the creator's and the waiters', also when docker     *)
(* hangs: their contexts end it.                                           *)
(***************************************************************************)
GetReturns == \A c \in Calls : (pc[c] # "idle") ~> (pc[c] = "done")

(***************************************************************************)
(* Close returns although the creation it waits for may hang.              *)
(***************************************************************************)
CloseReturns == (closer # "absent") ~> (closer = "returned")

(***************************************************************************)
(* docker.go:99: a creation that fails removes what it left behind.  The   *)
(* code does so from `docker start` on (docker.go:82, 89, 101), but not    *)
(* when `docker create` is killed or prints more than an id (docker.go:70, *)
(* 74).                                                                    *)
(***************************************************************************)
FailedCreationLeavesNothing ==
  \A c \in Calls :
    (pc[c] = "done" /\ entryOf[c] = c /\ answer[c] # "ok") => box[c] # "lost"
=============================================================================
