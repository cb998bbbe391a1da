------------------------------- MODULE Session -------------------------------
(***************************************************************************)
(* internal/session: the Manager of one agent, its Session objects and the *)
(* SQLite rows behind them.  A write goes to the store under the object's  *)
(* mutex and only then into the object; creating or loading a session goes *)
(* through the store under the manager's mutex and only then into its maps.*)
(* The two halves of each are separate steps, so that other callers run    *)
(* between them and the process may die there.                             *)
(*                                                                         *)
(* A call that fails in the store returns its error and leaves both sides  *)
(* as they were: it is a stuttering step.  A process restart is modelled;  *)
(* a power failure, which synchronous=NORMAL does not survive, is not.     *)
(***************************************************************************)
EXTENDS Naturals, Sequences, FiniteSets

CONSTANTS
  Addresses,    \* conversation addresses
  Keys,         \* session keys that generateKey may return
  Callers,      \* goroutines that call the package
  Names,        \* messages, by name
  Batches,      \* what one Append adds: sequences of message names
  OldHistories, \* histories in a database of a version without a memory index
  Inexact,      \* messages that come back from JSON unequal to what was built
  Unsearchable, \* messages without searchable content
  Models,       \* model references
  NoModel,      \* the empty ModelRef: the agent's default
  None,         \* no row, no pointer, no call under way
  MaxLen,       \* bound on a history, for checking only
  MaxObjects    \* bound on Session objects per process, for checking only

(* A message in memory is its name and whether its Go value differs from   *)
(* the one that its JSON decodes to: the stream decoder's empty, non-nil   *)
(* ToolCalls (omitempty drops it) and a line of the terminal that is not   *)
(* valid UTF-8 do.  The store holds decoded messages.                      *)
Message == [name : Names, inexact : BOOLEAN]

Row ==
  [address : Addresses, messages : Seq(Message), until : Nat, summary : SUBSET Nat,
   model : Models \cup {NoModel}]

Object ==
  [key : Keys, messages : Seq(Message), until : Nat, summary : SUBSET Nat,
   model : Models \cup {NoModel}]

ASSUME SessionAssumption ==
  /\ MaxLen \in Nat /\ MaxObjects \in Nat
  /\ Batches \cup OldHistories \subseteq Seq(Names)
  /\ None \notin Keys /\ None \notin Row
  /\ NoModel \notin Models

VARIABLES
  rows,       \* table sessions: key -> row, or None
  activeRow,  \* table active_sessions: address -> key, or None
  index,      \* table memory_entries: key -> positions that are indexed
  heap,       \* the Session objects of this process
  cache,      \* Manager.sessions: key -> object, 0 where absent
  activeKeys, \* Manager.activeKeys: address -> key, or None
  pc,         \* where each caller is: "ready", "publish", "fold", "written"
  ref,        \* the *Session each caller holds, 0 for none
  job,        \* what a caller has read or written in the store and not yet
              \* put into memory
  view        \* the ContextSnapshot that a caller is folding, or None

store == <<rows, activeRow, index>>
memory == <<heap, cache, activeKeys>>
callers == <<pc, ref, job, view>>
vars == <<store, memory, callers>>

Built(name) == [name |-> name, inexact |-> name \in Inexact]

Decoded(s) == [i \in DOMAIN s |-> [s[i] EXCEPT !.inexact = FALSE]]

EmptyRow(address) ==
  [address |-> address, messages |-> <<>>, until |-> 0, summary |-> {},
   model |-> NoModel]

\* scanRecord refuses a cursor beyond the history or one without a summary.
Loads(row) ==
  /\ row.until <= Len(row.messages)
  /\ row.until > 0 => row.summary # {}

\* insertMemoryEntries, for the new tail (positions count from one here); one
\* that is there already makes Append fail.
Indexed(existing, next) ==
  {i \in Len(existing) + 1 .. Len(next) : next[i].name \notin Unsearchable}

TypeOK ==
  /\ rows \in [Keys -> Row \cup {None}]
  /\ activeRow \in [Addresses -> Keys \cup {None}]
  /\ index \in [Keys -> SUBSET Nat]
  /\ heap \in Seq(Object) /\ Len(heap) <= MaxObjects
  /\ cache \in [Keys -> 0..Len(heap)]
  /\ activeKeys \in [Addresses -> Keys \cup {None}]
  /\ pc \in [Callers -> {"ready", "publish", "fold", "written"}]
  /\ ref \in [Callers -> 0..Len(heap)]
  /\ \A c \in Callers :
       /\ pc[c] = "publish" => job[c] \in [key : Keys, row : Row, active : BOOLEAN]
       /\ pc[c] = "written" => job[c] \in Object
       /\ pc[c] = "fold" => view[c] \in [length : Nat, until : Nat, summary : SUBSET Nat]
       /\ pc[c] \in {"fold", "written"} => ref[c] # 0
  /\ DOMAIN job = Callers /\ DOMAIN view = Callers

-----------------------------------------------------------------------------
(* OpenSQLite *)

\* Fault: a database that has sessions already is not indexed.
NoBackfill(table, entries) == entries

\* migrate: insert-or-ignore of every message; columns that an older version
\* did not have get the values of EmptyRow.
Backfill(table, entries) ==
  [k \in Keys |-> IF table[k] = None THEN entries[k]
                  ELSE entries[k] \cup Indexed(<<>>, table[k].messages)]

OldRow(address, names) ==
  [EmptyRow(address) EXCEPT !.messages = Decoded([i \in DOMAIN names |-> Built(names[i])])]

\* The first start, with a new database or one of an older version.
Init ==
  /\ rows \in [Keys -> {None} \cup {OldRow(a, h) : a \in Addresses, h \in OldHistories}]
  /\ activeRow \in [Addresses -> Keys \cup {None}]
  /\ \A a \in Addresses :
       activeRow[a] \in {None} \cup {k \in Keys : rows[k] # None /\ rows[k].address = a}
  /\ index = Backfill(rows, [k \in Keys |-> {}])
  /\ heap = <<>>
  /\ cache = [k \in Keys |-> 0]
  /\ activeKeys = [a \in Addresses |-> None]
  /\ pc = [c \in Callers |-> "ready"]
  /\ ref = [c \in Callers |-> 0]
  /\ job = [c \in Callers |-> None]
  /\ view = [c \in Callers |-> None]

-----------------------------------------------------------------------------
(* The Manager.  Its mutex is held from the store call to the maps.        *)

MayEnter(c) ==
  /\ pc[c] = "ready"
  /\ \A d \in Callers : pc[d] # "publish"
  /\ Len(heap) < MaxObjects

\* Fault: the active pointer is left where it was.
CreateOnly(c, a) ==
  \E k \in Keys :
    /\ cache[k] = 0 /\ rows[k] = None
    /\ rows' = [rows EXCEPT ![k] = EmptyRow(a)]
    /\ job' = [job EXCEPT ![c] = [key |-> k, row |-> EmptyRow(a), active |-> TRUE]]
    /\ pc' = [pc EXCEPT ![c] = "publish"]
    /\ UNCHANGED <<activeRow, index, memory, ref, view>>

\* createSessionLocked: the row and the active pointer in one transaction.  A
\* key that another process has stored makes the insert fail.
CreateAndActivate(c, a) ==
  \E k \in Keys :
    /\ cache[k] = 0 /\ rows[k] = None
    /\ rows' = [rows EXCEPT ![k] = EmptyRow(a)]
    /\ activeRow' = [activeRow EXCEPT ![a] = k]
    /\ job' = [job EXCEPT ![c] = [key |-> k, row |-> EmptyRow(a), active |-> TRUE]]
    /\ pc' = [pc EXCEPT ![c] = "publish"]
    /\ UNCHANGED <<index, memory, ref, view>>

\* LoadActive and LoadByKey.
Load(c, k, active) ==
  /\ rows[k] # None /\ Loads(rows[k])
  /\ job' = [job EXCEPT ![c] = [key |-> k, row |-> rows[k], active |-> active]]
  /\ pc' = [pc EXCEPT ![c] = "publish"]
  /\ UNCHANGED <<store, memory, ref, view>>

\* An object of the maps is handed out.
Hit(c, o) ==
  /\ ref' = [ref EXCEPT ![c] = o]
  /\ UNCHANGED <<store, memory, pc, job, view>>

NewSession(c, a) == MayEnter(c) /\ CreateAndActivate(c, a)

CachedActive(a) == IF activeKeys[a] = None THEN 0 ELSE cache[activeKeys[a]]

CurrentSession(c, a) ==
  /\ MayEnter(c)
  /\ \/ CachedActive(a) # 0 /\ Hit(c, CachedActive(a))
     \/ CachedActive(a) = 0 /\ activeRow[a] # None /\ Load(c, activeRow[a], TRUE)
     \/ CachedActive(a) = 0 /\ activeRow[a] = None /\ CreateAndActivate(c, a)

\* Get finds sessions that are not active as well.
Get(c, k) ==
  /\ MayEnter(c)
  /\ \/ cache[k] # 0 /\ Hit(c, cache[k])
     \/ cache[k] = 0 /\ Load(c, k, FALSE)

\* The maps, and the unlock.
Publish(c) ==
  /\ pc[c] = "publish"
  /\ LET new == job[c]
         o == Len(heap) + 1 IN
     /\ heap' = Append(heap, [key |-> new.key, messages |-> new.row.messages,
                              until |-> new.row.until, summary |-> new.row.summary,
                              model |-> new.row.model])
     /\ cache' = [cache EXCEPT ![new.key] = o]
     /\ activeKeys' = IF new.active
                      THEN [activeKeys EXCEPT ![new.row.address] = new.key]
                      ELSE activeKeys
     /\ ref' = [ref EXCEPT ![c] = o]
  /\ pc' = [pc EXCEPT ![c] = "ready"]
  /\ job' = [job EXCEPT ![c] = None]
  /\ UNCHANGED <<store, view>>

-----------------------------------------------------------------------------
(* A Session.  Its mutex is held from the store call to the assignment.    *)

MayLock(c) ==
  /\ ref[c] # 0
  /\ \A d \in Callers : ~(pc[d] = "written" /\ ref[d] = ref[c])

Written(c, object) ==
  /\ job' = [job EXCEPT ![c] = object]
  /\ pc' = [pc EXCEPT ![c] = "written"]
  /\ UNCHANGED <<activeRow, memory, ref>>

\* Fault: any history that is not shorter is taken.
NotShorter(existing, next) == Len(existing) <= Len(next)

\* UpdateMessages compares what it has decoded with what it is given.
Extends(existing, next) ==
  /\ Len(existing) <= Len(next)
  /\ SubSeq(next, 1, Len(existing)) = existing

\* Fault: the object takes the messages before the store has.
AppendAssignedFirst(c, batch) ==
  LET s == heap[ref[c]]
      next == s.messages \o [i \in DOMAIN batch |-> Built(batch[i])] IN
  /\ Len(next) <= MaxLen
  /\ heap' = [heap EXCEPT ![ref[c]].messages = next]
  /\ UNCHANGED <<store, cache, activeKeys, callers>>

AppendStored(c, batch) ==
  LET s == heap[ref[c]]
      existing == rows[s.key].messages
      next == s.messages \o [i \in DOMAIN batch |-> Built(batch[i])] IN
  /\ Len(next) <= MaxLen
  /\ Extends(existing, next)
  /\ index[s.key] \cap Indexed(existing, next) = {}
  /\ rows' = [rows EXCEPT ![s.key].messages = Decoded(next)]
  /\ index' = [index EXCEPT ![s.key] = @ \cup Indexed(existing, next)]
  /\ Written(c, [s EXCEPT !.messages = next])
  /\ UNCHANGED view

SetModelStored(c, model) ==
  LET s == heap[ref[c]] IN
  /\ s.model # model
  /\ rows' = [rows EXCEPT ![s.key].model = model]
  /\ Written(c, [s EXCEPT !.model = model])
  /\ UNCHANGED <<index, view>>

\* ContextSnapshot: messages, summary and cursor of one moment; the caller calls
\* the summary model without the mutex.
ContextSnapshot(c) ==
  /\ LET s == heap[ref[c]] IN
     view' = [view EXCEPT ![c] = [length |-> Len(s.messages), until |-> s.until,
                                  summary |-> s.summary]]
  /\ pc' = [pc EXCEPT ![c] = "fold"]
  /\ UNCHANGED <<store, memory, ref, job>>

\* Fault: the fold skips the first message after the cursor.
SummarySkipsOne(seen, position) ==
  seen.summary \cup (seen.until + 2 .. position)

\* compactSnapshot folds the messages up to the new position into the summary;
\* a summary is represented by the messages it accounts for.
Summary(seen, position) ==
  seen.summary \cup (seen.until + 1 .. position)

\* The cursor is as the caller saw it, in the object and then in the row.
SameCursor(s, seen) ==
  /\ s.until = seen.until
  /\ rows[s.key].until = seen.until

\* ApplyCompaction; compactSnapshot keeps the last turn out of the summary.
CompactionStored(c) ==
  /\ LET s == heap[ref[c]]
         seen == view[c] IN
     /\ SameCursor(s, seen)
     /\ \E position \in seen.until + 1 .. seen.length - 1 :
          /\ rows' = [rows EXCEPT ![s.key].until = position,
                                  ![s.key].summary = Summary(seen, position)]
          /\ Written(c, [s EXCEPT !.until = position,
                                  !.summary = Summary(seen, position)])
  /\ view' = [view EXCEPT ![c] = None]
  /\ UNCHANGED index

\* Nothing to fold, no summary, or ErrCompactionConflict: the caller goes on with
\* the session as it is.
NotCompacted(c) ==
  /\ pc[c] = "fold"
  /\ pc' = [pc EXCEPT ![c] = "ready"]
  /\ view' = [view EXCEPT ![c] = None]
  /\ UNCHANGED <<store, memory, ref, job>>

Call(c) ==
  /\ MayLock(c)
  /\ \/ pc[c] = "ready" /\ \E batch \in Batches : AppendStored(c, batch)
     \/ /\ pc[c] = "ready"
        /\ \E model \in Models \cup {NoModel} : SetModelStored(c, model)
     \/ pc[c] = "ready" /\ ContextSnapshot(c)
     \/ pc[c] = "fold" /\ CompactionStored(c)

\* Fault: a write to the object is forgotten after the store took it.
ForgetWrite(c) ==
  /\ pc[c] = "written"
  /\ pc' = [pc EXCEPT ![c] = "ready"]
  /\ job' = [job EXCEPT ![c] = None]
  /\ UNCHANGED <<store, memory, ref, view>>

\* The assignment to the object, and the unlock.
Assign(c) ==
  /\ pc[c] = "written"
  /\ heap' = [heap EXCEPT ![ref[c]] = job[c]]
  /\ pc' = [pc EXCEPT ![c] = "ready"]
  /\ job' = [job EXCEPT ![c] = None]
  /\ UNCHANGED <<store, cache, activeKeys, ref, view>>

\* The process dies and is started again: the database is what remains, and is
\* migrated anew.
Restart ==
  /\ heap' = <<>>
  /\ cache' = [k \in Keys |-> 0]
  /\ activeKeys' = [a \in Addresses |-> None]
  /\ pc' = [c \in Callers |-> "ready"]
  /\ ref' = [c \in Callers |-> 0]
  /\ job' = [c \in Callers |-> None]
  /\ view' = [c \in Callers |-> None]
  /\ index' = Backfill(rows, index)
  /\ UNCHANGED <<rows, activeRow>>

Next ==
  \/ \E c \in Callers :
       \/ \E a \in Addresses : NewSession(c, a) \/ CurrentSession(c, a)
       \/ \E k \in Keys : Get(c, k)
       \/ Publish(c) \/ Call(c) \/ NotCompacted(c) \/ Assign(c)
  \/ Restart

Spec == Init /\ [][Next]_vars

-----------------------------------------------------------------------------
(* What the package promises to the agent, whatever number of objects the  *)
(* process holds for one key, and wherever it died.                        *)

IsPrefixOf(s, t) == Len(s) <= Len(t) /\ SubSeq(t, 1, Len(s)) = s

\* No write undoes another, through whatever objects of one key they go and
\* whatever compactions overlap: a message that was stored is never lost, replaced
\* or reordered, and the cursor never moves back.
WritesNeverUndo ==
  [][\A k \in Keys : rows[k] # None =>
       /\ rows'[k] # None
       /\ IsPrefixOf(rows[k].messages, rows'[k].messages)
       /\ rows'[k].until >= rows[k].until]_vars

\* The model sees every message of the history, either in the summary or in the
\* tail after the cursor: the stored summary accounts for exactly the messages
\* before the stored cursor, and the record can be loaded after a restart.
SummaryAccountsForPrefix ==
  \A k \in Keys : rows[k] # None =>
    /\ rows[k].summary = 1..rows[k].until
    /\ Loads(rows[k])

\* No object is ahead of the store (README: persist first, then update memory),
\* also while a write is between its two halves or was refused.
MemoryNeverAhead ==
  \A o \in 1..Len(heap) :
    LET s == heap[o] IN
    /\ IsPrefixOf(Decoded(s.messages), rows[s.key].messages)
    /\ s.until <= rows[s.key].until
    /\ s.summary \subseteq rows[s.key].summary

\* Where the process holds one object for a key, that object shows what a
\* restart would load, except while a write or a load is half done.
SoleObjectIsCurrent ==
  \A o \in 1..Len(heap) :
    LET s == heap[o]
        row == rows[s.key] IN
    (/\ \A p \in 1..Len(heap) : heap[p].key = s.key => p = o
     /\ \A c \in Callers : pc[c] = "written" => ref[c] # o)
    => /\ Decoded(s.messages) = row.messages
       /\ s.until = row.until /\ s.summary = row.summary
       /\ s.model = row.model

\* The sequence numbers of the long-term memory are the positions of exactly the
\* searchable messages of the stored history.
IndexMatchesHistory ==
  \A k \in Keys :
    index[k] = IF rows[k] = None THEN {}
               ELSE {i \in 1..Len(rows[k].messages) :
                       rows[k].messages[i].name \notin Unsearchable}

\* The session that users continue is the one that they would continue after a
\* restart, except while a new one is half created.
ActiveSurvivesRestart ==
  \A a \in Addresses :
    (/\ activeKeys[a] # None
     /\ \A c \in Callers : pc[c] = "publish" => job[c].row.address # a)
    => activeKeys[a] = activeRow[a]

\* sqlite.go says that UpdateMessages refuses a history that was cut or replaced
\* and takes one that grows at its end.  An object that holds every message of
\* its row can therefore append.
CompleteHistoryMayGrow ==
  \A o \in 1..Len(heap) :
    LET s == heap[o]
        row == rows[s.key]
        names(h) == [i \in DOMAIN h |-> h[i].name] IN
    names(s.messages) = names(row.messages) => Extends(row.messages, s.messages)
=============================================================================
