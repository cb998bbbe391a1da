---------------------------- MODULE SessionProofs ----------------------------
(***************************************************************************)
(* Theorems about Session, for any number of conversations, sessions,      *)
(* callers and Session objects, and histories of any length.               *)
(***************************************************************************)
EXTENDS Session, TLAPS

\* The Session that a half done load or creation will put into the maps.
Loaded(new) ==
  [key |-> new.key, messages |-> new.row.messages, until |-> new.row.until,
   summary |-> new.row.summary, model |-> new.row.model]

\* A Session that has seen what its row holds, or an earlier state of the row.
Behind(s) ==
  LET row == rows[s.key] IN
  /\ row # None
  /\ IsPrefixOf(Decoded(s.messages), row.messages)
  /\ s.until <= row.until
  /\ s.summary = 1..s.until

Shows(s) ==
  LET row == rows[s.key] IN
  /\ Decoded(s.messages) = row.messages
  /\ s.until = row.until /\ s.summary = row.summary
  /\ s.model = row.model

Searchable(history) == {i \in 1..Len(history) : history[i].name \notin Unsearchable}

Sole(o) == \A p \in 1..Len(heap) : heap[p].key = heap[o].key => p = o

\* What the store holds is decoded, and its cursor is within the history.
RowsSound ==
  \A k \in Keys : rows[k] # None =>
    /\ Decoded(rows[k].messages) = rows[k].messages
    /\ rows[k].until <= Len(rows[k].messages)
    /\ rows[k].summary = 1..rows[k].until

ObjectsBehind == \A o \in 1..Len(heap) : Behind(heap[o])

\* One write at a time per object; it has grown the object, and what it has
\* written is what the row shows if no other object stands for the key.
WritesHeld ==
  \A c \in Callers : pc[c] = "written" =>
    /\ \A d \in Callers : pc[d] = "written" /\ ref[d] = ref[c] => d = c
    /\ job[c].key = heap[ref[c]].key
    /\ Len(heap[ref[c]].messages) <= Len(job[c].messages)
    /\ Behind(job[c])
    /\ Sole(ref[c]) => Shows(job[c])

\* One load or creation at a time; it is as good as its row as long as no object
\* can write the row.
LoadsHeld ==
  \A c \in Callers : pc[c] = "publish" =>
    LET new == Loaded(job[c]) IN
    /\ \A d \in Callers : pc[d] = "publish" => d = c
    /\ Len(heap) < MaxObjects
    /\ Behind(new)
    /\ (\A o \in 1..Len(heap) : heap[o].key # new.key) => Shows(new)
    /\ job[c].active => activeRow[job[c].row.address] = new.key

\* A fold knows what its cursor accounts for and does not go beyond the history.
FoldsSound ==
  \A c \in Callers : pc[c] = "fold" =>
    /\ view[c].summary = 1..view[c].until
    /\ view[c].length <= Len(heap[ref[c]].messages)

\* The stored pointer of a conversation is one of its sessions; the pointer in
\* memory agrees, except while a creation is half done.
PointersSound ==
  \A a \in Addresses :
    /\ activeRow[a] # None =>
         rows[activeRow[a]] # None /\ rows[activeRow[a]].address = a
    /\ (/\ activeKeys[a] # None
        /\ \A c \in Callers : pc[c] = "publish" /\ job[c].active => job[c].row.address # a)
       => activeKeys[a] = activeRow[a]

IInv ==
  /\ TypeOK /\ RowsSound /\ ObjectsBehind /\ WritesHeld /\ LoadsHeld /\ FoldsSound
  /\ SoleObjectIsCurrent /\ IndexMatchesHistory /\ PointersSound

-----------------------------------------------------------------------------
(* Histories.                                                              *)

\* What IsPrefixOf says of the positions.
LEMMA PrefixPositions ==
  \A s, t \in Seq(Message) :
    IsPrefixOf(s, t) <=> Len(s) <= Len(t) /\ \A i \in 1..Len(s) : s[i] = t[i]
<1> SUFFICES ASSUME NEW s \in Seq(Message), NEW t \in Seq(Message), Len(s) <= Len(t)
             PROVE  SubSeq(t, 1, Len(s)) = s <=> \A i \in 1..Len(s) : s[i] = t[i]
  BY DEF IsPrefixOf
<1> HIDE DEF Message
<1>1. /\ SubSeq(t, 1, Len(s)) \in Seq(Message)
      /\ Len(SubSeq(t, 1, Len(s))) = Len(s)
      /\ \A i \in 1..Len(s) : SubSeq(t, 1, Len(s))[i] = t[i]
  OBVIOUS
<1>2. QED
  BY <1>1

Plain(message) == [message EXCEPT !.inexact = FALSE]

\* Decoding keeps the length and the names, and is done once and for all.
LEMMA DecodedFacts ==
  \A s \in Seq(Message) :
    /\ Decoded(s) \in Seq(Message)
    /\ Len(Decoded(s)) = Len(s)
    /\ \A i \in 1..Len(s) :
         /\ Decoded(s)[i] = Plain(s[i])
         /\ Decoded(s)[i].name = s[i].name
    /\ Decoded(Decoded(s)) = Decoded(s)
<1> SUFFICES ASSUME NEW s \in Seq(Message)
             PROVE  /\ Decoded(s) \in Seq(Message)
                    /\ Len(Decoded(s)) = Len(s)
                    /\ \A i \in 1..Len(s) :
                         /\ Decoded(s)[i] = Plain(s[i])
                         /\ Decoded(s)[i].name = s[i].name
                    /\ Decoded(Decoded(s)) = Decoded(s)
  OBVIOUS
<1>1. DOMAIN s = 1..Len(s) /\ Len(s) \in Nat /\ \A i \in 1..Len(s) : s[i] \in Message
  OBVIOUS
<1>2. \A m \in Message : /\ Plain(m) \in Message
                         /\ Plain(m).name = m.name
                         /\ Plain(Plain(m)) = Plain(m)
  BY DEF Message, Plain
<1>3. \A h : Decoded(h) = [i \in DOMAIN h |-> Plain(h[i])]
  BY DEF Decoded, Plain
<1>4. /\ Decoded(s) = [i \in 1..Len(s) |-> Plain(s[i])]
      /\ Decoded(s) \in Seq(Message) /\ Len(Decoded(s)) = Len(s)
  BY <1>1, <1>2, <1>3
<1>5. Decoded(Decoded(s)) = [i \in 1..Len(s) |-> Plain(Plain(s[i]))]
  BY <1>3, <1>4
<1>6. Decoded(Decoded(s)) = Decoded(s)
  BY <1>1, <1>2, <1>4, <1>5
<1>7. QED
  BY <1>1, <1>2, <1>4, <1>6

\* The prefixes are an order that decoding respects.
LEMMA PrefixOrder ==
  \A s, t, u \in Seq(Message) :
    /\ IsPrefixOf(s, s)
    /\ IsPrefixOf(s, t) /\ IsPrefixOf(t, u) => IsPrefixOf(s, u)
    /\ IsPrefixOf(s, t) => IsPrefixOf(Decoded(s), Decoded(t))
    /\ IsPrefixOf(s, t) => Len(s) <= Len(t)
    /\ Extends(s, t) <=> IsPrefixOf(s, t)
<1> SUFFICES ASSUME NEW s \in Seq(Message), NEW t \in Seq(Message), NEW u \in Seq(Message)
             PROVE  /\ IsPrefixOf(s, s)
                    /\ IsPrefixOf(s, t) /\ IsPrefixOf(t, u) => IsPrefixOf(s, u)
                    /\ IsPrefixOf(s, t) => IsPrefixOf(Decoded(s), Decoded(t))
                    /\ IsPrefixOf(s, t) => Len(s) <= Len(t)
                    /\ Extends(s, t) <=> IsPrefixOf(s, t)
  OBVIOUS
<1>1. IsPrefixOf(s, s)
  BY PrefixPositions
<1>2. Len(s) \in Nat /\ Len(t) \in Nat /\ Len(u) \in Nat
  OBVIOUS
<1>3. IsPrefixOf(s, t) /\ IsPrefixOf(t, u) => IsPrefixOf(s, u)
  BY <1>2, PrefixPositions
<1>4. IsPrefixOf(s, t) => IsPrefixOf(Decoded(s), Decoded(t))
  <2> SUFFICES ASSUME IsPrefixOf(s, t) PROVE IsPrefixOf(Decoded(s), Decoded(t))
    OBVIOUS
  <2>1. Len(s) <= Len(t) /\ \A i \in 1..Len(s) : s[i] = t[i] /\ i \in 1..Len(t)
    BY <1>2, PrefixPositions
  <2>2. \A i \in 1..Len(s) : Decoded(s)[i] = Decoded(t)[i]
    BY <2>1, DecodedFacts
  <2>3. QED
    BY <2>1, <2>2, DecodedFacts, PrefixPositions
<1>5. (IsPrefixOf(s, t) => Len(s) <= Len(t)) /\ (Extends(s, t) <=> IsPrefixOf(s, t))
  BY DEF IsPrefixOf, Extends
<1>6. QED
  BY <1>1, <1>3, <1>4, <1>5

\* What an append proposes is a history that starts with the old one.
LEMMA Appended ==
  \A s \in Seq(Message), batch \in Batches :
    LET next == s \o [i \in DOMAIN batch |-> Built(batch[i])] IN
    next \in Seq(Message) /\ IsPrefixOf(s, next)
<1> SUFFICES ASSUME NEW s \in Seq(Message), NEW batch \in Batches
             PROVE  LET next == s \o [i \in DOMAIN batch |-> Built(batch[i])] IN
                    next \in Seq(Message) /\ IsPrefixOf(s, next)
  OBVIOUS
<1> DEFINE new == [i \in DOMAIN batch |-> Built(batch[i])]
<1>1. batch \in Seq(Names)
  BY SessionAssumption
<1>2. \A i \in DOMAIN batch : Built(batch[i]) \in Message
  BY <1>1 DEF Built, Message
<1>3. new \in Seq(Message)
  BY <1>1, <1>2
<1> HIDE DEF new
<1>4. /\ s \o new \in Seq(Message) /\ Len(s) <= Len(s \o new)
      /\ \A i \in 1..Len(s) : s[i] = (s \o new)[i]
  BY <1>3
<1>5. IsPrefixOf(s, s \o new)
  BY <1>4, PrefixPositions
<1>6. QED
  BY <1>4, <1>5 DEF new

-----------------------------------------------------------------------------
(* The steps, by what they do.                                             *)

Creates(c, a, k) ==
  /\ MayEnter(c)
  /\ rows[k] = None
  /\ rows' = [rows EXCEPT ![k] = EmptyRow(a)]
  /\ activeRow' = [activeRow EXCEPT ![a] = k]
  /\ job' = [job EXCEPT ![c] = [key |-> k, row |-> EmptyRow(a), active |-> TRUE]]
  /\ pc' = [pc EXCEPT ![c] = "publish"]
  /\ UNCHANGED <<index, memory, ref, view>>

Reads(c, k, active) ==
  /\ MayEnter(c)
  /\ Load(c, k, active)
  /\ active => \E a \in Addresses : activeRow[a] = k

Hands(c, o) == MayEnter(c) /\ Hit(c, o)

Looks(c) == MayLock(c) /\ pc[c] = "ready" /\ ContextSnapshot(c)

\* A write through the object of c gives its row, and then the object, the values
\* row and object.
Stores(c, row, object) ==
  LET s == heap[ref[c]]
      old == rows[s.key] IN
  /\ MayLock(c)
  /\ pc[c] \in {"ready", "fold"}
  /\ rows' = [rows EXCEPT ![s.key] = row]
  /\ Written(c, object)
  /\ view' \in {view, [view EXCEPT ![c] = None]}
  /\ index' = [index EXCEPT ![s.key] = Searchable(row.messages)]
  /\ object.key = s.key
  /\ row.address = old.address
  /\ IsPrefixOf(old.messages, row.messages) /\ Decoded(row.messages) = row.messages
  /\ old.until <= row.until /\ row.until <= Len(row.messages)
  /\ row.summary = 1..row.until
  /\ Len(s.messages) <= Len(object.messages)
  /\ IsPrefixOf(Decoded(object.messages), row.messages)
  /\ object.until <= row.until /\ object.summary = 1..object.until
  /\ Shows(s) => /\ Decoded(object.messages) = row.messages
                 /\ object.until = row.until /\ object.summary = row.summary
                 /\ object.model = row.model

\* What the invariant says of the object that a caller holds.
LEMMA HeldObject ==
  ASSUME IInv, NEW c \in Callers, ref[c] # 0
  PROVE  /\ ref[c] \in 1..Len(heap)
         /\ heap[ref[c]] \in Object /\ Behind(heap[ref[c]])
         /\ rows[heap[ref[c]].key] \in Row
<1>1. /\ ref[c] \in 0..Len(heap) /\ Len(heap) \in Nat
      /\ \A o \in 1..Len(heap) : heap[o] \in Object
  BY DEF IInv, TypeOK
<1>2. ref[c] \in 1..Len(heap)
  BY <1>1
<1>3. heap[ref[c]] \in Object /\ Behind(heap[ref[c]])
  BY <1>1, <1>2 DEF IInv, ObjectsBehind
<1>4. heap[ref[c]].key \in Keys /\ rows[heap[ref[c]].key] # None
  BY <1>3 DEF Object, Behind
<1>5. QED
  BY <1>2, <1>3, <1>4 DEF IInv, TypeOK

\* The fields of a row and of an object, and what their updates are.
LEMMA Fields ==
  /\ \A row \in Row :
       /\ row.messages \in Seq(Message) /\ row.until \in Nat
       /\ row.address \in Addresses
       /\ \A h \in Seq(Message) : /\ [row EXCEPT !.messages = h] \in Row
                                  /\ [row EXCEPT !.messages = h].messages = h
                                  /\ [row EXCEPT !.messages = h].address = row.address
                                  /\ [row EXCEPT !.messages = h].until = row.until
                                  /\ [row EXCEPT !.messages = h].summary = row.summary
                                  /\ [row EXCEPT !.messages = h].model = row.model
  /\ \A s \in Object :
       /\ s.messages \in Seq(Message) /\ s.until \in Nat /\ s.key \in Keys
       /\ \A h \in Seq(Message) : /\ [s EXCEPT !.messages = h] \in Object
                                  /\ [s EXCEPT !.messages = h].messages = h
                                  /\ [s EXCEPT !.messages = h].key = s.key
                                  /\ [s EXCEPT !.messages = h].until = s.until
                                  /\ [s EXCEPT !.messages = h].summary = s.summary
                                  /\ [s EXCEPT !.messages = h].model = s.model
BY DEF Row, Object

\* The index is that of the stored histories.
LEMMA SameIndex ==
  IInv => \A k \in Keys : rows[k] # None =>
            index = [index EXCEPT ![k] = Searchable(rows[k].messages)]
BY DEF IInv, TypeOK, IndexMatchesHistory, Searchable

\* UpdateMessages appends what the object has and the batch.
LEMMA AppendStores ==
  ASSUME IInv, NEW c \in Callers, NEW batch \in Batches,
         MayLock(c), pc[c] = "ready", AppendStored(c, batch)
  PROVE  \E row \in Row, object \in Object : Stores(c, row, object)
<1> DEFINE s == heap[ref[c]]
           old == rows[s.key]
           next == s.messages \o [i \in DOMAIN batch |-> Built(batch[i])]
           row == [old EXCEPT !.messages = Decoded(next)]
           object == [s EXCEPT !.messages = next]
<1>1. ref[c] \in 1..Len(heap) /\ s \in Object /\ Behind(s) /\ old \in Row
  BY HeldObject DEF MayLock
<1>2. /\ s.messages \in Seq(Message) /\ old.messages \in Seq(Message)
      /\ s.until \in Nat /\ old.until \in Nat /\ s.key \in Keys
  BY <1>1, Fields
<1>3. /\ Extends(old.messages, next)
      /\ rows' = [rows EXCEPT ![s.key].messages = Decoded(next)]
      /\ Written(c, object) /\ view' = view
  BY DEF AppendStored
<1>4. next \in Seq(Message) /\ IsPrefixOf(s.messages, next)
  BY <1>2, Appended
<1> HIDE DEF next
<1>5. /\ Decoded(next) \in Seq(Message)
      /\ Len(Decoded(next)) = Len(next)
      /\ Decoded(Decoded(next)) = Decoded(next)
  BY <1>4, DecodedFacts
<1>6. /\ Decoded(old.messages) = old.messages
      /\ old.until <= Len(old.messages) /\ old.summary = 1..old.until
  BY <1>1, <1>2 DEF IInv, RowsSound, Behind
<1>7. IsPrefixOf(old.messages, Decoded(next)) /\ Len(old.messages) <= Len(next)
  BY <1>2, <1>3, <1>4, <1>6, PrefixOrder
<1>8. Len(s.messages) <= Len(next)
  BY <1>2, <1>4, PrefixOrder
<1>9. IsPrefixOf(Decoded(next), Decoded(next))
  BY <1>5, PrefixOrder
<1>10. row \in Row /\ object \in Object
  BY <1>1, <1>4, <1>5, Fields
<1>11. /\ row.messages = Decoded(next) /\ row.until = old.until
       /\ row.address = old.address
       /\ row.summary = old.summary /\ row.model = old.model
       /\ object.key = s.key /\ object.messages = next
       /\ object.until = s.until /\ object.summary = s.summary
       /\ object.model = s.model
  BY <1>1, <1>4, <1>5, Fields
<1>12. rows' = [rows EXCEPT ![s.key] = row]
  BY <1>2, <1>3
<1>13. row.until <= Len(row.messages)
  BY <1>2, <1>4, <1>5, <1>6, <1>7, <1>11
<1>14. s.until <= old.until /\ s.summary = 1..s.until
  BY <1>1 DEF Behind
<1>15. Shows(s) => /\ Decoded(object.messages) = row.messages
                   /\ object.until = row.until /\ object.summary = row.summary
                   /\ object.model = row.model
  <2> HIDE DEF row, object
  <2>1. QED
    BY <1>11 DEF Shows
<1>16. /\ old.until <= row.until /\ row.summary = 1..row.until
       /\ IsPrefixOf(old.messages, row.messages) /\ Decoded(row.messages) = row.messages
  <2> HIDE DEF row, old
  <2>1. QED
    BY <1>2, <1>5, <1>6, <1>7, <1>11
<1>17. /\ Len(s.messages) <= Len(object.messages)
       /\ IsPrefixOf(Decoded(object.messages), row.messages)
       /\ object.until <= row.until /\ object.summary = 1..object.until
  <2> HIDE DEF row, object, old, s
  <2>1. QED
    BY <1>8, <1>9, <1>11, <1>14
<1> HIDE DEF row, object
<1>18. index' = [index EXCEPT ![s.key] = Searchable(row.messages)]
  <2> HIDE DEF s, old
  <2>1. \A i \in 1..Len(next) : Decoded(next)[i].name = next[i].name
    BY <1>4, DecodedFacts
  <2>2. \A i \in 1..Len(old.messages) : old.messages[i].name = Decoded(next)[i].name
    BY <1>2, <1>5, <1>7, PrefixPositions
  <2>3. Len(old.messages) \in Nat /\ Len(next) \in Nat
    BY <1>2, <1>4
  <2>4. Searchable(Decoded(next)) = Searchable(old.messages) \cup Indexed(old.messages, next)
    BY <1>5, <1>7, <2>1, <2>2, <2>3 DEF Searchable, Indexed
  <2>5. rows[s.key] # None
    BY <1>1 DEF Behind
  <2>6. index[s.key] = Searchable(old.messages)
    BY <1>2, <2>5 DEF IInv, IndexMatchesHistory, Searchable, old
  <2>7. index' = [index EXCEPT ![s.key] = @ \cup Indexed(old.messages, next)]
    BY DEF AppendStored, s, old, next
  <2>8. QED
    BY <1>11, <2>4, <2>6, <2>7
<1>19. Stores(c, row, object)
  BY <1>3, <1>11, <1>12, <1>13, <1>15, <1>16, <1>17, <1>18 DEF Stores
<1>20. QED
  BY <1>10, <1>19

\* SetModel leaves all but the model as it was.
LEMMA SetModelStores ==
  ASSUME IInv, NEW c \in Callers, NEW model \in Models \cup {NoModel},
         MayLock(c), pc[c] = "ready", SetModelStored(c, model)
  PROVE  \E row \in Row, object \in Object : Stores(c, row, object)
<1> DEFINE s == heap[ref[c]]
           old == rows[s.key]
           row == [old EXCEPT !.model = model]
           object == [s EXCEPT !.model = model]
<1>1. ref[c] \in 1..Len(heap) /\ s \in Object /\ Behind(s) /\ old \in Row
  BY HeldObject DEF MayLock
<1>2. /\ s.messages \in Seq(Message) /\ old.messages \in Seq(Message)
      /\ s.until \in Nat /\ old.until \in Nat /\ s.key \in Keys
  BY <1>1, Fields
<1>3. row \in Row /\ object \in Object
  BY <1>1 DEF Row, Object
<1>4. /\ row.messages = old.messages /\ row.until = old.until
      /\ row.address = old.address
      /\ row.summary = old.summary /\ row.model = model
      /\ object.key = s.key /\ object.messages = s.messages
      /\ object.until = s.until /\ object.summary = s.summary
      /\ object.model = model
  BY <1>1 DEF Row, Object
<1>5. Written(c, object) /\ view' = view /\ rows' = [rows EXCEPT ![s.key] = row]
  BY <1>2 DEF SetModelStored
<1>6. /\ Decoded(old.messages) = old.messages
      /\ old.until <= Len(old.messages) /\ old.summary = 1..old.until
  BY <1>1, <1>2 DEF IInv, RowsSound, Behind
<1>7. /\ s.until <= old.until /\ s.summary = 1..s.until
      /\ IsPrefixOf(Decoded(s.messages), old.messages)
      /\ IsPrefixOf(old.messages, old.messages)
      /\ Len(s.messages) <= Len(s.messages)
  BY <1>1, <1>2, PrefixOrder DEF Behind
<1>8. Shows(s) => /\ Decoded(object.messages) = row.messages
                  /\ object.until = row.until /\ object.summary = row.summary
                  /\ object.model = row.model
  <2> HIDE DEF row, object
  <2>1. QED
    BY <1>4 DEF Shows
<1> HIDE DEF row, object
<1>9. /\ old.until <= row.until /\ row.summary = 1..row.until
      /\ row.until <= Len(row.messages)
  BY <1>2, <1>4, <1>6
<1>10. index' = [index EXCEPT ![s.key] = Searchable(row.messages)]
  BY <1>1, <1>2, <1>4, SameIndex DEF SetModelStored, Behind
<1>11. Stores(c, row, object)
  BY <1>4, <1>5, <1>6, <1>7, <1>8, <1>9, <1>10 DEF Stores
<1>12. QED
  BY <1>3, <1>11

\* ApplyCompaction moves the cursor forward, within the history, and the summary
\* with it.
LEMMA CompactionStores ==
  ASSUME IInv, NEW c \in Callers, MayLock(c), pc[c] = "fold", CompactionStored(c)
  PROVE  \E row \in Row, object \in Object : Stores(c, row, object)
<1> DEFINE s == heap[ref[c]]
           old == rows[s.key]
           seen == view[c]
<1>1. ref[c] \in 1..Len(heap) /\ s \in Object /\ Behind(s) /\ old \in Row
  BY HeldObject DEF MayLock
<1>2. /\ s.messages \in Seq(Message) /\ old.messages \in Seq(Message)
      /\ s.until \in Nat /\ old.until \in Nat /\ s.key \in Keys
  BY <1>1, Fields
<1>3. /\ seen.until \in Nat /\ seen.length \in Nat
      /\ seen.summary = 1..seen.until /\ seen.length <= Len(s.messages)
  BY DEF IInv, TypeOK, FoldsSound
<1>4. PICK position \in seen.until + 1 .. seen.length - 1 :
        /\ rows' = [rows EXCEPT ![s.key].until = position,
                                ![s.key].summary = Summary(seen, position)]
        /\ Written(c, [s EXCEPT !.until = position, !.summary = Summary(seen, position)])
  BY DEF CompactionStored
<1> DEFINE row == [old EXCEPT !.until = position, !.summary = Summary(seen, position)]
           object == [s EXCEPT !.until = position, !.summary = Summary(seen, position)]
<1>5. position \in Nat /\ seen.until < position /\ position <= Len(s.messages)
  BY <1>2, <1>3
<1>6. Summary(seen, position) = 1..position /\ 1..position \in SUBSET Nat
  BY <1>3, <1>5 DEF Summary
<1>7. row \in Row /\ object \in Object
  BY <1>1, <1>5, <1>6 DEF Row, Object
<1>8. /\ row.messages = old.messages /\ row.until = position
      /\ row.address = old.address
      /\ row.summary = 1..position /\ row.model = old.model
      /\ object.key = s.key /\ object.messages = s.messages
      /\ object.until = position /\ object.summary = 1..position
      /\ object.model = s.model
  BY <1>1, <1>6 DEF Row, Object
<1>9. /\ Written(c, object) /\ view' = [view EXCEPT ![c] = None]
      /\ rows' = [rows EXCEPT ![s.key] = row]
      /\ old.until = seen.until
  BY <1>2, <1>4 DEF CompactionStored, SameCursor
<1>10. /\ Decoded(old.messages) = old.messages
       /\ IsPrefixOf(Decoded(s.messages), old.messages)
       /\ IsPrefixOf(old.messages, old.messages)
       /\ Len(s.messages) <= Len(s.messages)
  BY <1>1, <1>2, PrefixOrder DEF IInv, RowsSound, Behind
<1>11. Len(s.messages) <= Len(old.messages)
  <2>1. Len(Decoded(s.messages)) = Len(s.messages)
    BY <1>2, DecodedFacts
  <2>2. Len(Decoded(s.messages)) <= Len(old.messages)
    BY <1>10 DEF IsPrefixOf
  <2>3. QED
    BY <2>1, <2>2
<1>12. Shows(s) => /\ Decoded(object.messages) = row.messages
                   /\ object.until = row.until /\ object.summary = row.summary
                   /\ object.model = row.model
  <2> HIDE DEF row, object
  <2>1. QED
    BY <1>8 DEF Shows
<1> HIDE DEF row, object
<1>13. /\ old.until <= row.until /\ row.summary = 1..row.until
       /\ row.until <= Len(row.messages) /\ object.until <= row.until
       /\ object.summary = 1..object.until
  BY <1>2, <1>5, <1>8, <1>9, <1>11
<1>14. index' = [index EXCEPT ![s.key] = Searchable(row.messages)]
  BY <1>1, <1>2, <1>8, SameIndex DEF CompactionStored, Behind
<1>15. Stores(c, row, object)
  BY <1>8, <1>9, <1>10, <1>12, <1>13, <1>14 DEF Stores
<1>16. QED
  BY <1>7, <1>15

\* A step of the package is one of these.
LEMMA StepCases ==
  IInv /\ [Next]_vars =>
    \/ \E c \in Callers :
         \/ \E a \in Addresses, k \in Keys : Creates(c, a, k)
         \/ \E k \in Keys, active \in BOOLEAN : Reads(c, k, active)
         \/ \E o \in 1..Len(heap) : Hands(c, o)
         \/ Publish(c) \/ Looks(c) \/ NotCompacted(c) \/ Assign(c)
         \/ \E row \in Row, object \in Object : Stores(c, row, object)
    \/ Restart
    \/ UNCHANGED vars
<1> SUFFICES ASSUME IInv, Next
             PROVE  \/ \E c \in Callers :
                         \/ \E a \in Addresses, k \in Keys : Creates(c, a, k)
                         \/ \E k \in Keys, active \in BOOLEAN : Reads(c, k, active)
                         \/ \E o \in 1..Len(heap) : Hands(c, o)
                         \/ Publish(c) \/ Looks(c) \/ NotCompacted(c) \/ Assign(c)
                         \/ \E row \in Row, object \in Object : Stores(c, row, object)
                    \/ Restart
  OBVIOUS
<1>1. TypeOK
  BY DEF IInv
<1>2. ASSUME NEW c \in Callers, NEW a \in Addresses, NewSession(c, a)
      PROVE  \E k \in Keys : Creates(c, a, k)
  BY <1>2 DEF NewSession, CreateAndActivate, Creates
<1>3. ASSUME NEW c \in Callers, NEW a \in Addresses, CurrentSession(c, a)
      PROVE  \/ \E k \in Keys : Creates(c, a, k)
             \/ \E k \in Keys : Reads(c, k, TRUE)
             \/ \E o \in 1..Len(heap) : Hands(c, o)
  <2>1. CASE CachedActive(a) # 0 /\ Hit(c, CachedActive(a))
    <3>1. CachedActive(a) \in 1..Len(heap)
      BY <1>1, <2>1 DEF CachedActive, TypeOK
    <3>2. QED
      BY <1>3, <2>1, <3>1 DEF CurrentSession, Hands
  <2>2. CASE activeRow[a] # None /\ Load(c, activeRow[a], TRUE)
    <3>1. activeRow[a] \in Keys
      BY <1>1, <2>2 DEF TypeOK
    <3>2. QED
      BY <1>3, <2>2, <3>1 DEF CurrentSession, Reads
  <2>3. CASE CreateAndActivate(c, a)
    BY <1>3, <2>3 DEF CurrentSession, CreateAndActivate, Creates
  <2>4. QED
    BY <1>3, <2>1, <2>2, <2>3 DEF CurrentSession
<1>4. ASSUME NEW c \in Callers, NEW k \in Keys, Get(c, k)
      PROVE  Reads(c, k, FALSE) \/ \E o \in 1..Len(heap) : Hands(c, o)
  <2>1. cache[k] # 0 => cache[k] \in 1..Len(heap)
    BY <1>1 DEF TypeOK
  <2>2. QED
    BY <1>4, <2>1 DEF Get, Reads, Hands
<1>5. ASSUME NEW c \in Callers, Call(c)
      PROVE  Looks(c) \/ \E row \in Row, object \in Object : Stores(c, row, object)
  BY <1>5, AppendStores, SetModelStores, CompactionStores DEF Call, Looks
<1>6. QED
  BY <1>2, <1>3, <1>4, <1>5 DEF Next

-----------------------------------------------------------------------------
(* What every step preserves.                                              *)

\* A row that is inserted, and what a load makes of a row.
LEMMA Shapes ==
  /\ \A a \in Addresses :
       /\ EmptyRow(a) \in Row /\ EmptyRow(a) # None
       /\ EmptyRow(a).messages = <<>> /\ EmptyRow(a).until = 0
       /\ EmptyRow(a).summary = {} /\ EmptyRow(a).address = a
  /\ \A k \in Keys, row \in Row, active \in BOOLEAN :
       LET new == [key |-> k, row |-> row, active |-> active] IN
       /\ new \in [key : Keys, row : Row, active : BOOLEAN]
       /\ new.key = k /\ new.row = row /\ new.active = active
  /\ \A new \in [key : Keys, row : Row, active : BOOLEAN] :
       /\ new.key \in Keys /\ new.row \in Row /\ new.row.address \in Addresses
       /\ Loaded(new) \in Object
       /\ Loaded(new).key = new.key /\ Loaded(new).messages = new.row.messages
       /\ Loaded(new).until = new.row.until /\ Loaded(new).summary = new.row.summary
       /\ Loaded(new).model = new.row.model
<1>1. <<>> \in Seq(Message)
  OBVIOUS
<1>2. \A a \in Addresses : EmptyRow(a) \in Row
  BY <1>1 DEF EmptyRow, Row
<1>3. \A a \in Addresses :
        /\ EmptyRow(a).messages = <<>> /\ EmptyRow(a).until = 0
        /\ EmptyRow(a).summary = {} /\ EmptyRow(a).address = a
  BY DEF EmptyRow
<1>4. \A k \in Keys, row \in Row, active \in BOOLEAN :
        LET new == [key |-> k, row |-> row, active |-> active] IN
        /\ new \in [key : Keys, row : Row, active : BOOLEAN]
        /\ new.key = k /\ new.row = row /\ new.active = active
  OBVIOUS
<1>5. \A new \in [key : Keys, row : Row, active : BOOLEAN] :
        new.key \in Keys /\ new.row \in Row
  OBVIOUS
<1>6. \A new \in [key : Keys, row : Row, active : BOOLEAN] :
        /\ new.row.address \in Addresses /\ Loaded(new) \in Object
        /\ Loaded(new).key = new.key /\ Loaded(new).messages = new.row.messages
        /\ Loaded(new).until = new.row.until /\ Loaded(new).summary = new.row.summary
        /\ Loaded(new).model = new.row.model
  BY <1>5 DEF Loaded, Row, Object
<1>7. QED
  BY <1>2, <1>3, <1>4, <1>5, <1>6, SessionAssumption

\* Publish appends what was loaded.
LEMMA PublishEffect ==
  ASSUME TypeOK, NEW c \in Callers, Publish(c)
  PROVE  /\ job[c] \in [key : Keys, row : Row, active : BOOLEAN]
         /\ Loaded(job[c]) \in Object
         /\ heap' = Append(heap, Loaded(job[c])) /\ heap' \in Seq(Object)
         /\ Len(heap') = Len(heap) + 1 /\ Len(heap) \in Nat
         /\ heap'[Len(heap) + 1] = Loaded(job[c])
         /\ \A o \in 1..Len(heap) : heap'[o] = heap[o]
         /\ 1..Len(heap') = 1..Len(heap) \cup {Len(heap) + 1}
<1>1. /\ heap \in Seq(Object) /\ job[c] \in [key : Keys, row : Row, active : BOOLEAN]
  BY DEF TypeOK, Publish
<1>2. Loaded(job[c]) \in Object
  BY <1>1, Shapes
<1>3. heap' = Append(heap, Loaded(job[c]))
  BY DEF Publish, Loaded
<1>4. QED
  BY <1>1, <1>2, <1>3

\* Assign replaces the object that the caller holds.
LEMMA AssignEffect ==
  ASSUME TypeOK, NEW c \in Callers, Assign(c)
  PROVE  /\ job[c] \in Object /\ ref[c] \in 1..Len(heap)
         /\ heap' \in Seq(Object) /\ Len(heap') = Len(heap)
         /\ heap'[ref[c]] = job[c]
         /\ \A o \in 1..Len(heap) : o # ref[c] => heap'[o] = heap[o]
<1>1. /\ heap \in Seq(Object) /\ job[c] \in Object /\ ref[c] # 0 /\ ref[c] \in 0..Len(heap)
      /\ heap' = [heap EXCEPT ![ref[c]] = job[c]]
  BY DEF TypeOK, Assign
<1>2. ref[c] \in 1..Len(heap)
  BY <1>1
<1>3. QED
  BY <1>1, <1>2

\* Every step keeps the types.
LEMMA TypeStep == IInv /\ [Next]_vars => TypeOK'
<1> SUFFICES ASSUME IInv, [Next]_vars PROVE TypeOK'
  OBVIOUS
<1>1. TypeOK
  BY DEF IInv
<1> USE <1>1
<1>2. ASSUME NEW c \in Callers, NEW a \in Addresses, NEW k \in Keys, Creates(c, a, k)
      PROVE  TypeOK'
  BY <1>2, Shapes DEF Creates, MayEnter, memory, TypeOK
<1>3. ASSUME NEW c \in Callers, NEW k \in Keys, NEW active \in BOOLEAN, Reads(c, k, active)
      PROVE  TypeOK'
  <2>1. rows[k] \in Row
    BY <1>3 DEF Reads, Load, TypeOK
  <2>2. QED
    BY <1>3, <2>1, Shapes DEF Reads, Load, MayEnter, memory, store, TypeOK
<1>4. ASSUME NEW c \in Callers, NEW o \in 1..Len(heap), Hands(c, o) PROVE TypeOK'
  BY <1>4 DEF Hands, Hit, MayEnter, memory, store, TypeOK
<1>5. ASSUME NEW c \in Callers, Publish(c) PROVE TypeOK'
  <2>1. Len(heap) < MaxObjects /\ MaxObjects \in Nat
    BY <1>5, SessionAssumption DEF IInv, LoadsHeld, Publish
  <2>2. job[c].key \in Keys /\ job[c].row.address \in Addresses
    BY <1>5, PublishEffect, Shapes
  <2>3. /\ heap' \in Seq(Object) /\ Len(heap') = Len(heap) + 1 /\ Len(heap) \in Nat
    BY <1>5, PublishEffect
  <2>4. cache' \in [Keys -> 0..Len(heap')] /\ ref' \in [Callers -> 0..Len(heap')]
    BY <1>5, <2>3 DEF Publish, TypeOK
  <2>5. activeKeys' \in [Addresses -> Keys \cup {None}]
    BY <1>5, <2>2 DEF Publish, TypeOK
  <2>6. pc' = [pc EXCEPT ![c] = "ready"] /\ job' = [job EXCEPT ![c] = None]
        /\ ref' = [ref EXCEPT ![c] = Len(heap) + 1] /\ UNCHANGED <<store, view>>
    BY <1>5 DEF Publish
  <2>7. QED
    BY <2>1, <2>3, <2>4, <2>5, <2>6 DEF store, TypeOK
<1>6. ASSUME NEW c \in Callers, Looks(c) PROVE TypeOK'
  <2> DEFINE seen == [length |-> Len(heap[ref[c]].messages), until |-> heap[ref[c]].until,
                      summary |-> heap[ref[c]].summary]
  <2>1. heap[ref[c]] \in Object
    BY <1>6, HeldObject DEF Looks, MayLock
  <2>2. seen \in [length : Nat, until : Nat, summary : SUBSET Nat]
    BY <2>1 DEF Object
  <2>3. view' = [view EXCEPT ![c] = seen] /\ pc' = [pc EXCEPT ![c] = "fold"]
        /\ UNCHANGED <<store, memory, ref, job>> /\ ref[c] # 0
    BY <1>6 DEF Looks, ContextSnapshot, MayLock
  <2> HIDE DEF seen
  <2>4. QED
    BY <2>2, <2>3 DEF store, memory, TypeOK
<1>7. ASSUME NEW c \in Callers, NotCompacted(c) PROVE TypeOK'
  BY <1>7 DEF NotCompacted, store, memory, TypeOK
<1>8. ASSUME NEW c \in Callers, Assign(c) PROVE TypeOK'
  BY <1>8, AssignEffect DEF Assign, store, TypeOK
<1>9. ASSUME NEW c \in Callers, NEW row \in Row, NEW object \in Object,
             Stores(c, row, object)
      PROVE  TypeOK'
  <2>1. /\ ref[c] # 0 /\ heap[ref[c]].key \in Keys
    BY <1>9, HeldObject, Fields DEF Stores, MayLock
  <2>2. Searchable(row.messages) \in SUBSET Nat
    BY Fields DEF Searchable
  <2>3. /\ rows' = [rows EXCEPT ![heap[ref[c]].key] = row]
        /\ index' = [index EXCEPT ![heap[ref[c]].key] = Searchable(row.messages)]
        /\ job' = [job EXCEPT ![c] = object] /\ pc' = [pc EXCEPT ![c] = "written"]
        /\ view' \in {view, [view EXCEPT ![c] = None]}
        /\ UNCHANGED <<activeRow, memory, ref>>
    BY <1>9 DEF Stores, Written
  <2>4. QED
    BY <2>1, <2>2, <2>3 DEF memory, TypeOK
<1>10. CASE Restart
  <2>1. heap' \in Seq(Object) /\ Len(heap') = 0 /\ 0 <= MaxObjects
    BY <1>10, SessionAssumption DEF Restart
  <2>2. index' \in [Keys -> SUBSET Nat]
    BY <1>10 DEF Restart, Backfill, Indexed, TypeOK
  <2>3. QED
    BY <1>10, <2>1, <2>2 DEF Restart, TypeOK
<1>11. CASE UNCHANGED vars
  BY <1>11 DEF vars, store, memory, callers, TypeOK
<1>12. QED
  BY <1>2, <1>3, <1>4, <1>5, <1>6, <1>7, <1>8, <1>9, <1>10, <1>11, StepCases

\* What a step may do to the rows: insert one, or let one grow through an object
\* whose caller is then between the two halves of its write.
LEMMA RowChanges ==
  ASSUME IInv, [Next]_vars
  PROVE  \/ UNCHANGED rows
         \/ \E c \in Callers, a \in Addresses, k \in Keys : Creates(c, a, k)
         \/ \E c \in Callers, row \in Row, object \in Object : Stores(c, row, object)
<1>1. ASSUME NEW c \in Callers,
             \/ \E k \in Keys, active \in BOOLEAN : Reads(c, k, active)
             \/ \E o \in 1..Len(heap) : Hands(c, o)
             \/ Publish(c) \/ Looks(c) \/ NotCompacted(c) \/ Assign(c)
      PROVE  UNCHANGED rows
  BY <1>1 DEF Reads, Load, Hands, Hit, Publish, Looks, ContextSnapshot, NotCompacted,
              Assign, store
<1>2. Restart \/ UNCHANGED vars => UNCHANGED rows
  BY DEF Restart, vars, store
<1>3. QED
  BY <1>1, <1>2, StepCases

Grows(k) ==
  rows[k] # None =>
    /\ rows'[k] # None
    /\ rows'[k].address = rows[k].address
    /\ IsPrefixOf(rows[k].messages, rows'[k].messages)
    /\ rows[k].until <= rows'[k].until

\* No step loses anything of a row.
LEMMA RowsGrow == IInv /\ [Next]_vars => \A k \in Keys : Grows(k)
<1> SUFFICES ASSUME IInv, [Next]_vars, NEW k \in Keys, rows[k] # None PROVE Grows(k)
  BY DEF Grows
<1>1. rows \in [Keys -> Row \cup {None}]
  BY DEF IInv, TypeOK
<1>2. /\ rows[k] \in Row /\ rows[k].messages \in Seq(Message) /\ rows[k].until \in Nat
  BY <1>1, Fields
<1>3. IsPrefixOf(rows[k].messages, rows[k].messages) /\ rows[k].until <= rows[k].until
  BY <1>2, PrefixOrder
<1>4. rows'[k] = rows[k] => Grows(k)
  BY <1>3 DEF Grows
<1>5. ASSUME NEW c \in Callers, NEW a \in Addresses, NEW l \in Keys, Creates(c, a, l)
      PROVE  rows'[k] = rows[k]
  BY <1>1, <1>5 DEF Creates
<1>6. ASSUME NEW c \in Callers, NEW row \in Row, NEW object \in Object,
             Stores(c, row, object)
      PROVE  Grows(k)
  <2> DEFINE l == heap[ref[c]].key
  <2>1. CASE k # l
    BY <1>1, <1>4, <1>6, <2>1 DEF Stores
  <2>2. CASE k = l
    <3>1. rows'[k] = row /\ row # None
      BY <1>1, <1>6, <2>2, SessionAssumption DEF Stores
    <3>2. QED
      BY <1>6, <2>2, <3>1 DEF Stores, Grows
  <2>3. QED
    BY <2>1, <2>2
<1>7. QED
  BY <1>4, <1>5, <1>6, RowChanges

\* The rows stay decoded, with cursor and summary inside the history.
LEMMA RowsStep == IInv /\ [Next]_vars => RowsSound'
<1> SUFFICES ASSUME IInv, [Next]_vars PROVE RowsSound'
  OBVIOUS
<1>1. rows \in [Keys -> Row \cup {None}] /\ RowsSound
  BY DEF IInv, TypeOK
<1>2. CASE UNCHANGED rows
  BY <1>1, <1>2 DEF RowsSound
<1>3. ASSUME NEW c \in Callers, NEW a \in Addresses, NEW l \in Keys, Creates(c, a, l)
      PROVE  RowsSound'
  <2>1. Decoded(<<>>) = <<>> /\ Len(<<>>) = 0 /\ 1..0 = {}
    BY DEF Decoded
  <2>2. /\ Decoded(EmptyRow(a).messages) = EmptyRow(a).messages
        /\ EmptyRow(a).until <= Len(EmptyRow(a).messages)
        /\ EmptyRow(a).summary = 1..EmptyRow(a).until
    BY <2>1 DEF EmptyRow
  <2>3. rows' = [rows EXCEPT ![l] = EmptyRow(a)]
    BY <1>3 DEF Creates
  <2>4. QED
    BY <1>1, <2>2, <2>3 DEF RowsSound
<1>4. ASSUME NEW c \in Callers, NEW row \in Row, NEW object \in Object,
             Stores(c, row, object)
      PROVE  RowsSound'
  <2>1. /\ rows' = [rows EXCEPT ![heap[ref[c]].key] = row]
        /\ Decoded(row.messages) = row.messages
        /\ row.until <= Len(row.messages) /\ row.summary = 1..row.until
    BY <1>4 DEF Stores
  <2>2. QED
    BY <1>1, <2>1 DEF RowsSound
<1>5. QED
  BY <1>2, <1>3, <1>4, RowChanges

\* What is behind its row stays behind.
LEMMA BehindStays ==
  IInv /\ [Next]_vars => \A s \in Object : Behind(s) => Behind(s)'
<1> SUFFICES ASSUME IInv, [Next]_vars, NEW s \in Object, Behind(s) PROVE Behind(s)'
  OBVIOUS
<1>1. /\ s.key \in Keys /\ s.messages \in Seq(Message) /\ s.until \in Nat
  BY Fields
<1>2. rows \in [Keys -> Row \cup {None}] /\ rows' \in [Keys -> Row \cup {None}]
  BY TypeStep DEF IInv, TypeOK
<1>3. rows[s.key] # None /\ Grows(s.key)
  BY <1>1, RowsGrow DEF Behind
<1>4. rows[s.key] \in Row /\ rows'[s.key] \in Row /\ rows'[s.key] # None
  BY <1>1, <1>2, <1>3 DEF Grows
<1>5. /\ rows[s.key].messages \in Seq(Message) /\ rows[s.key].until \in Nat
      /\ rows'[s.key].messages \in Seq(Message) /\ rows'[s.key].until \in Nat
      /\ Decoded(s.messages) \in Seq(Message)
  BY <1>1, <1>4, Fields, DecodedFacts
<1>6. IsPrefixOf(Decoded(s.messages), rows'[s.key].messages)
  BY <1>3, <1>5, PrefixOrder DEF Behind, Grows
<1>7. s.until <= rows'[s.key].until /\ s.summary = 1..s.until
  BY <1>1, <1>3, <1>5 DEF Behind, Grows
<1>8. QED
  BY <1>4, <1>6, <1>7 DEF Behind

\* The objects stay behind their rows.
LEMMA ObjectsStep == IInv /\ [Next]_vars => ObjectsBehind'
<1> SUFFICES ASSUME IInv, [Next]_vars, NEW o \in 1..Len(heap') PROVE Behind(heap[o])'
  BY DEF ObjectsBehind
<1>1. /\ TypeOK /\ \A p \in 1..Len(heap) : heap[p] \in Object /\ Behind(heap[p])
  BY DEF IInv, ObjectsBehind, TypeOK
<1>2. ASSUME NEW s \in Object, Behind(s), heap'[o] = s PROVE Behind(heap[o])'
  <2>1. Behind(s)'
    BY <1>2, BehindStays
  <2>2. QED
    BY <1>2, <2>1 DEF Behind
<1>3. CASE o \in 1..Len(heap) /\ heap'[o] = heap[o]
  BY <1>1, <1>2, <1>3
<1>4. ASSUME NEW c \in Callers, Publish(c) PROVE Behind(heap[o])'
  <2>1. Loaded(job[c]) \in Object /\ Behind(Loaded(job[c]))
    BY <1>1, <1>4, PublishEffect DEF IInv, LoadsHeld, Publish
  <2>2. (o \in 1..Len(heap) /\ heap'[o] = heap[o]) \/ heap'[o] = Loaded(job[c])
    BY <1>1, <1>4, PublishEffect
  <2>3. QED
    BY <1>2, <1>3, <2>1, <2>2
<1>5. ASSUME NEW c \in Callers, Assign(c) PROVE Behind(heap[o])'
  <2>1. job[c] \in Object /\ Behind(job[c])
    BY <1>1, <1>5, AssignEffect DEF IInv, WritesHeld, Assign
  <2>2. (o \in 1..Len(heap) /\ heap'[o] = heap[o]) \/ heap'[o] = job[c]
    BY <1>1, <1>5, AssignEffect
  <2>3. QED
    BY <1>2, <1>3, <2>1, <2>2
<1>6. CASE Restart
  BY <1>6 DEF Restart
<1>7. ASSUME NEW c \in Callers,
             \/ \E a \in Addresses, k \in Keys : Creates(c, a, k)
             \/ \E k \in Keys, active \in BOOLEAN : Reads(c, k, active)
             \/ \E p \in 1..Len(heap) : Hands(c, p)
             \/ Looks(c) \/ NotCompacted(c)
             \/ \E row \in Row, object \in Object : Stores(c, row, object)
      PROVE  heap' = heap
  BY <1>7 DEF Creates, Reads, Load, Hands, Hit, Looks, ContextSnapshot, NotCompacted,
              Stores, Written, memory
<1>8. UNCHANGED vars => heap' = heap
  BY DEF vars, memory
<1>9. QED
  BY <1>3, <1>4, <1>5, <1>6, <1>7, <1>8, StepCases

\* How a caller comes to be where it is after a step.
LEMMA CallerChanges ==
  IInv /\ [Next]_vars => \A c \in Callers :
    /\ pc'[c] = "written" =>
         \/ pc[c] = "written" /\ job'[c] = job[c] /\ ref'[c] = ref[c]
         \/ \E row \in Row, object \in Object : Stores(c, row, object)
    /\ pc'[c] = "publish" =>
         \/ pc[c] = "publish" /\ job'[c] = job[c]
         \/ \E a \in Addresses, k \in Keys : Creates(c, a, k)
         \/ \E k \in Keys, active \in BOOLEAN : Reads(c, k, active)
    /\ pc'[c] = "fold" =>
         \/ pc[c] = "fold" /\ view'[c] = view[c] /\ ref'[c] = ref[c]
         \/ Looks(c)
<1> DEFINE Stays(c) == /\ pc'[c] = pc[c]
                       /\ pc[c] \in {"written", "publish"} => job'[c] = job[c]
                       /\ pc[c] = "fold" => view'[c] = view[c]
                       /\ pc[c] \in {"written", "fold"} => ref'[c] = ref[c]
<1> SUFFICES ASSUME IInv, [Next]_vars, NEW c \in Callers
             PROVE  \/ Stays(c)
                    \/ pc'[c] = "ready"
                    \/ /\ pc'[c] = "written"
                       /\ \E row \in Row, object \in Object : Stores(c, row, object)
                    \/ /\ pc'[c] = "publish"
                       /\ \/ \E a \in Addresses, k \in Keys : Creates(c, a, k)
                          \/ \E k \in Keys, active \in BOOLEAN : Reads(c, k, active)
                    \/ pc'[c] = "fold" /\ Looks(c)
  OBVIOUS
<1>1. /\ pc \in [Callers -> {"ready", "publish", "fold", "written"}]
      /\ DOMAIN ref = Callers /\ DOMAIN job = Callers /\ DOMAIN view = Callers
  BY DEF IInv, TypeOK
<1>2. ASSUME NEW d \in Callers, NEW a \in Addresses, NEW k \in Keys, Creates(d, a, k)
      PROVE  Stays(c) \/ (c = d /\ pc'[c] = "publish")
  BY <1>1, <1>2 DEF Creates
<1>3. ASSUME NEW d \in Callers, NEW k \in Keys, NEW active \in BOOLEAN, Reads(d, k, active)
      PROVE  Stays(c) \/ (c = d /\ pc'[c] = "publish")
  BY <1>1, <1>3 DEF Reads, Load
<1>4. ASSUME NEW d \in Callers, NEW o \in 1..Len(heap), Hands(d, o) PROVE Stays(c)
  BY <1>1, <1>4 DEF Hands, Hit, MayEnter
<1>5. ASSUME NEW d \in Callers, Publish(d) PROVE Stays(c) \/ pc'[c] = "ready"
  BY <1>1, <1>5 DEF Publish
<1>6. ASSUME NEW d \in Callers, Looks(d) PROVE Stays(c) \/ (c = d /\ pc'[c] = "fold")
  BY <1>1, <1>6 DEF Looks, ContextSnapshot
<1>7. ASSUME NEW d \in Callers, NotCompacted(d) PROVE Stays(c) \/ pc'[c] = "ready"
  BY <1>1, <1>7 DEF NotCompacted
<1>8. ASSUME NEW d \in Callers, Assign(d) PROVE Stays(c) \/ pc'[c] = "ready"
  BY <1>1, <1>8 DEF Assign
<1>9. ASSUME NEW d \in Callers, NEW row \in Row, NEW object \in Object,
             Stores(d, row, object)
      PROVE  Stays(c) \/ (c = d /\ pc'[c] = "written")
  BY <1>1, <1>9 DEF Stores, Written
<1>10. Restart => pc'[c] = "ready"
  BY DEF Restart
<1>11. UNCHANGED vars => Stays(c)
  BY DEF vars, callers
<1> HIDE DEF Stays
<1>12. QED
  BY <1>2, <1>3, <1>4, <1>5, <1>6, <1>7, <1>8, <1>9, <1>10, <1>11, StepCases

\* Within a process the objects stay, each with its key, and change when a caller
\* that has written assigns what it wrote.
LEMMA HeapGrows ==
  IInv /\ [Next]_vars =>
    \/ Restart
    \/ \A o \in 1..Len(heap) :
         /\ o \in 1..Len(heap')
         /\ heap'[o].key = heap[o].key
         /\ \/ heap'[o] = heap[o]
            \/ \E c \in Callers : Assign(c) /\ ref[c] = o /\ heap'[o] = job[c]
<1> SUFFICES ASSUME IInv, [Next]_vars, ~Restart, NEW o \in 1..Len(heap)
             PROVE  /\ o \in 1..Len(heap')
                    /\ heap'[o].key = heap[o].key
                    /\ \/ heap'[o] = heap[o]
                       \/ \E c \in Callers : Assign(c) /\ ref[c] = o /\ heap'[o] = job[c]
  OBVIOUS
<1>1. TypeOK
  BY DEF IInv
<1>2. ASSUME NEW c \in Callers, Publish(c) PROVE o \in 1..Len(heap') /\ heap'[o] = heap[o]
  BY <1>1, <1>2, PublishEffect
<1>3. ASSUME NEW c \in Callers, Assign(c)
      PROVE  /\ o \in 1..Len(heap')
             /\ heap'[o].key = heap[o].key
             /\ heap'[o] = heap[o] \/ (ref[c] = o /\ heap'[o] = job[c])
  <2>1. job[c].key = heap[ref[c]].key
    BY <1>3 DEF IInv, WritesHeld, Assign
  <2>2. QED
    BY <1>1, <1>3, <2>1, AssignEffect
<1>4. ASSUME NEW c \in Callers,
             \/ \E a \in Addresses, k \in Keys : Creates(c, a, k)
             \/ \E k \in Keys, active \in BOOLEAN : Reads(c, k, active)
             \/ \E p \in 1..Len(heap) : Hands(c, p)
             \/ Looks(c) \/ NotCompacted(c)
             \/ \E row \in Row, object \in Object : Stores(c, row, object)
      PROVE  heap' = heap
  BY <1>4 DEF Creates, Reads, Load, Hands, Hit, Looks, ContextSnapshot, NotCompacted,
              Stores, Written, memory
<1>5. UNCHANGED vars => heap' = heap
  BY DEF vars, memory
<1>6. QED
  BY <1>2, <1>3, <1>4, <1>5, StepCases

\* A row that is there changes only by a write through an object of its key that
\* no other caller is writing.
LEMMA RowWriter ==
  IInv /\ [Next]_vars => \A k \in Keys :
    rows[k] # None =>
      \/ rows'[k] = rows[k]
      \/ \E c \in Callers : /\ ref[c] \in 1..Len(heap) /\ heap[ref[c]].key = k
                            /\ MayLock(c)
                            /\ pc' = [pc EXCEPT ![c] = "written"]
                            /\ heap' = heap /\ ref' = ref
<1> SUFFICES ASSUME IInv, [Next]_vars, NEW k \in Keys, rows[k] # None, rows'[k] # rows[k]
             PROVE  \E c \in Callers : /\ ref[c] \in 1..Len(heap) /\ heap[ref[c]].key = k
                                       /\ MayLock(c)
                                       /\ pc' = [pc EXCEPT ![c] = "written"]
                                       /\ heap' = heap /\ ref' = ref
  OBVIOUS
<1>1. rows \in [Keys -> Row \cup {None}]
  BY DEF IInv, TypeOK
<1>2. ASSUME NEW c \in Callers, NEW a \in Addresses, NEW l \in Keys, Creates(c, a, l)
      PROVE  FALSE
  BY <1>1, <1>2 DEF Creates
<1>3. PICK c \in Callers, row \in Row, object \in Object : Stores(c, row, object)
  BY <1>2, RowChanges
<1>4. heap[ref[c]].key = k /\ ref[c] \in 1..Len(heap)
  BY <1>1, <1>3, HeldObject DEF Stores, MayLock
<1>5. QED
  BY <1>3, <1>4 DEF Stores, Written, memory

\* An object that is alone for its key after a step was so before it.
LEMMA SoleBefore ==
  IInv /\ [Next]_vars => Restart \/ \A o \in 1..Len(heap) : Sole(o)' => Sole(o)
BY HeapGrows DEF Sole

\* Nothing but a write through it touches the row of an object that is alone.
LEMMA ShowsStays ==
  ASSUME IInv, [Next]_vars, ~Restart, NEW o \in 1..Len(heap), Sole(o)',
         NEW s \in Object, s.key = heap[o].key, Shows(s),
         \A c \in Callers : ref[c] = o /\ MayLock(c) => pc' # [pc EXCEPT ![c] = "written"]
  PROVE  Shows(s)'
<1>1. rows[heap[o].key] # None /\ heap[o].key \in Keys
  BY Fields DEF IInv, ObjectsBehind, Behind, TypeOK
<1>2. Sole(o)
  BY SoleBefore
<1>3. rows'[s.key] = rows[s.key]
  BY <1>1, <1>2, RowWriter DEF Sole
<1>4. QED
  BY <1>3 DEF Shows

\* The writes under way stay with the object that they were begun through.
LEMMA WritesStep == IInv /\ [Next]_vars => WritesHeld'
<1> SUFFICES ASSUME IInv, [Next]_vars, NEW c \in Callers, pc'[c] = "written"
             PROVE  /\ \A d \in Callers : pc'[d] = "written" /\ ref'[d] = ref'[c] => d = c
                    /\ job'[c].key = heap'[ref'[c]].key
                    /\ Len(heap'[ref'[c]].messages) <= Len(job'[c].messages)
                    /\ Behind(job[c])'
                    /\ Sole(ref[c])' => Shows(job[c])'
  BY DEF WritesHeld
<1>1. ~Restart
  BY DEF Restart
<1>2. WritesHeld /\ TypeOK /\ TypeOK'
  BY TypeStep DEF IInv
<1>3. ASSUME NEW d \in Callers, pc'[d] = "written", ref'[d] = ref'[c] PROVE d = c
  <2>1. ASSUME NEW a \in Callers, NEW b \in Callers, a # b, ref'[a] = ref'[b],
               pc'[b] = "written", NEW row \in Row, NEW object \in Object,
               Stores(a, row, object)
        PROVE  FALSE
    <3>1. pc[b] = "written" /\ ref[b] = ref[a]
      BY <1>2, <2>1 DEF Stores, Written, TypeOK
    <3>2. QED
      BY <2>1, <3>1 DEF Stores, MayLock
  <2>2. pc[c] = "written" /\ pc[d] = "written" /\ ref[c] = ref[d] => d = c
    BY <1>2 DEF WritesHeld
  <2>3. QED
    BY <1>3, <2>1, <2>2, CallerChanges
<1>4. CASE pc[c] = "written" /\ job'[c] = job[c] /\ ref'[c] = ref[c]
  <2>1. ref[c] \in 1..Len(heap) /\ job[c] \in Object
    BY <1>2, <1>4, HeldObject DEF TypeOK
  <2>2. /\ job[c].key = heap[ref[c]].key /\ Behind(job[c])
        /\ Len(heap[ref[c]].messages) <= Len(job[c].messages)
        /\ Sole(ref[c]) => Shows(job[c])
    BY <1>2, <1>4 DEF WritesHeld
  <2>3. ~\E d \in Callers : Assign(d) /\ ref[d] = ref[c]
    <3> SUFFICES ASSUME NEW d \in Callers, Assign(d), ref[d] = ref[c] PROVE FALSE
      OBVIOUS
    <3>1. d = c
      BY <1>2, <1>4 DEF WritesHeld, Assign
    <3>2. QED
      BY <1>2, <1>4, <3>1 DEF Assign, TypeOK
  <2>4. heap'[ref[c]] = heap[ref[c]]
    BY <1>1, <2>1, <2>3, HeapGrows
  <2>5. Behind(job[c])'
    <3>1. \A s \in Object : Behind(s) => Behind(s)'
      BY BehindStays
    <3>2. ASSUME NEW s \in Object, s = job[c] PROVE Behind(job[c])'
      BY <1>4, <2>2, <3>1, <3>2 DEF Behind
    <3>3. QED
      BY <2>1, <3>2
  <2>6. Sole(ref[c])' => Shows(job[c])'
    <3> SUFFICES ASSUME Sole(ref[c])' PROVE Shows(job[c])'
      OBVIOUS
    <3>1. \A d \in Callers : ref[d] = ref[c] => ~MayLock(d)
      BY <1>4 DEF MayLock
    <3>2. ASSUME NEW o \in 1..Len(heap), o = ref[c] PROVE Sole(o)' /\ Sole(o)
      BY <1>1, <1>4, <3>2, SoleBefore DEF Sole
    <3>3. ASSUME NEW o \in 1..Len(heap), o = ref[c], NEW s \in Object, s = job[c]
          PROVE  Shows(s)'
      BY <1>1, <2>2, <3>1, <3>2, <3>3, ShowsStays
    <3>4. QED
      BY <1>4, <2>1, <3>3 DEF Shows
  <2>7. QED
    BY <1>3, <1>4, <2>2, <2>4, <2>5, <2>6
<1>5. ASSUME NEW row \in Row, NEW object \in Object, Stores(c, row, object)
      PROVE  /\ job'[c].key = heap'[ref'[c]].key
             /\ Len(heap'[ref'[c]].messages) <= Len(job'[c].messages)
             /\ Behind(job[c])'
             /\ Sole(ref[c])' => Shows(job[c])'
  <2> DEFINE s == heap[ref[c]]
  <2>1. ref[c] \in 1..Len(heap) /\ s \in Object /\ s.key \in Keys
    BY <1>5, HeldObject, Fields DEF Stores, MayLock
  <2>2. /\ job'[c] = object /\ ref' = ref /\ heap' = heap
        /\ rows'[s.key] = row /\ object.key = s.key
    BY <1>2, <1>5, <2>1 DEF Stores, Written, memory, TypeOK
  <2>3. /\ Len(s.messages) <= Len(object.messages)
        /\ IsPrefixOf(Decoded(object.messages), row.messages)
        /\ object.until <= row.until /\ object.summary = 1..object.until
        /\ Shows(s) => /\ Decoded(object.messages) = row.messages
                       /\ object.until = row.until /\ object.summary = row.summary
                       /\ object.model = row.model
    BY <1>5 DEF Stores
  <2>4. Behind(job[c])'
    BY <2>2, <2>3, SessionAssumption DEF Behind
  <2>5. Sole(ref[c]) => Shows(s)
    <3>1. \A d \in Callers : ~(pc[d] = "written" /\ ref[d] = ref[c])
      BY <1>5 DEF Stores, MayLock
    <3>2. QED
      BY <2>1, <3>1 DEF IInv, SoleObjectIsCurrent, Sole, Shows
  <2>6. Sole(ref[c])' => Sole(ref[c])
    BY <2>2 DEF Sole
  <2>7. Sole(ref[c])' => Shows(job[c])'
    BY <2>2, <2>3, <2>5, <2>6 DEF Shows
  <2>8. QED
    BY <2>2, <2>3, <2>4, <2>7
<1>6. QED
  BY <1>3, <1>4, <1>5, CallerChanges

\* The manager's mutex: nobody enters while a load or creation is half done, and
\* what was loaded is what an object of that key would show.
LEMMA LoadsStep == IInv /\ [Next]_vars => LoadsHeld'
<1> SUFFICES ASSUME IInv, [Next]_vars, NEW c \in Callers, pc'[c] = "publish"
             PROVE  /\ \A d \in Callers : pc'[d] = "publish" => d = c
                    /\ Len(heap') < MaxObjects
                    /\ Behind(Loaded(job[c]))'
                    /\ (\A o \in 1..Len(heap') : heap'[o].key # Loaded(job'[c]).key)
                         => Shows(Loaded(job[c]))'
                    /\ job'[c].active => activeRow'[job'[c].row.address] = Loaded(job'[c]).key
  BY DEF LoadsHeld
<1>1. ~Restart
  BY DEF Restart
<1>2. LoadsHeld /\ TypeOK /\ TypeOK' /\ RowsSound
  BY TypeStep DEF IInv
<1>3. CASE pc[c] = "publish" /\ job'[c] = job[c]
  <2> DEFINE new == Loaded(job[c])
  <2>1. /\ \A d \in Callers : pc[d] = "publish" => d = c
        /\ Len(heap) < MaxObjects /\ Behind(new)
        /\ (\A o \in 1..Len(heap) : heap[o].key # new.key) => Shows(new)
        /\ job[c].active => activeRow[job[c].row.address] = new.key
    BY <1>2, <1>3 DEF LoadsHeld
  <2>2. ~\E d \in Callers : MayEnter(d)
    BY <1>3 DEF MayEnter
  <2>3. ~\E d \in Callers : Publish(d)
    <3> SUFFICES ASSUME NEW d \in Callers, Publish(d) PROVE FALSE
      OBVIOUS
    <3>1. d = c
      BY <2>1 DEF Publish
    <3>2. QED
      BY <1>2, <1>3, <3>1 DEF Publish, TypeOK
  <2>4. activeRow' = activeRow /\ (heap' = heap \/ \E d \in Callers : Assign(d))
    <3>1. ASSUME NEW d \in Callers,
                 \/ Looks(d) \/ NotCompacted(d)
                 \/ \E row \in Row, object \in Object : Stores(d, row, object)
          PROVE  activeRow' = activeRow /\ heap' = heap
      BY <3>1 DEF Looks, ContextSnapshot, NotCompacted, Stores, Written, memory, store
    <3>2. ASSUME NEW d \in Callers, Assign(d) PROVE activeRow' = activeRow
      BY <3>2 DEF Assign, store
    <3>3. UNCHANGED vars => activeRow' = activeRow /\ heap' = heap
      BY DEF vars, store, memory
    <3>4. QED
      BY <1>1, <2>2, <2>3, <3>1, <3>2, <3>3, StepCases DEF Creates, Reads, Hands
  <2>5. Len(heap') = Len(heap)
    BY <1>2, <2>4, AssignEffect
  <2>6. \A d \in Callers : pc'[d] = "publish" => d = c
    BY <2>1, <2>2, CallerChanges DEF Creates, Reads
  <2>7. new \in Object /\ new.key \in Keys
    BY <1>2, <1>3, Shapes DEF TypeOK
  <2>8. Behind(Loaded(job[c]))'
    <3>1. ASSUME NEW s \in Object, s = new PROVE Behind(Loaded(job[c]))'
      <4>1. Behind(s)'
        BY <2>1, <3>1, BehindStays
      <4>2. Loaded(job[c])' = s
        BY <1>3, <3>1 DEF Loaded
      <4>3. QED
        BY <4>1, <4>2 DEF Behind
    <3>2. QED
      BY <2>7, <3>1
  <2>9. (\A o \in 1..Len(heap') : heap'[o].key # Loaded(job'[c]).key)
          => Shows(Loaded(job[c]))'
    <3> SUFFICES ASSUME \A o \in 1..Len(heap') : heap'[o].key # Loaded(job'[c]).key
                 PROVE  Shows(Loaded(job[c]))'
      OBVIOUS
    <3>1. \A o \in 1..Len(heap) : heap[o].key # new.key
      BY <1>1, <1>3, <2>5, HeapGrows
    <3>2. rows[new.key] # None
      BY <2>1 DEF Behind
    <3>3. rows'[new.key] = rows[new.key]
      BY <2>7, <3>1, <3>2, RowWriter
    <3>4. Loaded(job[c])' = new
      BY <1>3 DEF Loaded
    <3>5. QED
      BY <2>1, <3>1, <3>3, <3>4 DEF Shows
  <2>10. QED
    BY <1>3, <2>1, <2>4, <2>5, <2>6, <2>8, <2>9
<1>4. ASSUME MayEnter(c), pc' = [pc EXCEPT ![c] = "publish"], heap' = heap
      PROVE  /\ \A d \in Callers : pc'[d] = "publish" => d = c
             /\ Len(heap') < MaxObjects
  BY <1>2, <1>4 DEF MayEnter, TypeOK
<1>5. ASSUME NEW k \in Keys, NEW row \in Row, NEW active \in BOOLEAN,
             job'[c] = [key |-> k, row |-> row, active |-> active], rows'[k] = row,
             Decoded(row.messages) = row.messages, row.summary = 1..row.until
      PROVE  Behind(Loaded(job[c]))' /\ Shows(Loaded(job[c]))'
  <2>1. row.messages \in Seq(Message) /\ row.until \in Nat
    BY Fields
  <2>2. IsPrefixOf(row.messages, row.messages) /\ row.until <= row.until
    BY <2>1, PrefixOrder
  <2>3. ASSUME NEW new, new = Loaded(job'[c]) PROVE Behind(new)' /\ Shows(new)'
    <3>1. /\ new.key = k /\ new.messages = row.messages /\ new.until = row.until
          /\ new.summary = row.summary /\ new.model = row.model
      BY <1>5, <2>3 DEF Loaded
    <3>2. QED
      BY <1>5, <2>2, <3>1, SessionAssumption DEF Behind, Shows
  <2>4. QED
    BY <2>3 DEF Behind, Shows
<1>6. ASSUME NEW a \in Addresses, NEW k \in Keys, Creates(c, a, k)
      PROVE  /\ Behind(Loaded(job[c]))' /\ Shows(Loaded(job[c]))'
             /\ activeRow'[job'[c].row.address] = Loaded(job'[c]).key
             /\ MayEnter(c) /\ pc' = [pc EXCEPT ![c] = "publish"] /\ heap' = heap
  <2>1. /\ job'[c] = [key |-> k, row |-> EmptyRow(a), active |-> TRUE]
        /\ rows'[k] = EmptyRow(a) /\ activeRow'[a] = k
    BY <1>2, <1>6 DEF Creates, TypeOK
  <2>2. /\ Decoded(EmptyRow(a).messages) = EmptyRow(a).messages
        /\ EmptyRow(a).summary = 1..EmptyRow(a).until
    BY DEF EmptyRow, Decoded
  <2>3. EmptyRow(a) \in Row /\ EmptyRow(a).address = a
    BY Shapes
  <2>4. Behind(Loaded(job[c]))' /\ Shows(Loaded(job[c]))'
    BY <1>5, <2>1, <2>2, <2>3
  <2>5. activeRow'[job'[c].row.address] = Loaded(job'[c]).key
    BY <2>1, <2>3 DEF Loaded
  <2>6. QED
    BY <1>6, <2>4, <2>5 DEF Creates, memory
<1>7. ASSUME NEW k \in Keys, NEW active \in BOOLEAN, Reads(c, k, active)
      PROVE  /\ Behind(Loaded(job[c]))' /\ Shows(Loaded(job[c]))'
             /\ job'[c].active => activeRow'[job'[c].row.address] = Loaded(job'[c]).key
             /\ MayEnter(c) /\ pc' = [pc EXCEPT ![c] = "publish"] /\ heap' = heap
  <2>1. /\ rows[k] \in Row /\ rows'[k] = rows[k]
        /\ job'[c] = [key |-> k, row |-> rows[k], active |-> active]
        /\ activeRow' = activeRow
    BY <1>2, <1>7 DEF Reads, Load, store, TypeOK
  <2>2. /\ Decoded(rows[k].messages) = rows[k].messages
        /\ rows[k].summary = 1..rows[k].until
    BY <1>2, <1>7 DEF RowsSound, Reads, Load
  <2>3. Behind(Loaded(job[c]))' /\ Shows(Loaded(job[c]))'
    BY <1>5, <2>1, <2>2
  <2>4. active => activeRow[rows[k].address] = k
    BY <1>7, SessionAssumption DEF Reads, IInv, PointersSound
  <2>5. job'[c].active => activeRow'[job'[c].row.address] = Loaded(job'[c]).key
    BY <2>1, <2>4 DEF Loaded
  <2>6. QED
    BY <1>7, <2>3, <2>5 DEF Reads, Load, memory
<1>8. QED
  BY <1>3, <1>4, <1>6, <1>7, CallerChanges

\* The history of the object that a fold looks at only grows.
LEMMA FoldsStep == IInv /\ [Next]_vars => FoldsSound'
<1> SUFFICES ASSUME IInv, [Next]_vars, NEW c \in Callers, pc'[c] = "fold"
             PROVE  /\ view'[c].summary = 1..view'[c].until
                    /\ view'[c].length <= Len(heap'[ref'[c]].messages)
  BY DEF FoldsSound
<1>1. ~Restart
  BY DEF Restart
<1>2. TypeOK
  BY DEF IInv
<1>3. CASE pc[c] = "fold" /\ view'[c] = view[c] /\ ref'[c] = ref[c]
  <2>1. /\ ref[c] \in 1..Len(heap) /\ heap[ref[c]].messages \in Seq(Message)
        /\ view[c].length \in Nat
    BY <1>2, <1>3, HeldObject, Fields DEF TypeOK
  <2>2. view[c].summary = 1..view[c].until /\ view[c].length <= Len(heap[ref[c]].messages)
    BY <1>3 DEF IInv, FoldsSound
  <2>3. ASSUME NEW d \in Callers, Assign(d), ref[d] = ref[c], heap'[ref[c]] = job[d]
        PROVE  view[c].length <= Len(heap'[ref[c]].messages)
    <3>1. Len(heap[ref[c]].messages) <= Len(job[d].messages) /\ job[d] \in Object
      BY <1>2, <2>3, AssignEffect DEF IInv, WritesHeld, Assign
    <3>2. Len(heap[ref[c]].messages) \in Nat /\ Len(job[d].messages) \in Nat
      BY <2>1, <3>1, Fields
    <3>3. QED
      BY <2>1, <2>2, <2>3, <3>1, <3>2
  <2>4. QED
    BY <1>1, <1>3, <2>1, <2>2, <2>3, HeapGrows
<1>4. CASE Looks(c)
  <2>1. ref[c] \in 1..Len(heap) /\ Behind(heap[ref[c]]) /\ heap[ref[c]].messages \in Seq(Message)
    BY <1>4, HeldObject, Fields DEF Looks, MayLock
  <2>2. /\ view'[c] = [length |-> Len(heap[ref[c]].messages), until |-> heap[ref[c]].until,
                       summary |-> heap[ref[c]].summary]
        /\ heap' = heap /\ ref' = ref
    BY <1>2, <1>4 DEF Looks, ContextSnapshot, memory, TypeOK
  <2>3. QED
    BY <2>1, <2>2 DEF Behind
<1>5. QED
  BY <1>3, <1>4, CallerChanges

\* A caller that has written can only assign, unless the process dies.
LEMMA WriterStays ==
  IInv /\ [Next]_vars => \A c \in Callers :
    pc[c] = "written" => \/ Restart \/ Assign(c)
                         \/ pc'[c] = "written" /\ ref'[c] = ref[c]
<1> SUFFICES ASSUME IInv, [Next]_vars, NEW c \in Callers, pc[c] = "written"
             PROVE  \/ Restart \/ Assign(c)
                    \/ pc'[c] = "written" /\ ref'[c] = ref[c]
  OBVIOUS
<1>1. TypeOK
  BY DEF IInv
<1>2. ASSUME NEW d \in Callers,
             \/ \E a \in Addresses, k \in Keys : Creates(d, a, k)
             \/ \E k \in Keys, active \in BOOLEAN : Reads(d, k, active)
             \/ \E o \in 1..Len(heap) : Hands(d, o)
             \/ Publish(d) \/ Looks(d) \/ NotCompacted(d)
             \/ Assign(d) /\ d # c
             \/ \E row \in Row, object \in Object : Stores(d, row, object)
      PROVE  pc'[c] = "written" /\ ref'[c] = ref[c]
  <2>1. d # c
    BY <1>2 DEF Creates, Reads, Hands, MayEnter, Publish, Looks, NotCompacted, Stores
  <2>2. CASE \E a \in Addresses, k \in Keys : Creates(d, a, k)
    BY <1>1, <2>1, <2>2 DEF Creates, TypeOK
  <2>3. CASE \E k \in Keys, active \in BOOLEAN : Reads(d, k, active)
    BY <1>1, <2>1, <2>3 DEF Reads, Load, TypeOK
  <2>4. CASE \E o \in 1..Len(heap) : Hands(d, o)
    BY <1>1, <2>1, <2>4 DEF Hands, Hit, TypeOK
  <2>5. CASE Publish(d)
    BY <1>1, <2>1, <2>5 DEF Publish, TypeOK
  <2>6. CASE Looks(d) \/ NotCompacted(d)
    BY <1>1, <2>1, <2>6 DEF Looks, ContextSnapshot, NotCompacted, TypeOK
  <2>7. CASE Assign(d)
    BY <1>1, <2>1, <2>7 DEF Assign, TypeOK
  <2>8. CASE \E row \in Row, object \in Object : Stores(d, row, object)
    BY <1>1, <2>1, <2>8 DEF Stores, Written, TypeOK
  <2>9. QED
    BY <1>2, <2>2, <2>3, <2>4, <2>5, <2>6, <2>7, <2>8
<1>3. UNCHANGED vars => pc'[c] = "written" /\ ref'[c] = ref[c]
  BY DEF vars, callers
<1>4. QED
  BY <1>2, <1>3, StepCases

\* A new object is one that was loaded or created.
LEMMA NewObject ==
  IInv /\ [Next]_vars /\ ~Restart =>
    \A o \in 1..Len(heap') : o \notin 1..Len(heap) =>
      \E c \in Callers : Publish(c) /\ heap'[o] = Loaded(job[c])
<1> SUFFICES ASSUME IInv, [Next]_vars, ~Restart,
                    NEW o \in 1..Len(heap'), o \notin 1..Len(heap)
             PROVE  \E c \in Callers : Publish(c) /\ heap'[o] = Loaded(job[c])
  OBVIOUS
<1>1. TypeOK
  BY DEF IInv
<1>2. ASSUME NEW c \in Callers,
             \/ \E a \in Addresses, k \in Keys : Creates(c, a, k)
             \/ \E k \in Keys, active \in BOOLEAN : Reads(c, k, active)
             \/ \E p \in 1..Len(heap) : Hands(c, p)
             \/ Looks(c) \/ NotCompacted(c)
             \/ \E row \in Row, object \in Object : Stores(c, row, object)
      PROVE  heap' = heap
  BY <1>2 DEF Creates, Reads, Load, Hands, Hit, Looks, ContextSnapshot, NotCompacted,
              Stores, Written, memory
<1>3. ASSUME NEW c \in Callers, Assign(c) PROVE Len(heap') = Len(heap)
  BY <1>1, <1>3, AssignEffect
<1>4. UNCHANGED vars => heap' = heap
  BY DEF vars, memory
<1>5. PICK c \in Callers : Publish(c)
  BY <1>2, <1>3, <1>4, StepCases
<1>6. QED
  BY <1>1, <1>5, PublishEffect

\* An object that is alone for its key keeps showing its row.
LEMMA SoleStep == IInv /\ [Next]_vars => SoleObjectIsCurrent'
<1> SUFFICES ASSUME IInv, [Next]_vars, NEW o \in 1..Len(heap'), Sole(o)',
                    \A c \in Callers : pc'[c] = "written" => ref'[c] # o
             PROVE  Shows(heap[o])'
  BY DEF SoleObjectIsCurrent, Sole, Shows
<1>1. TypeOK /\ TypeOK'
  BY TypeStep DEF IInv
<1>2. ~Restart
  BY DEF Restart
<1>3. ASSUME NEW c \in Callers, ref[c] = o, MayLock(c), ref' = ref
      PROVE  pc' # [pc EXCEPT ![c] = "written"]
  BY <1>1, <1>3 DEF TypeOK
<1>4. \A c \in Callers : ref[c] = o /\ MayLock(c) => pc' # [pc EXCEPT ![c] = "written"]
  <2> SUFFICES ASSUME NEW c \in Callers, ref[c] = o, MayLock(c),
                      pc' = [pc EXCEPT ![c] = "written"]
               PROVE  FALSE
    OBVIOUS
  <2>1. pc'[c] = "written" /\ pc[c] # "written"
    BY <1>1 DEF MayLock, TypeOK
  <2>2. \E row \in Row, object \in Object : Stores(c, row, object)
    BY <2>1, CallerChanges
  <2>3. QED
    BY <1>3, <2>2 DEF Stores, Written
<1>5. ASSUME NEW c \in Callers, Publish(c), heap'[o] = Loaded(job[c])
      PROVE  Shows(heap[o])'
  <2> DEFINE new == Loaded(job[c])
  <2>1. new \in Object
    BY <1>1, <1>5, PublishEffect
  <2>2. rows' = rows
    BY <1>5 DEF Publish, store
  <2>3. CASE o \in 1..Len(heap)
    <3>1. heap'[o] = heap[o]
      BY <1>1, <1>5, <2>3, PublishEffect
    <3>2. heap'[Len(heap) + 1] = new /\ Len(heap) + 1 \in 1..Len(heap') /\ Len(heap) \in Nat
      BY <1>1, <1>5, PublishEffect
    <3>3. Len(heap) + 1 = o
      BY <1>5, <3>2 DEF Sole
    <3>4. QED
      BY <2>3, <3>2, <3>3
  <2>4. CASE o \notin 1..Len(heap)
    <3>1. \A p \in 1..Len(heap) : p \in 1..Len(heap') /\ heap'[p] = heap[p] /\ p # o
      BY <1>1, <1>5, <2>4, PublishEffect
    <3>2. \A p \in 1..Len(heap) : heap[p].key # new.key
      BY <1>5, <3>1 DEF Sole
    <3>3. Shows(new)
      BY <1>5, <3>2 DEF IInv, LoadsHeld, Publish
    <3>4. QED
      BY <1>5, <2>2, <3>3 DEF Shows
  <2>5. QED
    BY <2>3, <2>4
<1>6. ASSUME o \in 1..Len(heap), NEW s \in Object, heap'[o] = s, s.key = heap[o].key, Shows(s)
      PROVE  Shows(heap[o])'
  <2>1. Shows(s)'
    BY <1>2, <1>4, <1>6, ShowsStays
  <2>2. QED
    BY <1>6, <2>1 DEF Shows
<1>7. ASSUME NEW c \in Callers, Assign(c), ref[c] = o, heap'[o] = job[c]
      PROVE  Shows(heap[o])'
  <2>1. o \in 1..Len(heap) /\ job[c] \in Object
    BY <1>1, <1>7, AssignEffect
  <2>2. Sole(o)
    BY <1>2, <2>1, SoleBefore
  <2>3. Shows(job[c]) /\ job[c].key = heap[o].key
    BY <1>7, <2>2 DEF IInv, WritesHeld, Assign
  <2>4. QED
    BY <1>6, <1>7, <2>1, <2>3
<1>8. CASE o \in 1..Len(heap) /\ heap'[o] = heap[o]
  <2>1. Sole(o) /\ heap[o] \in Object
    BY <1>1, <1>2, <1>8, SoleBefore DEF TypeOK
  <2>2. CASE \E c \in Callers : pc[c] = "written" /\ ref[c] = o
    <3>1. PICK c \in Callers : pc[c] = "written" /\ ref[c] = o
      BY <2>2
    <3>2. Assign(c)
      <4>1. ~(pc'[c] = "written" /\ ref'[c] = ref[c])
        BY <3>1
      <4>2. QED
        BY <1>1, <1>2, <3>1, <4>1, WriterStays
    <3>3. heap'[o] = job[c]
      BY <1>1, <3>1, <3>2, AssignEffect
    <3>4. QED
      BY <1>7, <3>1, <3>2, <3>3
  <2>3. CASE ~\E c \in Callers : pc[c] = "written" /\ ref[c] = o
    <3>1. Shows(heap[o])
      BY <1>8, <2>1, <2>3 DEF IInv, SoleObjectIsCurrent, Sole, Shows
    <3>2. QED
      BY <1>6, <1>8, <2>1, <3>1
  <2>4. QED
    BY <2>2, <2>3
<1>9. CASE o \notin 1..Len(heap)
  <2>1. \E c \in Callers : Publish(c) /\ heap'[o] = Loaded(job[c])
    BY <1>1, <1>2, <1>9, NewObject
  <2>2. QED
    BY <1>5, <2>1
<1>10. QED
  BY <1>2, <1>7, <1>8, <1>9, HeapGrows

\* The index follows the histories, also through the migration of a restart.
LEMMA IndexStep == IInv /\ [Next]_vars => IndexMatchesHistory'
<1> SUFFICES ASSUME IInv, [Next]_vars, NEW k \in Keys
             PROVE  index'[k] = IF rows'[k] = None THEN {} ELSE Searchable(rows'[k].messages)
  BY DEF IndexMatchesHistory, Searchable
<1>1. TypeOK /\ TypeOK'
  BY TypeStep DEF IInv
<1>2. index[k] = IF rows[k] = None THEN {} ELSE Searchable(rows[k].messages)
  BY DEF IInv, IndexMatchesHistory, Searchable
<1>3. ASSUME NEW c \in Callers, NEW a \in Addresses, NEW l \in Keys, Creates(c, a, l)
      PROVE  index'[k] = IF rows'[k] = None THEN {} ELSE Searchable(rows'[k].messages)
  <2>1. EmptyRow(a) # None /\ Searchable(EmptyRow(a).messages) = {}
    BY Shapes DEF Searchable
  <2>2. rows' = [rows EXCEPT ![l] = EmptyRow(a)] /\ index' = index /\ rows[l] = None
    BY <1>3 DEF Creates
  <2>3. QED
    BY <1>1, <1>2, <2>1, <2>2 DEF TypeOK
<1>4. ASSUME NEW c \in Callers, NEW row \in Row, NEW object \in Object,
             Stores(c, row, object)
      PROVE  index'[k] = IF rows'[k] = None THEN {} ELSE Searchable(rows'[k].messages)
  <2>1. /\ rows' = [rows EXCEPT ![heap[ref[c]].key] = row]
        /\ index' = [index EXCEPT ![heap[ref[c]].key] = Searchable(row.messages)]
        /\ row # None
    BY <1>4, SessionAssumption DEF Stores
  <2>2. QED
    BY <1>1, <1>2, <2>1 DEF TypeOK
<1>5. CASE Restart
  <2>1. Indexed(<<>>, rows[k].messages) = Searchable(rows[k].messages)
    BY DEF Indexed, Searchable
  <2>2. index'[k] = IF rows[k] = None THEN index[k]
                    ELSE index[k] \cup Indexed(<<>>, rows[k].messages)
    BY <1>5 DEF Restart, Backfill
  <2>3. QED
    BY <1>2, <1>5, <2>1, <2>2 DEF Restart
<1>6. ASSUME NEW c \in Callers,
             \/ \E l \in Keys, active \in BOOLEAN : Reads(c, l, active)
             \/ \E o \in 1..Len(heap) : Hands(c, o)
             \/ Publish(c) \/ Looks(c) \/ NotCompacted(c) \/ Assign(c)
      PROVE  UNCHANGED <<rows, index>>
  BY <1>6 DEF Reads, Load, Hands, Hit, Publish, Looks, ContextSnapshot, NotCompacted,
              Assign, store
<1>7. UNCHANGED vars => UNCHANGED <<rows, index>>
  BY DEF vars, store
<1>8. QED
  BY <1>2, <1>3, <1>4, <1>5, <1>6, <1>7, StepCases

\* The pointer of a conversation moves in the store, and then in memory.
LEMMA PointersStep == IInv /\ [Next]_vars => PointersSound'
<1> SUFFICES ASSUME IInv, [Next]_vars, NEW a \in Addresses
             PROVE  /\ activeRow'[a] # None =>
                         rows'[activeRow'[a]] # None /\ rows'[activeRow'[a]].address = a
                    /\ (/\ activeKeys'[a] # None
                        /\ \A c \in Callers : pc'[c] = "publish" /\ job'[c].active
                                                => job'[c].row.address # a)
                       => activeKeys'[a] = activeRow'[a]
  BY DEF PointersSound
<1>1. TypeOK /\ TypeOK'
  BY TypeStep DEF IInv
<1>2. /\ activeRow[a] # None => rows[activeRow[a]] # None /\ rows[activeRow[a]].address = a
      /\ (/\ activeKeys[a] # None
          /\ \A c \in Callers : pc[c] = "publish" /\ job[c].active => job[c].row.address # a)
         => activeKeys[a] = activeRow[a]
  BY DEF IInv, PointersSound
<1>3. activeRow[a] # None /\ activeRow'[a] = activeRow[a] =>
        rows'[activeRow'[a]] # None /\ rows'[activeRow'[a]].address = a
  <2>1. activeRow[a] # None => activeRow[a] \in Keys
    BY <1>1 DEF TypeOK
  <2>2. QED
    BY <1>2, <2>1, RowsGrow DEF Grows
<1>4. ASSUME NEW c \in Callers, NEW b \in Addresses, NEW k \in Keys, Creates(c, b, k)
      PROVE  /\ activeRow'[a] # None =>
                  rows'[activeRow'[a]] # None /\ rows'[activeRow'[a]].address = a
             /\ (/\ activeKeys'[a] # None
                 /\ \A d \in Callers : pc'[d] = "publish" /\ job'[d].active
                                         => job'[d].row.address # a)
                => activeKeys'[a] = activeRow'[a]
  <2>1. /\ activeRow' = [activeRow EXCEPT ![b] = k] /\ rows'[k] = EmptyRow(b)
        /\ pc'[c] = "publish" /\ job'[c].active /\ job'[c].row.address = b
        /\ activeKeys' = activeKeys
        /\ \A d \in Callers : pc[d] # "publish"
    BY <1>1, <1>4, Shapes DEF Creates, MayEnter, memory, TypeOK
  <2>2. CASE a = b
    BY <1>1, <2>1, <2>2, Shapes DEF TypeOK
  <2>3. CASE a # b
    <3>1. activeRow'[a] = activeRow[a]
      BY <1>1, <2>1, <2>3 DEF TypeOK
    <3>2. QED
      BY <1>2, <1>3, <2>1, <3>1
  <2>4. QED
    BY <2>2, <2>3
<1>5. ASSUME NEW c \in Callers, Publish(c)
      PROVE  activeKeys'[a] # None
               /\ (\A d \in Callers : pc'[d] = "publish" /\ job'[d].active
                                       => job'[d].row.address # a)
             => activeKeys'[a] = activeRow'[a]
  <2>1. /\ activeRow' = activeRow
        /\ activeKeys' = IF job[c].active
                         THEN [activeKeys EXCEPT ![job[c].row.address] = job[c].key]
                         ELSE activeKeys
        /\ \A d \in Callers : d # c => pc'[d] = pc[d] /\ job'[d] = job[d]
        /\ job[c].row.address \in Addresses
    <3>1. job[c].row.address \in Addresses
      BY <1>1, <1>5, PublishEffect, Shapes
    <3>2. activeRow' = activeRow
          /\ activeKeys' = IF job[c].active
                           THEN [activeKeys EXCEPT ![job[c].row.address] = job[c].key]
                           ELSE activeKeys
      BY <1>5 DEF Publish, store
    <3>3. \A d \in Callers : d # c => pc'[d] = pc[d] /\ job'[d] = job[d]
      BY <1>1, <1>5 DEF Publish, TypeOK
    <3>4. QED
      BY <3>1, <3>2, <3>3
  <2>2. /\ \A d \in Callers : pc[d] = "publish" => d = c
        /\ job[c].active => activeRow[job[c].row.address] = Loaded(job[c]).key
    BY <1>5 DEF IInv, LoadsHeld, Publish
  <2>3. CASE job[c].active /\ job[c].row.address = a
    <3>1. activeKeys'[a] = job[c].key /\ Loaded(job[c]).key = job[c].key
      BY <1>1, <2>1, <2>3 DEF TypeOK, Loaded
    <3>2. QED
      BY <2>1, <2>2, <2>3, <3>1
  <2>4. CASE ~(job[c].active /\ job[c].row.address = a)
    <3>1. activeKeys'[a] = activeKeys[a]
      BY <1>1, <2>1, <2>4 DEF TypeOK
    <3>2. \A d \in Callers : pc[d] = "publish" /\ job[d].active => job[d].row.address # a
      BY <2>2, <2>4
    <3>3. QED
      BY <1>2, <2>1, <3>1, <3>2
  <2>5. QED
    BY <2>3, <2>4
<1>6. ASSUME NEW c \in Callers, NEW k \in Keys, NEW active \in BOOLEAN, Reads(c, k, active)
      PROVE  activeKeys'[a] # None => activeKeys'[a] = activeRow'[a]
  BY <1>2, <1>6 DEF Reads, Load, MayEnter, memory, store
<1>7. ASSUME NEW c \in Callers,
             \/ \E o \in 1..Len(heap) : Hands(c, o)
             \/ Looks(c) \/ NotCompacted(c) \/ Assign(c)
             \/ \E row \in Row, object \in Object : Stores(c, row, object)
      PROVE  /\ activeRow' = activeRow /\ activeKeys' = activeKeys
             /\ \A d \in Callers : pc[d] = "publish" => pc'[d] = "publish" /\ job'[d] = job[d]
  <2>1. CASE \E o \in 1..Len(heap) : Hands(c, o)
    BY <1>1, <2>1 DEF Hands, Hit, MayEnter, store, memory, TypeOK
  <2>2. CASE Looks(c)
    BY <1>1, <2>2 DEF Looks, ContextSnapshot, store, memory, TypeOK
  <2>3. CASE NotCompacted(c)
    BY <1>1, <2>3 DEF NotCompacted, store, memory, TypeOK
  <2>4. CASE Assign(c)
    BY <1>1, <2>4 DEF Assign, store, memory, TypeOK
  <2>5. CASE \E row \in Row, object \in Object : Stores(c, row, object)
    BY <1>1, <2>5 DEF Stores, Written, store, memory, TypeOK
  <2>6. QED
    BY <1>7, <2>1, <2>2, <2>3, <2>4, <2>5
<1>8. Restart => activeKeys'[a] = None /\ activeRow' = activeRow
  BY DEF Restart
<1>9. UNCHANGED vars => activeRow' = activeRow /\ activeKeys' = activeKeys /\ pc' = pc /\ job' = job
  BY DEF vars, store, memory, callers
<1>10. ASSUME NEW c \in Callers,
              Publish(c) \/ \E k \in Keys, active \in BOOLEAN : Reads(c, k, active)
       PROVE  activeRow' = activeRow
  BY <1>10 DEF Publish, Reads, Load, store
<1>11. QED
  BY <1>2, <1>3, <1>4, <1>5, <1>6, <1>7, <1>8, <1>9, <1>10, StepCases

\* An old or new database, and nothing in memory.
LEMMA InitInv == Init => IInv
<1> SUFFICES ASSUME Init PROVE IInv
  OBVIOUS
<1>1. ASSUME NEW a \in Addresses, NEW h \in OldHistories
      PROVE  /\ OldRow(a, h) \in Row /\ OldRow(a, h).until = 0 /\ OldRow(a, h).summary = {}
             /\ Decoded(OldRow(a, h).messages) = OldRow(a, h).messages
             /\ OldRow(a, h).address = a
  <2> DEFINE built == [i \in DOMAIN h |-> Built(h[i])]
  <2>1. h \in Seq(Names)
    BY SessionAssumption
  <2>2. \A i \in DOMAIN h : Built(h[i]) \in Message
    BY <2>1 DEF Built, Message
  <2>3. built \in Seq(Message)
    BY <2>1, <2>2
  <2> HIDE DEF built
  <2>4. Decoded(built) \in Seq(Message) /\ Decoded(Decoded(built)) = Decoded(built)
    BY <2>3, DecodedFacts
  <2>5. OldRow(a, h) = [EmptyRow(a) EXCEPT !.messages = Decoded(built)]
    BY DEF OldRow, built
  <2>6. QED
    BY <2>4, <2>5, Shapes, Fields
<1>2. \A k \in Keys : rows[k] # None =>
        /\ rows[k] \in Row /\ rows[k].until = 0 /\ rows[k].summary = {}
        /\ Decoded(rows[k].messages) = rows[k].messages
  BY <1>1 DEF Init
<1>3. rows \in [Keys -> Row \cup {None}]
  BY <1>1 DEF Init
<1>4. \A k \in Keys : index[k] = IF rows[k] = None THEN {} ELSE Searchable(rows[k].messages)
  BY DEF Init, Backfill, Indexed, Searchable
<1>5. index \in [Keys -> SUBSET Nat]
  BY DEF Init, Backfill, Indexed
<1>6. heap = <<>> /\ heap \in Seq(Object) /\ Len(heap) = 0
  BY DEF Init
<1>7. TypeOK
  <2>1. 0 <= MaxObjects /\ 0..0 = {0}
    BY SessionAssumption
  <2>2. /\ cache \in [Keys -> 0..Len(heap)] /\ ref \in [Callers -> 0..Len(heap)]
        /\ pc \in [Callers -> {"ready", "publish", "fold", "written"}]
        /\ \A c \in Callers : pc[c] = "ready"
        /\ DOMAIN job = Callers /\ DOMAIN view = Callers
        /\ activeKeys \in [Addresses -> Keys \cup {None}]
        /\ activeRow \in [Addresses -> Keys \cup {None}]
    BY <1>6, <2>1 DEF Init
  <2>3. QED
    BY <1>3, <1>5, <1>6, <2>1, <2>2 DEF TypeOK
<1>8. RowsSound
  <2>1. \A row \in Row : Len(row.messages) \in Nat
    BY Fields
  <2>2. ASSUME NEW k \in Keys, rows[k] # None
        PROVE  rows[k].until <= Len(rows[k].messages) /\ rows[k].summary = 1..rows[k].until
    <3>1. rows[k].until = 0 /\ rows[k].summary = {} /\ Len(rows[k].messages) \in Nat
      BY <1>2, <2>1, <2>2
    <3>2. 1..0 = {} /\ \A n \in Nat : 0 <= n
      OBVIOUS
    <3>3. QED
      BY <3>1, <3>2
  <2>3. QED
    BY <1>2, <2>2 DEF RowsSound
<1>9. ObjectsBehind /\ WritesHeld /\ LoadsHeld /\ FoldsSound /\ SoleObjectIsCurrent
  BY <1>6 DEF Init, ObjectsBehind, WritesHeld, LoadsHeld, FoldsSound, SoleObjectIsCurrent
<1>10. IndexMatchesHistory
  BY <1>4 DEF IndexMatchesHistory, Searchable
<1>11. PointersSound
  BY DEF Init, PointersSound
<1>12. QED
  BY <1>7, <1>8, <1>9, <1>10, <1>11 DEF IInv

\* IInv is an invariant of the package.
THEOREM Invariance == Spec => []IInv
<1>1. IInv /\ [Next]_vars => IInv'
  BY TypeStep, RowsStep, ObjectsStep, WritesStep, LoadsStep, FoldsStep, SoleStep, IndexStep,
     PointersStep
  DEF IInv
<1>2. QED
  BY InitInv, <1>1, PTL DEF Spec

-----------------------------------------------------------------------------
(* What follows from it.                                                   *)

\* The variables of the package keep their types; in particular every object that
\* a caller holds is one of this process, while the manager and the objects are
\* shared.
THEOREM TypeCorrect == Spec => []TypeOK
BY Invariance, PTL DEF IInv

\* The model sees every message of the history: what the stored summary accounts
\* for ends where the tail begins, and the record can be loaded.
THEOREM SummariesAccount == Spec => []SummaryAccountsForPrefix
<1>1. IInv => SummaryAccountsForPrefix
  <2> SUFFICES ASSUME IInv, NEW k \in Keys, rows[k] # None
               PROVE  rows[k].summary = 1..rows[k].until /\ Loads(rows[k])
    BY DEF SummaryAccountsForPrefix
  <2>1. /\ rows[k].until <= Len(rows[k].messages) /\ rows[k].summary = 1..rows[k].until
        /\ rows[k].until \in Nat
    BY Fields DEF IInv, RowsSound, TypeOK
  <2>2. rows[k].until > 0 => rows[k].until \in 1..rows[k].until
    BY <2>1
  <2>3. QED
    BY <2>1, <2>2 DEF Loads
<1>2. QED
  BY Invariance, <1>1, PTL

\* What a Session shows to the model was stored before, also between the halves of
\* a write, for every number of objects per key.
THEOREM StoreIsAhead == Spec => []MemoryNeverAhead
<1>1. IInv => MemoryNeverAhead
  <2> SUFFICES ASSUME IInv, NEW o \in 1..Len(heap)
               PROVE  /\ IsPrefixOf(Decoded(heap[o].messages), rows[heap[o].key].messages)
                      /\ heap[o].until <= rows[heap[o].key].until
                      /\ heap[o].summary \subseteq rows[heap[o].key].summary
    BY DEF MemoryNeverAhead
  <2> DEFINE s == heap[o]
  <2>1. Behind(s) /\ s.until \in Nat /\ s.key \in Keys
    BY Fields DEF IInv, ObjectsBehind, TypeOK
  <2>2. /\ rows[s.key].summary = 1..rows[s.key].until
        /\ rows[s.key].until \in Nat
    BY <2>1, Fields DEF IInv, RowsSound, TypeOK, Behind
  <2>3. 1..s.until \subseteq 1..rows[s.key].until
    BY <2>1, <2>2 DEF Behind
  <2>4. QED
    BY <2>1, <2>2, <2>3 DEF Behind
<1>2. QED
  BY Invariance, <1>1, PTL

\* The only object of a session shows what a restart would load.
THEOREM SoleObjectShowsRow == Spec => []SoleObjectIsCurrent
BY Invariance, PTL DEF IInv

\* The long-term memory has exactly the searchable messages of the history.
THEOREM IndexIsComplete == Spec => []IndexMatchesHistory
BY Invariance, PTL DEF IInv

\* The user continues the session that a restart would continue.
THEOREM ActiveIsStored == Spec => []ActiveSurvivesRestart
<1>1. IInv => ActiveSurvivesRestart
  BY DEF IInv, PointersSound, ActiveSurvivesRestart
<1>2. QED
  BY Invariance, <1>1, PTL

\* No write of a message or of a cursor is ever undone, by whatever object of the
\* key the next one comes and wherever the process dies.
THEOREM NothingIsUndone == Spec => WritesNeverUndo
<1>1. IInv /\ [Next]_vars =>
        [\A k \in Keys : rows[k] # None =>
           /\ rows'[k] # None
           /\ IsPrefixOf(rows[k].messages, rows'[k].messages)
           /\ rows'[k].until >= rows[k].until]_vars
  <2> SUFFICES ASSUME IInv, [Next]_vars, NEW k \in Keys, rows[k] # None
               PROVE  /\ rows'[k] # None
                      /\ IsPrefixOf(rows[k].messages, rows'[k].messages)
                      /\ rows'[k].until >= rows[k].until
    OBVIOUS
  <2>1. Grows(k)
    BY RowsGrow
  <2>2. rows[k] \in Row /\ rows'[k] \in Row
    BY <2>1, TypeStep DEF Grows, IInv, TypeOK
  <2>3. rows[k].until \in Nat /\ rows'[k].until \in Nat
    BY <2>2, Fields
  <2>4. QED
    BY <2>1, <2>3 DEF Grows
<1>2. QED
  BY Invariance, <1>1, PTL DEF Spec, WritesNeverUndo
=============================================================================
