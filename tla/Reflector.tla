----------------------------- MODULE Reflector ------------------------------
(***************************************************************************)
(* How an informer's cache follows the API server.  The reflector lists,   *)
(* then watches from the version of the list; a watch that breaks is       *)
(* resumed, or the objects are listed anew.  What it learns goes to the    *)
(* DeltaFIFO, which keeps the deltas of each object; the informer's        *)
(* goroutine applies them to the cache, one object at a time.  The list    *)
(* and the watch are those of the informer's client; the rest is client-go.*)
(***************************************************************************)
EXTENDS SequencesExt

CONSTANTS
  Names,        \* names of objects of one type
  MaxChanges,   \* bound of the changes of the objects
  MaxDeltas     \* bound of the deltas of one object when a list comes

ASSUME ReflectorAssumption == MaxChanges \in Nat /\ MaxDeltas \in Nat

\* An object is told apart by its UID and by the edits it has seen.
Absent == [uid |-> 0, edit |-> 0]

VARIABLES
  states,       \* states[v]: the objects at resource version v
  oldest,       \* the oldest version a watch may start from
  pc,           \* the reflector: "list", "watch" or "watching"
  version,      \* resource version it has reached; 0 before the first list
  deltas,       \* deltas[n]: what the FIFO holds of n, oldest first
  unheeded,     \* the FIFO has ignored what a list said of some object
  cache         \* the informer's indexer

serverVars == <<states, oldest>>
reflectorVars == <<pc, version, unheeded>>
vars == <<serverVars, reflectorVars, deltas, cache>>

NoObjects == [n \in Names |-> Absent]

Init ==
  /\ states = <<NoObjects>>
  /\ oldest = 1
  /\ pc = "list"
  /\ version = 0
  /\ deltas = [n \in Names |-> <<>>]
  /\ unheeded = FALSE
  /\ cache = NoObjects
-----------------------------------------------------------------------------
Now == Len(states)
Current == states[Now]

Change(n, object) ==
  /\ Now <= MaxChanges
  /\ states' = Append(states, [Current EXCEPT ![n] = object])
  /\ UNCHANGED <<oldest, reflectorVars, deltas, cache>>

\* The version of its creation serves as the UID.
Create(n) == Current[n] = Absent /\ Change(n, [uid |-> Now, edit |-> 0])
Update(n) == Current[n] # Absent /\ Change(n, [Current[n] EXCEPT !.edit = @ + 1])
Delete(n) == Current[n] # Absent /\ Change(n, Absent)

\* The API server drops the events before some version.
Compact(v) ==
  /\ oldest < v /\ v <= Now
  /\ oldest' = v
  /\ UNCHANGED <<states, reflectorVars, deltas, cache>>
-----------------------------------------------------------------------------
(* DeltaFIFO: what is queued for an object. *)

WillBeDeleted(n) == deltas[n] # <<>> /\ Last(deltas[n]) = Absent

\* Of two deletions in a row one is kept.
Queued(n, object) ==
  IF object = Absent /\ WillBeDeleted(n) THEN deltas[n]
  ELSE Append(deltas[n], object)

\* queueActionLocked with Sync: an object whose deletion is queued is left out.
Synced(n, object) ==
  IF WillBeDeleted(n) THEN deltas[n] ELSE Append(deltas[n], object)

\* Mutant of Replaced: what is not in the list stays.
ReplacedKeepingOld(objects) ==
  [n \in Names |-> IF objects[n] # Absent THEN Synced(n, objects[n]) ELSE deltas[n]]

\* Where Replace does not heed the list: an object that is created anew while
\* its deletion is queued, and one that is gone while its creation is queued.
Ignored(n, object) ==
  IF object # Absent THEN WillBeDeleted(n)
  ELSE cache[n] = Absent /\ deltas[n] # <<>> /\ ~WillBeDeleted(n)

\* Replace: a Sync for each object of the list, and a deletion for each one that
\* is cached and not in the list.  What is queued only is not looked for.
Replaced(objects) ==
  [n \in Names |->
     IF objects[n] # Absent THEN Synced(n, objects[n])
     ELSE IF cache[n] # Absent THEN Queued(n, Absent)
     ELSE deltas[n]]

Room(n) == Len(deltas[n]) < MaxDeltas

\* List is asked for resource version 0: what the API server has cached, which
\* may lag, but not behind what this server has sent before.
List(v) ==
  /\ pc = "list" /\ \A n \in Names : Room(n)
  /\ v \in oldest..Now /\ v >= version
  /\ pc' = "watch"
  /\ version' = v
  /\ deltas' = Replaced(states[v])
  /\ unheeded' = (unheeded \/ \E n \in Names : Ignored(n, states[v][n]))
  /\ UNCHANGED <<serverVars, cache>>

\* Mutant of Watch: it starts from now, whatever version it is asked for.
WatchFromNow ==
  /\ pc = "watch"
  /\ pc' = "watching" /\ version' = Now
  /\ UNCHANGED <<serverVars, unheeded, deltas, cache>>

\* Watch from a version whose successors are gone has expired.
Watch ==
  /\ pc = "watch"
  /\ pc' = IF version >= oldest THEN "watching" ELSE "list"
  /\ UNCHANGED <<serverVars, version, unheeded, deltas, cache>>

\* The watch tells of the next change, which one object has seen.
Event(n) ==
  /\ pc = "watching" /\ version < Now
  /\ states[version][n] # states[version + 1][n]
  /\ \A m \in Names \ {n} : states[version][m] = states[version + 1][m]
  /\ version' = version + 1
  /\ deltas' = [deltas EXCEPT ![n] = Queued(n, states[version + 1][n])]
  /\ UNCHANGED <<serverVars, pc, unheeded, cache>>

\* A watch ends: with a timeout, after which it is resumed, or with an error,
\* after which the reflector starts over.
Break ==
  /\ pc = "watching"
  /\ pc' \in {"watch", "list"}
  /\ UNCHANGED <<serverVars, version, unheeded, deltas, cache>>

\* Mutant of Resync: what is queued already is not asked for.
ResyncAll ==
  /\ \E n \in Names : cache[n] # Absent /\ Room(n)
  /\ deltas' = [n \in Names |-> IF cache[n] # Absent /\ Room(n)
                                THEN Synced(n, cache[n]) ELSE deltas[n]]
  /\ UNCHANGED <<serverVars, reflectorVars, cache>>

\* The resync timer: each cached object of which nothing is queued goes to the
\* handlers again.
Resync ==
  /\ \E n \in Names : cache[n] # Absent /\ deltas[n] = <<>>
  /\ deltas' = [n \in Names |-> IF cache[n] # Absent /\ deltas[n] = <<>>
                                THEN <<cache[n]>> ELSE deltas[n]]
  /\ UNCHANGED <<serverVars, reflectorVars, cache>>

\* HandleDeltas takes objects in turn and applies the deltas of each in order,
\* and listers see every step.  Here the turn is any.
HandleDelta(n) ==
  /\ deltas[n] # <<>>
  /\ cache' = [cache EXCEPT ![n] = Head(deltas[n])]
  /\ deltas' = [deltas EXCEPT ![n] = Tail(deltas[n])]
  /\ UNCHANGED <<serverVars, reflectorVars>>

Next ==
  \/ \E n \in Names :
       Create(n) \/ Update(n) \/ Delete(n) \/ Event(n) \/ HandleDelta(n)
  \/ \E v \in 1..Now : Compact(v) \/ List(v)
  \/ Watch \/ Break \/ Resync

Spec == Init /\ [][Next]_vars

\* The goroutines of the reflector and of the informer run on, and not every
\* watch breaks before it has sent an event.
FairSpec ==
  /\ Spec
  /\ WF_vars(\E v \in 1..Now : List(v))
  /\ WF_vars(Watch)
  /\ SF_vars(\E n \in Names : Event(n))
  /\ \A n \in Names : WF_vars(HandleDelta(n))
-----------------------------------------------------------------------------
(* Properties. *)

\* The last that the informer was told of an object, and has queued or cached.
Told(n) == IF deltas[n] = <<>> THEN cache[n] ELSE Last(deltas[n])

\* The informer was told of every object as it was at one moment, that of the
\* version the reflector has reached: also after watches that broke, changes
\* nobody watched, and resyncs.  A lister may show a mixture on the way there, and
\* shows that moment when nothing is queued.  Not so once the FIFO has ignored
\* what a list says of an object, because of what it had queued before.
NothingLost ==
  ~unheeded /\ version > 0 => \A n \in Names : Told(n) = states[version][n]

NotOlder(old, new) ==
  \/ new.uid > old.uid
  \/ new.uid = old.uid /\ new.edit >= old.edit

\* A lister that has shown an object does not go back to what that object was
\* before, whatever lists, events and resyncs are queued in between.
NeverBack ==
  [][\A n \in Names :
       cache[n] # Absent /\ cache'[n] # Absent => NotOlder(cache[n], cache'[n])]_cache

\* When the objects rest, the cache comes to show them as they are; unless the
\* FIFO has ignored what a list said.
CatchesUp == <>[](unheeded \/ cache = Current)
=============================================================================
