---------------------------- MODULE SessionIndex ----------------------------
(***************************************************************************)
(* StreamManager's index from a session to the streams of its live turns,  *)
(* with the turns that enter and leave it and a broadcast that reads it.   *)
(*                                                                         *)
(* The index is a concurrent map whose entry is a pointer to a locked set. *)
(* An entry that becomes empty is evicted, so a pointer may be stale when  *)
(* its lock is taken.  Each message is one thread of control: its submitter*)
(* hands over to its generation, and that to the cleanup timer.  A step is *)
(* one access to the map or one locked section.                            *)
(***************************************************************************)
EXTENDS Naturals

CONSTANTS
    MaxMessages,   \* bound on the turns of the session
    MaxBroadcasts  \* bound on session broadcasts

ASSUME IndexAssumption == {MaxMessages, MaxBroadcasts} \subseteq Nat

Messages == 1..MaxMessages
Nil == 0

VARIABLES
    entry,    \* sessionToMsgs[session]: a pointer to a set, or Nil
    made,     \* how many sets there have been; the pointer to a set is its number
    ids,      \* the sets
    streams,  \* StreamManager.streams
    phase,    \* where each message's thread is
    ptr,      \* the pointer it has loaded
    prev,     \* the turn it queued behind
    cast,     \* BroadcastSessionStreamEvent under way
    casts

indexVars == <<entry, made, ids, streams, phase, ptr, prev, cast, casts>>

NoCast == [at |-> "idle", ptr |-> Nil, turn |-> Nil, targets |-> {}, reached |-> {}]

IndexInit ==
    /\ entry = Nil
    /\ made = 0
    /\ ids = [s \in 1..made |-> {}]
    /\ streams = {}
    /\ phase = [m \in Messages |-> "new"]
    /\ ptr = [m \in Messages |-> Nil]
    /\ prev = [m \in Messages |-> Nil]
    /\ cast = NoCast
    /\ casts = 0

Goes(m, p) == phase' = [phase EXCEPT ![m] = p]

-----------------------------------------------------------------------------
(* addSessionMessage and removeSessionMessage. *)

\* LoadOrStore.
LoadOrStore(m) ==
    \/ /\ entry # Nil
       /\ ptr' = [ptr EXCEPT ![m] = entry]
       /\ UNCHANGED <<entry, made, ids>>
    \/ /\ entry = Nil
       /\ made' = made + 1
       /\ entry' = made'
       /\ ids' = [s \in 1..made' |-> IF s = made' THEN {} ELSE ids[s]]
       /\ ptr' = [ptr EXCEPT ![m] = made']

\* The set is used without a second look at the map.
AddIdUnchecked(m, next) ==
    /\ ids' = [ids EXCEPT ![ptr[m]] = @ \cup {m}]
    /\ ptr' = [ptr EXCEPT ![m] = Nil]
    /\ Goes(m, next)
    /\ UNCHANGED <<entry, made>>

\* Under the set's lock: add the message, or start over if the set was evicted.
AddId(m, next) ==
    \/ /\ entry = ptr[m]
       /\ ids' = [ids EXCEPT ![ptr[m]] = @ \cup {m}]
       /\ ptr' = [ptr EXCEPT ![m] = Nil]
       /\ Goes(m, next)
       /\ UNCHANGED <<entry, made>>
    \/ /\ entry # ptr[m]
       /\ LoadOrStore(m)
       /\ UNCHANGED phase

\* removeSessionMessage loads the entry; without one it has nothing to do.
LoadToRemove(m, locked, absent) ==
    /\ ptr' = [ptr EXCEPT ![m] = entry]
    /\ Goes(m, IF entry = Nil THEN absent ELSE locked)

\* The entry is evicted whatever it still holds.
RemoveIdEvicts(m, next) ==
    /\ ids' = [ids EXCEPT ![ptr[m]] = @ \ {m}]
    /\ entry' = IF entry = ptr[m] THEN Nil ELSE entry
    /\ ptr' = [ptr EXCEPT ![m] = Nil]
    /\ Goes(m, next)
    /\ UNCHANGED made

\* Under the set's lock: drop the message, and the entry if that was the last.
RemoveId(m, next) ==
    /\ ids' = [ids EXCEPT ![ptr[m]] = @ \ {m}]
    /\ entry' = IF ids[ptr[m]] \subseteq {m} /\ entry = ptr[m] THEN Nil ELSE entry
    /\ ptr' = [ptr EXCEPT ![m] = Nil]
    /\ Goes(m, next)
    /\ UNCHANGED made

-----------------------------------------------------------------------------
(* A turn's stream. *)

\* The conversation gate: one submission at a time, from the stream's creation
\* until the generation is launched.
Submitting(m) == phase[m] \in {"adding", "created", "detaching", "dropping"}
Finished(m) == phase[m] \in {"ended", "closed", "purging", "purged", "gone"}

\* CreateStream ...
CreateStream(m) ==
    /\ phase[m] = "new"
    /\ \A n \in Messages : ~Submitting(n) /\ (n < m => phase[n] # "new")
    /\ streams' = streams \cup {m}
    /\ LoadOrStore(m)
    /\ Goes(m, "adding")
    /\ UNCHANGED <<prev, cast, casts>>

\* ... which returns with the stream in the index.
Created(m) ==
    /\ phase[m] = "adding"
    /\ AddId(m, "created")
    /\ UNCHANGED <<streams, prev, cast, casts>>

\* The admitted turn could not be recorded: its stream is closed at once.
SnapshotFails(m) ==
    /\ phase[m] = "created"
    /\ Goes(m, "closed")
    /\ UNCHANGED <<entry, made, ids, streams, ptr, prev, cast, casts>>

\* registerGeneration: a turn launched while another is in flight queues behind it.
Launch(m) ==
    LET busy == {n \in 1..(m - 1) : ~Finished(n)} IN
    /\ phase[m] = "created"
    /\ \/ /\ busy = {}
          /\ Goes(m, "waiting")
          /\ UNCHANGED prev
       \/ \E p \in busy :
              /\ \A n \in busy : n <= p
              /\ prev' = [prev EXCEPT ![m] = p]
              /\ Goes(m, "detaching")
    /\ UNCHANGED <<entry, made, ids, streams, ptr, cast, casts>>

\* DetachFromSession.
DetachFromSession(m) ==
    /\ phase[m] = "detaching"
    /\ LoadToRemove(m, "dropping", "waiting")
    /\ UNCHANGED <<entry, made, ids, streams, prev, cast, casts>>

Detached(m) ==
    /\ phase[m] = "dropping"
    /\ RemoveId(m, "waiting")
    /\ UNCHANGED <<streams, prev, cast, casts>>

\* The predecessor is done (waitForPredecessor).
MayStart(m) == phase[m] = "waiting" /\ (prev[m] # Nil => Finished(prev[m]))

\* Canceled while queued, refused behind an unsafe boundary, or no history: the
\* channel is closed and nothing arranges for the stream's cleanup.
EndEarly(m) ==
    /\ MayStart(m)
    /\ Goes(m, "ended")
    /\ UNCHANGED <<entry, made, ids, streams, ptr, prev, cast, casts>>

\* A turn that queued returns to the index before it runs.
AttachToSession(m) ==
    /\ MayStart(m)
    /\ \/ /\ prev[m] = Nil
          /\ Goes(m, "running")
          /\ UNCHANGED <<entry, made, ids, ptr>>
       \/ /\ prev[m] # Nil
          /\ LoadOrStore(m)
          /\ Goes(m, "attaching")
    /\ UNCHANGED <<streams, prev, cast, casts>>

Attached(m) ==
    /\ phase[m] = "attaching"
    /\ AddId(m, "running")
    /\ UNCHANGED <<streams, prev, cast, casts>>

\* generateResponse closes the channel and schedules the cleanup.
Close(m) ==
    /\ phase[m] = "running"
    /\ Goes(m, "closed")
    /\ UNCHANGED <<entry, made, ids, streams, ptr, prev, cast, casts>>

\* CloseStream, after the grace period.
CloseStream(m) ==
    \/ /\ phase[m] = "closed"
       /\ LoadToRemove(m, "purging", "purged")
       /\ UNCHANGED <<entry, made, ids, streams, prev, cast, casts>>
    \/ /\ phase[m] = "purging"
       /\ RemoveId(m, "purged")
       /\ UNCHANGED <<streams, prev, cast, casts>>
    \/ /\ phase[m] = "purged"
       /\ streams' = streams \ {m}
       /\ Goes(m, "gone")
       /\ UNCHANGED <<entry, made, ids, ptr, prev, cast, casts>>

-----------------------------------------------------------------------------
(* Readers. *)

\* The running turn, or something else in the session, broadcasts an event: load
\* the entry, ...
Broadcast ==
    /\ cast = NoCast
    /\ casts < MaxBroadcasts
    /\ entry # Nil
    /\ \E t \in {Nil} \cup {m \in Messages : phase[m] = "running"} :
           cast' = [NoCast EXCEPT !.at = "snapshot", !.ptr = entry, !.turn = t]
    /\ casts' = casts + 1
    /\ UNCHANGED <<entry, made, ids, streams, phase, ptr, prev>>

\* ... copy the set under its lock, ...
Snapshot ==
    /\ cast.at = "snapshot"
    /\ cast' = [cast EXCEPT !.at = "send", !.ptr = Nil, !.targets = ids[cast.ptr]]
    /\ UNCHANGED <<entry, made, ids, streams, phase, ptr, prev, casts>>

\* ... and send to the streams of the copy; one that is gone or closed is passed over.
SendTo(m) ==
    LET open == m \in streams /\ ~Finished(m) IN
    /\ cast.at = "send" /\ m \in cast.targets
    /\ cast' = [cast EXCEPT !.targets = @ \ {m}, !.reached = IF open THEN @ \cup {m} ELSE @]
    /\ UNCHANGED <<entry, made, ids, streams, phase, ptr, prev, casts>>

BroadcastEnds ==
    /\ cast.at = "send" /\ cast.targets = {}
    /\ cast' = NoCast
    /\ UNCHANGED <<entry, made, ids, streams, phase, ptr, prev, casts>>

-----------------------------------------------------------------------------
TurnThread(m) ==
    \/ CreateStream(m) \/ Created(m) \/ SnapshotFails(m) \/ Launch(m) \/ DetachFromSession(m)
    \/ Detached(m) \/ EndEarly(m) \/ AttachToSession(m) \/ Attached(m) \/ Close(m)
    \/ CloseStream(m)

IndexNext ==
    \/ \E m \in Messages : TurnThread(m) \/ SendTo(m)
    \/ Broadcast \/ Snapshot \/ BroadcastEnds

\* Turns end, and the timer of a closed stream fires.
IndexSpec == IndexInit /\ [][IndexNext]_indexVars /\ \A m \in Messages : WF_indexVars(TurnThread(m))

-----------------------------------------------------------------------------
(* Properties. *)

Phases == {"new", "adding", "created", "detaching", "dropping", "waiting", "attaching",
           "running", "ended", "closed", "purging", "purged", "gone"}

\* Every variable has its type.
IndexTypeOK ==
    /\ made \in Nat /\ entry \in 0..made
    /\ ids \in [1..made -> SUBSET Messages]
    /\ streams \subseteq Messages
    /\ phase \in [Messages -> Phases]
    /\ ptr \in [Messages -> 0..made]
    /\ prev \in [Messages -> Messages \cup {Nil}]
    /\ cast \in [at : {"idle", "snapshot", "send"}, ptr : 0..made, turn : Messages \cup {Nil},
                  targets : SUBSET Messages, reached : SUBSET Messages]
    /\ casts \in Nat

\* HasLiveStreamForSession and ActiveMessageForSession see through the entry.
Indexed == IF entry = Nil THEN {} ELSE ids[entry]

\* Turns whose stream belongs in the index, as they are in flight or in the grace
\* period after their end, and turns that are entering or leaving it.
Belongs(m) ==
    \/ phase[m] \in {"created", "detaching", "running", "closed"}
    \/ phase[m] = "waiting" /\ prev[m] = Nil
Moving(m) == phase[m] \in {"adding", "attaching", "dropping", "purging"}

\* Turns that never queued and ended early: no timer removes them from the index.
Stranded(m) == phase[m] = "ended" /\ prev[m] = Nil

\* "Never an interleaving where a new id is written into a *sessionStreams that is
\* about to be unmapped": whatever adds and removals race, the entry's set holds
\* exactly the turns that belong there, and an empty set stays mapped only while a
\* turn is about to be added to it.  It says nothing of a stranded turn, in the set
\* or not.
IndexExact ==
    /\ \A m \in Messages : ~Moving(m) /\ ~Stranded(m) => (m \in Indexed <=> Belongs(m))
    /\ entry # Nil /\ ids[entry] = {} => \E m \in Messages : Moving(m) /\ ptr[m] = entry

\* "Closed streams retained for replay must not mask a newer, in-flight turn", nor does
\* an eviction: a broadcast that a running turn starts is offered to that turn's own
\* stream if it is still running when the broadcast is sent.
BroadcastReachesTurn ==
    cast.at = "send" /\ cast.turn # Nil /\ phase[cast.turn] = "running"
        => cast.turn \in cast.targets \cup cast.reached

\* The invariant behind both.  A set other than the entry's is empty, since a set is
\* evicted only when its last message leaves it; a turn that is in the set keeps its
\* pointer current, one that is about to enter may hold a stale one.
Inside(m) == Belongs(m) \/ phase[m] \in {"dropping", "purging"}
Held(m) == Inside(m) \/ Stranded(m)
Entering(m) == phase[m] \in {"adding", "attaching"}

SetsExact ==
    /\ \A s \in 1..made : \A m \in ids[s] : s = entry /\ Held(m)
    /\ \A m \in Messages : Inside(m) => m \in Indexed
    /\ entry # Nil /\ ids[entry] = {} => \E m \in Messages : Entering(m) /\ ptr[m] = entry

PointerOK(m) ==
    /\ phase[m] \in {"dropping", "purging"} => ptr[m] = entry
    /\ Entering(m) => ptr[m] # Nil
    /\ phase[m] \in {"new", "adding", "created"} => prev[m] = Nil
    /\ phase[m] \in {"detaching", "dropping", "attaching"} => prev[m] # Nil
    /\ m \in streams <=> phase[m] \notin {"new", "gone"}

Ran == {"running", "closed", "purging", "purged", "gone"}

CastFollows ==
    /\ cast.at = "snapshot" => cast.ptr # Nil
    /\ cast.turn # Nil =>
           /\ phase[cast.turn] \in Ran
           /\ cast.at = "snapshot" /\ phase[cast.turn] = "running" => cast.ptr = entry

IndexInv ==
    /\ IndexTypeOK
    /\ SetsExact
    /\ \A m \in Messages : PointerOK(m)
    /\ CastFollows
    /\ BroadcastReachesTurn
=============================================================================
