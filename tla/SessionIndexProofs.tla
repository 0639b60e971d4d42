------------------------- MODULE SessionIndexProofs -------------------------
(***************************************************************************)
(* The session index is exact, and a running turn's broadcast reaches its  *)
(* own stream, for any number of turns and broadcasts.                     *)
(***************************************************************************)
EXTENDS SessionIndex, TLAPS

\* A leaf that names no prover goes to Zenon.
USE ZenonT(30)

MapTypeOK ==
    /\ made \in Nat /\ entry \in 0..made
    /\ ids \in [1..made -> SUBSET Messages]
    /\ ptr \in [Messages -> 0..made]

\* LoadOrStore: the entry's set is loaded, or a fresh one is mapped.
LEMMA LoadOrStoreKeeps ==
  ASSUME MapTypeOK, NEW m \in Messages, LoadOrStore(m)
  PROVE  /\ MapTypeOK' /\ entry' # Nil /\ made' >= made
         /\ ptr' = [ptr EXCEPT ![m] = entry']
         /\ entry # Nil => entry' = entry
         /\ entry = Nil => entry' = made' /\ made' = made + 1
         /\ \A s \in 1..made' : ids'[s] = IF s <= made THEN ids[s] ELSE {}
<1>1. CASE entry # Nil
  <2>1. ptr' = [ptr EXCEPT ![m] = entry] /\ UNCHANGED <<entry, made, ids>>
    BY <1>1 DEF LoadOrStore
  <2>2. ptr' \in [Messages -> 0..made]
    BY <2>1 DEF MapTypeOK
  <2> QED  BY SMTT(30), <1>1, <2>1, <2>2 DEF MapTypeOK
<1>2. CASE entry = Nil
  <2>1. /\ made' = made + 1 /\ entry' = made'
        /\ ids' = [s \in 1..made' |-> IF s = made' THEN {} ELSE ids[s]]
        /\ ptr' = [ptr EXCEPT ![m] = made']
    BY <1>2 DEF LoadOrStore
  <2>2. made' \in Nat /\ entry' \in 0..made' /\ entry' # Nil
    BY SMTT(30), <2>1 DEF MapTypeOK, Nil
  <2>3. ptr' \in [Messages -> 0..made']
    BY SMTT(30), <2>1, <2>2 DEF MapTypeOK
  <2>4. \A s \in 1..made' : ids'[s] = IF s <= made THEN ids[s] ELSE {}
    BY SMTT(30), <2>1 DEF MapTypeOK
  <2>5. ids' \in [1..made' -> SUBSET Messages]
    BY SMTT(30), <2>1, <2>2 DEF MapTypeOK
  <2> QED  BY SMTT(30), <1>2, <2>1, <2>2, <2>3, <2>4, <2>5 DEF MapTypeOK
<1> QED  BY <1>1, <1>2

\* The other turns stay where they are.
Apart(m) ==
    \A n \in Messages \ {m} :
        /\ Inside(n) <=> Inside(n)'
        /\ Held(n) <=> Held(n)'
        /\ Entering(n) <=> Entering(n)'
        /\ ptr'[n] = ptr[n]

\* A turn that moves leaves the others where they are.
LEMMA OthersApart ==
  ASSUME IndexTypeOK, NEW m \in Messages, NEW p \in Phases,
         phase' = [phase EXCEPT ![m] = p],
         \A n \in Messages \ {m} : ptr'[n] = ptr[n] /\ prev'[n] = prev[n]
  PROVE  Apart(m) /\ phase'[m] = p
<1>1. phase'[m] = p /\ \A n \in Messages \ {m} : phase'[n] = phase[n]
  BY DEF IndexTypeOK
<1> QED  BY <1>1 DEF Apart, Held, Stranded, Inside, Belongs, Entering

\* A step that does not touch the map, by a turn that does not get inside.
LEMMA StayKeeps ==
  ASSUME MapTypeOK, SetsExact, NEW m \in Messages, Apart(m), UNCHANGED <<entry, made, ids>>,
         Inside(m)' => Inside(m), Held(m) => Held(m)', ~Entering(m)
  PROVE  SetsExact'
<1>1. \A n \in Messages : (Inside(n)' => Inside(n)) /\ (Held(n) => Held(n)')
  BY DEF Apart
<1>2. \A n \in Messages : Entering(n) => Entering(n)' /\ ptr'[n] = ptr[n]
  BY DEF Apart
<1>3. Indexed' = Indexed
  BY DEF Indexed
<1>4. \A s \in 1..made : ids[s] \subseteq Messages
  BY DEF MapTypeOK
<1>5. (\A s \in 1..made : \A n \in ids[s] : s = entry /\ Held(n))'
  BY <1>1, <1>4 DEF SetsExact
<1>6. (\A n \in Messages : Inside(n) => n \in Indexed)'
  BY <1>1, <1>3 DEF SetsExact
<1>7. (entry # Nil /\ ids[entry] = {} => \E n \in Messages : Entering(n) /\ ptr[n] = entry)'
  BY <1>2 DEF SetsExact
<1> QED  BY <1>5, <1>6, <1>7 DEF SetsExact

\* A turn outside the index loads the entry, or maps a fresh set, to enter it.
LEMMA LoadKeeps ==
  ASSUME MapTypeOK, SetsExact, NEW m \in Messages, Apart(m), LoadOrStore(m),
         ~Held(m), ~Inside(m)', Entering(m)'
  PROVE  SetsExact' /\ MapTypeOK'
<1>0. /\ MapTypeOK' /\ entry' # Nil /\ made' >= made
      /\ ptr' = [ptr EXCEPT ![m] = entry']
      /\ entry # Nil => entry' = entry
      /\ entry = Nil => entry' = made' /\ made' = made + 1
      /\ \A s \in 1..made' : ids'[s] = IF s <= made THEN ids[s] ELSE {}
  BY LoadOrStoreKeeps
<1>1. \A n \in Messages : (Inside(n)' => Inside(n)) /\ (Held(n) => Held(n)')
  BY DEF Apart
<1>2. ptr'[m] = entry'
  BY <1>0 DEF MapTypeOK
<1>3. \A s \in 1..made : ids[s] \subseteq Messages
  BY DEF MapTypeOK
<1>4. \A s \in 1..made' : \A n \in ids'[s] : s \in 1..made /\ n \in ids[s]
  BY SMTT(30), <1>0 DEF MapTypeOK
<1>5. \A s \in 1..made' : \A n \in ids'[s] : s = entry' /\ Held(n)'
  BY SMTT(30), <1>0, <1>1, <1>3, <1>4 DEF SetsExact, MapTypeOK, Nil
<1>6. \A n \in Messages : Inside(n)' => n \in Indexed'
  BY SMTT(30), <1>0, <1>1 DEF SetsExact, MapTypeOK, Indexed, Nil
<1> QED  BY <1>0, <1>2, <1>5, <1>6 DEF SetsExact

\* A turn about to enter finds its set still mapped and adds itself.
LEMMA AddKeeps ==
  ASSUME MapTypeOK, SetsExact, NEW m \in Messages, Apart(m), UNCHANGED <<entry, made>>,
         entry # Nil, ids' = [ids EXCEPT ![entry] = @ \cup {m}],
         ptr' = [ptr EXCEPT ![m] = Nil], Inside(m)'
  PROVE  SetsExact' /\ MapTypeOK'
<1>1. entry \in 1..made
  BY SMTT(30) DEF MapTypeOK, Nil
<1>2. /\ ids'[entry] = ids[entry] \cup {m}
      /\ \A s \in 1..made \ {entry} : ids'[s] = ids[s]
      /\ \A s \in 1..made : ids[s] \subseteq Messages
  BY <1>1 DEF MapTypeOK
<1>3. MapTypeOK'
  <2>1. ids' \in [1..made -> SUBSET Messages]
    BY <1>1 DEF MapTypeOK
  <2>2. ptr' \in [Messages -> 0..made]
    BY SMTT(30) DEF MapTypeOK, Nil
  <2> QED  BY <2>1, <2>2 DEF MapTypeOK
<1>4. \A s \in 1..made : \A n \in ids'[s] : s = entry /\ Held(n)'
  BY <1>2 DEF SetsExact, Apart, Held
<1>5. \A n \in Messages : Inside(n)' => n \in ids'[entry]
  BY <1>1, <1>2 DEF SetsExact, Apart, Indexed
<1> QED  BY <1>1, <1>2, <1>3, <1>4, <1>5 DEF SetsExact, Indexed

\* A turn inside leaves, and the last one unmaps the set.
LEMMA RemoveKeeps ==
  ASSUME MapTypeOK, SetsExact, NEW m \in Messages, Apart(m), UNCHANGED made,
         Inside(m), ~Inside(m)', ptr[m] = entry,
         ids' = [ids EXCEPT ![entry] = @ \ {m}], ptr' = [ptr EXCEPT ![m] = Nil],
         entry' = IF ids[entry] \subseteq {m} THEN Nil ELSE entry
  PROVE  SetsExact' /\ MapTypeOK'
<1>1. entry \in 1..made /\ m \in ids[entry]
  BY SMTT(30) DEF MapTypeOK, SetsExact, Indexed, Nil
<1>2. /\ ids'[entry] = ids[entry] \ {m}
      /\ \A s \in 1..made \ {entry} : ids'[s] = ids[s]
      /\ \A s \in 1..made : ids[s] \subseteq Messages
  BY <1>1 DEF MapTypeOK
<1>3. MapTypeOK'
  <2>1. ids' \in [1..made -> SUBSET Messages]
    BY <1>1 DEF MapTypeOK
  <2>2. ptr' \in [Messages -> 0..made] /\ entry' \in 0..made
    BY SMTT(30), <1>1 DEF MapTypeOK, Nil
  <2> QED  BY <2>1, <2>2 DEF MapTypeOK
<1>4. \A s \in 1..made : \A n \in ids'[s] : s = entry /\ n # m /\ Held(n)'
  BY <1>2 DEF SetsExact, Apart
<1>5. \A n \in Messages : Inside(n)' => n \in ids'[entry]
  BY <1>1, <1>2 DEF SetsExact, Apart, Indexed
<1>6. CASE ids[entry] \subseteq {m}
  <2>1. ids'[entry] = {} /\ entry' = Nil
    BY <1>2, <1>6
  <2> QED  BY <1>3, <1>4, <1>5, <2>1 DEF SetsExact, Indexed
<1>7. CASE ~(ids[entry] \subseteq {m})
  <2>1. ids'[entry] # {} /\ entry' = entry
    BY <1>2, <1>7
  <2> QED  BY <1>1, <1>3, <1>4, <1>5, <2>1 DEF SetsExact, Indexed, Nil
<1> QED  BY <1>6, <1>7

\* What follows for the others, and for a broadcast under way, when a turn moves on.
LEMMA MoveKeeps ==
  ASSUME IndexInv, SetsExact', NEW m \in Messages, NEW p \in Phases,
         phase' = [phase EXCEPT ![m] = p], UNCHANGED <<cast, casts>>,
         MapTypeOK', made' >= made,
         prev' \in [Messages -> Messages \cup {Nil}], streams' \subseteq Messages,
         \A n \in Messages \ {m} :
             ptr'[n] = ptr[n] /\ prev'[n] = prev[n] /\ (n \in streams <=> n \in streams'),
         entry # Nil => entry' \in {entry, Nil},
         phase[m] \in Ran => p \in Ran \ {"running"},
         PointerOK(m)'
  PROVE  IndexInv'
<1>1. phase'[m] = p /\ \A n \in Messages \ {m} : phase'[n] = phase[n]
  BY DEF IndexInv, IndexTypeOK
<1>2. \A n \in Messages : Inside(n) /\ Inside(n)' => entry' = entry
  BY DEF IndexInv, SetsExact, Indexed
<1>3. \A n \in Messages \ {m} : PointerOK(n)'
  <2> SUFFICES ASSUME NEW n \in Messages \ {m}  PROVE PointerOK(n)'
    OBVIOUS
  <2>1. PointerOK(n) /\ phase'[n] = phase[n] /\ ptr'[n] = ptr[n] /\ prev'[n] = prev[n]
    BY <1>1 DEF IndexInv
  <2>2. phase[n] \in {"dropping", "purging"} => entry' = entry
    BY <1>2, <2>1 DEF Inside
  <2> QED  BY <2>1, <2>2 DEF PointerOK, Entering
<1>4. cast.turn # Nil => cast.turn \in Messages
  BY DEF IndexInv, IndexTypeOK
<1>5. cast.turn # Nil /\ phase'[cast.turn] = "running" =>
          phase[cast.turn] = "running" /\ entry' = entry
  <2> SUFFICES ASSUME cast.turn # Nil, phase'[cast.turn] = "running"
               PROVE  phase[cast.turn] = "running" /\ entry' = entry
    OBVIOUS
  <2>1. cast.turn # m
    BY <1>1 DEF IndexInv, CastFollows
  <2>2. phase[cast.turn] = "running"
    BY <1>1, <1>4, <2>1
  <2> QED  BY <1>2, <1>4, <2>2 DEF Inside, Belongs
<1>6. CastFollows'
  BY <1>1, <1>4, <1>5 DEF IndexInv, CastFollows
<1>7. BroadcastReachesTurn'
  BY <1>5 DEF IndexInv, BroadcastReachesTurn
<1>8. phase' \in [Messages -> Phases]
  BY DEF IndexInv, IndexTypeOK
<1>9. 0..made \subseteq 0..made'
  BY SMTT(30) DEF IndexInv, IndexTypeOK, MapTypeOK
<1>10. cast' \in [at : {"idle", "snapshot", "send"}, ptr : 0..made', turn : Messages \cup {Nil},
                  targets : SUBSET Messages, reached : SUBSET Messages]
  BY <1>9 DEF IndexInv, IndexTypeOK
<1>11. IndexTypeOK'
  BY <1>8, <1>10 DEF IndexInv, IndexTypeOK, MapTypeOK
<1> QED  BY <1>3, <1>6, <1>7, <1>11 DEF IndexInv

\* A turn that only moves on, without getting inside the index.
LEMMA PassKeeps ==
  ASSUME IndexInv, NEW m \in Messages, NEW p \in Phases,
         phase' = [phase EXCEPT ![m] = p], UNCHANGED <<entry, made, ids, prev, streams, cast, casts>>,
         ptr' \in [Messages -> 0..made], \A n \in Messages \ {m} : ptr'[n] = ptr[n],
         ~Entering(m), Inside(m)' => Inside(m), Held(m) => Held(m)', PointerOK(m)',
         phase[m] \in Ran => p \in Ran \ {"running"}
  PROVE  IndexInv'
<1>1. Apart(m)
  BY OthersApart DEF IndexInv
<1>2. MapTypeOK
  BY DEF MapTypeOK, IndexInv, IndexTypeOK
<1>3. SetsExact'
  BY <1>1, <1>2, StayKeeps DEF IndexInv
<1>4. MapTypeOK' /\ made' >= made
  BY SMTT(30), <1>2 DEF MapTypeOK
<1>5. prev' \in [Messages -> Messages \cup {Nil}] /\ streams' \subseteq Messages
  BY DEF IndexInv, IndexTypeOK
<1> QED  BY <1>3, <1>4, <1>5, MoveKeeps

\* A turn that loads the entry to enter the index.
LEMMA EnterKeeps ==
  ASSUME IndexInv, NEW m \in Messages, NEW p \in {"adding", "attaching"}, LoadOrStore(m),
         phase' = [phase EXCEPT ![m] = p], UNCHANGED <<prev, cast, casts>>,
         streams' = streams \cup {m}, ~Held(m), phase[m] \notin Ran,
         p = "adding" => prev[m] = Nil, p = "attaching" => prev[m] # Nil
  PROVE  IndexInv'
<1>1. MapTypeOK /\ phase \in [Messages -> Phases]
  BY DEF MapTypeOK, IndexInv, IndexTypeOK
<1>2. ptr' = [ptr EXCEPT ![m] = entry'] /\ entry' # Nil /\ made' >= made
  BY <1>1, LoadOrStoreKeeps
<1>3. ptr'[m] = entry' /\ \A n \in Messages \ {m} : ptr'[n] = ptr[n]
  BY <1>1, <1>2 DEF MapTypeOK
<1>4. p \in Phases
  BY DEF Phases
<1>5. Apart(m) /\ phase'[m] = p
  BY <1>3, <1>4, OthersApart DEF IndexInv
<1>6. ~Inside(m)' /\ Entering(m)'
  BY <1>5 DEF Inside, Belongs, Entering
<1>7. SetsExact' /\ MapTypeOK'
  BY <1>1, <1>5, <1>6, LoadKeeps DEF IndexInv
<1>8. PointerOK(m)'
  BY <1>2, <1>3, <1>5 DEF PointerOK, Entering
<1>9. entry # Nil => entry' \in {entry, Nil}
  BY <1>1, LoadOrStoreKeeps
<1>10. prev' \in [Messages -> Messages \cup {Nil}] /\ streams' \subseteq Messages
  BY DEF IndexInv, IndexTypeOK
<1> QED  BY <1>2, <1>3, <1>4, <1>7, <1>8, <1>9, <1>10, MoveKeeps

\* addSessionMessage under the set's lock: the turn is in, or it starts over.
LEMMA AddIdKeeps ==
  ASSUME IndexInv, NEW m \in Messages, NEW p \in {"created", "running"}, AddId(m, p),
         UNCHANGED <<streams, prev, cast, casts>>, Entering(m),
         p = "created" => phase[m] = "adding"
  PROVE  IndexInv'
<1>0. MapTypeOK /\ phase \in [Messages -> Phases] /\ PointerOK(m)
  BY DEF MapTypeOK, IndexInv, IndexTypeOK
<1>1. m \in streams /\ ~Held(m) /\ phase[m] \notin Ran /\ ptr[m] # Nil
  BY <1>0 DEF PointerOK, Entering, Held, Stranded, Inside, Belongs, Ran
<1>2. CASE entry = ptr[m]
  <2>1. /\ ids' = [ids EXCEPT ![entry] = @ \cup {m}] /\ ptr' = [ptr EXCEPT ![m] = Nil]
        /\ phase' = [phase EXCEPT ![m] = p] /\ UNCHANGED <<entry, made>>
    BY <1>2 DEF AddId, Goes
  <2>2. p \in Phases
    BY DEF Phases
  <2>3. \A n \in Messages \ {m} : ptr'[n] = ptr[n]
    BY <1>0, <2>1 DEF MapTypeOK
  <2>4. Apart(m) /\ phase'[m] = p
    BY <2>1, <2>2, <2>3, OthersApart DEF IndexInv
  <2>5. Inside(m)'
    BY <2>4 DEF Inside, Belongs
  <2>6. SetsExact' /\ MapTypeOK'
    BY <1>0, <1>1, <1>2, <2>1, <2>4, <2>5, AddKeeps DEF IndexInv
  <2>7. PointerOK(m)'
    BY <1>0, <1>1, <2>4 DEF PointerOK, Entering
  <2>8. /\ prev' \in [Messages -> Messages \cup {Nil}] /\ streams' \subseteq Messages
        /\ made' >= made
    BY SMTT(30), <1>0, <2>1 DEF IndexInv, IndexTypeOK
  <2> QED  BY <1>1, <2>1, <2>2, <2>3, <2>6, <2>7, <2>8, MoveKeeps
<1>3. CASE entry # ptr[m]
  <2>1. LoadOrStore(m) /\ phase' = [phase EXCEPT ![m] = phase[m]]
    BY <1>0, <1>3 DEF AddId
  <2>2. streams' = streams \cup {m} /\ phase[m] \in {"adding", "attaching"}
    BY <1>1 DEF Entering
  <2>3. (phase[m] = "adding" => prev[m] = Nil) /\ (phase[m] = "attaching" => prev[m] # Nil)
    BY <1>0 DEF PointerOK
  <2> QED  BY <1>1, <2>1, <2>2, <2>3, EnterKeeps
<1> QED  BY <1>2, <1>3

\* removeSessionMessage under the set's lock.
LEMMA RemoveIdKeeps ==
  ASSUME IndexInv, NEW m \in Messages, NEW p \in {"waiting", "purged"}, RemoveId(m, p),
         UNCHANGED <<streams, prev, cast, casts>>,
         phase[m] = IF p = "waiting" THEN "dropping" ELSE "purging"
  PROVE  IndexInv'
<1>0. MapTypeOK /\ phase \in [Messages -> Phases] /\ PointerOK(m)
  BY DEF MapTypeOK, IndexInv, IndexTypeOK
<1>1. /\ m \in streams /\ Inside(m) /\ ptr[m] = entry
      /\ phase[m] \in Ran => p \in Ran \ {"running"}
  BY <1>0 DEF PointerOK, Inside, Ran
<1>2. /\ ids' = [ids EXCEPT ![entry] = @ \ {m}] /\ ptr' = [ptr EXCEPT ![m] = Nil]
      /\ phase' = [phase EXCEPT ![m] = p] /\ UNCHANGED made
      /\ entry' = IF ids[entry] \subseteq {m} THEN Nil ELSE entry
  BY <1>1 DEF RemoveId, Goes
<1>3. p \in Phases
  BY DEF Phases
<1>4. \A n \in Messages \ {m} : ptr'[n] = ptr[n]
  BY <1>0, <1>2 DEF MapTypeOK
<1>5. Apart(m) /\ phase'[m] = p
  BY <1>2, <1>3, <1>4, OthersApart DEF IndexInv
<1>6. ~Inside(m)'
  BY <1>0, <1>5 DEF Inside, Belongs, PointerOK
<1>7. SetsExact' /\ MapTypeOK'
  BY <1>0, <1>1, <1>2, <1>5, <1>6, RemoveKeeps DEF IndexInv
<1>8. PointerOK(m)'
  BY <1>1, <1>5 DEF PointerOK, Entering
<1>9. /\ prev' \in [Messages -> Messages \cup {Nil}] /\ streams' \subseteq Messages
      /\ made' >= made
  BY SMTT(30), <1>0, <1>2 DEF IndexInv, IndexTypeOK
<1> QED  BY <1>1, <1>2, <1>3, <1>4, <1>7, <1>8, <1>9, MoveKeeps

-----------------------------------------------------------------------------
\* One step of a turn.
LEMMA TurnKeeps ==
  ASSUME IndexInv, NEW m \in Messages, TurnThread(m)
  PROVE  IndexInv'
<1>0. PointerOK(m) /\ MapTypeOK /\ phase \in [Messages -> Phases]
  BY DEF IndexInv, MapTypeOK, IndexTypeOK
<1>a. ptr \in [Messages -> 0..made] /\ entry \in 0..made
  BY <1>0 DEF MapTypeOK
<1>1. CASE CreateStream(m)
  <2>1. /\ ~Held(m) /\ phase[m] \notin Ran /\ prev[m] = Nil
    BY <1>0, <1>1 DEF CreateStream, Held, Stranded, Inside, Belongs, Ran, PointerOK
  <2> QED  BY <1>1, <2>1, EnterKeeps DEF CreateStream, Goes
<1>2. CASE Created(m)
  BY <1>2, AddIdKeeps DEF Created, Entering
<1>3. CASE SnapshotFails(m)
  <2>1. phase'[m] = "closed" /\ "closed" \in Phases
    BY <1>0, <1>3 DEF SnapshotFails, Goes, Phases
  <2>2. PointerOK(m)' /\ Inside(m) /\ Inside(m)' /\ ~Entering(m) /\ phase[m] \notin Ran
    BY <1>0, <1>3, <2>1 DEF SnapshotFails, PointerOK, Inside, Belongs, Entering, Ran
  <2> QED  BY <1>3, <1>a, <2>1, <2>2, PassKeeps DEF SnapshotFails, Goes, Held
<1>4. CASE Launch(m)
  <2>1. CASE phase' = [phase EXCEPT ![m] = "waiting"] /\ UNCHANGED prev
    <3>1. phase'[m] = "waiting" /\ "waiting" \in Phases
      BY <1>0, <2>1 DEF Phases
    <3>2. PointerOK(m)' /\ Inside(m) /\ Inside(m)' /\ ~Entering(m) /\ phase[m] \notin Ran
      BY <1>0, <1>4, <2>1, <3>1 DEF Launch, PointerOK, Inside, Belongs, Entering, Ran
    <3> QED  BY <1>4, <1>a, <2>1, <3>1, <3>2, PassKeeps DEF Launch, Held
  <2>2. CASE \E q \in 1..(m - 1) : /\ prev' = [prev EXCEPT ![m] = q]
                                   /\ phase' = [phase EXCEPT ![m] = "detaching"]
    <3>1. PICK q \in 1..(m - 1) : /\ prev' = [prev EXCEPT ![m] = q]
                                  /\ phase' = [phase EXCEPT ![m] = "detaching"]
      BY <2>2
    <3>2. q \in Messages /\ q # Nil /\ prev \in [Messages -> Messages \cup {Nil}]
      BY SMTT(30), IndexAssumption DEF Messages, Nil, IndexInv, IndexTypeOK
    <3>3. /\ prev' \in [Messages -> Messages \cup {Nil}] /\ prev'[m] = q
          /\ \A n \in Messages \ {m} : prev'[n] = prev[n]
      BY <3>1, <3>2
    <3>4. "detaching" \in Phases /\ UNCHANGED <<entry, made, ids, streams, ptr, cast, casts>>
      BY <1>4 DEF Phases, Launch
    <3>5. Apart(m) /\ phase'[m] = "detaching"
      BY <3>1, <3>3, <3>4, OthersApart DEF IndexInv
    <3>6. PointerOK(m)' /\ Inside(m) /\ Inside(m)' /\ ~Entering(m) /\ phase[m] \notin Ran
      BY <1>0, <1>4, <3>2, <3>3, <3>4, <3>5
         DEF Launch, PointerOK, Inside, Belongs, Entering, Ran
    <3>7. SetsExact'
      BY <1>0, <3>4, <3>5, <3>6, StayKeeps DEF IndexInv, Held
    <3>8. MapTypeOK' /\ made' >= made /\ streams' \subseteq Messages
      BY SMTT(30), <1>0, <3>4 DEF MapTypeOK, IndexInv, IndexTypeOK
    <3> QED  BY <3>1, <3>3, <3>4, <3>6, <3>7, <3>8, MoveKeeps
  <2> QED  BY <1>4, <2>1, <2>2 DEF Launch, Goes
<1>5. CASE DetachFromSession(m)
  <2>1. phase[m] = "detaching" /\ ptr' = [ptr EXCEPT ![m] = entry]
        /\ UNCHANGED <<entry, made, ids, streams, prev, cast, casts>>
    BY <1>5 DEF DetachFromSession, LoadToRemove
  <2>2. Inside(m) /\ entry # Nil
    BY <2>1 DEF Inside, Belongs, IndexInv, SetsExact, Indexed
  <2>3. phase' = [phase EXCEPT ![m] = "dropping"] /\ "dropping" \in Phases
    BY <1>5, <2>2 DEF DetachFromSession, LoadToRemove, Goes, Phases
  <2>4. phase'[m] = "dropping" /\ ptr'[m] = entry /\ ptr' \in [Messages -> 0..made]
        /\ \A n \in Messages \ {m} : ptr'[n] = ptr[n]
    BY <1>0, <1>a, <2>1, <2>3
  <2>5. PointerOK(m)' /\ Inside(m)' /\ ~Entering(m) /\ phase[m] \notin Ran
    BY <1>0, <2>1, <2>4 DEF PointerOK, Inside, Belongs, Entering, Ran
  <2> QED  BY <2>1, <2>2, <2>3, <2>4, <2>5, PassKeeps DEF Held
<1>6. CASE Detached(m)
  BY <1>6, RemoveIdKeeps DEF Detached
<1>7. CASE EndEarly(m)
  <2>1. phase'[m] = "ended" /\ "ended" \in Phases /\ phase[m] = "waiting"
    BY <1>0, <1>7 DEF EndEarly, MayStart, Goes, Phases
  <2>2. /\ PointerOK(m)' /\ ~Inside(m)' /\ (Held(m) => Held(m)')
        /\ ~Entering(m) /\ phase[m] \notin Ran
    BY <1>0, <1>7, <2>1 DEF EndEarly, PointerOK, Held, Stranded, Inside, Belongs, Entering, Ran
  <2> QED  BY <1>7, <1>a, <2>1, <2>2, PassKeeps DEF EndEarly, Goes
<1>8. CASE AttachToSession(m)
  <2>0. phase[m] = "waiting" /\ m \in streams
    BY <1>0, <1>8 DEF AttachToSession, MayStart, PointerOK
  <2>1. CASE prev[m] = Nil
    <3>1. phase' = [phase EXCEPT ![m] = "running"] /\ "running" \in Phases
          /\ UNCHANGED <<entry, made, ids, ptr, streams, prev, cast, casts>>
      BY <1>8, <2>1 DEF AttachToSession, Goes, Phases
    <3>2. phase'[m] = "running"
      BY <1>0, <3>1
    <3>3. PointerOK(m)' /\ Inside(m) /\ Inside(m)' /\ ~Entering(m) /\ phase[m] \notin Ran
      BY <1>0, <2>0, <2>1, <3>1, <3>2 DEF PointerOK, Inside, Belongs, Entering, Ran
    <3> QED  BY <1>a, <3>1, <3>3, PassKeeps DEF Held
  <2>2. CASE prev[m] # Nil
    <3>1. LoadOrStore(m) /\ phase' = [phase EXCEPT ![m] = "attaching"]
          /\ UNCHANGED <<streams, prev, cast, casts>>
      BY <1>8, <2>2 DEF AttachToSession, Goes
    <3>2. ~Held(m) /\ phase[m] \notin Ran /\ streams' = streams \cup {m}
      BY <2>0, <2>2, <3>1 DEF Held, Stranded, Inside, Belongs, Ran
    <3> QED  BY <2>2, <3>1, <3>2, EnterKeeps
  <2> QED  BY <2>1, <2>2
<1>9. CASE Attached(m)
  BY <1>9, AddIdKeeps DEF Attached, Entering
<1>10. CASE Close(m)
  <2>1. phase'[m] = "closed" /\ "closed" \in Phases /\ phase[m] = "running"
    BY <1>0, <1>10 DEF Close, Goes, Phases
  <2>2. PointerOK(m)' /\ Inside(m) /\ Inside(m)' /\ ~Entering(m)
    BY <1>0, <1>10, <2>1 DEF Close, PointerOK, Inside, Belongs, Entering
  <2>3. "closed" \in Ran \ {"running"}
    BY DEF Ran
  <2> QED  BY <1>10, <1>a, <2>1, <2>2, <2>3, PassKeeps DEF Close, Goes, Held
<1>11. CASE CloseStream(m)
  <2>1. CASE phase[m] = "closed"
    <3>1. ptr' = [ptr EXCEPT ![m] = entry] /\ UNCHANGED <<entry, made, ids, streams, prev, cast, casts>>
      BY <1>11, <2>1 DEF CloseStream, LoadToRemove
    <3>2. Inside(m) /\ entry # Nil
      BY <2>1 DEF Inside, Belongs, IndexInv, SetsExact, Indexed
    <3>3. phase' = [phase EXCEPT ![m] = "purging"] /\ "purging" \in Phases /\ "purging" \in Ran \ {"running"}
      BY <1>11, <2>1, <3>2 DEF CloseStream, LoadToRemove, Goes, Phases, Ran
    <3>4. phase'[m] = "purging" /\ ptr'[m] = entry /\ ptr' \in [Messages -> 0..made]
          /\ \A n \in Messages \ {m} : ptr'[n] = ptr[n]
      BY <1>0, <1>a, <3>1, <3>3
    <3>5. PointerOK(m)' /\ Inside(m)' /\ ~Entering(m)
      BY <1>0, <2>1, <3>1, <3>4 DEF PointerOK, Inside, Belongs, Entering
    <3> QED  BY <3>1, <3>2, <3>3, <3>4, <3>5, PassKeeps DEF Held
  <2>2. CASE phase[m] = "purging"
    BY <1>11, <2>2, RemoveIdKeeps DEF CloseStream
  <2>3. CASE phase[m] = "purged"
    <3>1. /\ phase' = [phase EXCEPT ![m] = "gone"] /\ streams' = streams \ {m}
          /\ UNCHANGED <<entry, made, ids, ptr, prev, cast, casts>>
          /\ "gone" \in Phases /\ "gone" \in Ran \ {"running"}
      BY <1>11, <2>3 DEF CloseStream, Goes, Phases, Ran
    <3>2. Apart(m) /\ phase'[m] = "gone"
      BY <3>1, OthersApart DEF IndexInv
    <3>3. PointerOK(m)' /\ ~Held(m) /\ ~Inside(m)' /\ ~Entering(m)
      BY <1>0, <2>3, <3>1, <3>2 DEF PointerOK, Held, Stranded, Inside, Belongs, Entering
    <3>4. SetsExact'
      BY <1>0, <3>1, <3>2, <3>3, StayKeeps DEF IndexInv
    <3>5. MapTypeOK' /\ made' >= made /\ streams' \subseteq Messages
          /\ prev' \in [Messages -> Messages \cup {Nil}]
      BY SMTT(30), <1>0, <3>1 DEF MapTypeOK, IndexInv, IndexTypeOK
    <3> QED  BY <3>1, <3>3, <3>4, <3>5, MoveKeeps
  <2> QED  BY <1>11, <2>1, <2>2, <2>3 DEF CloseStream
<1> QED  BY <1>1, <1>2, <1>3, <1>4, <1>5, <1>6, <1>7, <1>8, <1>9, <1>10, <1>11 DEF TurnThread

CastType ==
    [at : {"idle", "snapshot", "send"}, ptr : 0..made, turn : Messages \cup {Nil},
     targets : SUBSET Messages, reached : SUBSET Messages]

\* A step of a broadcast leaves the index alone.
LEMMA CastKeeps ==
  ASSUME IndexInv, UNCHANGED <<entry, made, ids, streams, phase, ptr, prev>>,
         cast' \in CastType, casts' \in Nat, CastFollows', BroadcastReachesTurn'
  PROVE  IndexInv'
<1>1. IndexTypeOK'
  BY DEF IndexInv, IndexTypeOK, CastType
<1>2. \A m \in Messages : (Inside(m) <=> Inside(m)') /\ (Entering(m) <=> Entering(m)')
  BY DEF Inside, Belongs, Entering
<1>3. SetsExact'
  BY <1>2 DEF IndexInv, SetsExact, Indexed, Held, Stranded, Inside, Belongs, Entering
<1>4. \A m \in Messages : PointerOK(m)'
  BY <1>2 DEF IndexInv, PointerOK
<1> QED  BY <1>1, <1>3, <1>4 DEF IndexInv

\* BroadcastSessionStreamEvent.
LEMMA BroadcastKeeps ==
  ASSUME IndexInv, Broadcast \/ Snapshot \/ BroadcastEnds \/ \E m \in Messages : SendTo(m)
  PROVE  IndexInv'
<1>0. cast \in CastType /\ casts \in Nat /\ NoCast \in CastType
  BY SMTT(30) DEF IndexInv, IndexTypeOK, CastType, NoCast, Nil
<1>1. CASE Broadcast
  <2>1. /\ cast = NoCast /\ entry # Nil /\ casts' = casts + 1
        /\ UNCHANGED <<entry, made, ids, streams, phase, ptr, prev>>
    BY <1>1 DEF Broadcast
  <2>2. PICK t \in {Nil} \cup {m \in Messages : phase[m] = "running"} :
            cast' = [NoCast EXCEPT !.at = "snapshot", !.ptr = entry, !.turn = t]
    BY <1>1 DEF Broadcast
  <2>3. cast' = [at |-> "snapshot", ptr |-> entry, turn |-> t, targets |-> {}, reached |-> {}]
    BY <2>2 DEF NoCast
  <2>4. cast' \in CastType
    BY <2>3 DEF CastType, IndexInv, IndexTypeOK
  <2>5. CastFollows'
    BY <2>1, <2>3 DEF CastFollows, Ran
  <2>6. BroadcastReachesTurn'
    BY <2>3 DEF BroadcastReachesTurn
  <2> QED  BY SMTT(30), <1>0, <2>1, <2>4, <2>5, <2>6, CastKeeps
<1>2. CASE Snapshot
  <2>1. /\ cast.at = "snapshot" /\ casts' = casts
        /\ UNCHANGED <<entry, made, ids, streams, phase, ptr, prev>>
    BY <1>2 DEF Snapshot
  <2>2. cast' = [at |-> "send", ptr |-> Nil, turn |-> cast.turn, targets |-> ids[cast.ptr],
                 reached |-> cast.reached]
    BY <1>0, <1>2 DEF Snapshot, CastType
  <2>3. cast.ptr \in 1..made
    BY SMTT(30), <1>0, <2>1 DEF CastType, IndexInv, CastFollows, IndexTypeOK, Nil
  <2>4. ids[cast.ptr] \subseteq Messages
    BY <2>3 DEF IndexInv, IndexTypeOK
  <2>5. cast' \in CastType
    BY SMTT(30), <1>0, <2>2, <2>4 DEF CastType, Nil, IndexInv, IndexTypeOK
  <2>6. CastFollows'
    BY <2>1, <2>2 DEF IndexInv, CastFollows
  <2>7. BroadcastReachesTurn'
    <3> SUFFICES ASSUME cast.turn # Nil, phase[cast.turn] = "running"
                 PROVE  cast.turn \in ids[cast.ptr]
      BY <2>1, <2>2 DEF BroadcastReachesTurn
    <3>1. cast.turn \in Messages /\ cast.ptr = entry
      BY <1>0, <2>1 DEF CastType, IndexInv, CastFollows
    <3>2. cast.turn \in Indexed
      BY <3>1 DEF IndexInv, SetsExact, Inside, Belongs
    <3> QED  BY <2>3, <3>1, <3>2 DEF Indexed, Nil
  <2> QED  BY <1>0, <2>1, <2>5, <2>6, <2>7, CastKeeps
<1>3. CASE BroadcastEnds
  <2>1. cast' = NoCast /\ casts' = casts /\ UNCHANGED <<entry, made, ids, streams, phase, ptr, prev>>
    BY <1>3 DEF BroadcastEnds
  <2>2. CastFollows' /\ BroadcastReachesTurn'
    BY <2>1 DEF CastFollows, BroadcastReachesTurn, NoCast
  <2> QED  BY <1>0, <2>1, <2>2, CastKeeps
<1>4. ASSUME NEW m \in Messages, SendTo(m)  PROVE IndexInv'
  <2> DEFINE open == m \in streams /\ ~Finished(m)
             told == IF open THEN cast.reached \cup {m} ELSE cast.reached
  <2>1. /\ cast.at = "send" /\ m \in cast.targets /\ casts' = casts
        /\ UNCHANGED <<entry, made, ids, streams, phase, ptr, prev>>
    BY <1>4 DEF SendTo
  <2>2. cast' = [cast EXCEPT !.targets = @ \ {m}, !.reached = told]
    BY <1>4 DEF SendTo
  <2>3. told \subseteq Messages
    BY <1>0 DEF CastType
  <2>4. cast' = [at |-> cast.at, ptr |-> cast.ptr, turn |-> cast.turn,
                 targets |-> cast.targets \ {m}, reached |-> told]
    BY <1>0, <2>2 DEF CastType
  <2>5. cast' \in CastType
    BY <1>0, <2>1, <2>3, <2>4 DEF CastType
  <2>6. CastFollows'
    BY <2>1, <2>4 DEF IndexInv, CastFollows
  <2>7. phase[m] = "running" => open
    BY DEF IndexInv, PointerOK, Finished
  <2>8. BroadcastReachesTurn'
    BY <2>1, <2>4, <2>7 DEF IndexInv, BroadcastReachesTurn
  <2> QED  BY <1>0, <2>1, <2>5, <2>6, <2>8, CastKeeps
<1> QED  BY <1>1, <1>2, <1>3, <1>4

-----------------------------------------------------------------------------
\* For any number of turns and broadcasts: the index's invariant holds.
THEOREM IndexInvariant == IndexSpec => []IndexInv
<1>1. IndexInit => IndexInv
  <2> SUFFICES ASSUME IndexInit  PROVE IndexInv
    OBVIOUS
  <2>1. made = 0 /\ entry = 0 /\ ids = [s \in 1..made |-> {}] /\ 1..made = {}
    BY SMTT(30) DEF IndexInit, Nil
  <2>2. cast = [at |-> "idle", ptr |-> 0, turn |-> 0, targets |-> {}, reached |-> {}]
    BY DEF IndexInit, NoCast, Nil
  <2>3. ids \in [1..made -> SUBSET Messages]
    BY <2>1
  <2>4. IndexTypeOK
    BY SMTT(30), <2>1, <2>2, <2>3 DEF IndexInit, IndexTypeOK, Phases, Nil
  <2>5. \A m \in Messages : phase[m] = "new" /\ prev[m] = Nil /\ m \notin streams
    BY DEF IndexInit
  <2>6. SetsExact
    BY <2>1, <2>5 DEF SetsExact, Inside, Belongs, Nil
  <2>7. \A m \in Messages : PointerOK(m)
    BY <2>5 DEF PointerOK, Entering
  <2>8. CastFollows /\ BroadcastReachesTurn
    BY <2>2 DEF CastFollows, BroadcastReachesTurn, Nil
  <2> QED  BY <2>4, <2>6, <2>7, <2>8 DEF IndexInv
<1>2. IndexInv /\ [IndexNext]_indexVars => IndexInv'
  <2> SUFFICES ASSUME IndexInv, [IndexNext]_indexVars  PROVE IndexInv'
    OBVIOUS
  <2>1. CASE IndexNext
    BY <2>1, TurnKeeps, BroadcastKeeps DEF IndexNext
  <2>2. CASE UNCHANGED indexVars
    <3>1. cast' \in CastType /\ casts' \in Nat
      BY <2>2 DEF indexVars, CastType, IndexInv, IndexTypeOK
    <3>2. CastFollows' /\ BroadcastReachesTurn'
      BY <2>2 DEF indexVars, IndexInv, CastFollows, BroadcastReachesTurn
    <3> QED  BY <2>2, <3>1, <3>2, CastKeeps DEF indexVars
  <2> QED  BY <2>1, <2>2
<1> QED  BY <1>1, <1>2, PTL DEF IndexSpec

\* Whatever adds and removals race, the index holds exactly the streams that belong
\* there, next to those of turns that ended early, for any number of turns.
THEOREM IndexIsExact == IndexSpec => []IndexExact
<1>1. IndexInv => IndexExact
  <2> SUFFICES ASSUME IndexInv  PROVE IndexExact
    OBVIOUS
  <2>1. ASSUME NEW m \in Messages, ~Moving(m), ~Stranded(m)
        PROVE  m \in Indexed <=> Belongs(m)
    <3>1. Inside(m) <=> Belongs(m)
      BY <2>1 DEF Moving, Inside
    <3>2. m \in Indexed => Held(m)
      BY SMTT(30) DEF IndexInv, SetsExact, Indexed, IndexTypeOK, Nil
    <3> QED  BY <2>1, <3>1, <3>2 DEF IndexInv, SetsExact, Held
  <2>2. entry # Nil /\ ids[entry] = {} => \E m \in Messages : Moving(m) /\ ptr[m] = entry
    BY DEF IndexInv, SetsExact, Moving, Entering
  <2> QED  BY <2>1, <2>2 DEF IndexExact
<1> QED  BY <1>1, IndexInvariant, PTL

\* A broadcast of a running turn is offered to the turn's own stream.
THEOREM BroadcastReaches == IndexSpec => []BroadcastReachesTurn
<1>1. IndexInv => BroadcastReachesTurn
  BY DEF IndexInv
<1> QED  BY <1>1, IndexInvariant, PTL
=============================================================================
