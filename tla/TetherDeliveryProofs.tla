------------------------ MODULE TetherDeliveryProofs ------------------------
(***************************************************************************)
(* The safety of the Tether bridge, for any messages, any number of faults *)
(* and any retry limits.  A step of Handle or drive touches its own        *)
(* message only, because begin keeps the other goroutine off it:           *)
(* HandlerFrame reduces every step of drive to what it does to that        *)
(* message and to the handler itself.  The goroutines that hand messages   *)
(* to Handle and the environment keep BridgeInv too.  It holds at first,   *)
(* so it always does, and the bridge's safety properties are parts of it.  *)
(***************************************************************************)
EXTENDS TetherDelivery, TLAPS

\* A leaf that names no prover goes to Zenon.
USE ZenonT(30)

-----------------------------------------------------------------------------
(* Operators. *)

\* Advance and Defer keep a row a row, and never forget the local message id.
LEMMA AdvancedRow ==
    ASSUME NEW row \in Row, NEW state \in States \ {"absent"}, NEW local \in BOOLEAN
    PROVE  /\ Advanced(row, state, local) \in Row
           /\ row.local => Advanced(row, state, local).local
           /\ Terminal(row) => Advanced(row, state, local) = row
           /\ ~local => Advanced(row, state, local).local = row.local
  BY DEF Advanced, Row, States, Open, Terminal

LEMMA DeferredRow ==
    ASSUME NEW row \in Row, NEW bump \in {0, 1}
    PROVE  /\ Deferred(row, bump) \in Row
           /\ Deferred(row, bump).local = row.local
           /\ Deferred(row, bump).state = row.state
<1>1. row.attempts + bump \in Nat  BY SMTT(30) DEF Row
<1> QED  BY <1>1 DEF Deferred, Row

\* A goroutine moves to another step of drive.
LEMMA GotoFacts ==
    ASSUME h \in [Threads -> Handler], NEW t \in Threads, NEW p \in Steps, Goto(t, p)
    PROVE  /\ h' \in [Threads -> Handler]
           /\ h'[t].at = p
           /\ h'[t].msg = Msg(t)
           /\ h'[t].row = IF p \in Routed \cup {"retry"} THEN h[t].row ELSE NoRow
           /\ h'[t].sess = IF p \in Routed THEN h[t].sess ELSE Unbound
           /\ \A u \in Threads \ {t} : h'[u] = h[u]
<1>1. h[t] \in Handler  OBVIOUS
<1>2. NoRow \in Row  BY DEF NoRow, Row, States
<1> QED  BY <1>1, <1>2 DEF Goto, Handler, Msg, Unbound

\* A goroutine returns from Handle.
LEMMA ReturnFacts ==
    ASSUME h \in [Threads -> Handler], NEW t \in Threads, Return(t)
    PROVE  /\ h' \in [Threads -> Handler]
           /\ h'[t].at \in {"idle", "cursor"}
           /\ h'[t].msg = NoMsg
           /\ \A u \in Threads \ {t} : h'[u] = h[u]
<1>1. h[t] \in Handler  OBVIOUS
<1>2. NoRow \in Row  BY DEF NoRow, Row, States
<1> QED  BY <1>1, <1>2 DEF Return, Returned, Idle, Handler, Steps, NoMsg, Unbound

-----------------------------------------------------------------------------
(* Frames. *)

\* Nothing that concerns message k changes, but that it may become unread; faults
\* are not forgotten.
Spared(k) ==
    /\ ledger'[k] = ledger[k]
    /\ receipt'[k] = receipt[k]
    /\ inbox'[k] = inbox[k]
    /\ woken'[k] = woken[k]
    /\ k \in unread => k \in unread'
    /\ \A s \in Sessions : <<k, s>> \in react' => <<k, s>> \in react
    /\ faults' = 0 => faults = 0

LEMMA SparedMessage ==
    ASSUME NEW k \in Msgs, MessageOK(k), Spared(k), Sent(k)' => Sent(k)
    PROVE  MessageOK(k)'
<1>1. Carried(k) => Carried(k)'  BY DEF Spared, Carried
<1> QED  BY <1>1 DEF MessageOK, Spared, Buried

LEMMA SparedHandler ==
    ASSUME NEW u \in Threads, HandlerOK(u), h'[u] = h[u], Handling(u) => Spared(Msg(u))
    PROVE  HandlerOK(u)'
<1>1. Handling(u)' = Handling(u) /\ Msg(u)' = Msg(u)  BY DEF Handling, Msg
<1>2. CASE ~Handling(u)  BY <1>1, <1>2 DEF HandlerOK
<1>3. CASE Handling(u)
  <2>1. Carried(Msg(u)) => Carried(Msg(u))'  BY <1>1, <1>3 DEF Spared, Carried
  <2> QED  BY <1>1, <1>3, <2>1 DEF HandlerOK, Spared, At, Buried
<1> QED  BY <1>2, <1>3

\* A step of the goroutine t in Handle changes nothing but its own message and its
\* own locals: what is left to show is that those are in order after it.
LEMMA HandlerFrame ==
    ASSUME BridgeInv, NEW t \in Threads, NEW m \in Msgs, Msg(t) = m, Handling(t),
           TypeOK', SessionsOK', sent' = sent,
           \A u \in Threads \ {t} : h'[u] = h[u],
           \A k \in Msgs \ {m} : Spared(k),
           h'[t].msg = IF Handling(t)' THEN m ELSE NoMsg,
           HandlerOK(t)', MessageOK(m)'
    PROVE  BridgeInv'
<1>1. \A k \in Msgs : MessageOK(k)'
  <2> SUFFICES ASSUME NEW k \in Msgs, k # m PROVE MessageOK(k)'  OBVIOUS
  <2>1. Sent(k)' => Sent(k)  BY DEF Sent
  <2> QED  BY <2>1, SparedMessage DEF BridgeInv
<1>2. \A u \in Threads \ {t} : HandlerOK(u)'
  <2> SUFFICES ASSUME NEW u \in Threads \ {t} PROVE HandlerOK(u)'  OBVIOUS
  <2>1. Handling(u) => Msg(u) \in Msgs \ {m}  BY DEF BridgeInv, HandlerOK
  <2> QED  BY <2>1, SparedHandler DEF BridgeInv
<1>3. \A u, v \in Threads : u # v /\ Handling(u)' /\ Handling(v)' => Msg(u)' # Msg(v)'
  <2>1. \A w \in Threads : Handling(w)' => Handling(w) /\ Msg(w)' = Msg(w)
    BY DEF Handling, Msg
  <2> QED  BY <2>1 DEF BridgeInv
<1> QED  BY <1>1, <1>2, <1>3 DEF BridgeInv

\* A failed step counts as a fault, and there is a bound on them.
LEMMA FaultFacts ==
    ASSUME TypeOK, NoFault \/ Fault
    PROVE  /\ faults' \in 0..MaxFaults /\ faults <= faults'
           /\ faults' = 0 => faults = 0 /\ NoFault
  BY SMTT(30), BridgeAssumption DEF TypeOK, NoFault, Fault

LEMMA FaultIsOne ==
    ASSUME TypeOK, Fault
    PROVE  faults' # 0
  BY SMTT(30) DEF TypeOK, Fault

LEMMA MoreFaults ==
    ASSUME NEW i \in Nat, NEW j \in Nat, NEW n \in Nat, i <= j, n <= i + 1
    PROVE  n <= j + 1
  BY SMTT(30)

\* Steps that leave the sessions alone.
LEMMA SessionsKept ==
    ASSUME TypeOK, SessionsOK, NoFault \/ Fault, UNCHANGED <<bound, started, ended>>
    PROVE  SessionsOK'
<1>1. faults \in Nat /\ faults' \in Nat /\ faults <= faults' /\ started \in Nat
  BY SMTT(30), FaultFacts DEF TypeOK
<1>2. started <= faults + 1 /\ (bound = Unbound => started <= faults)  BY DEF SessionsOK
<1>3. started <= faults' + 1  BY <1>1, <1>2, MoreFaults
<1>4. bound = Unbound => started <= faults'  BY SMTT(30), <1>1, <1>2
<1> QED  BY <1>3, <1>4 DEF SessionsOK

\* The goroutine t goes on to step p of drive, with the ledger row and the receipt
\* of its message changed or not.
LEMMA GotoStep ==
    ASSUME BridgeInv, NEW t \in Threads, NEW m \in Msgs, Msg(t) = m, Handling(t),
           NEW p \in Steps \ {"idle", "cursor"}, Goto(t, p), NoFault \/ Fault,
           UNCHANGED <<sent, unread, cursor, stream, host>>,
           ledger' \in [Msgs -> Row], \A k \in Msgs \ {m} : ledger'[k] = ledger[k],
           NEW c \in {"none", "accepted", "submitted", "consumed", "dead"},
           receipt' = [receipt EXCEPT ![m] = c],
           Open(ledger'[m]),
           ledger[m].local => ledger'[m].local,
           ledger'[m].local => Carried(m),
           c \in {"submitted", "consumed"} => ledger'[m].local,
           p \in Routed => h[t].sess \in Sessions,
           p = "write" => inbox[m][h[t].sess] = 0,
           p = "wake" => inbox[m][h[t].sess] > 0,
           p = "submitted" => Carried(m),
           p \in {"submit", "consume", "consumed"} => ledger'[m].local,
           p \in Vetted => m \notin Rejected,
           m \in Rejected => c \in {"none", "dead"},
           p \in {"soft", "close"} /\ m \in Rejected /\ faults' = 0 => c = "dead"
    PROVE  BridgeInv'
<1>0. TypeOK /\ SessionsOK /\ HandlerOK(t) /\ MessageOK(m)  BY DEF BridgeInv
<1>1. h \in [Threads -> Handler] /\ receipt \in [Msgs -> {"none", "accepted", "submitted", "consumed", "dead"}]
  BY <1>0 DEF TypeOK
<1>2. /\ h' \in [Threads -> Handler]
      /\ h'[t].at = p
      /\ h'[t].msg = m
      /\ h'[t].row.local => h[t].row.local
      /\ p \in Routed => h'[t].sess = h[t].sess
      /\ \A u \in Threads \ {t} : h'[u] = h[u]
  BY SMTT(30), <1>1, GotoFacts DEF NoRow
<1>3. TypeOK'  BY <1>0, <1>1, <1>2, FaultFacts DEF TypeOK, host
<1>4. SessionsOK'  BY <1>0, SessionsKept DEF host
<1>5. Carried(m)' = Carried(m) /\ Sent(m)' = Sent(m)  BY DEF Carried, Sent, host
<1>6. HandlerOK(t)'
  <2>1. Msg(t)' = m /\ Handling(t)'  BY <1>2 DEF Msg, Handling
  <2>2. h[t].row.local => ledger[m].local  BY <1>0 DEF HandlerOK
  <2>3. receipt'[m] = c  BY <1>1
  <2> QED  BY <1>2, <1>5, <2>1, <2>2, <2>3 DEF HandlerOK, At, Routed, host, Buried
<1>7. MessageOK(m)'
  <2>1. receipt'[m] = c  BY <1>1
  <2>2. ledger'[m].state \notin {"absent", "consumed"} /\ ~Terminal(ledger[m]) /\ ~Terminal(ledger'[m])
    BY <1>0 DEF HandlerOK, Open, Terminal
  <2> QED  BY <1>0, <1>5, <2>1, <2>2 DEF MessageOK, host
<1>8. \A k \in Msgs \ {m} : Spared(k)  BY <1>0, <1>1, FaultFacts DEF Spared, host
<1> QED  BY <1>2, <1>3, <1>4, <1>6, <1>7, <1>8, HandlerFrame DEF Handling

\* The goroutine t returns from Handle, with the row of its message deferred, closed
\* or as it was.
LEMMA ReturnStep ==
    ASSUME BridgeInv, NEW t \in Threads, NEW m \in Msgs, Msg(t) = m, Handling(t),
           Return(t), NoFault \/ Fault,
           UNCHANGED <<sent, receipt, cursor, stream, host>>,
           ledger' \in [Msgs -> Row], \A k \in Msgs \ {m} : ledger'[k] = ledger[k],
           ledger'[m].local = ledger[m].local,
           ledger'[m].state # "absent", ledger'[m].state = "consumed" => ledger[m].local,
           unread' = unread \/ (unread' = unread \ {m} /\ Terminal(ledger'[m])),
           Terminal(ledger'[m]) => Buried(m)
    PROVE  BridgeInv'
<1>0. TypeOK /\ SessionsOK /\ HandlerOK(t) /\ MessageOK(m)  BY DEF BridgeInv
<1>1. h \in [Threads -> Handler] /\ unread \subseteq Msgs  BY <1>0 DEF TypeOK
<1>2. /\ h' \in [Threads -> Handler]
      /\ h'[t].at \in {"idle", "cursor"}
      /\ h'[t].msg = NoMsg
      /\ \A u \in Threads \ {t} : h'[u] = h[u]
  BY <1>1, ReturnFacts
<1>3. TypeOK'  BY <1>0, <1>1, <1>2, FaultFacts DEF TypeOK, host
<1>4. SessionsOK'  BY <1>0, SessionsKept DEF host
<1>5. Carried(m)' = Carried(m) /\ Sent(m)' = Sent(m)  BY DEF Carried, Sent, host
<1>6. ~Handling(t)' /\ HandlerOK(t)'  BY <1>2 DEF HandlerOK, Handling, Msg
<1>7. MessageOK(m)'
  <2>1. ~Terminal(ledger[m])  BY <1>0 DEF HandlerOK, Open
  <2>2. Buried(m) => Buried(m)'  BY <1>0, FaultFacts DEF Buried
  <2> QED  BY <1>0, <1>5, <2>1, <2>2 DEF MessageOK, host
<1>8. \A k \in Msgs \ {m} : Spared(k)  BY <1>0, <1>1, FaultFacts DEF Spared, host
<1> QED  BY <1>2, <1>3, <1>4, <1>6, <1>7, <1>8, HandlerFrame

-----------------------------------------------------------------------------
(* The steps of Handle and drive. *)

\* What a goroutine in Handle may rely on.
LEMMA InHandle ==
    ASSUME BridgeInv, NEW t \in Threads, Handling(t)
    PROVE  /\ Msg(t) \in Msgs
           /\ h \in [Threads -> Handler] /\ h[t] \in Handler
           /\ ledger \in [Msgs -> Row] /\ ledger[Msg(t)] \in Row
           /\ Open(ledger[Msg(t)])
           /\ receipt[Msg(t)] \in {"none", "accepted", "submitted", "consumed", "dead"}
           /\ receipt = [receipt EXCEPT ![Msg(t)] = receipt[Msg(t)]]
           /\ ledger[Msg(t)].local => Carried(Msg(t))
           /\ receipt[Msg(t)] \in {"submitted", "consumed"} => ledger[Msg(t)].local
           /\ Msg(t) \in Rejected => receipt[Msg(t)] \in {"none", "dead"}
<1>1. TypeOK /\ HandlerOK(t)  BY DEF BridgeInv
<1>2. Msg(t) \in Msgs /\ MessageOK(Msg(t))  BY <1>1 DEF HandlerOK, BridgeInv
<1> QED  BY <1>1, <1>2 DEF HandlerOK, MessageOK, TypeOK

\* AdvanceTetherDelivery and DeferTetherDelivery write one row.
LEMMA AdvanceFacts ==
    ASSUME ledger \in [Msgs -> Row], NEW m \in Msgs, NEW state \in States \ {"absent"},
           NEW local \in BOOLEAN, Open(ledger[m]), Advance(m, state, local)
    PROVE  /\ ledger' \in [Msgs -> Row]
           /\ \A k \in Msgs \ {m} : ledger'[k] = ledger[k]
           /\ ledger'[m] = Advanced(ledger[m], state, local)
           /\ ledger'[m].local = (ledger[m].local \/ local) \/ ledger'[m] = ledger[m]
           /\ Rank(ledger[m].state) <= Rank(state) =>
                 ledger'[m].state = state /\ ledger'[m].local = (ledger[m].local \/ local)
<1>1. Advanced(ledger[m], state, local) \in Row  BY AdvancedRow
<1>2. ledger'[m] = Advanced(ledger[m], state, local)  BY DEF Advance
<1>3. ledger[m] \in Row  OBVIOUS
<1> QED  BY <1>1, <1>2, <1>3 DEF Advance, Advanced, Row

LEMMA DeferFacts ==
    ASSUME ledger \in [Msgs -> Row], NEW m \in Msgs, NEW bump \in {0, 1},
           Defer(m, bump) \/ UNCHANGED ledger
    PROVE  /\ ledger' \in [Msgs -> Row]
           /\ \A k \in Msgs \ {m} : ledger'[k] = ledger[k]
           /\ ledger'[m].local = ledger[m].local /\ ledger'[m].state = ledger[m].state
  BY SMTT(30), DeferredRow DEF Defer

\* A row that is put off.
LEMMA PutOff ==
    ASSUME BridgeInv, NEW t \in Threads, Handling(t), NEW bump \in {0, 1},
           Defer(Msg(t), bump) \/ UNCHANGED ledger, Return(t), NoFault \/ Fault,
           UNCHANGED <<sent, unread, receipt, cursor, stream, host>>
    PROVE  BridgeInv'
<1>1. PICK m \in Msgs : Msg(t) = m  BY InHandle
<1>2. /\ ledger' \in [Msgs -> Row]
      /\ \A k \in Msgs \ {m} : ledger'[k] = ledger[k]
      /\ ledger'[m].local = ledger[m].local /\ ledger'[m].state = ledger[m].state
  BY <1>1, InHandle, DeferFacts
<1>3. ledger[m].state \notin {"absent", "consumed"} /\ ~Terminal(ledger'[m])
  BY <1>1, <1>2, InHandle DEF Open, Terminal
<1> QED  BY <1>1, <1>2, <1>3, ReturnStep

LEMMA PostponeKeeps ==
    ASSUME BridgeInv, NEW t \in Threads, Handling(t), NEW bump \in {0, 1}, Postpone(t, bump),
           UNCHANGED <<sent, unread, receipt, cursor, stream, host>>
    PROVE  BridgeInv'
  BY PutOff DEF Postpone

\* The goroutine goes on without a change to ledger and receipts.
LEMMA MoveOn ==
    ASSUME BridgeInv, NEW t \in Threads, Handling(t),
           NEW p \in Steps \ {"idle", "cursor"}, Goto(t, p), NoFault \/ Fault,
           UNCHANGED <<sent, unread, receipt, ledger, cursor, stream, host>>,
           p \in Routed => h[t].sess \in Sessions,
           p = "write" => inbox[Msg(t)][h[t].sess] = 0,
           p = "wake" => inbox[Msg(t)][h[t].sess] > 0,
           p = "submitted" => Carried(Msg(t)),
           p \in {"submit", "consume", "consumed"} => ledger[Msg(t)].local,
           p \in Vetted => Msg(t) \notin Rejected,
           p \in {"soft", "close"} /\ Msg(t) \in Rejected /\ faults' = 0 => receipt[Msg(t)] = "dead"
    PROVE  BridgeInv'
<1>1. PICK m \in Msgs : Msg(t) = m  BY InHandle
<1>2. PICK c \in {"none", "accepted", "submitted", "consumed", "dead"} : c = receipt[m]
  BY <1>1, InHandle
<1>3. /\ ledger' \in [Msgs -> Row] /\ \A k \in Msgs \ {m} : ledger'[k] = ledger[k]
      /\ receipt' = [receipt EXCEPT ![m] = c]
      /\ ledger'[m] = ledger[m] /\ Open(ledger[m])
      /\ ledger[m].local => Carried(m)
      /\ c \in {"submitted", "consumed"} => ledger[m].local
      /\ m \in Rejected => c \in {"none", "dead"}
  BY <1>1, <1>2, InHandle
<1> QED  BY <1>1, <1>2, <1>3, GotoStep

\* A goroutine takes up a session, or finds that there is none.
Routes(t, p, s) == h' = [h EXCEPT ![t].at = p, ![t].sess = s]

LEMMA RouteFacts ==
    ASSUME h \in [Threads -> Handler], NEW t \in Threads, NEW p \in Steps,
           NEW s \in Sessions \cup {Unbound},
           Routes(t, p, s)
    PROVE  /\ h' \in [Threads -> Handler]
           /\ h'[t].at = p /\ h'[t].msg = Msg(t) /\ h'[t].sess = s /\ h'[t].row = h[t].row
           /\ \A u \in Threads \ {t} : h'[u] = h[u]
<1>1. h[t] \in Handler  OBVIOUS
<1> QED  BY <1>1 DEF Routes, Handler, Msg

LEMMA ResolveKeeps ==
    ASSUME BridgeInv, NEW t \in Threads, Resolve(t)
    PROVE  BridgeInv'
<1>0. Handling(t)  BY DEF Resolve, At, Handling
<1>1. CASE Fault /\ (Defer(Msg(t), 0) \/ UNCHANGED ledger) /\ Return(t)
  BY <1>0, <1>1, PutOff DEF Resolve, tether
<1>2. CASE /\ NoFault /\ UNCHANGED ledger
           /\ h' = [h EXCEPT ![t].at = IF bound = Unbound THEN "start" ELSE "claim", ![t].sess = bound]
  <2>1. PICK m \in Msgs : Msg(t) = m  BY <1>0, InHandle
  <2>2. TypeOK /\ SessionsOK /\ HandlerOK(t) /\ MessageOK(m)  BY DEF BridgeInv
  <2>3. UNCHANGED <<sent, unread, receipt, ledger, cursor, stream, host>>
    BY <1>2 DEF Resolve, tether
  <2>4. h \in [Threads -> Handler] /\ bound \in Sessions \cup {Unbound}  BY <2>2 DEF TypeOK
  <2>5. /\ h' \in [Threads -> Handler]
        /\ h'[t].at = IF bound = Unbound THEN "start" ELSE "claim"
        /\ h'[t].msg = m /\ h'[t].sess = bound /\ h'[t].row = h[t].row
        /\ \A u \in Threads \ {t} : h'[u] = h[u]
    <3>1. PICK p \in Steps : p = IF bound = Unbound THEN "start" ELSE "claim"  BY DEF Steps
    <3>2. PICK s \in Sessions \cup {Unbound} : s = bound  BY <2>4
    <3>3. Routes(t, p, s)  BY <1>2, <3>1, <3>2 DEF Routes
    <3>4. /\ h' \in [Threads -> Handler]
          /\ h'[t].at = p /\ h'[t].msg = Msg(t) /\ h'[t].sess = s /\ h'[t].row = h[t].row
          /\ \A u \in Threads \ {t} : h'[u] = h[u]
      BY <2>4, <3>3, RouteFacts
    <3> QED  BY <2>1, <3>1, <3>2, <3>4
  <2>6. TypeOK' /\ SessionsOK'
    BY <1>2, <2>2, <2>3, <2>5, FaultFacts, SessionsKept DEF TypeOK, host
  <2>7. Handling(t)' /\ Msg(t)' = m  BY <2>5 DEF Handling, Msg
  <2>8. HandlerOK(t)'
    BY <1>0, <2>1, <2>2, <2>3, <2>4, <2>5, <2>7 DEF HandlerOK, At, Routed, Vetted
  <2>9. MessageOK(m)' /\ \A k \in Msgs \ {m} : Spared(k)
    <3>1. \A k \in Msgs : Spared(k)  BY <1>2, <2>3 DEF Spared, NoFault, host
    <3>2. Sent(m)' => Sent(m)  BY <2>3 DEF Sent
    <3> QED  BY <2>2, <3>1, <3>2, SparedMessage
  <2> QED  BY <1>0, <2>1, <2>3, <2>5, <2>6, <2>7, <2>8, <2>9, HandlerFrame
<1> QED  BY <1>1, <1>2 DEF Resolve

\* A new session is the next number, and there is one: each of the earlier ones was
\* lost to a fault.
LEMMA NewSession ==
    ASSUME TypeOK, SessionsOK, NoFault,
           started' = IF bound = Unbound THEN started + 1 ELSE started,
           bound' = IF bound = Unbound THEN started + 1 ELSE bound,
           ended' = ended
    PROVE  SessionsOK' /\ started' \in Nat /\ bound' \in Sessions
<1>1. /\ faults \in 0..MaxFaults /\ faults' = faults /\ MaxFaults \in Nat /\ started \in Nat
      /\ bound \in Sessions \cup {Unbound} /\ ended \subseteq Sessions
  BY BridgeAssumption DEF TypeOK, NoFault
<1>2. CASE bound # Unbound  BY <1>1, <1>2 DEF SessionsOK, Unbound
<1>3. CASE bound = Unbound
  <2>1. started <= faults /\ started' = started + 1 /\ bound' = started + 1  BY <1>3 DEF SessionsOK
  <2>2. started + 1 \in Sessions /\ started + 1 # 0 /\ started + 1 <= faults + 1
    BY SMTT(30), <1>1, <2>1 DEF Sessions
  <2>3. \A s \in ended : s <= started + 1 /\ s # started + 1
    BY SMTT(30), <1>1 DEF SessionsOK, Sessions
  <2>4. started + 1 \in Nat  BY SMTT(30), <1>1
  <2> QED  BY <1>1, <2>1, <2>2, <2>3, <2>4 DEF SessionsOK, Unbound
<1> QED  BY <1>2, <1>3

LEMMA StartSessionKeeps ==
    ASSUME BridgeInv, NEW t \in Threads, StartSession(t)
    PROVE  BridgeInv'
<1>0. Handling(t)  BY DEF StartSession, At, Handling
<1>1. CASE Fault /\ (Defer(Msg(t), 1) \/ UNCHANGED ledger) /\ Return(t) /\ UNCHANGED <<bound, started>>
  BY <1>0, <1>1, PutOff DEF StartSession, tether, host
<1>2. CASE /\ NoFault /\ UNCHANGED ledger
           /\ started' = IF bound = Unbound THEN started + 1 ELSE started
           /\ bound' = IF bound = Unbound THEN started + 1 ELSE bound
           /\ h' = [h EXCEPT ![t].at = "claim", ![t].sess = bound']
  <2>1. PICK m \in Msgs : Msg(t) = m  BY <1>0, InHandle
  <2>2. TypeOK /\ SessionsOK /\ HandlerOK(t) /\ MessageOK(m)  BY DEF BridgeInv
  <2>3. UNCHANGED <<sent, unread, receipt, ledger, cursor, stream, ended, busy, inbox, react, woken>>
    BY <1>2 DEF StartSession, tether
  <2>4. SessionsOK' /\ started' \in Nat /\ bound' \in Sessions  BY <1>2, <2>2, <2>3, NewSession
  <2>5. /\ h' \in [Threads -> Handler]
        /\ h'[t].at = "claim" /\ h'[t].msg = m /\ h'[t].sess = bound' /\ h'[t].row = h[t].row
        /\ \A u \in Threads \ {t} : h'[u] = h[u]
    <3>1. h \in [Threads -> Handler]  BY <2>2 DEF TypeOK
    <3>2. PICK s \in Sessions \cup {Unbound} : s = bound'  BY <2>4
    <3>3. Routes(t, "claim", s) /\ "claim" \in Steps  BY <1>2, <3>2 DEF Routes, Steps
    <3>4. /\ h' \in [Threads -> Handler]
          /\ h'[t].at = "claim" /\ h'[t].msg = Msg(t) /\ h'[t].sess = s /\ h'[t].row = h[t].row
          /\ \A u \in Threads \ {t} : h'[u] = h[u]
      BY <3>1, <3>3, RouteFacts
    <3> QED  BY <2>1, <3>2, <3>4
  <2>6. TypeOK'  BY <1>2, <2>2, <2>3, <2>4, <2>5, FaultFacts DEF TypeOK
  <2>7. Handling(t)' /\ Msg(t)' = m  BY <2>5 DEF Handling, Msg
  <2>8. HandlerOK(t)'
    BY <1>0, <2>1, <2>2, <2>3, <2>4, <2>5, <2>7 DEF HandlerOK, At, Routed, Vetted
  <2>9. MessageOK(m)' /\ \A k \in Msgs \ {m} : Spared(k)
    <3>1. \A k \in Msgs : Spared(k)  BY <1>2, <2>3 DEF Spared, NoFault
    <3>2. Sent(m)' => Sent(m)  BY <2>3 DEF Sent
    <3> QED  BY <2>2, <3>1, <3>2, SparedMessage
  <2> QED  BY <1>0, <2>1, <2>3, <2>4, <2>5, <2>6, <2>7, <2>8, <2>9, HandlerFrame
<1> QED  BY <1>1, <1>2 DEF StartSession

LEMMA ClaimKeeps ==
    ASSUME BridgeInv, NEW t \in Threads, Claim(t)
    PROVE  BridgeInv'
<1>0. Handling(t) /\ h[t].at \in Routed  BY DEF Claim, At, Handling, Routed
<1>1. h[t].sess \in Sessions  BY <1>0 DEF BridgeInv, HandlerOK
<1>2. PICK p \in {"reject", "accept", "soft"} :
        /\ Goto(t, p) /\ (NoFault \/ Fault)
        /\ p = "accept" => Msg(t) \notin Rejected
        /\ p = "soft" => Fault \/ Over(Msg(t))
  BY DEF Claim
<1>3. p \in Steps \ {"idle", "cursor"}  BY DEF Steps
<1>4. p = "soft" /\ Msg(t) \in Rejected /\ faults' = 0 => receipt[Msg(t)] = "dead"
  <2>1. Msg(t) \in Rejected => receipt[Msg(t)] \in {"none", "dead"}  BY <1>0, InHandle
  <2> QED  BY <1>2, <2>1, FaultIsOne DEF BridgeInv, Over
<1> QED  BY <1>0, <1>1, <1>2, <1>3, <1>4, MoveOn DEF Claim, tether, Vetted

\* A receipt, sent from a step after which the local id is recorded, or before
\* anything is delivered.
LEMMA AckKeeps ==
    ASSUME BridgeInv, NEW t \in Threads,
           NEW from \in {"accept", "submit", "consume"},
           NEW stage \in {"accepted", "submitted", "consumed"},
           NEW next \in {"accepted", "consume", "consumed"},
           from = "accept" => stage = "accepted" /\ next = "accepted",
           from # "accept" => next \in {"consume", "consumed"},
           Ack(t, from, stage, next)
    PROVE  BridgeInv'
<1>0. Handling(t) /\ h[t].at = from  BY DEF Ack, At, Handling
<1>1. PICK m \in Msgs : Msg(t) = m  BY <1>0, InHandle
<1>2. PICK p \in {next, "soft"} : Goto(t, p) /\ (NoFault \/ Fault)  BY DEF Ack
<1>3. PICK c \in {stage, receipt[m]} : receipt' = [receipt EXCEPT ![m] = c]
  BY <1>0, <1>1, InHandle DEF Ack
<1>4. /\ ledger \in [Msgs -> Row] /\ Open(ledger[m]) /\ (ledger[m].local => Carried(m))
      /\ receipt[m] \in {"none", "accepted", "submitted", "consumed", "dead"}
      /\ receipt[m] \in {"submitted", "consumed"} => ledger[m].local
  BY <1>0, <1>1, InHandle
<1>5. /\ from # "accept" => ledger[m].local
      /\ m \notin Rejected
      /\ from = "accept" => h[t].sess \in Sessions
  BY <1>0, <1>1 DEF BridgeInv, HandlerOK, Vetted, Routed
<1>6. /\ p \in Steps \ {"idle", "cursor"} /\ p \notin {"write", "wake", "submitted", "submit"}
      /\ p \in Routed => from = "accept"
      /\ p \in {"consume", "consumed"} => from # "accept"
  BY DEF Steps, Routed
<1>7. ledger' = ledger /\ UNCHANGED <<sent, unread, cursor, stream, host>>  BY DEF Ack
<1>8. c \in {"none", "accepted", "submitted", "consumed", "dead"} /\ (c \in {"submitted", "consumed"} => ledger[m].local)
  BY <1>4, <1>5
<1> QED  BY <1>0, <1>1, <1>2, <1>3, <1>4, <1>5, <1>6, <1>7, <1>8, GotoStep

LEMMA RecordAcceptedKeeps ==
    ASSUME BridgeInv, NEW t \in Threads, RecordAccepted(t)
    PROVE  BridgeInv'
<1>0. Handling(t) /\ h[t].at = "accepted"  BY DEF RecordAccepted, At, Handling
<1>1. PICK m \in Msgs : Msg(t) = m  BY <1>0, InHandle
<1>2. /\ m \notin Rejected /\ h[t].sess \in Sessions
      /\ h[t].row.local => ledger[m].local
  BY <1>0, <1>1 DEF BridgeInv, HandlerOK, Vetted, Routed
<1>3. UNCHANGED <<sent, unread, receipt, cursor, stream, host>>  BY DEF RecordAccepted, tether
<1>4. PICK p \in {"submit", "inject", "soft"} :
        /\ Goto(t, p) /\ (NoFault \/ Fault)
        /\ p = "submit" => h[t].row.local
        /\ UNCHANGED ledger \/ Advance(m, "accepted", FALSE)
  BY <1>1 DEF RecordAccepted
<1>5. p \in Steps \ {"idle", "cursor"}  BY DEF Steps
<1>6. CASE UNCHANGED ledger
  BY <1>0, <1>1, <1>2, <1>3, <1>4, <1>5, <1>6, MoveOn
<1>7. CASE Advance(m, "accepted", FALSE)
  <2>1. /\ ledger \in [Msgs -> Row] /\ Open(ledger[m]) /\ (ledger[m].local => Carried(m))
        /\ receipt[m] \in {"none", "accepted", "submitted", "consumed", "dead"}
        /\ receipt = [receipt EXCEPT ![m] = receipt[m]]
        /\ receipt[m] \in {"submitted", "consumed"} => ledger[m].local
    BY <1>0, <1>1, InHandle
  <2>2. "accepted" \in States \ {"absent"} /\ FALSE \in BOOLEAN  BY DEF States
  <2>3. /\ ledger' \in [Msgs -> Row] /\ \A k \in Msgs \ {m} : ledger'[k] = ledger[k]
        /\ ledger'[m] = Advanced(ledger[m], "accepted", FALSE)
    BY <1>7, <2>1, <2>2, AdvanceFacts
  <2>4. Open(ledger'[m]) /\ ledger'[m].local = ledger[m].local
    BY SMTT(30), <2>1, <2>3 DEF Advanced, Open, Terminal, Row
  <2>5. PICK c \in {"none", "accepted", "submitted", "consumed", "dead"} : c = receipt[m]
    BY <2>1
  <2>6. receipt' = [receipt EXCEPT ![m] = c]  BY <1>3, <2>1, <2>5
  <2> QED  BY <1>0, <1>1, <1>2, <1>3, <1>4, <1>5, <2>1, <2>3, <2>4, <2>5, <2>6, GotoStep
<1> QED  BY <1>4, <1>6, <1>7

LEMMA InjectKeeps ==
    ASSUME BridgeInv, NEW t \in Threads, Inject(t)
    PROVE  BridgeInv'
<1>0. Handling(t) /\ h[t].at = "inject"  BY DEF Inject, At, Handling
<1>1. Msg(t) \notin Rejected /\ h[t].sess \in Sessions
  BY <1>0 DEF BridgeInv, HandlerOK, Vetted, Routed
<1>2. UNCHANGED <<sent, unread, receipt, cursor, stream, host>>  BY DEF Inject, tether
<1>3. CASE Postpone(t, 0)  BY <1>0, <1>2, <1>3, PostponeKeeps
<1>4. CASE ~Postpone(t, 0)
  <2>1. PICK p \in {"wake", "write", "retry"} :
          /\ Goto(t, p) /\ (NoFault \/ Fault) /\ UNCHANGED ledger
          /\ p = "wake" => inbox[Msg(t)][h[t].sess] > 0
          /\ p = "write" => ~(inbox[Msg(t)][h[t].sess] > 0)
    BY <1>4 DEF Inject, Busy
  <2>2. p \in Steps \ {"idle", "cursor"}  BY DEF Steps
  <2>3. inbox[Msg(t)][h[t].sess] \in Nat
    BY SMTT(30), <1>0, <1>1, InHandle DEF BridgeInv, TypeOK
  <2>4. p = "write" => inbox[Msg(t)][h[t].sess] = 0  BY SMTT(30), <2>1, <2>3
  <2> QED  BY <1>0, <1>1, <1>2, <2>1, <2>2, <2>4, MoveOn
<1> QED  BY <1>3, <1>4

LEMMA WriteKeeps ==
    ASSUME BridgeInv, NEW t \in Threads, Write(t)
    PROVE  BridgeInv'
<1>0. Handling(t) /\ h[t].at = "write"  BY DEF Write, At, Handling
<1>1. PICK m \in Msgs : Msg(t) = m  BY <1>0, InHandle
<1>2. PICK s \in Sessions : h[t].sess = s  BY <1>0 DEF BridgeInv, HandlerOK, Routed
<1>3. m \notin Rejected /\ inbox[m][s] = 0
  BY <1>0, <1>1, <1>2 DEF BridgeInv, HandlerOK, Vetted, At
<1>4. CASE Fault /\ Goto(t, "retry") /\ UNCHANGED <<inbox, react>>
  <2>1. "retry" \in Steps \ {"idle", "cursor"} /\ "retry" \notin Routed  BY DEF Steps, Routed
  <2> QED  BY <1>0, <1>1, <1>3, <1>4, <2>1, MoveOn DEF Write, tether, host
<1>5. CASE NoFault /\ SendMessage(Msg(t), h[t].sess) /\ Goto(t, "wake")
  <2>0. SendMessage(m, s)  BY <1>1, <1>2, <1>5
  <2>1. UNCHANGED <<sent, unread, receipt, ledger, cursor, stream, bound, started, ended, busy, woken>>
    BY DEF Write, tether
  <2>2. TypeOK /\ SessionsOK /\ HandlerOK(t) /\ MessageOK(m)  BY DEF BridgeInv
  <2>3. h \in [Threads -> Handler] /\ inbox \in [Msgs -> [Sessions -> Nat]] /\ react \subseteq Msgs \X Sessions
    BY <2>2 DEF TypeOK
  <2>4. "wake" \in Steps /\ "wake" \in Routed  BY DEF Steps, Routed
  <2>5. /\ h' \in [Threads -> Handler]
        /\ h'[t].at = "wake" /\ h'[t].msg = m /\ h'[t].sess = s /\ h'[t].row = h[t].row
        /\ \A u \in Threads \ {t} : h'[u] = h[u]
    BY <1>1, <1>2, <1>5, <2>3, <2>4, GotoFacts
  <2>6. /\ inbox' \in [Msgs -> [Sessions -> Nat]] /\ inbox'[m][s] = 1
        /\ \A x \in Sessions \ {s} : inbox'[m][x] = inbox[m][x]
        /\ \A k \in Msgs \ {m} : inbox'[k] = inbox[k]
    BY SMTT(30), <1>3, <2>0, <2>3 DEF SendMessage
  <2>7. react' \subseteq Msgs \X Sessions
    <3>1. <<m, s>> \in Msgs \X Sessions  OBVIOUS
    <3> QED  BY <2>0, <2>3, <3>1 DEF SendMessage
  <2>8. \A k \in Msgs \ {m}, x \in Sessions : <<k, x>> \in react' => <<k, x>> \in react
    BY <2>0 DEF SendMessage
  <2>9. TypeOK'
    BY <1>5, <2>1, <2>2, <2>5, <2>6, <2>7, FaultFacts DEF TypeOK
  <2>10. SessionsOK'  BY <1>5, <2>1, <2>2, SessionsKept
  <2>11. Handling(t)' /\ Msg(t)' = m  BY <2>5 DEF Handling, Msg
  <2>12. HandlerOK(t)'
    <3>1. Open(ledger'[m]) /\ (h'[t].row.local => ledger'[m].local)
      BY <1>0, <1>1, <2>1, <2>2, <2>5 DEF HandlerOK
    <3>2. inbox'[m][s] > 0
      <4>1. inbox'[m][s] = 1  BY <2>6
      <4>2. 1 > 0  BY SMTT(30)
      <4> QED  BY <4>1, <4>2
    <3> QED  BY <1>2, <1>3, <2>5, <2>11, <3>1, <3>2 DEF HandlerOK, At
  <2>13. Carried(m) => Carried(m)'
    BY SMTT(30), <1>3, <2>1, <2>3, <2>6 DEF Carried
  <2>14. MessageOK(m)'
    <3>1. \A x \in Sessions : inbox'[m][x] <= 1
      <4>1. \A x \in Sessions : inbox[m][x] <= 1  BY <2>2 DEF MessageOK
      <4>2. \A x \in Sessions : inbox'[m][x] = 1 \/ inbox'[m][x] = inbox[m][x]  BY <2>6
      <4>3. 1 <= 1  BY SMTT(30)
      <4> QED  BY <4>1, <4>2, <4>3
    <3>2. Sent(m)' = Sent(m)  BY <2>1 DEF Sent
    <3> QED  BY <1>3, <2>1, <2>2, <2>13, <3>1, <3>2 DEF MessageOK, Buried
  <2>15. \A k \in Msgs \ {m} : Spared(k)  BY <1>5, <2>1, <2>2, <2>6, <2>8, FaultFacts DEF Spared
  <2>16. sent' = sent /\ h'[t].msg = IF Handling(t)' THEN m ELSE NoMsg
    BY <2>1, <2>5, <2>11
  <2> QED  BY <1>0, <1>1, <2>5, <2>9, <2>10, <2>12, <2>14, <2>15, <2>16, HandlerFrame
<1> QED  BY <1>4, <1>5 DEF Write

\* A turn is started for the message whose mailbox row was written.
LEMMA TurnKeeps ==
    ASSUME BridgeInv, NEW t \in Threads, NEW m \in Msgs, NEW s \in Sessions,
           Msg(t) = m, h[t].at = "wake", h[t].sess = s, NoFault, Turn(m, s), Goto(t, "submitted"),
           UNCHANGED <<sent, unread, receipt, ledger, cursor, stream, bound, started, ended, inbox, react>>
    PROVE  BridgeInv'
<1>0. Handling(t)  BY DEF Handling
<1>1. TypeOK /\ SessionsOK /\ HandlerOK(t) /\ MessageOK(m)  BY DEF BridgeInv
<1>2. inbox[m][s] > 0 /\ m \notin Rejected  BY <1>0, <1>1 DEF HandlerOK, Vetted, At
<1>3. h \in [Threads -> Handler] /\ woken \in [Msgs -> Nat] /\ busy \subseteq Sessions
  BY <1>1 DEF TypeOK
<1>4. "submitted" \in Steps /\ "submitted" \notin Routed \cup {"retry"}  BY DEF Steps, Routed
<1>5. /\ h' \in [Threads -> Handler]
      /\ h'[t].at = "submitted" /\ h'[t].msg = m /\ ~h'[t].row.local
      /\ \A u \in Threads \ {t} : h'[u] = h[u]
  BY SMTT(30), <1>3, <1>4, GotoFacts DEF NoRow
<1>6. /\ woken' \in [Msgs -> Nat] /\ woken'[m] > 0 /\ busy' \subseteq Sessions
      /\ \A k \in Msgs \ {m} : woken'[k] = woken[k]
  BY SMTT(30), <1>3 DEF Turn
<1>7. TypeOK'  BY <1>1, <1>5, <1>6, FaultFacts DEF TypeOK
<1>8. SessionsOK'  BY <1>1, SessionsKept
<1>9. Carried(m)'  BY <1>2, <1>6 DEF Carried
<1>10. Handling(t)' /\ Msg(t)' = m  BY <1>5 DEF Handling, Msg
<1>11. HandlerOK(t)'
  BY <1>0, <1>1, <1>2, <1>4, <1>5, <1>9, <1>10 DEF HandlerOK, At
<1>12. MessageOK(m)'  BY <1>1, <1>2, <1>9 DEF MessageOK, Sent, Buried
<1>13. \A k \in Msgs \ {m} : Spared(k)  BY <1>1, <1>6, FaultFacts DEF Spared
<1>14. h'[t].msg = IF Handling(t)' THEN m ELSE NoMsg  BY <1>5, <1>10
<1> QED  BY <1>0, <1>5, <1>7, <1>8, <1>11, <1>12, <1>13, <1>14, HandlerFrame

LEMMA WakeKeeps ==
    ASSUME BridgeInv, NEW t \in Threads, Wake(t)
    PROVE  BridgeInv'
<1>0. Handling(t) /\ h[t].at = "wake"  BY DEF Wake, At, Handling
<1>1. PICK m \in Msgs : Msg(t) = m  BY <1>0, InHandle
<1>2. PICK s \in Sessions : h[t].sess = s  BY <1>0 DEF BridgeInv, HandlerOK, Routed
<1>3. m \notin Rejected /\ inbox[m][s] > 0
  BY <1>0, <1>1, <1>2 DEF BridgeInv, HandlerOK, Vetted, At
<1>4. UNCHANGED <<sent, unread, receipt, cursor, stream, started, ended, inbox, react>>
  BY DEF Wake, tether
<1>5. CASE h[t].sess \in Reactive /\ NoFault /\ Goto(t, "submitted") /\ UNCHANGED <<ledger, bound, busy, woken>>
  <2>1. "submitted" \in Steps \ {"idle", "cursor"} /\ "submitted" \notin Routed  BY DEF Steps, Routed
  <2>2. Carried(m)
    <3>1. s \in Sessions \cap Reactive  BY <1>2, <1>5
    <3>2. \E x \in Sessions \cap Reactive : inbox[m][x] > 0  BY <1>3, <3>1
    <3>3. \E x \in Sessions : inbox[m][x] > 0  BY <1>3
    <3> QED  BY <3>2, <3>3 DEF Carried
  <2> QED  BY <1>0, <1>1, <1>3, <1>4, <1>5, <2>1, <2>2, MoveOn DEF host
<1>6. CASE /\ NoFault /\ h[t].sess \in ended
           /\ bound' = IF bound = h[t].sess THEN Unbound ELSE bound
           /\ Goto(t, "retry") /\ UNCHANGED <<ledger, busy, woken>>
  <2>1. "retry" \in Steps \ {"idle", "cursor"} /\ "retry" \notin Routed  BY DEF Steps, Routed
  <2>2. bound' = bound  BY <1>6 DEF BridgeInv, SessionsOK
  <2> QED  BY <1>0, <1>1, <1>3, <1>4, <1>6, <2>1, <2>2, MoveOn DEF host
<1>7. CASE Busy(t) /\ UNCHANGED <<bound, busy, woken>>
  BY <1>0, <1>4, <1>7, PostponeKeeps DEF Busy, host
<1>8. CASE NoFault /\ Turn(Msg(t), h[t].sess) /\ Goto(t, "submitted") /\ UNCHANGED <<ledger, bound>>
  BY <1>0, <1>1, <1>2, <1>4, <1>8, TurnKeeps
<1>9. CASE /\ Fault /\ \E p \in {"retry", "undeliverable"} : Goto(t, p)
           /\ UNCHANGED <<ledger, bound, busy, woken>>
  <2>1. PICK p \in {"retry", "undeliverable"} : Goto(t, p)  BY <1>9
  <2>2. p \in Steps \ {"idle", "cursor"} /\ p \notin Routed  BY DEF Steps, Routed
  <2> QED  BY <1>0, <1>1, <1>3, <1>4, <1>9, <2>1, <2>2, MoveOn DEF host
<1> QED  BY <1>5, <1>6, <1>7, <1>8, <1>9 DEF Wake

LEMMA RecordSubmittedKeeps ==
    ASSUME BridgeInv, NEW t \in Threads, RecordSubmitted(t)
    PROVE  BridgeInv'
<1>0. Handling(t) /\ h[t].at = "submitted"  BY DEF RecordSubmitted, At, Handling
<1>1. PICK m \in Msgs : Msg(t) = m  BY <1>0, InHandle
<1>2. m \notin Rejected /\ Carried(m)  BY <1>0, <1>1 DEF BridgeInv, HandlerOK, Vetted, At
<1>3. UNCHANGED <<sent, unread, receipt, cursor, stream, host>>  BY DEF RecordSubmitted, tether
<1>4. CASE Fault /\ UNCHANGED ledger /\ Goto(t, "soft")
  <2>1. "soft" \in Steps \ {"idle", "cursor"} /\ "soft" \notin Routed \cup Vetted
    BY DEF Steps, Routed, Vetted
  <2> QED  BY <1>0, <1>1, <1>2, <1>3, <1>4, <2>1, MoveOn
<1>5. CASE NoFault /\ Advance(m, "submitted", TRUE) /\ Goto(t, "submit")
  <2>1. /\ ledger \in [Msgs -> Row] /\ ledger[m] \in Row /\ Open(ledger[m])
        /\ receipt[m] \in {"none", "accepted", "submitted", "consumed", "dead"}
        /\ receipt = [receipt EXCEPT ![m] = receipt[m]]
    BY <1>0, <1>1, InHandle
  <2>2. "submitted" \in States \ {"absent"} /\ TRUE \in BOOLEAN  BY DEF States
  <2>3. /\ ledger' \in [Msgs -> Row] /\ \A k \in Msgs \ {m} : ledger'[k] = ledger[k]
        /\ ledger'[m] = Advanced(ledger[m], "submitted", TRUE)
    BY <1>5, <2>1, <2>2, AdvanceFacts
  <2>4. Open(ledger'[m]) /\ ledger'[m].local
    <3>1. Rank(ledger[m].state) <= Rank("submitted")
      BY SMTT(30), <2>1 DEF Open, Terminal, Row, States, Rank
    <3>2. ledger'[m].state = "submitted" /\ ledger'[m].local
      BY <1>5, <2>1, <2>2, <3>1, AdvanceFacts
    <3> QED  BY <3>2 DEF Open, Terminal
  <2>5. PICK c \in {"none", "accepted", "submitted", "consumed", "dead"} : c = receipt[m]
    BY <2>1
  <2>6. receipt' = [receipt EXCEPT ![m] = c]  BY <1>3, <2>1, <2>5
  <2>7. "submit" \in Steps \ {"idle", "cursor"} /\ "submit" \notin Routed  BY DEF Steps, Routed
  <2> QED  BY <1>0, <1>1, <1>2, <1>3, <1>5, <2>1, <2>3, <2>4, <2>5, <2>6, <2>7, GotoStep
<1> QED  BY <1>1, <1>4, <1>5 DEF RecordSubmitted

LEMMA CloseRowKeeps ==
    ASSUME BridgeInv, NEW t \in Threads, CloseRow(t)
    PROVE  BridgeInv'
<1>0. Handling(t) /\ h[t].at \in {"consumed", "close"}  BY DEF CloseRow, At, Handling
<1>1. PICK m \in Msgs : Msg(t) = m  BY <1>0, InHandle
<1>2. (h[t].at = "consumed" => ledger[m].local) /\ Buried(m)
  BY <1>0, <1>1 DEF BridgeInv, HandlerOK, Vetted, Buried
<1>3. /\ ledger \in [Msgs -> Row] /\ ledger[m] \in Row /\ Open(ledger[m])
  BY <1>0, <1>1, InHandle
<1>4. /\ UNCHANGED <<sent, receipt, cursor, stream, host>> /\ Return(t) /\ (NoFault \/ Fault)
  BY DEF CloseRow
<1>5. CASE UNCHANGED <<ledger, unread>>
  BY <1>0, <1>1, <1>2, <1>3, <1>4, <1>5, ReturnStep DEF Open, Terminal
<1>6. CASE /\ Advance(m, IF At(t, "consumed") THEN "consumed" ELSE "failed", FALSE)
           /\ unread' = unread \ {m} \/ UNCHANGED unread
  <2>1. PICK state \in {"consumed", "failed"} :
          Advance(m, state, FALSE) /\ (state = "consumed" => h[t].at = "consumed")
    BY <1>6 DEF At
  <2>2. state \in States \ {"absent"} /\ FALSE \in BOOLEAN  BY DEF States
  <2>3. /\ ledger' \in [Msgs -> Row] /\ \A k \in Msgs \ {m} : ledger'[k] = ledger[k]
        /\ ledger'[m] = Advanced(ledger[m], state, FALSE)
    BY <1>3, <2>1, <2>2, AdvanceFacts
  <2>4. ledger'[m].state = state /\ ledger'[m].local = ledger[m].local
    BY SMTT(30), <1>3, <2>3 DEF Advanced, Open, Terminal, Row, States, Rank
  <2>5. Terminal(ledger'[m])  BY <2>4 DEF Terminal
  <2>6. ledger'[m].state = "consumed" => ledger[m].local  BY <1>2, <2>1, <2>4
  <2> QED  BY <1>0, <1>1, <1>2, <1>4, <1>6, <2>3, <2>4, <2>5, <2>6, ReturnStep
<1> QED  BY <1>1, <1>5, <1>6 DEF CloseRow

LEMMA SoftFailKeeps ==
    ASSUME BridgeInv, NEW t \in Threads, SoftFail(t)
    PROVE  BridgeInv'
<1>0. Handling(t)  BY DEF SoftFail, At, Handling
<1>1. PICK m \in Msgs : Msg(t) = m  BY <1>0, InHandle
<1>2. /\ ledger \in [Msgs -> Row] /\ ledger[m] \in Row /\ Open(ledger[m])
  BY <1>0, <1>1, InHandle
<1>3. /\ UNCHANGED <<sent, unread, receipt, cursor, stream, host>> /\ Return(t) /\ (NoFault \/ Fault)
  BY DEF SoftFail, tether
<1>4. PICK row : /\ row \in {ledger[m], Deferred(ledger[m], 1), Advanced(Deferred(ledger[m], 1), "failed", FALSE)}
                 /\ ledger' = [ledger EXCEPT ![m] = row]
  <2>1. ledger = [ledger EXCEPT ![m] = ledger[m]]  BY <1>2
  <2> QED  BY <1>1, <2>1 DEF SoftFail
<1>5. /\ Deferred(ledger[m], 1) \in Row
      /\ Deferred(ledger[m], 1).local = ledger[m].local
      /\ Deferred(ledger[m], 1).state = ledger[m].state
  BY <1>2, DeferredRow
<1>6. row \in Row /\ row.local = ledger[m].local /\ row.state \notin {"absent", "consumed"}
  <2>1. CASE row \in {ledger[m], Deferred(ledger[m], 1)}
    BY <1>2, <1>5, <2>1 DEF Open, Terminal
  <2>2. CASE row = Advanced(Deferred(ledger[m], 1), "failed", FALSE)
    <3>1. PICK d \in Row : d = Deferred(ledger[m], 1)  BY <1>5
    <3>2. "failed" \in States \ {"absent"} /\ FALSE \in BOOLEAN  BY DEF States
    <3>3. Advanced(d, "failed", FALSE) \in Row /\ Advanced(d, "failed", FALSE).local = d.local
      BY <3>2, AdvancedRow
    <3>4. Advanced(d, "failed", FALSE).state \in {"failed", d.state}  BY DEF Advanced, Row
    <3> QED  BY <1>2, <1>5, <2>2, <3>1, <3>3, <3>4 DEF Open, Terminal
  <2> QED  BY <1>4, <2>1, <2>2
<1>7. /\ ledger' \in [Msgs -> Row] /\ \A k \in Msgs \ {m} : ledger'[k] = ledger[k]
      /\ ledger'[m] = row
  BY <1>2, <1>4, <1>6
<1>8. Buried(m)  BY <1>0, <1>1 DEF BridgeInv, HandlerOK, SoftFail, At
<1> QED  BY <1>0, <1>1, <1>3, <1>6, <1>7, <1>8, ReturnStep

LEMMA InjectRetryKeeps ==
    ASSUME BridgeInv, NEW t \in Threads, InjectRetry(t)
    PROVE  BridgeInv'
<1>1. Handling(t)  BY DEF InjectRetry, Retries, At, Handling
<1> QED  BY <1>1, PostponeKeeps DEF InjectRetry, tether

LEMMA DeadLetterKeeps ==
    ASSUME BridgeInv, NEW t \in Threads, DeadLetter(t)
    PROVE  BridgeInv'
<1>0. Handling(t)  BY DEF DeadLetter, At, Handling
<1>1. PICK m \in Msgs : Msg(t) = m  BY <1>0, InHandle
<1>2. /\ ledger \in [Msgs -> Row] /\ Open(ledger[m]) /\ (ledger[m].local => Carried(m))
      /\ receipt[m] \in {"none", "accepted", "submitted", "consumed", "dead"}
      /\ receipt = [receipt EXCEPT ![m] = receipt[m]]
      /\ receipt[m] \in {"submitted", "consumed"} => ledger[m].local
  BY <1>0, <1>1, InHandle
<1>3. PICK c \in {"dead", receipt[m]} :
        receipt' = [receipt EXCEPT ![m] = c] /\ (Fault \/ c = "dead")
  BY <1>1, <1>2 DEF DeadLetter
<1>4. "close" \in Steps \ {"idle", "cursor"} /\ "close" \notin Routed \cup Vetted
  BY DEF Steps, Routed, Vetted
<1>5. UNCHANGED <<sent, unread, ledger, cursor, stream, host>> /\ Goto(t, "close") /\ (NoFault \/ Fault)
  BY DEF DeadLetter
<1>6. c \in {"none", "accepted", "submitted", "consumed", "dead"} /\ (c \in {"submitted", "consumed"} => ledger[m].local)
  BY <1>2
<1>7. (m \in Rejected => c \in {"none", "dead"}) /\ (faults' = 0 => c = "dead")
  <2>1. m \in Rejected => receipt[m] \in {"none", "dead"}  BY <1>0, <1>1, InHandle
  <2> QED  BY <1>3, <2>1, FaultIsOne DEF BridgeInv
<1> QED  BY <1>0, <1>1, <1>2, <1>3, <1>4, <1>5, <1>6, <1>7, GotoStep

LEMMA HandlerStepKeeps ==
    ASSUME BridgeInv, NEW t \in Threads, HandlerStep(t)
    PROVE  BridgeInv'
<1>1. CASE Accept(t) \/ Submit(t) \/ Consume(t)
  BY <1>1, AckKeeps DEF Accept, Submit, Consume
<1> QED
  BY <1>1, ResolveKeeps, StartSessionKeeps, ClaimKeeps, RecordAcceptedKeeps, InjectKeeps,
     WriteKeeps, WakeKeeps, RecordSubmittedKeeps, CloseRowKeeps, SoftFailKeeps,
     InjectRetryKeeps, DeadLetterKeeps
  DEF HandlerStep

-----------------------------------------------------------------------------
(* The goroutines that hand messages to Handle. *)

\* What a recorded row and the record opened for it are.
LEMMA OpenedFacts ==
    ASSUME ledger \in [Msgs -> Row], NEW m \in Msgs, NEW event \in BOOLEAN
    PROVE  /\ Recorded(m) \in Row
           /\ Recorded(m).local => ledger[m].local
           /\ Opened(m, event) \in Handler
           /\ \/ Opened(m, event).at \in {"idle", "cursor"} /\ Opened(m, event).msg = NoMsg
              \/ /\ Opened(m, event).at = "resolve" /\ Opened(m, event).msg = m
                 /\ Opened(m, event).row = Recorded(m) /\ Open(Recorded(m))
<1>1. ledger[m] \in Row  OBVIOUS
<1>2. NoRow \in Row /\ NewRow \in Row /\ NewRow.state = "received" /\ ~NewRow.local
  BY DEF NoRow, NewRow, Row, States
<1>3. /\ Recorded(m) \in Row /\ Recorded(m).state # "absent"
      /\ Recorded(m).local => ledger[m].local
  BY <1>1, <1>2 DEF Recorded
<1>4. PICK row \in Row : row = Recorded(m) /\ row.state # "absent"  BY <1>3
<1>5. CASE Terminal(row) \/ ~row.due
  BY <1>2, <1>3, <1>4, <1>5 DEF Opened, Returned, Idle, Handler, Steps, Unbound
<1>6. CASE ~Terminal(row) /\ row.due
  <2>1. Opened(m, event) = [Idle EXCEPT !.at = "resolve", !.msg = m, !.row = row, !.event = event]
    BY <1>4, <1>6 DEF Opened
  <2> QED  BY <1>2, <1>3, <1>4, <1>6, <2>1 DEF Idle, Handler, Steps, Unbound, Open
<1> QED  BY <1>5, <1>6

LEMMA ReturnedFacts ==
    ASSUME NEW event \in BOOLEAN
    PROVE  /\ Returned(event) \in Handler
           /\ Returned(event).at \in {"idle", "cursor"} /\ Returned(event).msg = NoMsg
<1>1. NoRow \in Row  BY DEF NoRow, Row, States
<1> QED  BY <1>1 DEF Returned, Idle, Handler, Steps, Unbound, NoMsg

\* One goroutine, idle so far, may take up a message that no other has in hand.
LEMMA TakeUp ==
    ASSUME BridgeInv, TypeOK', SessionsOK', NEW t \in Threads,
           \A u \in Threads \ {t} : h'[u] = h[u],
           \A u \in Threads \ {t} : Handling(u) => Spared(Msg(u)),
           Handling(t)' => \A u \in Threads \ {t} : Msg(u) # Msg(t)',
           HandlerOK(t)', \A k \in Msgs : MessageOK(k)'
    PROVE  BridgeInv'
<1>1. \A u \in Threads : HandlerOK(u)'
  <2> SUFFICES ASSUME NEW u \in Threads \ {t} PROVE HandlerOK(u)'  OBVIOUS
  <2> QED  BY SparedHandler DEF BridgeInv
<1>2. \A u \in Threads \ {t} : Handling(u)' = Handling(u) /\ Msg(u)' = Msg(u)
  BY DEF Handling, Msg
<1>3. \A u, v \in Threads : u # v /\ Handling(u)' /\ Handling(v)' => Msg(u)' # Msg(v)'
  BY <1>2 DEF BridgeInv
<1> QED  BY <1>1, <1>3 DEF BridgeInv

\* Handle, called by an idle goroutine that may have moved in the stream.
LEMMA HandleKeeps ==
    ASSUME BridgeInv, NEW t \in Threads, ~Handling(t), NEW m \in Msgs, NEW event \in BOOLEAN,
           Handle(t, m, event), UNCHANGED <<sent, receipt, cursor, host>>,
           stream' \in [on : {"off", "listed", "follow"}, pos : 0..Len(sent), todo : SUBSET Msgs]
    PROVE  BridgeInv'
<1>0. TypeOK /\ SessionsOK /\ \A k \in Msgs : MessageOK(k)  BY DEF BridgeInv
<1>1. h \in [Threads -> Handler] /\ ledger \in [Msgs -> Row] /\ unread \subseteq Msgs
  BY <1>0 DEF TypeOK
<1>2. NoFault \/ Fault  BY DEF Handle
<1>3. faults' \in 0..MaxFaults /\ SessionsOK' /\ (faults' = 0 => faults = 0)
  BY <1>0, <1>2, FaultFacts, SessionsKept DEF host
<1>4. CASE /\ UNCHANGED <<ledger, unread>>
           /\ h' = [h EXCEPT ![t] = Returned(event)] \/ UNCHANGED h
  <2>1. /\ h' \in [Threads -> Handler] /\ ~Handling(t)' /\ Msg(t)' = NoMsg
        /\ \A u \in Threads \ {t} : h'[u] = h[u]
    <3>1. CASE UNCHANGED h
      <4>1. Msg(t) = NoMsg  BY DEF BridgeInv, HandlerOK
      <4> QED  BY <1>1, <3>1, <4>1 DEF Handling, Msg
    <3>2. CASE h' = [h EXCEPT ![t] = Returned(event)]
      BY <1>1, <3>2, ReturnedFacts DEF Handling, Msg
    <3> QED  BY <1>4, <3>1, <3>2
  <2>2. TypeOK'  BY <1>0, <1>3, <1>4, <2>1 DEF TypeOK, host
  <2>3. \A k \in Msgs : Spared(k)  BY <1>3, <1>4 DEF Spared, host
  <2>4. \A k \in Msgs : MessageOK(k)'
    <3> SUFFICES ASSUME NEW k \in Msgs PROVE MessageOK(k)'  OBVIOUS
    <3>1. Sent(k)' => Sent(k)  BY DEF Sent
    <3> QED  BY <1>0, <2>3, <3>1, SparedMessage
  <2>5. HandlerOK(t)'  BY <2>1 DEF HandlerOK
  <2>6. \A u \in Threads : Handling(u) => Spared(Msg(u))  BY <2>3 DEF BridgeInv, HandlerOK
  <2> QED  BY <1>3, <2>1, <2>2, <2>4, <2>5, <2>6, TakeUp
<1>5. CASE /\ Begins(t, m)
           /\ ledger' = [ledger EXCEPT ![m] = Recorded(m)]
           /\ h' = [h EXCEPT ![t] = Opened(m, event)]
           /\ unread' = (IF Terminal(ledger[m]) THEN unread \ {m} ELSE unread) \/ UNCHANGED unread
  <2>1. /\ Recorded(m) \in Row /\ (Recorded(m).local => ledger[m].local)
        /\ Opened(m, event) \in Handler
        /\ \/ Opened(m, event).at \in {"idle", "cursor"} /\ Opened(m, event).msg = NoMsg
           \/ /\ Opened(m, event).at = "resolve" /\ Opened(m, event).msg = m
              /\ Opened(m, event).row = Recorded(m) /\ Open(Recorded(m))
    BY SMTT(30), <1>1, OpenedFacts
  <2>2. /\ ledger' \in [Msgs -> Row] /\ ledger'[m] = Recorded(m)
        /\ \A k \in Msgs \ {m} : ledger'[k] = ledger[k]
    BY <1>1, <1>5, <2>1
  <2>3. /\ h' \in [Threads -> Handler] /\ h'[t] = Opened(m, event)
        /\ \A u \in Threads \ {t} : h'[u] = h[u]
    BY <1>1, <1>5, <2>1
  <2>4. TypeOK'
    <3>1. unread' \subseteq Msgs  BY <1>1, <1>5
    <3> QED  BY <1>0, <1>3, <2>2, <2>3, <3>1 DEF TypeOK, host
  <2>5. \A k \in Msgs \ {m} : Spared(k)  BY <1>3, <1>5, <2>2 DEF Spared, host
  <2>6. MessageOK(m)'
    <3>1. Carried(m)' = Carried(m) /\ Sent(m)' = Sent(m)  BY DEF Carried, Sent, host
    <3>2. CASE ledger[m].state = "absent"
      <4>1. ledger'[m].state = "received" /\ ~ledger'[m].local /\ ~ledger[m].local /\ ~Terminal(ledger[m])
        BY <1>0, <2>2, <3>2 DEF Recorded, NewRow, NoRow, MessageOK, Terminal
      <4>2. ~Terminal(ledger'[m])  BY <4>1 DEF Terminal
      <4> QED  BY <1>0, <1>5, <3>1, <4>1, <4>2 DEF MessageOK, host
    <3>3. CASE ledger[m].state # "absent"
      <4>1. ledger'[m] = ledger[m]  BY <2>2, <3>3 DEF Recorded
      <4>2. Buried(m) => Buried(m)'  BY <1>3 DEF Buried
      <4> QED  BY <1>0, <1>5, <3>1, <4>1, <4>2 DEF MessageOK, host
    <3> QED  BY <3>2, <3>3
  <2>7. \A k \in Msgs : MessageOK(k)'
    <3> SUFFICES ASSUME NEW k \in Msgs \ {m} PROVE MessageOK(k)'  BY <2>6
    <3>1. Sent(k)' => Sent(k)  BY DEF Sent
    <3> QED  BY <1>0, <2>5, <3>1, SparedMessage
  <2>8. HandlerOK(t)'
    <3>1. CASE h'[t].at \in {"idle", "cursor"} /\ h'[t].msg = NoMsg
      BY <3>1 DEF HandlerOK, Handling, Msg
    <3>2. CASE /\ h'[t].at = "resolve" /\ h'[t].msg = m
               /\ h'[t].row = Recorded(m) /\ Open(Recorded(m))
      BY <2>2, <3>2 DEF HandlerOK, Handling, Msg, At, Routed, Vetted
    <3> QED  BY <2>1, <2>3, <3>1, <3>2
  <2>9. \A u \in Threads \ {t} : Handling(u) => Spared(Msg(u))
    BY <1>5, <2>5 DEF BridgeInv, HandlerOK, Begins
  <2>10. Handling(t)' => \A u \in Threads \ {t} : Msg(u) # Msg(t)'
    BY <1>5, <2>1, <2>3 DEF Handling, Msg, Begins
  <2> QED  BY <1>3, <2>3, <2>4, <2>7, <2>8, <2>9, <2>10, TakeUp
<1> QED  BY <1>4, <1>5 DEF Handle

\* The watch goroutine moves in the stream or stores its position, the environment
\* acts: no goroutine gets hold of a message, and none loses what it relies on.
LEMMA Quiet ==
    ASSUME BridgeInv, TypeOK', SessionsOK', UNCHANGED <<sent, unread, receipt, ledger>>,
           \A t \in Threads : h'[t] = h[t] \/ (~Handling(t)' /\ Msg(t)' = NoMsg),
           \A k \in Msgs : Spared(k)
    PROVE  BridgeInv'
<1>1. \A k \in Msgs : MessageOK(k)'
  <2> SUFFICES ASSUME NEW k \in Msgs PROVE MessageOK(k)'  OBVIOUS
  <2>1. Sent(k)' => Sent(k)  BY DEF Sent
  <2> QED  BY <2>1, SparedMessage DEF BridgeInv
<1>2. \A t \in Threads : HandlerOK(t)'
  <2> SUFFICES ASSUME NEW t \in Threads PROVE HandlerOK(t)'  OBVIOUS
  <2>1. CASE h'[t] = h[t]
    <3>1. Handling(t) => Spared(Msg(t))  BY DEF BridgeInv, HandlerOK
    <3> QED  BY <2>1, <3>1, SparedHandler DEF BridgeInv
  <2>2. CASE ~Handling(t)' /\ Msg(t)' = NoMsg  BY <2>2 DEF HandlerOK
  <2> QED  BY <2>1, <2>2
<1>3. \A t \in Threads : Handling(t)' => Handling(t) /\ Msg(t)' = Msg(t)
  BY DEF Handling, Msg
<1>4. \A t, u \in Threads : t # u /\ Handling(t)' /\ Handling(u)' => Msg(t)' # Msg(u)'
  BY <1>3 DEF BridgeInv
<1> QED  BY <1>1, <1>2, <1>4 DEF BridgeInv

LEMMA WatchKeeps ==
    ASSUME BridgeInv, Watch
    PROVE  BridgeInv'
<1>0. TypeOK /\ SessionsOK /\ "watch" \in Threads  BY DEF BridgeInv, Threads
<1>1. /\ stream \in [on : {"off", "listed", "follow"}, pos : 0..Len(sent), todo : SUBSET Msgs]
      /\ sent \in Seq(Msgs) /\ Len(sent) \in Nat /\ cursor \in 0..Len(sent) /\ unread \subseteq Msgs
      /\ h \in [Threads -> Handler]
  BY SMTT(30), <1>0 DEF TypeOK
<1>2. CASE List \/ Connect
  <2>1. /\ UNCHANGED <<sent, unread, receipt, ledger, cursor, h, host>> /\ (NoFault \/ Fault)
    BY <1>2 DEF List, Connect, tether
  <2>2. stream' \in [on : {"off", "listed", "follow"}, pos : 0..Len(sent), todo : SUBSET Msgs]
    <3>1. CASE List
      <4>1. PICK todo \in {stream.todo, unread}, on \in {"off", "listed", "follow"} :
              stream' = [stream EXCEPT !.todo = todo, !.on = on]
        BY <1>1, <3>1 DEF List
      <4> QED  BY <1>1, <4>1
    <3>2. CASE Connect
      <4>1. PICK pos \in 0..Len(sent) : pos = IF cursor = 0 THEN Len(sent) ELSE cursor
        BY SMTT(30), <1>1
      <4>2. \/ stream' = [stream EXCEPT !.on = "off"]
            \/ stream' = [stream EXCEPT !.on = "follow", !.pos = pos]
        BY <3>2, <4>1 DEF Connect
      <4> QED  BY <1>1, <4>2
    <3> QED  BY <1>2, <3>1, <3>2
  <2>3. TypeOK' /\ SessionsOK'
    BY <1>0, <2>1, <2>2, FaultFacts, SessionsKept DEF TypeOK, host
  <2>4. \A k \in Msgs : Spared(k)  BY <1>0, <2>1, FaultFacts DEF Spared, host
  <2> QED  BY <2>1, <2>3, <2>4, Quiet
<1>3. CASE \E m \in Msgs : Take(m)
  <2>1. PICK m \in Msgs : Take(m)  BY <1>3
  <2>2. stream' \in [on : {"off", "listed", "follow"}, pos : 0..Len(sent), todo : SUBSET Msgs]
    BY <1>1, <2>1 DEF Take
  <2>3. ~Handling("watch")  BY <2>1 DEF Take, At, Handling
  <2> QED  BY <1>0, <2>1, <2>2, <2>3, HandleKeeps DEF Take
<1>4. CASE Event
  <2>1. PICK m \in Msgs : m = sent[stream.pos + 1]  BY SMTT(30), <1>1, <1>4 DEF Event
  <2>2. stream' \in [on : {"off", "listed", "follow"}, pos : 0..Len(sent), todo : SUBSET Msgs]
    BY SMTT(30), <1>1, <1>4 DEF Event
  <2>3. ~Handling("watch")  BY <1>4 DEF Event, At, Handling
  <2>4. Handle("watch", m, TRUE) /\ UNCHANGED <<sent, receipt, cursor, host>>
    BY <1>4, <2>1 DEF Event
  <2> QED  BY <1>0, <2>2, <2>3, <2>4, HandleKeeps
<1>5. CASE StoreCursor
  <2>1. /\ UNCHANGED <<sent, unread, receipt, ledger, stream, host>> /\ (NoFault \/ Fault)
        /\ Goto("watch", "idle") /\ ~Handling("watch")
    BY <1>5 DEF StoreCursor, tether, At, Handling
  <2>2. cursor' \in 0..Len(sent)  BY <1>1, <1>5 DEF StoreCursor
  <2>3. /\ h' \in [Threads -> Handler]
        /\ h'["watch"].at = "idle" /\ h'["watch"].msg = Msg("watch")
        /\ \A u \in Threads \ {"watch"} : h'[u] = h[u]
    BY <1>0, <1>1, <2>1, GotoFacts DEF Steps
  <2>4. Msg("watch") = NoMsg  BY <1>0, <2>1 DEF BridgeInv, HandlerOK
  <2>5. \A t \in Threads : h'[t] = h[t] \/ (~Handling(t)' /\ Msg(t)' = NoMsg)
    BY <2>3, <2>4 DEF Handling, Msg
  <2>6. TypeOK' /\ SessionsOK'
    BY <1>0, <2>1, <2>2, <2>3, FaultFacts, SessionsKept DEF TypeOK, host
  <2>7. \A k \in Msgs : Spared(k)  BY <1>0, <2>1, FaultFacts DEF Spared, host
  <2> QED  BY <2>1, <2>5, <2>6, <2>7, Quiet
<1> QED  BY <1>2, <1>3, <1>4, <1>5 DEF Watch

LEMMA ResumeKeeps ==
    ASSUME BridgeInv, NEW m \in Msgs, Resume(m)
    PROVE  BridgeInv'
<1>1. "sweep" \in Threads /\ ~Handling("sweep")  BY DEF Threads, Resume, At, Handling
<1>2. stream' \in [on : {"off", "listed", "follow"}, pos : 0..Len(sent), todo : SUBSET Msgs]
  BY DEF BridgeInv, TypeOK, Resume
<1> QED  BY <1>1, <1>2, HandleKeeps DEF Resume

-----------------------------------------------------------------------------
(* The environment. *)

LEMMA SendKeeps ==
    ASSUME BridgeInv, NEW m \in Msgs, Send(m)
    PROVE  BridgeInv'
<1>0. TypeOK /\ SessionsOK /\ \A k \in Msgs : MessageOK(k)  BY DEF BridgeInv
<1>1. /\ sent \in Seq(Msgs) /\ sent' = Append(sent, m) /\ unread' = unread \cup {m}
      /\ UNCHANGED <<receipt, ledger, cursor, stream, h, host, faults>>
  BY <1>0 DEF Send, TypeOK
<1>2. /\ sent' \in Seq(Msgs) /\ Len(sent') = Len(sent) + 1 /\ Len(sent) \in Nat
      /\ \A i \in DOMAIN sent' : sent'[i] = m \/ (i \in DOMAIN sent /\ sent'[i] = sent[i])
  BY SMTT(30), <1>1
<1>3. TypeOK' /\ SessionsOK'
  <2>1. cursor \in 0..Len(sent') /\ stream \in [on : {"off", "listed", "follow"}, pos : 0..Len(sent'), todo : SUBSET Msgs]
    BY SMTT(30), <1>0, <1>2 DEF TypeOK
  <2>2. unread' \subseteq Msgs  BY <1>0, <1>1 DEF TypeOK
  <2>3. TypeOK'  BY <1>0, <1>1, <1>2, <2>1, <2>2 DEF TypeOK, host
  <2>4. SessionsOK'  BY <1>0, <1>1 DEF SessionsOK, host
  <2> QED  BY <2>3, <2>4
<1>4. \A k \in Msgs : Spared(k)  BY <1>1 DEF Spared, host
<1>5. \A k \in Msgs : MessageOK(k)'
  <2> SUFFICES ASSUME NEW k \in Msgs PROVE MessageOK(k)'  OBVIOUS
  <2>1. CASE k # m
    <3>1. Sent(k)' => Sent(k)  BY <1>2, <2>1 DEF Sent
    <3> QED  BY <1>0, <1>4, <3>1, SparedMessage
  <2>2. CASE k = m
    <3>1. m \in unread' /\ (Carried(m) => Carried(m)')  BY <1>1 DEF Carried, host
    <3> QED  BY <1>0, <1>1, <2>2, <3>1 DEF MessageOK, host, Buried
  <2> QED  BY <2>1, <2>2
<1>6. \A t \in Threads : HandlerOK(t)'
  <2> SUFFICES ASSUME NEW t \in Threads PROVE HandlerOK(t)'  OBVIOUS
  <2>1. Handling(t) => Spared(Msg(t))  BY <1>4 DEF BridgeInv, HandlerOK
  <2> QED  BY <1>1, <2>1, SparedHandler DEF BridgeInv
<1>7. \A t \in Threads : Handling(t)' = Handling(t) /\ Msg(t)' = Msg(t)
  BY <1>1 DEF Handling, Msg
<1> QED  BY <1>3, <1>5, <1>6, <1>7 DEF BridgeInv

LEMMA DueKeeps ==
    ASSUME BridgeInv, NEW m \in Msgs, Due(m)
    PROVE  BridgeInv'
<1>0. TypeOK /\ SessionsOK /\ \A k \in Msgs : MessageOK(k)  BY DEF BridgeInv
<1>1. ledger \in [Msgs -> Row] /\ ledger[m] \in Row  BY <1>0 DEF TypeOK
<1>2. ledger' = [ledger EXCEPT ![m].due = TRUE] /\ UNCHANGED <<sent, unread, receipt, cursor, stream, h, host, faults>>
  BY DEF Due, tether
<1>3. /\ ledger' \in [Msgs -> Row]
      /\ \A k \in Msgs : ledger'[k].state = ledger[k].state /\ ledger'[k].local = ledger[k].local
  BY <1>1, <1>2 DEF Row
<1>4. TypeOK' /\ SessionsOK'  BY <1>0, <1>2, <1>3 DEF TypeOK, SessionsOK, host
<1>5. \A k \in Msgs : Carried(k)' = Carried(k) /\ Sent(k)' = Sent(k)  BY <1>2 DEF Carried, Sent, host
<1>6. \A k \in Msgs : MessageOK(k)'
  <2>1. \A k \in Msgs : Buried(k)' = Buried(k) /\ Terminal(ledger'[k]) = Terminal(ledger[k])
    BY <1>2, <1>3 DEF Buried, Terminal
  <2>2. UNCHANGED <<unread, receipt, inbox, woken, react>>  BY <1>2 DEF host
  <2> QED  BY <1>0, <1>3, <1>5, <2>1, <2>2 DEF MessageOK
<1>7. \A t \in Threads : Handling(t)' = Handling(t) /\ Msg(t)' = Msg(t)
  BY <1>2 DEF Handling, Msg
<1>8. \A t \in Threads : HandlerOK(t)'
  <2> SUFFICES ASSUME NEW t \in Threads PROVE HandlerOK(t)'  OBVIOUS
  <2>1. HandlerOK(t) /\ UNCHANGED <<h, inbox>>  BY <1>2 DEF BridgeInv, host
  <2> QED  BY <1>2, <1>3, <1>5, <1>7, <2>1 DEF HandlerOK, Open, Terminal, At, Buried
<1> QED  BY <1>4, <1>6, <1>7, <1>8 DEF BridgeInv

\* A reaction starts a turn, if at all, for a message that is in the mailbox.
LEMMA ReactKeeps ==
    ASSUME BridgeInv, NEW m \in Msgs, NEW s \in Sessions, React(m, s)
    PROVE  BridgeInv'
<1>0. TypeOK /\ SessionsOK /\ \A k \in Msgs : MessageOK(k)  BY DEF BridgeInv
<1>1. /\ UNCHANGED <<sent, unread, receipt, ledger, cursor, stream, h, bound, started, ended, inbox, faults>>
      /\ react' \subseteq react /\ m \notin Rejected
  BY <1>0 DEF React, MessageOK, tether
<1>2. /\ woken' \in [Msgs -> Nat] /\ busy' \subseteq Sessions
      /\ \A k \in Msgs : woken[k] > 0 => woken'[k] > 0
      /\ \A k \in Rejected \cap Msgs : woken'[k] = woken[k]
  <2>1. woken \in [Msgs -> Nat] /\ busy \subseteq Sessions  BY <1>0 DEF TypeOK
  <2>2. CASE UNCHANGED <<busy, woken>>  BY <2>1, <2>2
  <2>3. CASE Turn(m, s)  BY SMTT(30), <1>1, <2>1, <2>3 DEF Turn
  <2> QED  BY <2>2, <2>3 DEF React
<1>3. TypeOK' /\ SessionsOK'  BY <1>0, <1>1, <1>2 DEF TypeOK, SessionsOK
<1>4. \A k \in Msgs : (Carried(k) => Carried(k)') /\ Sent(k)' = Sent(k)
  BY <1>1, <1>2 DEF Carried, Sent
<1>5. \A k \in Msgs : MessageOK(k)'  BY <1>0, <1>1, <1>2, <1>4 DEF MessageOK, Buried
<1>6. \A t \in Threads : Handling(t)' = Handling(t) /\ Msg(t)' = Msg(t)
  BY <1>1 DEF Handling, Msg
<1>7. \A t \in Threads : HandlerOK(t)'
  <2> SUFFICES ASSUME NEW t \in Threads PROVE HandlerOK(t)'  OBVIOUS
  <2>1. HandlerOK(t)  BY DEF BridgeInv
  <2> QED  BY <1>1, <1>4, <1>6, <2>1 DEF HandlerOK, At, Buried
<1> QED  BY <1>3, <1>5, <1>6, <1>7 DEF BridgeInv

\* An archived session is one that a fault has cost.
LEMMA SessionLost ==
    ASSUME TypeOK, SessionsOK, bound # Unbound, Fault, ended' = ended \cup {bound},
           bound' = Unbound, started' = started
    PROVE  SessionsOK' /\ ended' \subseteq Sessions /\ faults' \in 0..MaxFaults
<1>1. /\ faults \in 0..MaxFaults /\ faults' = faults + 1 /\ faults < MaxFaults /\ MaxFaults \in Nat
      /\ started \in Nat /\ bound \in Sessions /\ ended \subseteq Sessions
  BY BridgeAssumption DEF TypeOK, Fault
<1>2. started <= faults + 1 /\ bound = started /\ \A s \in ended : s <= started  BY DEF SessionsOK
<1>3. /\ started <= faults' /\ started <= faults' + 1 /\ faults' \in 0..MaxFaults
      /\ ended' \subseteq Sessions
  BY SMTT(30), <1>1, <1>2
<1>4. Unbound \notin ended'  BY SMTT(30), <1>1 DEF Sessions, Unbound
<1>5. \A s \in ended' : s <= started  BY SMTT(30), <1>1, <1>2
<1> QED  BY <1>3, <1>4, <1>5 DEF SessionsOK

LEMMA EnvironmentKeeps ==
    ASSUME BridgeInv, Environment
    PROVE  BridgeInv'
<1>0. TypeOK /\ SessionsOK  BY DEF BridgeInv
<1>1. CASE \E m \in Msgs : Send(m) \/ Due(m)  BY <1>1, SendKeeps, DueKeeps
<1>2. CASE \E m \in Msgs, s \in Sessions : React(m, s)  BY <1>2, ReactKeeps
<1>3. CASE OtherTurn \/ \E s \in Sessions : TurnEnds(s)
  <2>1. /\ UNCHANGED <<sent, unread, receipt, ledger, cursor, stream, h, bound, started, ended, inbox, react, woken>>
        /\ NoFault \/ Fault
    BY <1>3 DEF OtherTurn, TurnEnds, tether, NoFault
  <2>2. busy' \subseteq Sessions  BY <1>0, <1>3 DEF OtherTurn, TurnEnds, TypeOK
  <2>3. TypeOK'  BY <1>0, <2>1, <2>2, FaultFacts DEF TypeOK
  <2>4. SessionsOK'  BY <1>0, <2>1, SessionsKept
  <2>5. \A k \in Msgs : Spared(k)  BY <1>0, <2>1, FaultFacts DEF Spared
  <2> QED  BY <2>1, <2>3, <2>4, <2>5, Quiet
<1>4. CASE StreamEnds
  <2>1. /\ UNCHANGED <<sent, unread, receipt, ledger, h, host>> /\ Fault
    BY <1>4 DEF StreamEnds, tether
  <2>2. stream' \in [on : {"off", "listed", "follow"}, pos : 0..Len(sent), todo : SUBSET Msgs]
    <3>1. /\ stream \in [on : {"off", "listed", "follow"}, pos : 0..Len(sent), todo : SUBSET Msgs]
          /\ 0 \in 0..Len(sent)
      BY SMTT(30), <1>0 DEF TypeOK
    <3>2. stream' = [stream EXCEPT !.on = "off", !.pos = 0]  BY <1>4 DEF StreamEnds
    <3> QED  BY <3>1, <3>2
  <2>3. cursor' \in 0..Len(sent)  BY SMTT(30), <1>0, <1>4 DEF StreamEnds, TypeOK
  <2>4. TypeOK'  BY <1>0, <2>1, <2>2, <2>3, FaultFacts DEF TypeOK, host
  <2>5. SessionsOK'  BY <1>0, <2>1, SessionsKept DEF host
  <2>6. \A k \in Msgs : Spared(k)  BY <1>0, <2>1, FaultFacts DEF Spared, host
  <2> QED  BY <2>1, <2>4, <2>5, <2>6, Quiet
<1>5. CASE SessionEnds
  <2>1. UNCHANGED <<sent, unread, receipt, ledger, cursor, stream, h, started, inbox, react, woken>>
    BY <1>5 DEF SessionEnds, tether
  <2>2. SessionsOK' /\ ended' \subseteq Sessions /\ faults' \in 0..MaxFaults
    BY <1>0, <1>5, SessionLost DEF SessionEnds
  <2>3. busy' \subseteq Sessions /\ bound' = Unbound  BY <1>0, <1>5 DEF SessionEnds, TypeOK
  <2>4. TypeOK'  BY <1>0, <2>1, <2>2, <2>3 DEF TypeOK
  <2>5. \A k \in Msgs : Spared(k)  BY <1>0, <1>5, <2>1, FaultFacts DEF Spared, SessionEnds
  <2> QED  BY <2>1, <2>2, <2>4, <2>5, Quiet
<1>6. CASE Crash
  <2>1. /\ UNCHANGED <<sent, unread, receipt, ledger, cursor, bound, started, ended, inbox, woken>>
        /\ Fault /\ react' = {} /\ busy' = {} /\ h' = [t \in Threads |-> Idle]
        /\ stream' = [on |-> "off", pos |-> 0, todo |-> {}]
    BY <1>6 DEF Crash, tether
  <2>2. Idle \in Handler /\ Idle.at = "idle" /\ Idle.msg = NoMsg
    BY DEF Idle, Handler, Steps, NoRow, Row, States, Unbound, NoMsg
  <2>3. /\ h' \in [Threads -> Handler]
        /\ \A t \in Threads : ~Handling(t)' /\ Msg(t)' = NoMsg
    BY <2>1, <2>2 DEF Handling, Msg
  <2>4. stream' \in [on : {"off", "listed", "follow"}, pos : 0..Len(sent), todo : SUBSET Msgs]
    BY SMTT(30), <1>0, <2>1 DEF TypeOK
  <2>5. TypeOK'  BY <1>0, <2>1, <2>3, <2>4, FaultFacts DEF TypeOK
  <2>6. SessionsOK'  BY <1>0, <2>1, SessionsKept
  <2>7. \A k \in Msgs : Spared(k)  BY <1>0, <2>1, FaultFacts DEF Spared
  <2> QED  BY <2>1, <2>3, <2>5, <2>6, <2>7, Quiet
<1> QED  BY <1>1, <1>2, <1>3, <1>4, <1>5, <1>6 DEF Environment

-----------------------------------------------------------------------------
(* The theorems. *)

\* The invariant holds at first.
LEMMA BridgeInit == Init => BridgeInv
<1> SUFFICES ASSUME Init PROVE BridgeInv  OBVIOUS
<1>1. NoRow \in Row /\ NoRow.state = "absent" /\ ~NoRow.local  BY DEF NoRow, Row, States
<1>2. Idle \in Handler /\ Idle.at = "idle" /\ Idle.msg = NoMsg
  BY <1>1 DEF Idle, Handler, Steps, Unbound, NoMsg
<1>3. TypeOK
  <2>1. sent \in Seq(Msgs) /\ cursor \in 0..Len(sent) /\ faults \in 0..MaxFaults /\ started \in Nat
    BY SMTT(30), BridgeAssumption DEF Init
  <2>2. stream \in [on : {"off", "listed", "follow"}, pos : 0..Len(sent), todo : SUBSET Msgs]
    BY <2>1 DEF Init
  <2>3. inbox \in [Msgs -> [Sessions -> Nat]] /\ woken \in [Msgs -> Nat]  BY DEF Init
  <2>4. ledger \in [Msgs -> Row] /\ h \in [Threads -> Handler]  BY <1>1, <1>2 DEF Init
  <2> QED  BY <2>1, <2>2, <2>3, <2>4 DEF Init, TypeOK
<1>4. SessionsOK  BY SMTT(30), BridgeAssumption DEF Init, SessionsOK
<1>5. \A t \in Threads : ~Handling(t) /\ HandlerOK(t)
  BY <1>2 DEF Init, HandlerOK, Handling, Msg
<1>6. \A m \in Msgs : MessageOK(m)
  BY SMTT(30), <1>1 DEF Init, MessageOK, Sent, Terminal, Buried
<1> QED  BY <1>3, <1>4, <1>5, <1>6 DEF BridgeInv

\* Whatever the goroutines do, whatever fails, ends or crashes, BridgeInv is kept.
LEMMA BridgeStep == BridgeInv /\ [Next]_vars => BridgeInv'
<1> SUFFICES ASSUME BridgeInv, [Next]_vars PROVE BridgeInv'  OBVIOUS
<1>1. CASE UNCHANGED vars
  <2>1. UNCHANGED <<sent, unread, receipt, ledger, h>> /\ \A k \in Msgs : Spared(k)
    BY <1>1 DEF vars, Spared
  <2>2. TypeOK' /\ SessionsOK'  BY <1>1 DEF vars, BridgeInv, TypeOK, SessionsOK
  <2> QED  BY <2>1, <2>2, Quiet
<1> QED
  BY <1>1, WatchKeeps, ResumeKeeps, HandlerStepKeeps, EnvironmentKeeps DEF Next

\* The two goroutines of the bridge, its ledger, the mailbox and Tether's receipts stay
\* consistent under any interleaving, failure, lost answer and crash.
THEOREM BridgeSafe == Spec => []BridgeInv
<1>1. Init => BridgeInv  BY BridgeInit
<1>2. BridgeInv /\ [Next]_vars => BridgeInv'  BY BridgeStep
<1> QED  BY <1>1, <1>2, PTL DEF Spec

\* Every variable stays in its type: no position beyond the stream, no session beyond
\* those a fault has cost.
THEOREM BridgeTypes == Spec => []TypeOK
<1>1. BridgeInv => TypeOK  BY DEF BridgeInv
<1> QED  BY <1>1, BridgeSafe, PTL

\* No mail is lost: a message Handle has not finished stays unread in Tether.
THEOREM MailIsKept == Spec => []NothingLost
<1>1. BridgeInv => NothingLost  BY DEF BridgeInv, MessageOK, NothingLost
<1> QED  BY <1>1, BridgeSafe, PTL

\* A submitted or consumed receipt is never ahead of the mailbox row and its wake.
THEOREM ReceiptsAreTrue == Spec => []ConsumedMeansDelivered
<1>1. BridgeInv => ConsumedMeansDelivered
  BY DEF BridgeInv, MessageOK, Carried, ConsumedMeansDelivered
<1> QED  BY <1>1, BridgeSafe, PTL

\* However often a delivery is retried, a session's mailbox holds one row for it.
THEOREM InjectIdempotent == Spec => []OneMailboxRow
<1>1. BridgeInv => OneMailboxRow  BY DEF BridgeInv, MessageOK, OneMailboxRow
<1> QED  BY <1>1, BridgeSafe, PTL

\* A refused sender's message reaches no mailbox, starts no turn, gets no receipt but
\* the dead letter, and unless something fails it does get that.
THEOREM RefusedStaysOut == Spec => []RejectedNeverWakes
<1>1. BridgeInv => RejectedNeverWakes
  BY BridgeAssumption DEF BridgeInv, MessageOK, RejectedNeverWakes, Buried
<1> QED  BY <1>1, BridgeSafe, PTL

=============================================================================
