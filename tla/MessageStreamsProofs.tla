------------------------ MODULE MessageStreamsProofs ------------------------
(***************************************************************************)
(* The stream's inductive invariant, and what a tab can rely on, for any   *)
(* number of tabs, connections and events and any size of the ring and of  *)
(* the channels.                                                           *)
(***************************************************************************)
EXTENDS MessageStreams, TLAPS

\* A leaf that names no prover goes to Zenon.
USE ZenonT(30)

-----------------------------------------------------------------------------
(* Channels. *)

\* A channel that loses the report it starts with goes on from the same number.
LEMMA TailOfReport ==
    ASSUME NEW ch \in Seq(Frame), ch # <<>>, NEW b \in Nat, Chain(ch, b), ch[1].id = 0
    PROVE  /\ Chain(Tail(ch), b) /\ Reach(Tail(ch), b) = Reach(ch, b)
           /\ Reported(Tail(ch)) = {}
<1>1. /\ Len(ch) \in Nat /\ Len(ch) # 0 /\ DOMAIN ch = 1..Len(ch)
      /\ Tail(ch) \in Seq(Frame) /\ Len(Tail(ch)) = Len(ch) - 1 /\ DOMAIN Tail(ch) = 1..(Len(ch) - 1)
      /\ \A i \in 1..(Len(ch) - 1) : Tail(ch)[i] = ch[i + 1]
  BY SMTT(30)
<1>2. Reports(ch) = 1
  BY DEF Reports
<1>3. \A i \in 1..(Len(ch) - 1) : Tail(ch)[i].id = b + i
  <2> SUFFICES ASSUME NEW i \in 1..(Len(ch) - 1) PROVE ch[i + 1].id = b + i
    BY <1>1
  <2>1. i + 1 \in DOMAIN ch /\ i + 1 > 1
    BY SMTT(30), <1>1
  <2>2. ch[i + 1].id = b + (i + 1) - 1
    BY <1>2, <2>1 DEF Chain
  <2> QED
    BY SMTT(30), <1>1, <2>2
<1>4. Tail(ch) # <<>> => Tail(ch)[1].id # 0
  <2> SUFFICES ASSUME Tail(ch) # <<>> PROVE Tail(ch)[1].id # 0
    OBVIOUS
  <2>1. 1 \in 1..(Len(ch) - 1)
    BY SMTT(30), <1>1
  <2>2. Tail(ch)[1].id = b + 1
    BY <1>3, <2>1
  <2> QED
    BY SMTT(30), <2>2
<1>5. Reports(Tail(ch)) = 0 /\ Reported(Tail(ch)) = {}
  BY <1>4 DEF Reports, Reported
<1> QED
  BY SMTT(30), <1>1, <1>2, <1>3, <1>5 DEF Chain, Reach

\* One that loses a numbered event loses the next number.
LEMMA TailOfEvent ==
    ASSUME NEW ch \in Seq(Frame), ch # <<>>, NEW b \in Nat, Chain(ch, b), ch[1].id # 0
    PROVE  /\ ch[1].id = b + 1
           /\ Chain(Tail(ch), b + 1) /\ Reach(Tail(ch), b + 1) = Reach(ch, b)
           /\ Reported(ch) = {} /\ Reported(Tail(ch)) = {}
<1>1. /\ Len(ch) \in Nat /\ Len(ch) # 0 /\ DOMAIN ch = 1..Len(ch)
      /\ Tail(ch) \in Seq(Frame) /\ Len(Tail(ch)) = Len(ch) - 1 /\ DOMAIN Tail(ch) = 1..(Len(ch) - 1)
      /\ \A i \in 1..(Len(ch) - 1) : Tail(ch)[i] = ch[i + 1]
  BY SMTT(30)
<1>2. Reports(ch) = 0 /\ Reported(ch) = {}
  BY DEF Reports, Reported
<1>3. \A i \in 1..Len(ch) : ch[i].id = b + i
  BY SMTT(30), <1>1, <1>2 DEF Chain
<1>4. \A i \in 1..(Len(ch) - 1) : Tail(ch)[i].id = (b + 1) + i
  BY SMTT(30), <1>1, <1>3
<1>5. Tail(ch) # <<>> => Tail(ch)[1].id # 0
  BY SMTT(30), <1>1, <1>4
<1>6. Reports(Tail(ch)) = 0 /\ Reported(Tail(ch)) = {}
  BY <1>5 DEF Reports, Reported
<1> QED
  BY SMTT(30), <1>1, <1>2, <1>3, <1>4, <1>6 DEF Chain, Reach

\* One that is given the next number reaches it.
LEMMA Appended ==
    ASSUME NEW ch \in Seq(Frame), NEW b \in Nat, NEW e \in Frame, Chain(ch, b),
           e.id = Reach(ch, b) + 1
    PROVE  /\ Chain(Append(ch, e), b) /\ Reach(Append(ch, e), b) = e.id
           /\ Reported(Append(ch, e)) = Reported(ch)
<1>1. /\ Len(ch) \in Nat /\ DOMAIN ch = 1..Len(ch)
      /\ Append(ch, e) \in Seq(Frame) /\ Len(Append(ch, e)) = Len(ch) + 1
      /\ DOMAIN Append(ch, e) = 1..(Len(ch) + 1)
      /\ \A i \in 1..Len(ch) : Append(ch, e)[i] = ch[i]
      /\ Append(ch, e)[Len(ch) + 1] = e
  BY SMTT(30)
<1>2. CASE ch = <<>>
  <2>1. Len(ch) = 0 /\ Reports(ch) = 0 /\ Reported(ch) = {}
    BY <1>2 DEF Reports, Reported
  <2>2. e.id = b + 1 /\ Append(ch, e)[1] = e /\ Append(ch, e)[1].id # 0
    BY SMTT(30), <1>1, <2>1 DEF Reach
  <2>3. Reports(Append(ch, e)) = 0 /\ Reported(Append(ch, e)) = {}
    BY <2>2 DEF Reports, Reported
  <2> QED
    BY SMTT(30), <1>1, <2>1, <2>2, <2>3 DEF Chain, Reach
<1>3. CASE ch # <<>>
  <2>1. Len(ch) >= 1 /\ Append(ch, e) # <<>> /\ Append(ch, e)[1] = ch[1]
    BY SMTT(30), <1>1, <1>3
  <2>2. Reports(Append(ch, e)) = Reports(ch) /\ Reported(Append(ch, e)) = Reported(ch)
    BY <1>3, <2>1 DEF Reports, Reported
  <2>3. Reports(ch) \in {0, 1}
    BY DEF Reports
  <2>4. e.id = b + (Len(ch) + 1) - Reports(ch)
    BY SMTT(30), <1>1, <2>3 DEF Reach
  <2>5. ASSUME NEW i \in 1..(Len(ch) + 1), i > Reports(ch)
        PROVE  Append(ch, e)[i].id = b + i - Reports(ch)
    <3>1. CASE i \in 1..Len(ch)
      BY <1>1, <2>5, <3>1 DEF Chain
    <3>2. CASE i = Len(ch) + 1
      BY <1>1, <2>4, <3>2
    <3> QED
      BY SMTT(30), <1>1, <3>1, <3>2
  <2> QED
    BY <1>1, <2>2, <2>3, <2>4, <2>5 DEF Chain, Reach
<1> QED
  BY <1>2, <1>3

\* What SubSeq leaves when the first n elements are dropped.
LEMMA Suffix ==
    ASSUME NEW S, NEW s \in Seq(S), NEW n \in Nat, n <= Len(s),
           NEW r, r = SubSeq(s, n + 1, Len(s))
    PROVE  /\ r \in Seq(S) /\ Len(r) = Len(s) - n
           /\ \A i \in 1..(Len(s) - n) : r[i] = s[n + i]
<1>1. r \in Seq(S)
  BY SMTT(30)
<1>2. Len(r) = Len(s) - n
  BY SMTT(30)
<1>3. ASSUME NEW i \in 1..(Len(s) - n) PROVE r[i] = s[n + i]
  BY SMTT(30)
<1> QED
  BY <1>1, <1>2, <1>3

\* A run of numbered events, alone and after a report.
LEMMA Unled ==
    ASSUME NEW s \in Seq(Frame), NEW b \in Nat, \A i \in 1..Len(s) : s[i].id = b + i
    PROVE  Chain(s, b) /\ Reach(s, b) = b + Len(s) /\ Reported(s) = {}
<1>1. Len(s) \in Nat /\ DOMAIN s = 1..Len(s)
  BY SMTT(30)
<1>2. s # <<>> => s[1].id # 0
  BY SMTT(30), <1>1
<1>3. Reports(s) = 0 /\ Reported(s) = {}
  BY <1>2 DEF Reports, Reported
<1> QED
  BY SMTT(30), <1>1, <1>3 DEF Chain, Reach

LEMMA Led ==
    ASSUME NEW s \in Seq(Frame), NEW b \in Nat, \A i \in 1..Len(s) : s[i].id = b + i,
           NEW ch \in Seq(Frame), Len(ch) = Len(s) + 1, ch[1].id = 0,
           \A i \in 1..Len(s) : ch[i + 1] = s[i]
    PROVE  /\ Chain(ch, b) /\ Reach(ch, b) = b + Len(s)
           /\ Reported(ch) = ch[1].from .. ch[1].to
<1>1. Len(s) \in Nat /\ DOMAIN ch = 1..(Len(s) + 1)
  BY SMTT(30)
<1>2. \A i \in 1..Len(s) : ch[i + 1] = s[i]
  OBVIOUS
<1>3. ch # <<>>
  BY SMTT(30), <1>1
<1>4. Reports(ch) = 1 /\ Reported(ch) = ch[1].from .. ch[1].to
  BY <1>2, <1>3 DEF Reports, Reported
<1>5. ASSUME NEW i \in 1..(Len(s) + 1), i > 1
      PROVE  ch[i].id = b + i - 1
  <2>1. i - 1 \in 1..Len(s) /\ (i - 1) + 1 = i
    BY SMTT(30), <1>1, <1>5
  <2>2. ch[i] = s[i - 1] /\ s[i - 1].id = b + (i - 1)
    BY <1>2, <2>1
  <2> QED
    BY <1>1, <2>2
<1>6. Chain(ch, b) /\ Reach(ch, b) = b + Len(s)
  BY SMTT(30), <1>1, <1>4, <1>5 DEF Chain, Reach
<1> QED
  BY <1>1, <1>2, <1>4, <1>6

-----------------------------------------------------------------------------
(* What a subscription starts with. *)

\* The number before the first retained event.
Base == nextID - 1 - Len(buf)

LEMMA RingFacts ==
    ASSUME StreamTypeOK, RingOK
    PROVE  /\ nextID \in Nat /\ nextID >= 1 /\ Len(buf) \in Nat /\ DOMAIN buf = 1..Len(buf)
           /\ Base \in Nat /\ Base + Len(buf) = nextID - 1
           /\ \A i \in 1..Len(buf) : buf[i] \in Frame /\ FrameOK(buf[i]) /\ buf[i].id = Base + i
           /\ buf = <<>> <=> Len(buf) = 0
<1>1. buf \in Seq(Frame) /\ nextID \in Nat \ {0}
  BY DEF StreamTypeOK
<1>2. Len(buf) \in Nat /\ DOMAIN buf = 1..Len(buf) /\ \A i \in 1..Len(buf) : buf[i] \in Frame
  BY SMTT(30), <1>1
<1>3. buf = <<>> <=> Len(buf) = 0
  BY SMTT(30), <1>1
<1>4. Base \in Nat /\ Base + Len(buf) = nextID - 1
  BY SMTT(30), <1>1, <1>2 DEF RingOK, Base
<1>5. \A i \in 1..Len(buf) : FrameOK(buf[i]) /\ buf[i].id = Base + i
  BY <1>2 DEF RingOK, Base
<1> QED
  BY SMTT(30), <1>1, <1>2, <1>3, <1>4, <1>5

\* The replay to a cursor: everything, what is after it, or nothing.
LEMMA ReplayIs ==
    ASSUME StreamTypeOK, RingOK, NEW cursor \in Nat
    PROVE  /\ Replay(cursor) \in Seq(Frame) /\ Len(Replay(cursor)) <= Len(buf)
           /\ \A i \in 1..Len(Replay(cursor)) : FrameOK(Replay(cursor)[i])
           /\ cursor <= Base => /\ Len(Replay(cursor)) = Len(buf)
                                /\ \A i \in 1..Len(buf) : Replay(cursor)[i].id = Base + i
           /\ Base <= cursor /\ cursor < nextID =>
                  /\ Len(Replay(cursor)) = nextID - 1 - cursor
                  /\ \A i \in 1..Len(Replay(cursor)) : Replay(cursor)[i].id = cursor + i
           /\ nextID <= cursor => Len(Replay(cursor)) = 0
<1>0. /\ nextID \in Nat /\ nextID >= 1 /\ Len(buf) \in Nat /\ DOMAIN buf = 1..Len(buf)
      /\ Base \in Nat /\ Base + Len(buf) = nextID - 1
      /\ \A i \in 1..Len(buf) : buf[i] \in Frame /\ FrameOK(buf[i]) /\ buf[i].id = Base + i
      /\ buf \in Seq(Frame)
  BY RingFacts DEF StreamTypeOK
<1>1. \E n \in 0..Len(buf) : \A i \in DOMAIN buf : buf[i].id > cursor <=> i > n
  <2>1. CASE cursor < Base
    <3>1. 0 \in 0..Len(buf) /\ \A i \in DOMAIN buf : buf[i].id > cursor <=> i > 0
      BY SMTT(30), <1>0, <2>1
    <3> QED
      BY <3>1
  <2>2. CASE Base <= cursor /\ cursor <= Base + Len(buf)
    <3>1. /\ cursor - Base \in 0..Len(buf)
          /\ \A i \in DOMAIN buf : buf[i].id > cursor <=> i > cursor - Base
      BY SMTT(30), <1>0, <2>2
    <3> QED
      BY <3>1
  <2>3. CASE Base + Len(buf) < cursor
    <3>1. Len(buf) \in 0..Len(buf) /\ \A i \in DOMAIN buf : buf[i].id > cursor <=> i > Len(buf)
      BY SMTT(30), <1>0, <2>3
    <3> QED
      BY <3>1
  <2>4. cursor < Base \/ (Base <= cursor /\ cursor <= Base + Len(buf)) \/ Base + Len(buf) < cursor
    BY SMTT(30), <1>0
  <2> QED
    BY <2>1, <2>2, <2>3, <2>4
<1>2. PICK n : /\ n \in 0..Len(buf) /\ \A i \in DOMAIN buf : buf[i].id > cursor <=> i > n
               /\ Replay(cursor) = SubSeq(buf, n + 1, Len(buf))
  <2> DEFINE k == CHOOSE k \in 0..Len(buf) : \A i \in DOMAIN buf : buf[i].id > cursor <=> i > k
  <2>1. k \in 0..Len(buf) /\ \A i \in DOMAIN buf : buf[i].id > cursor <=> i > k
    BY <1>1
  <2>2. Replay(cursor) = SubSeq(buf, k + 1, Len(buf))
    BY DEF Replay
  <2> HIDE DEF k
  <2> QED
    BY <2>1, <2>2
<1>3. n \in Nat /\ n <= Len(buf) /\ \A i \in 1..Len(buf) : Base + i > cursor <=> i > n
  <2>1. n \in Nat /\ n <= Len(buf)
    BY SMTT(30), <1>0, <1>2
  <2>2. ASSUME NEW i \in 1..Len(buf) PROVE Base + i > cursor <=> i > n
    BY <1>0, <1>2
  <2> QED
    BY <2>1, <2>2
<1>4. PICK q, r : q = buf /\ r = Replay(cursor)
  OBVIOUS
<1>5. q \in Seq(Frame) /\ n <= Len(q) /\ r = SubSeq(q, n + 1, Len(q))
  BY <1>0, <1>2, <1>3, <1>4
<1>6. /\ r \in Seq(Frame) /\ Len(r) = Len(buf) - n
      /\ \A i \in 1..(Len(buf) - n) : r[i] = buf[n + i]
  BY SMTT(30), <1>3, <1>4, <1>5, Suffix
<1>7. \A i \in 1..(Len(buf) - n) : n + i \in 1..Len(buf)
  BY SMTT(30), <1>0, <1>3
<1>8. \A i \in 1..(Len(buf) - n) : FrameOK(r[i]) /\ r[i].id = Base + (n + i)
  BY <1>0, <1>6, <1>7
<1>9. /\ cursor <= Base => n = 0
      /\ Base <= cursor /\ cursor < nextID => n = cursor - Base
      /\ nextID <= cursor => n = Len(buf)
  <2>1. ASSUME n < Len(buf) PROVE Base + n + 1 > cursor
    <3>1. n + 1 \in 1..Len(buf) /\ n + 1 > n
      BY SMTT(30), <1>0, <1>3, <2>1
    <3>2. Base + (n + 1) > cursor
      BY <1>3, <3>1
    <3> QED
      BY SMTT(30), <1>0, <1>3, <3>2
  <2>2. ASSUME n > 0 PROVE Base + n <= cursor
    <3>1. n \in 1..Len(buf) /\ ~(n > n)
      BY SMTT(30), <1>0, <1>3, <2>2
    <3>2. ~(Base + n > cursor)
      BY <1>3, <3>1
    <3> QED
      BY SMTT(30), <1>0, <1>3, <3>2
  <2>3. Base \in Nat /\ Len(buf) \in Nat /\ nextID = Base + Len(buf) + 1 /\ n \in Nat /\ n <= Len(buf)
    BY SMTT(30), <1>0, <1>3
  <2>4. cursor <= Base => n = 0
    BY SMTT(30), <2>2, <2>3
  <2>5. Base <= cursor /\ cursor < nextID => n = cursor - Base
    <3>1. CASE n > 0 /\ n < Len(buf)
      BY SMTT(30), <2>1, <2>2, <2>3, <3>1
    <3>2. CASE n = 0
      BY SMTT(30), <2>1, <2>3, <3>2
    <3>3. CASE n > 0 /\ n = Len(buf)
      BY SMTT(30), <2>2, <2>3, <3>3
    <3> QED
      BY SMTT(30), <2>3, <3>1, <3>2, <3>3
  <2>6. nextID <= cursor => n = Len(buf)
    BY SMTT(30), <2>1, <2>3
  <2> QED
    BY <2>4, <2>5, <2>6
<1>10. Len(r) <= Len(buf) /\ 1..Len(r) = 1..(Len(buf) - n)
  BY SMTT(30), <1>0, <1>3, <1>6
<1>11. cursor <= Base => Len(r) = Len(buf) /\ \A i \in 1..Len(buf) : r[i].id = Base + i
  BY SMTT(30), <1>0, <1>6, <1>8, <1>9
<1>12. Base <= cursor /\ cursor < nextID =>
           Len(r) = nextID - 1 - cursor /\ \A i \in 1..Len(r) : r[i].id = cursor + i
  <2>1. ASSUME Base <= cursor, cursor < nextID PROVE Len(r) = nextID - 1 - cursor
    BY SMTT(30), <1>0, <1>6, <1>9, <2>1
  <2>2. ASSUME Base <= cursor, cursor < nextID, NEW i \in 1..(Len(buf) - n)
        PROVE  r[i].id = cursor + i
    <3>1. r[i].id = Base + (n + i) /\ n = cursor - Base
      BY <1>8, <1>9, <2>2
    <3> QED
      BY SMTT(30), <1>0, <3>1
  <2> QED
    BY <1>10, <2>1, <2>2
<1>13. nextID <= cursor => Len(r) = 0
  BY SMTT(30), <1>0, <1>6, <1>9
<1> QED
  BY <1>4, <1>6, <1>8, <1>10, <1>11, <1>12, <1>13

Opening(cursor) == Missed(cursor) \o Replay(cursor)

\* It fits, and it joins what the tab has to the last event.
LEMMA SubscriptionStarts ==
    ASSUME StreamTypeOK, RingOK, NEW cursor \in Nat
    PROVE  /\ Opening(cursor) \in Seq(Frame)
           /\ Len(Opening(cursor)) <= Len(buf) + 1
           /\ \A i \in DOMAIN Opening(cursor) : FrameOK(Opening(cursor)[i])
           /\ cursor < nextID =>
                  \E b \in 0..(nextID - 1) :
                      /\ cursor <= b
                      /\ 1..b \subseteq 1..cursor \cup Reported(Opening(cursor))
                      /\ Chain(Opening(cursor), b)
                      /\ Reach(Opening(cursor), b) = nextID - 1
<1> DEFINE r == Replay(cursor)
<1>0. /\ nextID \in Nat /\ nextID >= 1 /\ Len(buf) \in Nat
      /\ Base \in Nat /\ Base + Len(buf) = nextID - 1
      /\ \A i \in 1..Len(buf) : buf[i].id = Base + i
      /\ buf = <<>> <=> Len(buf) = 0
      /\ buf = <<>> => nextID = 1
  BY RingFacts DEF RingOK
<1>1. /\ r \in Seq(Frame) /\ Len(r) \in Nat /\ Len(r) <= Len(buf)
      /\ \A i \in 1..Len(r) : FrameOK(r[i])
      /\ cursor <= Base => Len(r) = Len(buf) /\ \A i \in 1..Len(buf) : r[i].id = Base + i
      /\ Base <= cursor /\ cursor < nextID =>
             Len(r) = nextID - 1 - cursor /\ \A i \in 1..Len(r) : r[i].id = cursor + i
      /\ nextID <= cursor => Len(r) = 0
  <2>1. r \in Seq(Frame)
    BY ReplayIs
  <2>2. Len(r) \in Nat
    BY SMTT(30), <2>1
  <2> QED
    BY <2>2, ReplayIs
<1>2. buf # <<>> => buf[1].id - 1 = Base
  BY SMTT(30), <1>0
<1> HIDE DEF r
<1>3. ASSUME NEW g \in Frame, g.id = 0, g.kind = "gap", NEW b \in Nat,
             Opening(cursor) = <<g>> \o r, \A i \in 1..Len(r) : r[i].id = b + i
      PROVE  /\ Opening(cursor) \in Seq(Frame)
             /\ Len(Opening(cursor)) <= Len(buf) + 1
             /\ \A i \in DOMAIN Opening(cursor) : FrameOK(Opening(cursor)[i])
             /\ Chain(Opening(cursor), b) /\ Reach(Opening(cursor), b) = b + Len(r)
             /\ Reported(Opening(cursor)) = g.from .. g.to
  <2>0. PICK ch : ch = Opening(cursor)
    OBVIOUS
  <2>1. /\ ch \in Seq(Frame) /\ Len(ch) = Len(r) + 1
        /\ ch[1] = g /\ \A i \in 1..Len(r) : ch[i + 1] = r[i]
        /\ Chain(ch, b) /\ Reach(ch, b) = b + Len(r) /\ Reported(ch) = g.from .. g.to
    <3>1. ch = <<g>> \o r /\ r \in Seq(Frame) /\ g.id = 0 /\ \A i \in 1..Len(r) : r[i].id = b + i
      BY <1>1, <1>3, <2>0
    <3>2. PICK q : q = r
      OBVIOUS
    <3>3. /\ ch \in Seq(Frame) /\ Len(ch) = Len(q) + 1
          /\ ch[1] = g /\ \A i \in 1..Len(q) : ch[i + 1] = q[i]
      BY SMTT(30), <3>1, <3>2
    <3>4. /\ q \in Seq(Frame) /\ \A i \in 1..Len(q) : q[i].id = b + i
          /\ ch[1].id = 0
      BY <3>1, <3>2, <3>3
    <3>5. /\ Chain(ch, b) /\ Reach(ch, b) = b + Len(q)
          /\ Reported(ch) = ch[1].from .. ch[1].to
      BY <3>3, <3>4, Led
    <3> QED
      BY <3>2, <3>3, <3>5
  <2>2. FrameOK(g)
    BY <1>3 DEF FrameOK
  <2>3. ASSUME NEW i \in DOMAIN ch PROVE FrameOK(ch[i])
    <3>1. i \in 1..(Len(r) + 1)
      BY SMTT(30), <1>1, <2>1
    <3>2. CASE i = 1
      BY <2>1, <2>2, <3>2
    <3>3. CASE i # 1
      <4>1. i - 1 \in 1..Len(r) /\ (i - 1) + 1 = i
        BY SMTT(30), <1>1, <3>1, <3>3
      <4>2. ch[i] = r[i - 1]
        BY <2>1, <4>1
      <4> QED
        BY <1>1, <4>1, <4>2
    <3> QED
      BY <3>2, <3>3
  <2> QED
    BY SMTT(30), <1>0, <1>1, <2>0, <2>1, <2>3
<1>4. CASE cursor >= nextID
  <2>0. PICK g : g = Gap(nextID, cursor)
    OBVIOUS
  <2>1. Missed(cursor) = <<g>>
    BY SMTT(30), <1>0, <1>4, <2>0 DEF Missed
  <2>2. g \in Frame /\ g.id = 0 /\ g.kind = "gap"
    BY <1>0, <2>0 DEF Gap, Frame
  <2>3. Opening(cursor) = <<g>> \o r
    BY <2>1 DEF Opening, r
  <2>4. 0 \in Nat /\ \A i \in 1..Len(r) : r[i].id = 0 + i
    BY SMTT(30), <1>1, <1>4
  <2>5. /\ Opening(cursor) \in Seq(Frame) /\ Len(Opening(cursor)) <= Len(buf) + 1
        /\ \A i \in DOMAIN Opening(cursor) : FrameOK(Opening(cursor)[i])
    BY <1>3, <2>2, <2>3, <2>4
  <2> QED
    BY SMTT(30), <1>0, <1>4, <2>5
<1>5. CASE buf # <<>> /\ cursor < Base
  <2>0. PICK g : g = Gap(cursor + 1, Base)
    OBVIOUS
  <2>1. Missed(cursor) = <<g>>
    BY SMTT(30), <1>0, <1>2, <1>5, <2>0 DEF Missed
  <2>2. g \in Frame /\ g.id = 0 /\ g.kind = "gap" /\ g.from = cursor + 1 /\ g.to = Base
    BY SMTT(30), <1>0, <2>0 DEF Gap, Frame
  <2>3. Opening(cursor) = <<g>> \o r
    BY <2>1 DEF Opening, r
  <2>4. \A i \in 1..Len(r) : r[i].id = Base + i
    BY SMTT(30), <1>0, <1>1, <1>5
  <2>5. /\ Opening(cursor) \in Seq(Frame) /\ Len(Opening(cursor)) <= Len(buf) + 1
        /\ \A i \in DOMAIN Opening(cursor) : FrameOK(Opening(cursor)[i])
        /\ Chain(Opening(cursor), Base) /\ Reach(Opening(cursor), Base) = Base + Len(r)
        /\ Reported(Opening(cursor)) = (cursor + 1) .. Base
    BY <1>0, <1>3, <2>2, <2>3, <2>4
  <2>6. Base + Len(r) = nextID - 1 /\ Base \in 0..(nextID - 1) /\ cursor <= Base
    <3>1. cursor <= Base
      BY SMTT(30), <1>0, <1>5
    <3>2. Len(r) = Len(buf)
      BY <1>1, <3>1
    <3> QED
      BY SMTT(30), <1>0, <3>1, <3>2
  <2>7. 1..Base \subseteq 1..cursor \cup ((cursor + 1) .. Base)
    BY SMTT(30), <1>0
  <2>8. \E b \in 0..(nextID - 1) : /\ cursor <= b
                                   /\ 1..b \subseteq 1..cursor \cup Reported(Opening(cursor))
                                   /\ Chain(Opening(cursor), b)
                                   /\ Reach(Opening(cursor), b) = nextID - 1
    BY <2>5, <2>6, <2>7
  <2> QED
    BY <2>5, <2>8
<1>6. CASE cursor < nextID /\ ~(buf # <<>> /\ cursor < Base)
  <2>1. Missed(cursor) = <<>>
    BY SMTT(30), <1>0, <1>2, <1>6 DEF Missed
  <2>2. Opening(cursor) = r
    BY SMTT(30), <1>1, <2>1 DEF Opening, r
  <2>3. Base <= cursor
    BY SMTT(30), <1>0, <1>6
  <2>4. Len(r) = nextID - 1 - cursor /\ \A i \in 1..Len(r) : r[i].id = cursor + i
    BY <1>1, <1>6, <2>3
  <2>5. Chain(r, cursor) /\ Reach(r, cursor) = cursor + Len(r) /\ Reported(r) = {}
    BY <1>1, <2>4, Unled
  <2>6. cursor \in 0..(nextID - 1) /\ cursor + Len(r) = nextID - 1
    BY SMTT(30), <1>0, <1>6, <2>4
  <2>7. DOMAIN r = 1..Len(r)
    BY SMTT(30), <1>1
  <2>8. cursor <= cursor /\ 1..cursor \subseteq 1..cursor \cup Reported(r)
    BY SMTT(30)
  <2>9. \E b \in 0..(nextID - 1) : /\ cursor <= b
                                   /\ 1..b \subseteq 1..cursor \cup Reported(r)
                                   /\ Chain(r, b)
                                   /\ Reach(r, b) = nextID - 1
    BY <2>5, <2>6, <2>8
  <2>10. Len(r) <= Len(buf) + 1
    BY SMTT(30), <1>0, <1>1
  <2> QED
    BY <1>1, <2>2, <2>7, <2>9, <2>10
<1> QED
  BY SMTT(30), <1>0, <1>4, <1>5, <1>6

-----------------------------------------------------------------------------
(* What a step leaves alone. *)

\* What closing a channel makes of its connection.
LEMMA ClosedFacts ==
    ASSUME NEW r \in Connection,
           NEW why \in {"slow_consumer", "producer_closed", "session_takeover", "observer_detached"}
    PROVE  /\ Closed(r, why) \in Connection
           /\ Closed(r, why).open = FALSE /\ Closed(r, why).closure = why
<1>1. Closed(r, why) \in Connection
  BY DEF Closed, Connection
<1>2. Closed(r, why).open = FALSE /\ Closed(r, why).closure = why
  BY DEF Closed, Connection
<1> QED
  BY <1>1, <1>2

LEMMA FrameKept ==
    ASSUME NEW e, FrameOK(e), endSent = 0 \/ endSent' = endSent
    PROVE  FrameOK(e)'
BY DEF FrameOK

\* A connection whose channel and handler are as they were.
LEMMA ConnKept ==
    ASSUME NEW c \in Conns, ConnOK(c), conn'[c] = conn[c], closed' = closed, sse' = sse,
           subscriber' = c => subscriber = c, endSent = 0 \/ endSent' = endSent
    PROVE  ConnOK(c)'
BY SMTT(30), FrameKept DEF ConnOK, FrameOK

\* A connection that carries what it carried: told of a successor, or closed.
SameFeed(c) ==
    /\ conn'[c].tab = conn[c].tab
    /\ conn'[c].at = conn[c].at
    /\ conn'[c].cursor = conn[c].cursor
    /\ conn'[c].ch = conn[c].ch
    /\ subscriber' = c => subscriber = c
    /\ conn'[c].closure = "producer_closed" => conn[c].closure = "producer_closed" \/ subscriber = c

LEMMA TabKept ==
    ASSUME NEW t \in Tabs, TabOK(t), tab'[t] = tab[t], nextID' = nextID, closed => closed',
           endSent = 0 \/ endSent' = endSent,
           tab[t].conn # None => SameFeed(tab[t].conn)
    PROVE  TabOK(t)'
<1>1. Accounted(t)' = Accounted(t)
  BY DEF Accounted
<1>2. CASE tab[t].conn = None
  BY <1>1, <1>2 DEF TabOK
<1>3. CASE tab[t].conn # None
  <2>1. SameFeed(tab[t].conn)
    BY <1>3
  <2>2. Continues(t, tab[t].conn) => Continues(t, tab[t].conn)'
    BY <1>1, <2>1 DEF Continues, SameFeed
  <2> QED
    BY <1>1, <1>3, <2>1, <2>2 DEF TabOK, SameFeed
<1> QED
  BY <1>2, <1>3

\* A tab that loses its connection, with the events it has.
LEMMA TabLeft ==
    ASSUME NEW t \in Tabs, TabOK(t), tab'[t].conn = None, tab'[t].cursor = tab[t].cursor,
           tab'[t].got = tab[t].got, tab'[t].told = tab[t].told, nextID' = nextID,
           tab'[t].at # "linked",
           tab'[t].at = "done" => closed' /\ 1..(nextID - 1) \subseteq Accounted(t)
    PROVE  TabOK(t)'
<1>1. Accounted(t)' = Accounted(t)
  BY DEF Accounted
<1> QED
  BY <1>1 DEF TabOK

LEMMA RingKept ==
    ASSUME RingOK, produce' = produce, endSent' = endSent, buf' = buf, nextID' = nextID,
           closed' = closed
    PROVE  RingOK'
BY DEF RingOK, FrameOK

\* The bound variables of the invariant, and the connection of a tab.
LEMMA InvFacts ==
    ASSUME StreamInv
    PROVE  /\ \A c \in Conns : conn[c] \in Connection /\ ConnOK(c) /\ c # None
           /\ \A t \in Tabs : tab[t] \in Tab /\ TabOK(t) /\ t # None
BY SMTT(30), StreamAssumption DEF StreamInv, StreamTypeOK, Conns, None

LEMMA LinkFacts ==
    ASSUME StreamInv, NEW t \in Tabs, tab[t].conn # None
    PROVE  /\ tab[t].conn \in Conns /\ Linked(tab[t].conn) /\ conn[tab[t].conn].tab = t
           /\ conn[tab[t].conn].at \in {"subscribe", "serve"}
<1>1. tab[t] \in Tab /\ TabOK(t) /\ t # None
  BY InvFacts
<1>2. tab[t].conn \in Conns
  BY <1>1 DEF Tab
<1> QED
  BY <1>1, <1>2 DEF TabOK, Linked

-----------------------------------------------------------------------------
(* The generation. *)

LEMMA ProduceKeeps ==
    ASSUME StreamInv, NEW kind \in {"delta", "end"}, Produce(kind)
    PROVE  StreamInv'
<1>0. StreamTypeOK /\ RingOK
  BY DEF StreamInv
<1>1. /\ produce.q \in Seq({"delta", "end"}) /\ nextID \in Nat \ {0} /\ endSent \in Nat
      /\ produce \in [q : Seq({"delta", "end"}), open : BOOLEAN]
  BY <1>0 DEF StreamTypeOK
<1>2. produce' = [produce EXCEPT !.q = Append(@, kind)] /\ produce.open
  BY DEF Produce
<1>3. /\ produce' \in [q : Seq({"delta", "end"}), open : BOOLEAN]
      /\ produce'.q = Append(produce.q, kind)
  <2>1. Append(produce.q, kind) \in Seq({"delta", "end"})
    BY SMTT(30), <1>1
  <2> QED
    BY <1>1, <1>2, <2>1
<1>4. endSent' = IF kind = "end" THEN nextID + Len(produce.q) ELSE endSent
  BY DEF Produce
<1>5. endSent = 0 \/ endSent' = endSent
  BY DEF Produce
<1>6. Len(produce.q) \in Nat /\ endSent' \in Nat
  BY SMTT(30), <1>1, <1>4
<1>7. UNCHANGED <<buf, nextID, closed, subscriber, held, sse, conn, tab, opens, drops>>
  BY DEF Produce
<1>8. StreamTypeOK'
  BY <1>0, <1>3, <1>6, <1>7 DEF StreamTypeOK
<1>9. RingOK'
  <2>1. ~closed
    BY <1>0, <1>2 DEF RingOK
  <2>2. \A i \in DOMAIN buf : FrameOK(buf[i])'
    BY <1>0, <1>5, <1>7, FrameKept DEF RingOK
  <2>3. ASSUME NEW i \in DOMAIN produce'.q, produce'.q[i] = "end"
        PROVE  endSent' = nextID - 1 + i
    <3>1. i \in 1..(Len(produce.q) + 1)
      BY SMTT(30), <1>1, <1>3, <2>3
    <3>2. CASE i = Len(produce.q) + 1
      <4>1. produce'.q[i] = kind
        BY SMTT(30), <1>1, <1>3, <3>2
      <4> QED
        BY SMTT(30), <1>1, <1>4, <1>6, <2>3, <3>2, <4>1
    <3>3. CASE i \in 1..Len(produce.q)
      <4>1. produce'.q[i] = produce.q[i] /\ i \in DOMAIN produce.q
        BY SMTT(30), <1>1, <1>3, <3>3
      <4>2. endSent = nextID - 1 + i
        BY <1>0, <2>3, <4>1 DEF RingOK
      <4>3. endSent # 0
        BY SMTT(30), <1>1, <1>6, <3>3, <4>2
      <4> QED
        BY <1>5, <4>2, <4>3
    <3> QED
      BY SMTT(30), <1>6, <3>1, <3>2, <3>3
  <2> QED
    BY <1>0, <1>7, <2>1, <2>2, <2>3 DEF RingOK
<1>10. \A c \in Conns : ConnOK(c)'
  BY <1>5, <1>7, ConnKept DEF StreamInv
<1>11. \A t \in Tabs : TabOK(t)'
  BY <1>5, <1>7, TabKept DEF StreamInv, SameFeed
<1> QED
  BY <1>8, <1>9, <1>10, <1>11 DEF StreamInv

LEMMA IdleKeeps ==
    ASSUME StreamInv, CloseProduce \/ Cleanup \/ UNCHANGED streamVars
    PROVE  StreamInv'
<1>0. StreamTypeOK /\ RingOK
  BY DEF StreamInv
<1>1. UNCHANGED <<endSent, buf, nextID, closed, subscriber, sse, conn, tab, opens, drops>>
  BY DEF CloseProduce, Cleanup, streamVars, generation
<1>2. /\ produce' \in [q : Seq({"delta", "end"}), open : BOOLEAN]
      /\ produce'.q = produce.q /\ (produce'.open => produce.open)
  BY <1>0 DEF StreamTypeOK, CloseProduce, Cleanup, streamVars, generation
<1>3. held' \in BOOLEAN
  BY <1>0 DEF StreamTypeOK, CloseProduce, Cleanup, streamVars, generation
<1>4. StreamTypeOK'
  BY <1>0, <1>1, <1>2, <1>3 DEF StreamTypeOK
<1>5. RingOK'
  BY <1>0, <1>1, <1>2 DEF RingOK, FrameOK
<1>6. \A c \in Conns : ConnOK(c)'
  BY <1>1, ConnKept DEF StreamInv
<1>7. \A t \in Tabs : TabOK(t)'
  BY <1>1, TabKept DEF StreamInv, SameFeed
<1> QED
  BY <1>4, <1>5, <1>6, <1>7 DEF StreamInv

-----------------------------------------------------------------------------
(* The pump. *)

\* The event it takes is the next one, and the stream_end only if it was sent so.
LEMMA PumpTakes ==
    ASSUME StreamInv, Pump
    PROVE  /\ \E e \in Frame : e.id = nextID /\ FrameOK(e)' /\ buf' = Retained(e) /\ Forward(e)
           /\ nextID \in Nat \ {0} /\ nextID' = nextID + 1 /\ ~closed /\ endSent' = endSent
           /\ produce' \in [q : Seq({"delta", "end"}), open : BOOLEAN]
           /\ \A i \in DOMAIN produce'.q : produce'.q[i] = "end" => endSent = nextID' - 1 + i
<1>0. StreamTypeOK /\ RingOK
  BY DEF StreamInv
<1>1. /\ produce.q \in Seq({"delta", "end"}) /\ produce.q # <<>> /\ nextID \in Nat \ {0}
      /\ produce \in [q : Seq({"delta", "end"}), open : BOOLEAN]
  BY <1>0 DEF StreamTypeOK, Pump
<1>2. /\ Len(produce.q) \in Nat \ {0} /\ DOMAIN produce.q = 1..Len(produce.q)
      /\ Head(produce.q) = produce.q[1] /\ Head(produce.q) \in {"delta", "end"}
      /\ Tail(produce.q) \in Seq({"delta", "end"}) /\ Len(Tail(produce.q)) = Len(produce.q) - 1
      /\ DOMAIN Tail(produce.q) = 1..(Len(produce.q) - 1)
      /\ \A i \in 1..(Len(produce.q) - 1) : Tail(produce.q)[i] = produce.q[i + 1]
  BY SMTT(30), <1>1
<1>3. nextID' = nextID + 1 /\ endSent' = endSent /\ produce' = [produce EXCEPT !.q = Tail(@)]
  BY DEF Pump
<1>4. ~closed
  BY <1>0, <1>1 DEF RingOK
<1>5. produce' \in [q : Seq({"delta", "end"}), open : BOOLEAN] /\ produce'.q = Tail(produce.q)
  BY <1>1, <1>2, <1>3
<1>6. Head(produce.q) = "end" => endSent = nextID
  <2>1. 1 \in DOMAIN produce.q
    BY SMTT(30), <1>2
  <2>2. Head(produce.q) = "end" => endSent = nextID - 1 + 1
    BY <1>0, <1>2, <2>1 DEF RingOK
  <2> QED
    BY SMTT(30), <1>1, <2>2
<1>7. PICK e : e = Numbered(nextID, Head(produce.q))
  OBVIOUS
<1>8. /\ e \in Frame /\ e.id = nextID /\ e.kind = Head(produce.q) /\ e.from = 0 /\ e.to = 0
  BY <1>1, <1>2, <1>7 DEF Numbered, Frame
<1>9. FrameOK(e)'
  BY <1>1, <1>2, <1>3, <1>6, <1>8 DEF FrameOK
<1>10. buf' = Retained(e) /\ Forward(e)
  BY <1>7 DEF Pump
<1>11. ASSUME NEW i \in DOMAIN produce'.q, produce'.q[i] = "end"
       PROVE  endSent = nextID' - 1 + i
  <2>1. i \in 1..(Len(produce.q) - 1) /\ i + 1 \in DOMAIN produce.q /\ produce.q[i + 1] = "end"
    BY SMTT(30), <1>2, <1>5, <1>11
  <2>2. endSent = nextID - 1 + (i + 1)
    BY <1>0, <2>1 DEF RingOK
  <2> QED
    BY SMTT(30), <1>1, <1>2, <1>3, <2>1, <2>2
<1> QED
  BY <1>1, <1>3, <1>4, <1>5, <1>8, <1>9, <1>10, <1>11

\* The ring goes on to the new number, whether or not it loses its oldest event.
LEMMA PumpRing ==
    ASSUME StreamInv, Pump
    PROVE  RingOK' /\ buf' \in Seq(Frame)
<1>0. StreamTypeOK /\ RingOK
  BY DEF StreamInv
<1>1. PICK e \in Frame : e.id = nextID /\ FrameOK(e)' /\ buf' = Retained(e)
  BY PumpTakes
<1>2. /\ nextID \in Nat \ {0} /\ nextID' = nextID + 1 /\ ~closed /\ endSent' = endSent
      /\ \A i \in DOMAIN produce'.q : produce'.q[i] = "end" => endSent = nextID' - 1 + i
      /\ closed' = closed
  BY PumpTakes DEF Pump
<1>3. PICK old : old = buf
  OBVIOUS
<1>4. /\ old \in Seq(Frame) /\ Len(old) \in Nat /\ DOMAIN old = 1..Len(old)
      /\ Len(old) <= Ring /\ Len(old) < nextID /\ Ring \in Nat \ {0}
      /\ \A i \in 1..Len(old) : FrameOK(old[i])' /\ old[i].id = nextID - 1 - Len(old) + i
  <2>1. old \in Seq(Frame) /\ Len(old) \in Nat /\ DOMAIN old = 1..Len(old)
    BY SMTT(30), <1>0, <1>3 DEF StreamTypeOK
  <2>2. \A i \in 1..Len(old) : FrameOK(old[i]) /\ old[i].id = nextID - 1 - Len(old) + i
    BY <1>0, <1>3, <2>1 DEF RingOK
  <2>3. \A i \in 1..Len(old) : FrameOK(old[i])'
    BY <1>2, <2>2, FrameKept
  <2> QED
    BY <1>0, <1>3, <2>1, <2>2, <2>3, StreamAssumption DEF RingOK
<1>5. \E s \in Seq(Frame) :
          /\ buf' = Append(s, e) /\ Len(s) + 1 <= Ring /\ Len(s) < nextID
          /\ \A i \in 1..Len(s) : FrameOK(s[i])' /\ s[i].id = nextID - 1 - Len(s) + i
  <2>1. CASE Len(old) >= Ring
    <3>1. buf' = Append(Tail(old), e)
      BY <1>1, <1>3, <2>1 DEF Retained
    <3>2. /\ Tail(old) \in Seq(Frame) /\ Len(Tail(old)) = Len(old) - 1 /\ Len(old) >= 1
          /\ \A i \in 1..(Len(old) - 1) : Tail(old)[i] = old[i + 1] /\ i + 1 \in 1..Len(old)
      BY SMTT(30), <1>4, <2>1
    <3>3. \A i \in 1..(Len(old) - 1) : FrameOK(Tail(old)[i])' /\ Tail(old)[i].id = nextID - 1 - (Len(old) - 1) + i
      BY SMTT(30), <1>2, <1>4, <3>2
    <3>4. Len(Tail(old)) + 1 <= Ring /\ Len(Tail(old)) < nextID
      BY SMTT(30), <1>2, <1>4, <3>2
    <3>5. \A i \in 1..Len(Tail(old)) :
              FrameOK(Tail(old)[i])' /\ Tail(old)[i].id = nextID - 1 - Len(Tail(old)) + i
      BY <3>2, <3>3
    <3> QED
      BY <3>1, <3>2, <3>4, <3>5
  <2>2. CASE ~(Len(old) >= Ring)
    <3>1. buf' = Append(old, e)
      BY <1>1, <1>3, <2>2 DEF Retained
    <3> QED
      BY SMTT(30), <1>4, <2>2, <3>1
  <2> QED
    BY <2>1, <2>2
<1>6. PICK s \in Seq(Frame) :
          /\ buf' = Append(s, e) /\ Len(s) + 1 <= Ring /\ Len(s) < nextID
          /\ \A i \in 1..Len(s) : FrameOK(s[i])' /\ s[i].id = nextID - 1 - Len(s) + i
  BY <1>5
<1>7. /\ buf' \in Seq(Frame) /\ Len(s) \in Nat /\ Len(buf') = Len(s) + 1 /\ DOMAIN buf' = 1..(Len(s) + 1)
      /\ \A i \in 1..Len(s) : buf'[i] = s[i]
      /\ buf'[Len(s) + 1] = e
  BY SMTT(30), <1>6
<1>8. buf' # <<>>
  BY SMTT(30), <1>7
<1>9. ASSUME NEW i \in DOMAIN buf'
      PROVE  FrameOK(buf[i])' /\ buf'[i].id = nextID' - 1 - Len(buf') + i
  <2>1. CASE i \in 1..Len(s)
    <3>1. buf'[i] = s[i] /\ FrameOK(s[i])' /\ s[i].id = nextID - 1 - Len(s) + i
      BY <1>6, <1>7, <2>1
    <3>2. nextID - 1 - Len(s) + i = nextID' - 1 - Len(buf') + i
      BY SMTT(30), <1>2, <1>7, <2>1
    <3> QED
      BY <3>1, <3>2
  <2>2. CASE i = Len(s) + 1
    BY SMTT(30), <1>1, <1>2, <1>7, <2>2
  <2> QED
    BY SMTT(30), <1>7, <2>1, <2>2
<1>10. Len(buf') <= Ring /\ Len(buf') < nextID'
  BY SMTT(30), <1>2, <1>4, <1>6, <1>7
<1> QED
  BY <1>2, <1>7, <1>8, <1>9, <1>10 DEF RingOK

\* A connection that is fed the next event, or is fed no longer.
Grows(c) ==
    /\ conn'[c].tab = conn[c].tab
    /\ conn'[c].at = conn[c].at
    /\ conn'[c].cursor = conn[c].cursor
    /\ \/ conn'[c].ch = conn[c].ch /\ subscriber' # c /\ conn'[c].closure # "producer_closed"
       \/ subscriber = c /\ \E e \in Frame : e.id = nextID /\ conn'[c].ch = Append(conn[c].ch, e)

LEMMA PumpTab ==
    ASSUME StreamInv, NEW t \in Tabs, tab'[t] = tab[t], nextID' = nextID + 1, ~closed,
           endSent' = endSent, tab[t].conn # None => Grows(tab[t].conn)
    PROVE  TabOK(t)'
<1>0. TabOK(t) /\ nextID \in Nat \ {0} /\ tab[t] \in Tab
  BY InvFacts DEF StreamInv, StreamTypeOK
<1>1. Accounted(t)' = Accounted(t)
  BY DEF Accounted
<1>2. tab[t].cursor \in Nat
  BY <1>0 DEF Tab
<1>3. CASE tab[t].conn = None
  BY SMTT(30), <1>0, <1>1, <1>2, <1>3 DEF TabOK
<1>4. CASE tab[t].conn # None
  <2>0. PICK c : c = tab[t].conn
    OBVIOUS
  <2>1. Grows(c) /\ c \in Conns /\ c = tab[t].conn
    BY <1>4, <2>0, LinkFacts
  <2>2. conn[c].ch \in Seq(Frame)
    BY <2>1, InvFacts DEF Connection
  <2>3. ASSUME Continues(t, c) PROVE Continues(t, c)'
    <3>1. PICK b \in 0..(nextID - 1) :
              /\ tab[t].cursor <= b
              /\ 1..b \subseteq Accounted(t) \cup Reported(conn[c].ch)
              /\ Chain(conn[c].ch, b)
              /\ Reach(conn[c].ch, b) < nextID
              /\ subscriber = c => Reach(conn[c].ch, b) = nextID - 1
      BY <2>3 DEF Continues
    <3>2. b \in Nat /\ b \in 0..(nextID' - 1)
      BY SMTT(30), <1>0
    <3>3. CASE conn'[c].ch = conn[c].ch /\ subscriber' # c /\ conn'[c].closure # "producer_closed"
      <4>1. Reach(conn[c].ch, b) \in Int
        <5>1. Reports(conn[c].ch) \in {0, 1} /\ Len(conn[c].ch) \in Nat
          BY SMTT(30), <2>2 DEF Reports
        <5> QED
          BY SMTT(30), <3>2, <5>1 DEF Reach
      <4>2. Reach(conn[c].ch, b) < nextID'
        BY SMTT(30), <1>0, <3>1, <4>1
      <4> QED
        BY <1>1, <3>1, <3>2, <3>3, <4>2 DEF Continues
    <3>4. ASSUME subscriber = c, NEW e \in Frame, e.id = nextID, conn'[c].ch = Append(conn[c].ch, e)
          PROVE  Continues(t, c)'
      <4>1. e.id = Reach(conn[c].ch, b) + 1
        BY SMTT(30), <1>0, <3>1, <3>4
      <4>2. /\ Chain(conn'[c].ch, b) /\ Reach(conn'[c].ch, b) = nextID
            /\ Reported(conn'[c].ch) = Reported(conn[c].ch)
        BY SMTT(30), <2>2, <3>1, <3>2, <3>4, <4>1, Appended
      <4>3. nextID < nextID' /\ nextID = nextID' - 1
        BY SMTT(30), <1>0
      <4> QED
        BY <1>1, <3>1, <3>2, <4>2, <4>3 DEF Continues
    <3> QED
      BY <2>1, <3>3, <3>4 DEF Grows
  <2>4. tab[t].cursor < nextID'
    BY SMTT(30), <1>0, <1>2 DEF TabOK
  <2> QED
    BY <1>0, <1>1, <1>4, <2>1, <2>3, <2>4 DEF TabOK, Grows
<1> QED
  BY <1>3, <1>4

\* What it forwards is the next event of the subscriber's channel; a full channel is
\* closed instead.
LEMMA PumpKeeps ==
    ASSUME StreamInv, Pump
    PROVE  StreamInv'
<1>0. StreamTypeOK /\ RingOK
  BY DEF StreamInv
<1>1. PICK e \in Frame : e.id = nextID /\ FrameOK(e)' /\ Forward(e)
  BY PumpTakes
<1>2. /\ nextID \in Nat \ {0} /\ nextID' = nextID + 1 /\ ~closed /\ endSent' = endSent
      /\ produce' \in [q : Seq({"delta", "end"}), open : BOOLEAN]
      /\ RingOK' /\ buf' \in Seq(Frame)
  BY PumpTakes, PumpRing
<1>3. UNCHANGED <<closed, held, sse, tab, opens, drops>>
  BY DEF Pump
<1>4. subscriber \in Conns \cup {None} /\ conn \in [Conns -> Connection]
  BY <1>0 DEF StreamTypeOK
<1>5. \A c \in Conns : conn[c] \in Connection /\ ConnOK(c) /\ c # None
  BY InvFacts
<1>6. \A t \in Tabs : TabOK(t)
  BY DEF StreamInv
<1>7. ASSUME NEW t \in Tabs, tab[t].conn # None PROVE tab[t].conn \in Conns /\ tab[t].conn # None
  BY <1>7, LinkFacts
<1>8. CASE subscriber = None
  <2>1. conn' = conn /\ subscriber' = subscriber
    BY <1>1, <1>8 DEF Forward
  <2>2. StreamTypeOK'
    BY SMTT(30), <1>0, <1>2, <1>3, <2>1 DEF StreamTypeOK
  <2>3. \A c \in Conns : ConnOK(c)'
    BY <1>2, <1>3, <1>5, <2>1, ConnKept
  <2>4. \A c \in Conns : Grows(c)
    BY <1>2, <1>5, <1>8, <2>1 DEF Grows, ConnOK
  <2>5. \A t \in Tabs : TabOK(t)'
    BY <1>2, <1>3, <1>7, <2>4, PumpTab
  <2> QED
    BY <1>2, <2>2, <2>3, <2>5 DEF StreamInv
<1>9. CASE subscriber # None /\ Len(conn[subscriber].ch) < conn[subscriber].cap
  <2>0. PICK s : s = subscriber
    OBVIOUS
  <2>1. /\ conn' = [conn EXCEPT ![s].ch = Append(@, e)] /\ subscriber' = subscriber
        /\ s \in Conns /\ conn[s] \in Connection /\ ConnOK(s) /\ s = subscriber
    <3>1. s \in Conns /\ conn[s] \in Connection /\ ConnOK(s)
      BY <1>4, <1>5, <1>9, <2>0
    <3>2. Len(conn[s].ch) \in Nat /\ conn[s].cap \in Nat
      BY SMTT(30), <3>1 DEF Connection
    <3>3. ~(Len(conn[subscriber].ch) >= conn[subscriber].cap)
      BY SMTT(30), <1>9, <2>0, <3>2
    <3>4. conn' = [conn EXCEPT ![subscriber].ch = Append(@, e)] /\ subscriber' = subscriber
      BY <1>1, <1>9, <3>3 DEF Forward
    <3> QED
      BY <2>0, <3>1, <3>4
  <2>2. conn[s].ch \in Seq(Frame) /\ Append(conn[s].ch, e) \in Seq(Frame)
    BY SMTT(30), <2>1 DEF Connection
  <2>3. conn' \in [Conns -> Connection]
    BY <1>4, <2>1, <2>2 DEF Connection
  <2>4. StreamTypeOK'
    BY SMTT(30), <1>0, <1>2, <1>3, <2>1, <2>3 DEF StreamTypeOK
  <2>5. ASSUME NEW c \in Conns, c # s PROVE conn'[c] = conn[c]
    BY SMTT(30), <2>1, <2>5
  <2>6. /\ conn'[s] = [conn[s] EXCEPT !.ch = Append(conn[s].ch, e)]
        /\ conn'[s].ch = Append(conn[s].ch, e)
        /\ \A f \in {"at", "tab", "cursor", "cap", "open", "closure", "taken", "wrote"} :
               conn'[s][f] = conn[s][f]
    BY <1>4, <2>1 DEF Connection
  <2>7. ConnOK(s)'
    <3>1. Len(conn'[s].ch) <= conn'[s].cap
      BY SMTT(30), <1>9, <2>1, <2>2, <2>6 DEF Connection
    <3>2. \A i \in DOMAIN conn'[s].ch : FrameOK(conn[s].ch[i])'
      BY SMTT(30), <1>1, <1>2, <2>1, <2>2, <2>6, FrameKept DEF ConnOK
    <3> QED
      BY <1>2, <1>3, <2>1, <2>6, <3>1, <3>2 DEF ConnOK
  <2>8. \A c \in Conns : ConnOK(c)'
    BY <1>2, <1>3, <1>5, <2>1, <2>5, <2>7, ConnKept
  <2>9. ASSUME NEW c \in Conns PROVE Grows(c)
    <3>1. CASE c = s
      <4>1. /\ conn'[s].tab = conn[s].tab /\ conn'[s].at = conn[s].at
            /\ conn'[s].cursor = conn[s].cursor
        BY <2>6
      <4> QED
        BY <1>1, <2>1, <2>6, <3>1, <4>1 DEF Grows
    <3>2. CASE c # s
      BY <1>2, <1>5, <2>1, <2>5, <3>2 DEF Grows, ConnOK
    <3> QED
      BY <3>1, <3>2
  <2>10. \A t \in Tabs : TabOK(t)'
    BY <1>2, <1>3, <1>7, <2>9, PumpTab
  <2> QED
    BY <1>2, <2>4, <2>8, <2>10 DEF StreamInv
<1>10. CASE subscriber # None /\ Len(conn[subscriber].ch) >= conn[subscriber].cap
  <2>0. PICK s : s = subscriber
    OBVIOUS
  <2>1. /\ conn' = [conn EXCEPT ![s] = Closed(@, "slow_consumer")] /\ subscriber' = None
        /\ s \in Conns /\ conn[s] \in Connection /\ ConnOK(s) /\ s = subscriber
    <3>1. s \in Conns /\ conn[s] \in Connection /\ ConnOK(s)
      BY <1>4, <1>5, <1>10, <2>0
    <3>2. Len(conn[s].ch) \in Nat /\ conn[s].cap \in Nat
      BY SMTT(30), <3>1 DEF Connection
    <3>3. ~(Len(conn[subscriber].ch) < conn[subscriber].cap)
      BY SMTT(30), <1>10, <2>0, <3>2
    <3>4. conn' = [conn EXCEPT ![subscriber] = Closed(@, "slow_consumer")] /\ subscriber' = None
      BY <1>1, <1>10, <3>3 DEF Forward
    <3> QED
      BY <2>0, <3>1, <3>4
  <2>2. conn' \in [Conns -> Connection]
    BY <1>4, <2>1 DEF Connection, Closed
  <2>3. StreamTypeOK'
    BY SMTT(30), <1>0, <1>2, <1>3, <2>1, <2>2 DEF StreamTypeOK
  <2>4. ASSUME NEW c \in Conns, c # s PROVE conn'[c] = conn[c]
    BY SMTT(30), <2>1, <2>4
  <2>5. /\ conn'[s].open = FALSE /\ conn'[s].closure = "slow_consumer"
        /\ \A f \in {"at", "tab", "cursor", "ch", "cap", "taken", "wrote"} : conn'[s][f] = conn[s][f]
    BY <1>4, <2>1 DEF Connection, Closed
  <2>6. ConnOK(s)'
    <3>1. \A i \in DOMAIN conn'[s].ch : FrameOK(conn[s].ch[i])'
      BY <1>2, <2>1, <2>5, FrameKept DEF ConnOK
    <3>2. /\ conn'[s].ch = conn[s].ch /\ conn'[s].cap = conn[s].cap /\ conn'[s].at = conn[s].at
          /\ conn'[s].wrote = conn[s].wrote /\ subscriber' # s /\ sse' = sse
      BY <1>3, <1>5, <2>1, <2>5
    <3> QED
      BY <2>1, <2>5, <3>1, <3>2 DEF ConnOK
  <2>7. \A c \in Conns : ConnOK(c)'
    BY <1>2, <1>3, <1>5, <2>1, <2>4, <2>6, ConnKept
  <2>8. ASSUME NEW c \in Conns PROVE Grows(c)
    <3>1. CASE c = s
      BY <1>5, <2>1, <2>5, <3>1 DEF Grows
    <3>2. CASE c # s
      BY <1>2, <1>5, <2>1, <2>4, <3>2 DEF Grows, ConnOK
    <3> QED
      BY <3>1, <3>2
  <2>9. \A t \in Tabs : TabOK(t)'
    BY <1>2, <1>3, <1>7, <2>8, PumpTab
  <2> QED
    BY <1>2, <2>3, <2>7, <2>9 DEF StreamInv
<1> QED
  BY <1>1, <1>8, <1>9, <1>10 DEF Forward

LEMMA PumpEndsKeeps ==
    ASSUME StreamInv, PumpEnds
    PROVE  StreamInv'
<1>0. StreamTypeOK /\ RingOK
  BY DEF StreamInv
<1>1. /\ ~produce.open /\ produce.q = <<>> /\ ~closed /\ closed' = TRUE /\ subscriber' = None
      /\ UNCHANGED <<produce, endSent, buf, nextID, held, sse, tab, opens, drops>>
  BY DEF PumpEnds, generation
<1>2. \A c \in Conns : conn[c] \in Connection /\ ConnOK(c) /\ c # None
  BY InvFacts
<1>3. subscriber \in Conns \cup {None} /\ conn \in [Conns -> Connection]
  BY <1>0 DEF StreamTypeOK
<1>4. conn' \in [Conns -> Connection]
  <2>1. CASE subscriber = None
    BY <1>3, <2>1 DEF PumpEnds
  <2>2. CASE subscriber \in Conns
    <3>1. Closed(conn[subscriber], "producer_closed") \in Connection
      BY <1>2, <2>2, ClosedFacts
    <3>2. conn' = [conn EXCEPT ![subscriber] = Closed(conn[subscriber], "producer_closed")]
      BY <1>2, <2>2 DEF PumpEnds
    <3> QED
      BY <1>3, <3>1, <3>2
  <2> QED
    BY <1>3, <2>1, <2>2
<1>5. StreamTypeOK'
  BY <1>0, <1>1, <1>4 DEF StreamTypeOK
<1>6. RingOK'
  BY <1>0, <1>1 DEF RingOK, FrameOK
<1>7. ASSUME NEW c \in Conns
      PROVE  /\ \A f \in {"at", "tab", "cursor", "ch", "cap", "taken", "wrote"} : conn'[c][f] = conn[c][f]
             /\ c = subscriber => conn'[c].open = FALSE /\ conn'[c].closure = "producer_closed"
             /\ c # subscriber => conn'[c] = conn[c]
  BY SMTT(30), <1>2, <1>3 DEF PumpEnds, Connection, Closed
<1>8. ASSUME NEW c \in Conns PROVE ConnOK(c)'
  <2>1. ConnOK(c) /\ c # None
    BY <1>2
  <2>2. \A i \in DOMAIN conn'[c].ch : FrameOK(conn[c].ch[i])'
    BY <1>1, <1>7, <2>1, FrameKept DEF ConnOK
  <2>3. CASE c = subscriber
    BY <1>1, <1>7, <2>1, <2>2, <2>3 DEF ConnOK
  <2>4. CASE c # subscriber
    BY <1>1, <1>7, <2>1, <2>2, <2>4 DEF ConnOK
  <2> QED
    BY <2>3, <2>4
<1>9. \A c \in Conns : SameFeed(c)
  BY <1>1, <1>2, <1>7 DEF SameFeed
<1>10. \A t \in Tabs : TabOK(t)'
  BY <1>1, <1>9, LinkFacts, TabKept DEF StreamInv
<1> QED
  BY <1>5, <1>6, <1>8, <1>10 DEF StreamInv

-----------------------------------------------------------------------------
(* Connecting. *)

\* A new connection tells the registered one, and the subscriber is that one or has
\* been told before.
LEMMA RegisterKeeps ==
    ASSUME StreamInv, NEW t \in Tabs, NEW c \in Conns, RegisterSSE(t, c),
           tab[t].at # "linked", tab[t].at # "done", opens' \in Nat
    PROVE  StreamInv'
<1>0. StreamTypeOK /\ RingOK /\ TabOK(t) /\ tab[t] \in Tab
  BY InvFacts DEF StreamInv
<1>1. /\ conn[c].at = "free" /\ sse' = c /\ \A d \in Conns : conn[d].at # "subscribe"
      /\ UNCHANGED <<produce, endSent, buf, nextID, closed, subscriber, held, drops>>
  BY DEF RegisterSSE, sseMu, generation
<1>2. \A d \in Conns : conn[d] \in Connection /\ ConnOK(d) /\ d # None
  BY InvFacts
<1>3. conn \in [Conns -> Connection] /\ tab \in [Tabs -> Tab] /\ t # None
  BY InvFacts, <1>0 DEF StreamTypeOK
<1>4. tab' = [tab EXCEPT ![t].at = "linked", ![t].conn = c]
  BY DEF RegisterSSE
<1>5. /\ tab' \in [Tabs -> Tab] /\ \A u \in Tabs : u # t => tab'[u] = tab[u]
      /\ tab'[t].at = "linked" /\ tab'[t].conn = c /\ tab'[t].cursor = tab[t].cursor
      /\ tab'[t].got = tab[t].got /\ tab'[t].told = tab[t].told
  BY <1>0, <1>3, <1>4 DEF Tab
<1>6. tab[t].cursor \in Nat
  BY <1>0 DEF Tab
<1>7. conn'[c] = [NoConn EXCEPT !.at = "subscribe", !.tab = t, !.cursor = tab[t].cursor]
  BY DEF RegisterSSE
<1>8. /\ conn'[c].at = "subscribe" /\ conn'[c].tab = t /\ conn'[c].cursor = tab[t].cursor
      /\ conn'[c].ch = <<>> /\ conn'[c].cap = 0 /\ conn'[c].open = FALSE /\ conn'[c].closure = "none"
      /\ conn'[c].taken = FALSE /\ conn'[c].wrote = "none"
      /\ conn'[c] \in Connection
  <2>1. conn'[c] = [at |-> "subscribe", tab |-> t, cursor |-> tab[t].cursor, ch |-> <<>>, cap |-> 0,
                    open |-> FALSE, closure |-> "none", taken |-> FALSE, wrote |-> "none"]
    BY <1>7 DEF NoConn
  <2>2. <<>> \in Seq(Frame) /\ 0 \in Nat
    BY SMTT(30)
  <2>3. conn'[c] \in Connection
    <3>1. PICK x : x = tab[t].cursor
      OBVIOUS
    <3>2. x \in Nat /\ conn'[c] = [at |-> "subscribe", tab |-> t, cursor |-> x, ch |-> <<>>, cap |-> 0,
                                  open |-> FALSE, closure |-> "none", taken |-> FALSE, wrote |-> "none"]
      BY <1>6, <2>1, <3>1
    <3> QED
      BY SMTT(30), <2>2, <3>2 DEF Connection
  <2> QED
    BY SMTT(30), <2>1, <2>3
<1>9. ASSUME NEW d \in Conns, d # c
      PROVE  /\ conn'[d] \in Connection
             /\ \A f \in {"at", "tab", "cursor", "ch", "cap", "open", "closure", "wrote"} : conn'[d][f] = conn[d][f]
             /\ d = sse => conn'[d].taken = TRUE
             /\ d # sse => conn'[d] = conn[d]
  <2>1. conn'[d] = IF d = sse THEN [conn[d] EXCEPT !.taken = TRUE] ELSE conn[d]
    BY <1>9 DEF RegisterSSE
  <2>2. conn[d] \in Connection
    BY <1>2
  <2>3. CASE d # sse
    BY <2>1, <2>2, <2>3
  <2>4. CASE d = sse
    <3>1. conn'[d] = [conn[d] EXCEPT !.taken = TRUE]
      BY <2>1, <2>4
    <3>2. conn'[d] \in Connection
      BY <2>2, <3>1 DEF Connection
    <3> QED
      BY SMTT(30), <2>2, <2>4, <3>1, <3>2 DEF Connection
  <2> QED
    BY <2>3, <2>4
<1>10. conn' \in [Conns -> Connection]
  <2>1. \A d \in Conns : conn'[d] \in Connection
    BY <1>8, <1>9
  <2>2. conn' = [d \in Conns |-> conn'[d]]
    BY DEF RegisterSSE
  <2> QED
    BY <2>1, <2>2
<1>11. StreamTypeOK'
  BY <1>0, <1>1, <1>5, <1>10 DEF StreamTypeOK
<1>12. RingOK'
  BY <1>0, <1>1, RingKept
<1>13. ASSUME NEW d \in Conns PROVE ConnOK(d)'
  <2>1. CASE d = c
    <3>1. subscriber # c
      BY <1>1, <1>2 DEF ConnOK
    <3> QED
      BY SMTT(30), <1>1, <1>8, <2>1, <3>1 DEF ConnOK
  <2>2. CASE d # c
    <3>1. ConnOK(d) /\ conn[d].at # "subscribe"
      BY <1>1, <1>2
    <3>2. \A i \in DOMAIN conn'[d].ch : FrameOK(conn[d].ch[i])'
      BY <1>1, <1>9, <2>2, <3>1, FrameKept DEF ConnOK
    <3>3. conn[d].taken => conn'[d].taken
      BY <1>9, <2>2
    <3> QED
      BY <1>1, <1>9, <2>2, <3>1, <3>2, <3>3 DEF ConnOK
  <2> QED
    BY <2>1, <2>2
<1>14. ASSUME NEW u \in Tabs PROVE TabOK(u)'
  <2>1. CASE u = t
    <3>1. Accounted(t)' = Accounted(t)
      BY <1>5 DEF Accounted
    <3> QED
      BY <1>0, <1>1, <1>2, <1>5, <1>8, <2>1, <3>1 DEF TabOK
  <2>2. CASE u # t
    <3>1. tab[u].conn # None => tab[u].conn \in Conns /\ tab[u].conn # c
      BY <1>1, LinkFacts
    <3>2. tab[u].conn # None => SameFeed(tab[u].conn)
      BY <1>1, <1>9, <3>1 DEF SameFeed
    <3> QED
      BY <1>1, <1>5, <2>2, <3>2, TabKept DEF StreamInv
  <2> QED
    BY <2>1, <2>2
<1> QED
  BY <1>11, <1>12, <1>13, <1>14 DEF StreamInv

\* The replay joins under the lock; the subscriber it replaces was told.
LEMMA SubscribeKeeps ==
    ASSUME StreamInv, NEW c \in Conns, Subscribe(c)
    PROVE  StreamInv'
<1>0. StreamTypeOK /\ RingOK
  BY DEF StreamInv
<1>1. /\ conn[c].at = "subscribe"
      /\ UNCHANGED <<produce, endSent, buf, nextID, closed, held, sse, tab, opens, drops>>
      /\ subscriber' = IF closed THEN subscriber ELSE c
  BY DEF Subscribe, generation
<1>2. \A d \in Conns : conn[d] \in Connection /\ ConnOK(d) /\ d # None
  BY InvFacts
<1>3. sse = c /\ conn[c].wrote = "none" /\ conn[c].cursor \in Nat
  BY <1>1, <1>2 DEF ConnOK, Connection
<1>4. PICK ch : ch = Opening(conn[c].cursor)
  OBVIOUS
<1>5. /\ ch \in Seq(Frame) /\ Len(ch) \in Nat /\ Len(ch) <= Len(buf) + 1 /\ \A i \in DOMAIN ch : FrameOK(ch[i])
      /\ conn[c].cursor < nextID =>
             \E b \in 0..(nextID - 1) :
                 /\ conn[c].cursor <= b
                 /\ 1..b \subseteq 1..conn[c].cursor \cup Reported(ch)
                 /\ Chain(ch, b)
                 /\ Reach(ch, b) = nextID - 1
  <2>1. PICK x : x = conn[c].cursor
    OBVIOUS
  <2>2. x \in Nat /\ ch = Opening(x)
    BY <1>3, <1>4, <2>1
  <2>3. /\ ch \in Seq(Frame) /\ Len(ch) <= Len(buf) + 1 /\ \A i \in DOMAIN ch : FrameOK(ch[i])
        /\ x < nextID =>
               \E b \in 0..(nextID - 1) :
                   /\ x <= b
                   /\ 1..b \subseteq 1..x \cup Reported(ch)
                   /\ Chain(ch, b)
                   /\ Reach(ch, b) = nextID - 1
    BY <1>0, <2>2, SubscriptionStarts
  <2>4. Len(ch) \in Nat
    BY SMTT(30), <2>3
  <2> QED
    BY <2>1, <2>3, <2>4
<1>6. Len(buf) \in Nat /\ nextID \in Nat \ {0} /\ closed \in BOOLEAN /\ subscriber \in Conns \cup {None}
  BY SMTT(30), <1>0 DEF StreamTypeOK
<1>7. Capacity \in Nat /\ Len(ch) <= Capacity
  BY SMTT(30), <1>5, <1>6, StreamAssumption DEF Capacity
<1>8. conn'[c] = [conn[c] EXCEPT !.at = "serve", !.ch = ch, !.cap = Capacity, !.open = ~closed,
                                 !.closure = IF closed THEN "producer_closed" ELSE "none"]
  BY <1>4 DEF Subscribe, Opening
<1>9. /\ conn'[c] \in Connection
      /\ conn'[c].at = "serve" /\ conn'[c].ch = ch /\ conn'[c].cap = Capacity
      /\ conn'[c].open = ~closed
      /\ conn'[c].closure = IF closed THEN "producer_closed" ELSE "none"
      /\ conn'[c].tab = conn[c].tab /\ conn'[c].wrote = "none" /\ conn'[c].taken = conn[c].taken
  BY <1>2, <1>3, <1>5, <1>6, <1>7, <1>8 DEF Connection
<1>10. ASSUME NEW d \in Conns, d # c
       PROVE  /\ conn'[d] \in Connection
              /\ \A f \in {"at", "tab", "cursor", "ch", "cap", "taken", "wrote"} : conn'[d][f] = conn[d][f]
              /\ d = subscriber /\ ~closed => conn'[d].open = FALSE /\ conn'[d].closure = "session_takeover"
              /\ ~(d = subscriber /\ ~closed) => conn'[d] = conn[d]
  <2>1. conn'[d] = IF d = subscriber /\ ~closed THEN Closed(conn[d], "session_takeover") ELSE conn[d]
    BY <1>10 DEF Subscribe
  <2>2. conn[d] \in Connection
    BY <1>2
  <2>3. CASE d = subscriber /\ ~closed
    <3>1. conn'[d] = Closed(conn[d], "session_takeover")
      BY <2>1, <2>3
    <3>2. conn'[d] \in Connection /\ conn'[d].open = FALSE /\ conn'[d].closure = "session_takeover"
      <4>1. PICK x : x = conn[d]
        OBVIOUS
      <4>2. x \in Connection /\ conn'[d] = Closed(x, "session_takeover")
        BY <2>2, <3>1, <4>1
      <4>3. conn'[d] \in Connection
        BY <4>2 DEF Closed, Connection
      <4>4. conn'[d].open = FALSE /\ conn'[d].closure = "session_takeover"
        BY <4>2 DEF Closed, Connection
      <4> QED
        BY <4>3, <4>4
    <3>3. \A f \in {"at", "tab", "cursor", "ch", "cap", "taken", "wrote"} : conn'[d][f] = conn[d][f]
      BY <2>2, <3>1 DEF Closed, Connection
    <3> QED
      BY <2>2, <2>3, <3>1, <3>2, <3>3
  <2>4. CASE ~(d = subscriber /\ ~closed)
    BY <2>1, <2>2, <2>4
  <2> QED
    BY <2>3, <2>4
<1>11. conn' \in [Conns -> Connection]
  <2>1. \A d \in Conns : conn'[d] \in Connection
    BY <1>9, <1>10
  <2>2. conn' = [d \in Conns |-> conn'[d]]
    BY DEF Subscribe
  <2> QED
    BY <2>1, <2>2
<1>12. StreamTypeOK'
  BY <1>0, <1>1, <1>6, <1>11 DEF StreamTypeOK
<1>13. RingOK'
  BY <1>0, <1>1, RingKept
<1>14. closed => subscriber = None
  BY <1>2, <1>6 DEF ConnOK
<1>15. ASSUME NEW d \in Conns PROVE ConnOK(d)'
  <2>1. CASE d = c
    <3>1. \A i \in DOMAIN conn'[c].ch : FrameOK(conn[c].ch[i])'
      BY <1>1, <1>5, <1>9, FrameKept
    <3>2. Len(conn'[c].ch) <= conn'[c].cap
      BY <1>7, <1>9
    <3> QED
      BY <1>1, <1>2, <1>3, <1>6, <1>9, <1>14, <2>1, <3>1, <3>2 DEF ConnOK
  <2>2. CASE d # c
    <3>1. ConnOK(d) /\ d # None
      BY <1>2
    <3>2. \A i \in DOMAIN conn'[d].ch : FrameOK(conn[d].ch[i])'
      BY <1>1, <1>10, <2>2, <3>1, FrameKept DEF ConnOK
    <3>3. subscriber' # d
      BY <1>1, <1>14, <2>2, <3>1
    <3>4. CASE d = subscriber /\ ~closed
      <4>1. conn[d].open /\ conn[d].taken /\ conn[d].wrote # "stream_closed"
        BY <1>3, <2>2, <3>1, <3>4 DEF ConnOK
      <4> QED
        BY <1>1, <1>10, <2>2, <3>1, <3>2, <3>3, <3>4, <4>1 DEF ConnOK
    <3>5. CASE ~(d = subscriber /\ ~closed)
      BY <1>1, <1>10, <2>2, <3>1, <3>2, <3>3, <3>5 DEF ConnOK
    <3> QED
      BY <3>4, <3>5
  <2> QED
    BY <2>1, <2>2
<1>16. ASSUME NEW t \in Tabs PROVE TabOK(t)'
  <2>0. TabOK(t)
    BY InvFacts
  <2>1. CASE tab[t].conn = c
    <3>1. Accounted(t)' = Accounted(t)
      BY <1>1 DEF Accounted
    <3>2. /\ conn[c].cursor = tab[t].cursor /\ tab[t].cursor < nextID /\ conn[c].tab = t
          /\ 1..tab[t].cursor \subseteq Accounted(t)
      BY <1>1, <1>2, <2>0, <2>1 DEF TabOK
    <3>3. Continues(t, c)'
      <4>1. PICK b \in 0..(nextID - 1) :
                /\ tab[t].cursor <= b
                /\ 1..b \subseteq 1..tab[t].cursor \cup Reported(ch)
                /\ Chain(ch, b)
                /\ Reach(ch, b) = nextID - 1
        BY <1>5, <3>2
      <4>2. 1..b \subseteq Accounted(t)' \cup Reported(ch)
        BY <3>1, <3>2, <4>1
      <4>3. nextID - 1 < nextID
        BY SMTT(30), <1>6
      <4> QED
        BY <1>1, <1>9, <4>1, <4>2, <4>3 DEF Continues
    <3> QED
      BY <1>1, <1>9, <2>0, <2>1, <3>1, <3>2, <3>3 DEF TabOK
  <2>2. CASE tab[t].conn # c
    <3>1. tab[t].conn # None => tab[t].conn \in Conns
      BY LinkFacts
    <3>2. ASSUME NEW d \in Conns, d # c PROVE SameFeed(d)
      BY <1>1, <1>2, <1>10, <1>14, <3>2 DEF SameFeed
    <3> QED
      BY <1>1, <2>0, <2>2, <3>1, <3>2, TabKept
  <2> QED
    BY <2>1, <2>2
<1> QED
  BY <1>12, <1>13, <1>15, <1>16 DEF StreamInv

\* A tab that gives up, or is cut off.
LEMMA TabStepKeeps ==
    ASSUME StreamInv, NEW t \in Tabs, NotFound(t) \/ Drop(t)
    PROVE  StreamInv'
<1>0. StreamTypeOK /\ RingOK /\ TabOK(t) /\ tab[t] \in Tab
  BY InvFacts DEF StreamInv
<1>1. UNCHANGED <<produce, endSent, buf, nextID, closed, subscriber, held, sse, conn, opens>>
  BY DEF NotFound, Drop, generation
<1>2. drops' \in Nat
  BY SMTT(30), <1>0 DEF StreamTypeOK, NotFound, Drop
<1>3. tab \in [Tabs -> Tab] /\ None \in Conns \cup {None}
  BY <1>0 DEF StreamTypeOK
<1>4. /\ tab' \in [Tabs -> Tab] /\ \A u \in Tabs : u # t => tab'[u] = tab[u]
      /\ tab'[t].at \in {"stored", "away"} /\ tab'[t].conn = None /\ tab'[t].cursor = tab[t].cursor
      /\ tab'[t].got = tab[t].got /\ tab'[t].told = tab[t].told
  <2>1. CASE NotFound(t)
    BY <1>0, <1>3, <2>1 DEF NotFound, Tab, TabOK
  <2>2. CASE Drop(t)
    BY <1>0, <1>3, <2>2 DEF Drop, Tab
  <2> QED
    BY <2>1, <2>2
<1>5. StreamTypeOK'
  BY <1>0, <1>1, <1>2, <1>4 DEF StreamTypeOK
<1>6. RingOK'
  BY <1>0, <1>1, RingKept
<1>7. \A c \in Conns : ConnOK(c)'
  BY <1>1, ConnKept DEF StreamInv
<1>8. ASSUME NEW u \in Tabs PROVE TabOK(u)'
  <2>1. CASE u = t
    BY <1>0, <1>1, <1>4, <2>1, TabLeft
  <2>2. CASE u # t
    BY <1>1, <1>4, <2>2, TabKept DEF StreamInv, SameFeed
  <2> QED
    BY <2>1, <2>2
<1> QED
  BY <1>5, <1>6, <1>7, <1>8 DEF StreamInv

-----------------------------------------------------------------------------
(* The handler. *)

\* A step of one handler leaves the other connections, and their tabs, alone.
LEMMA HandlerKeeps ==
    ASSUME StreamInv, NEW c \in Conns,
           UNCHANGED <<produce, endSent, buf, nextID, closed, held, sse, opens, drops>>,
           subscriber' \in {subscriber, None},
           conn' \in [Conns -> Connection], \A d \in Conns : d # c => conn'[d] = conn[d],
           tab' \in [Tabs -> Tab], \A t \in Tabs : tab[t].conn # c => tab'[t] = tab[t],
           ConnOK(c)', \A t \in Tabs : tab[t].conn = c => TabOK(t)'
    PROVE  StreamInv'
<1>0. StreamTypeOK /\ RingOK
  BY DEF StreamInv
<1>1. \A d \in Conns : ConnOK(d) /\ d # None
  BY InvFacts
<1>2. StreamTypeOK'
  BY <1>0 DEF StreamTypeOK
<1>3. RingOK'
  BY <1>0, RingKept
<1>4. ASSUME NEW d \in Conns PROVE ConnOK(d)'
  <2>1. CASE d = c
    BY <2>1
  <2>2. CASE d # c
    BY <1>1, <2>2, ConnKept
  <2> QED
    BY <2>1, <2>2
<1>5. ASSUME NEW t \in Tabs PROVE TabOK(t)'
  <2>1. CASE tab[t].conn = c
    BY <2>1
  <2>2. CASE tab[t].conn # c
    <3>1. tab[t].conn # None => SameFeed(tab[t].conn)
      BY <1>1, <2>2, LinkFacts DEF SameFeed
    <3> QED
      BY <2>2, <3>1, TabKept DEF StreamInv
  <2> QED
    BY <2>1, <2>2
<1> QED
  BY <1>2, <1>3, <1>4, <1>5 DEF StreamInv

\* The tab of the connection gets the next number, or is told of a gap before it.
LEMMA CarryTab ==
    ASSUME StreamInv, NEW c \in Conns, Carry(c), NEW t \in Tabs, tab[t].conn = c
    PROVE  tab'[t] \in Tab /\ TabOK(t)'
<1>0. /\ tab[t] \in Tab /\ TabOK(t) /\ conn[c] \in Connection /\ ConnOK(c) /\ c # None
      /\ nextID \in Nat \ {0} /\ conn \in [Conns -> Connection] /\ tab \in [Tabs -> Tab]
  BY InvFacts DEF StreamInv, StreamTypeOK
<1>1. /\ conn[c].at = "serve" /\ conn[c].ch # <<>> /\ conn[c].tab = t /\ Linked(c)
      /\ UNCHANGED <<endSent, nextID, closed, subscriber>>
  BY <1>0, LinkFacts DEF Carry, generation
<1>2. PICK ch : ch = conn[c].ch
  OBVIOUS
<1>3. ch \in Seq(Frame) /\ ch # <<>> /\ Len(ch) \in Nat \ {0} /\ ch[1] \in Frame /\ Head(ch) = ch[1]
  BY SMTT(30), <1>0, <1>1, <1>2 DEF Connection
<1>4. PICK e : e = ch[1]
  OBVIOUS
<1>5. /\ e \in Frame /\ FrameOK(e) /\ e.id \in Nat /\ e.from \in Nat /\ e.to \in Nat
  <2>1. 1 \in DOMAIN conn[c].ch
    BY SMTT(30), <1>2, <1>3
  <2> QED
    BY <1>0, <1>2, <1>3, <1>4, <2>1 DEF ConnOK, Frame
<1>6. /\ conn'[c].ch = Tail(ch) /\ conn'[c].tab = t
      /\ e.kind # "end" => conn'[c].at = "serve"
      /\ conn'[c].closure = conn[c].closure
  BY <1>0, <1>1, <1>2, <1>3, <1>4 DEF Carry, Connection
<1>7. tab'[t] = Receives(tab[t], e)
  BY <1>0, <1>1, <1>2, <1>3, <1>4 DEF Carry
<1>8. /\ tab'[t].got = (IF e.id > 0 THEN Append(tab[t].got, e.id) ELSE tab[t].got)
      /\ tab'[t].cursor = (IF e.id > 0 THEN e.id ELSE tab[t].cursor)
      /\ tab'[t].told = tab[t].told \cup ((e.from .. e.to) \ {0})
      /\ tab'[t].at = (IF e.kind = "end" THEN "done" ELSE tab[t].at)
      /\ tab'[t].conn = (IF e.kind = "end" THEN None ELSE c)
  BY <1>0, <1>7 DEF Receives, Tab
<1>9. tab'[t] \in Tab
  <2>1. tab[t].got \in Seq(Nat) /\ tab[t].told \subseteq Nat
    BY <1>0 DEF Tab
  <2>2. (e.from .. e.to) \subseteq Nat /\ (e.id > 0 => Append(tab[t].got, e.id) \in Seq(Nat))
    BY SMTT(30), <1>5, <2>1
  <2>3. /\ tab[t].told \cup ((e.from .. e.to) \ {0}) \in SUBSET Nat
        /\ (IF e.id > 0 THEN Append(tab[t].got, e.id) ELSE tab[t].got) \in Seq(Nat)
        /\ (IF e.id > 0 THEN e.id ELSE tab[t].cursor) \in Nat
    BY <1>0, <1>5, <2>1, <2>2 DEF Tab
  <2> QED
    BY <1>0, <1>7, <2>3 DEF Receives, Tab
<1>10. /\ tab[t].at = "linked" /\ Continues(t, c) /\ tab[t].cursor < nextID
       /\ 1..tab[t].cursor \subseteq Accounted(t)
       /\ \A i \in DOMAIN tab[t].got : tab[t].got[i] <= tab[t].cursor
       /\ \A i \in DOMAIN tab[t].got : \A j \in 1..(i - 1) : tab[t].got[j] < tab[t].got[i]
  BY <1>0, <1>1 DEF TabOK
<1>11. PICK b \in 0..(nextID - 1) :
           /\ tab[t].cursor <= b
           /\ 1..b \subseteq Accounted(t) \cup Reported(ch)
           /\ Chain(ch, b)
           /\ Reach(ch, b) < nextID
           /\ subscriber = c \/ conn[c].closure = "producer_closed" => Reach(ch, b) = nextID - 1
  <2>1. PICK b \in 0..(nextID - 1) :
            /\ tab[t].cursor <= b
            /\ 1..b \subseteq Accounted(t) \cup Reported(conn[c].ch)
            /\ Chain(conn[c].ch, b)
            /\ Reach(conn[c].ch, b) < nextID
            /\ subscriber = c \/ conn[c].closure = "producer_closed" =>
                   Reach(conn[c].ch, b) = nextID - 1
    BY <1>10 DEF Continues
  <2> QED
    BY <1>2, <2>1
<1>12. b \in Nat /\ tab[t].cursor \in Nat /\ tab[t].got \in Seq(Nat)
  BY SMTT(30), <1>0 DEF Tab
<1>13. CASE e.id = 0
  <2>1. e.kind = "gap" /\ Reported(ch) = e.from .. e.to
    BY <1>3, <1>4, <1>5, <1>13 DEF FrameOK, Reported
  <2>2. Chain(Tail(ch), b) /\ Reach(Tail(ch), b) = Reach(ch, b)
    BY <1>3, <1>4, <1>11, <1>12, <1>13, TailOfReport
  <2>3. /\ tab'[t].got = tab[t].got /\ tab'[t].cursor = tab[t].cursor /\ tab'[t].at = "linked"
        /\ tab'[t].conn = c /\ tab'[t].told = tab[t].told \cup ((e.from .. e.to) \ {0})
    BY SMTT(30), <1>8, <1>10, <1>13, <2>1
  <2>4. Accounted(t)' = Accounted(t) \cup ((e.from .. e.to) \ {0})
    BY <2>3 DEF Accounted
  <2>5. 1..b \subseteq Accounted(t)' /\ 1..tab[t].cursor \subseteq Accounted(t)'
    BY SMTT(30), <1>10, <1>11, <1>12, <2>1, <2>4
  <2>6. Continues(t, c)'
    BY <1>1, <1>6, <1>11, <2>2, <2>3, <2>5 DEF Continues
  <2> QED
    BY <1>0, <1>1, <1>6, <1>9, <1>10, <2>1, <2>3, <2>5, <2>6 DEF TabOK
<1>14. CASE e.id # 0
  <2>1. /\ e.id = b + 1 /\ Chain(Tail(ch), b + 1) /\ Reach(Tail(ch), b + 1) = Reach(ch, b)
        /\ Reported(ch) = {} /\ Reported(Tail(ch)) = {}
    BY <1>3, <1>4, <1>11, <1>12, <1>14, TailOfEvent
  <2>2. e.id > 0 /\ e.from = 0 /\ e.to = 0
    BY SMTT(30), <1>5, <1>14 DEF FrameOK
  <2>3. /\ tab'[t].got = Append(tab[t].got, e.id) /\ tab'[t].cursor = e.id /\ tab'[t].told = tab[t].told
    BY SMTT(30), <1>8, <2>2
  <2>4. /\ Len(tab[t].got) \in Nat /\ DOMAIN tab[t].got = 1..Len(tab[t].got)
        /\ DOMAIN tab'[t].got = 1..(Len(tab[t].got) + 1)
        /\ \A i \in 1..Len(tab[t].got) : tab'[t].got[i] = tab[t].got[i] /\ tab[t].got[i] \in Nat
        /\ tab'[t].got[Len(tab[t].got) + 1] = e.id
    <3>1. PICK q : q = tab[t].got
      OBVIOUS
    <3>2. q \in Seq(Nat) /\ tab'[t].got = Append(q, e.id)
      BY <1>12, <2>3, <3>1
    <3>3. /\ Len(q) \in Nat /\ DOMAIN q = 1..Len(q)
          /\ DOMAIN tab'[t].got = 1..(Len(q) + 1)
          /\ \A i \in 1..Len(q) : tab'[t].got[i] = q[i] /\ q[i] \in Nat
          /\ tab'[t].got[Len(q) + 1] = e.id
      BY SMTT(30), <1>5, <3>2
    <3> QED
      BY <3>1, <3>3
  <2>5. Accounted(t)' = Accounted(t) \cup {e.id}
    BY SMTT(30), <2>3, <2>4 DEF Accounted
  <2>6. 1..e.id \subseteq Accounted(t)'
    <3>1. 1..b \subseteq Accounted(t)
      BY <1>11, <2>1
    <3>2. 1..(b + 1) = 1..b \cup {b + 1}
      BY SMTT(30), <1>12
    <3> QED
      BY <2>1, <2>5, <3>1, <3>2
  <2>7. e.id < nextID /\ b + 1 \in 0..(nextID - 1)
    <3>1. Reach(ch, b) = b + Len(ch)
      BY SMTT(30), <1>3, <1>4, <1>12, <1>14 DEF Reach, Reports
    <3> QED
      BY SMTT(30), <1>0, <1>3, <1>11, <1>12, <2>1, <3>1
  <2>8. \A i \in DOMAIN tab'[t].got : tab'[t].got[i] <= e.id
    <3>1. ASSUME NEW i \in 1..Len(tab[t].got) PROVE tab[t].got[i] <= b
      <4>1. tab[t].got[i] \in Nat /\ tab[t].got[i] <= tab[t].cursor
        BY <1>10, <2>4
      <4> QED
        BY SMTT(30), <1>11, <1>12, <4>1
    <3>2. ASSUME NEW i \in 1..Len(tab[t].got) PROVE tab'[t].got[i] <= e.id
      <4>1. tab'[t].got[i] = tab[t].got[i] /\ tab[t].got[i] \in Nat /\ tab[t].got[i] <= b
        BY <2>4, <3>1
      <4> QED
        BY SMTT(30), <1>12, <2>1, <4>1
    <3>3. ASSUME NEW i \in 1..(Len(tab[t].got) + 1), i \notin 1..Len(tab[t].got)
          PROVE  tab'[t].got[i] = e.id
      BY SMTT(30), <2>4, <3>3
    <3> QED
      BY SMTT(30), <1>5, <2>4, <3>2, <3>3
  <2>9. ASSUME NEW i \in DOMAIN tab'[t].got, NEW j \in 1..(i - 1)
        PROVE  tab'[t].got[j] < tab'[t].got[i]
    <3>1. j \in 1..Len(tab[t].got) /\ j \in DOMAIN tab[t].got
      BY SMTT(30), <2>4, <2>9
    <3>2. CASE i = Len(tab[t].got) + 1
      <4>1. tab'[t].got[j] = tab[t].got[j] /\ tab[t].got[j] \in Nat /\ tab[t].got[j] <= tab[t].cursor
        BY <1>10, <2>4, <3>1
      <4>2. tab'[t].got[i] = b + 1
        BY <2>1, <2>4, <3>2
      <4> QED
        BY SMTT(30), <1>11, <1>12, <4>1, <4>2
    <3>3. CASE i \in 1..Len(tab[t].got)
      <4>1. tab'[t].got[j] = tab[t].got[j] /\ tab'[t].got[i] = tab[t].got[i]
        BY <2>4, <3>1, <3>3
      <4>2. i \in DOMAIN tab[t].got
        BY <2>4, <3>3
      <4> QED
        BY <1>10, <2>9, <4>1, <4>2
    <3>4. i \in 1..(Len(tab[t].got) + 1) /\ Len(tab[t].got) \in Nat
      BY <2>4
    <3> QED
      BY SMTT(30), <3>2, <3>3, <3>4
  <2>12. /\ tab'[t].cursor < nextID' /\ 1..tab'[t].cursor \subseteq Accounted(t)'
         /\ \A i \in DOMAIN tab'[t].got : tab'[t].got[i] <= tab'[t].cursor
         /\ \A i \in DOMAIN tab'[t].got : \A j \in 1..(i - 1) : tab'[t].got[j] < tab'[t].got[i]
    BY <1>1, <2>3, <2>6, <2>7, <2>8, <2>9
  <2>10. CASE e.kind = "end"
    <3>1. tab'[t].at = "done" /\ tab'[t].conn = None /\ e.id = endSent /\ endSent' = endSent
      BY <1>1, <1>5, <1>8, <2>10 DEF FrameOK
    <3>2. endSent' # 0 /\ 1..endSent' \subseteq Accounted(t)'
      BY <1>14, <2>6, <3>1
    <3> QED
      <4>1. (tab[t].at = "linked" <=> tab[t].conn # None)' /\ (tab[t].conn = None)'
        BY <3>1
      <4> QED
        BY <1>9, <2>12, <3>2, <4>1 DEF TabOK
  <2>11. CASE e.kind # "end"
    <3>1. tab'[t].at = "linked" /\ tab'[t].conn = c /\ conn'[c].at = "serve"
      BY <1>6, <1>8, <1>10, <2>11
    <3>2. Continues(t, c)'
      <4>1. b + 1 <= b + 1 /\ 1..(b + 1) \subseteq Accounted(t)'
        <5>1. 1..(b + 1) \subseteq Accounted(t)'
          BY <2>1, <2>6
        <5> QED
          BY SMTT(30), <1>12, <5>1
      <4> QED
        BY <1>1, <1>6, <1>11, <2>1, <2>3, <2>7, <4>1 DEF Continues
    <3>3. tab'[t].at # "done" /\ conn'[c].at # "subscribe"
      BY <3>1
    <3> QED
      <4>1. (tab[t].at = "linked" <=> tab[t].conn # None)' /\ (tab[t].conn = c)'
        BY <1>0, <3>1
      <4> QED
        BY <1>6, <1>9, <2>12, <3>1, <3>2, <3>3, <4>1 DEF TabOK
  <2> QED
    BY <2>10, <2>11
<1> QED
  BY <1>9, <1>13, <1>14

LEMMA CarryKeeps ==
    ASSUME StreamInv, NEW c \in Conns, Carry(c)
    PROVE  StreamInv'
<1>0. /\ conn[c] \in Connection /\ ConnOK(c) /\ c # None
      /\ conn \in [Conns -> Connection] /\ tab \in [Tabs -> Tab]
  BY InvFacts DEF StreamInv, StreamTypeOK
<1>1. /\ conn[c].at = "serve" /\ conn[c].ch # <<>>
      /\ UNCHANGED <<produce, endSent, buf, nextID, closed, subscriber, held, sse, opens, drops>>
  BY DEF Carry, generation
<1>2. /\ conn[c].ch \in Seq(Frame) /\ Tail(conn[c].ch) \in Seq(Frame)
      /\ Len(conn[c].ch) \in Nat /\ Len(Tail(conn[c].ch)) = Len(conn[c].ch) - 1
      /\ \A i \in DOMAIN Tail(conn[c].ch) :
             i + 1 \in DOMAIN conn[c].ch /\ Tail(conn[c].ch)[i] = conn[c].ch[i + 1]
      /\ conn[c].cap \in Nat
  BY SMTT(30), <1>0, <1>1 DEF Connection
<1>3. PICK k \in {TRUE, FALSE} : k <=> Head(conn[c].ch).kind = "end"
  OBVIOUS
<1>4. conn' = [conn EXCEPT ![c].ch = Tail(@), ![c].at = IF k THEN "detach" ELSE @,
                           ![c].wrote = IF k THEN "stream_end" ELSE @]
  BY <1>3 DEF Carry
<1>5. /\ conn' \in [Conns -> Connection] /\ \A d \in Conns : d # c => conn'[d] = conn[d]
      /\ conn'[c].ch = Tail(conn[c].ch)
      /\ conn'[c].at = (IF k THEN "detach" ELSE "serve")
      /\ conn'[c].wrote = (IF k THEN "stream_end" ELSE conn[c].wrote)
      /\ \A f \in {"tab", "cursor", "cap", "open", "closure", "taken"} : conn'[c][f] = conn[c][f]
  BY <1>0, <1>1, <1>2, <1>4 DEF Connection
<1>6. ConnOK(c)'
  <2>1. Len(conn'[c].ch) <= conn'[c].cap
    <3>1. Len(conn[c].ch) <= conn[c].cap /\ conn'[c].cap = conn[c].cap /\ conn[c].cap \in Nat
      BY <1>0, <1>5 DEF ConnOK, Connection
    <3> QED
      BY SMTT(30), <1>2, <1>5, <3>1
  <2>2. \A i \in DOMAIN conn'[c].ch : FrameOK(conn[c].ch[i])'
    BY <1>0, <1>1, <1>2, <1>5, FrameKept DEF ConnOK
  <2> QED
    BY <1>0, <1>1, <1>5, <2>1, <2>2 DEF ConnOK
<1>7. ASSUME NEW t \in Tabs, tab[t].conn # c PROVE tab'[t] = tab[t]
  <2>1. CASE Linked(c)
    BY <1>0, <1>7, <2>1 DEF Carry, Linked
  <2>2. CASE ~Linked(c)
    BY <2>2 DEF Carry
  <2> QED
    BY <2>1, <2>2
<1>8. \A t \in Tabs : tab[t].conn = c => tab'[t] \in Tab /\ TabOK(t)'
  BY CarryTab
<1>9. tab' \in [Tabs -> Tab]
  <2>1. \A t \in Tabs : tab'[t] \in Tab
    BY <1>0, <1>7, <1>8
  <2>2. tab' = [t \in Tabs |-> tab'[t]]
    BY <1>0 DEF Carry
  <2> QED
    BY <2>1, <2>2
<1> QED
  BY <1>1, <1>5, <1>6, <1>7, <1>8, <1>9, HandlerKeeps

\* The handler writes its last frame: the end only to a tab that has all there is.
LEMMA LastFrameKeeps ==
    ASSUME StreamInv, NEW c \in Conns, conn[c].at = "serve",
           NEW frame \in {"session_takeover", "stream_end", "stream_closed"},
           NEW at \in {"displaced", "done", "away"}, LastFrame(c, frame, at),
           UNCHANGED <<generation, buf, nextID, closed, subscriber, held, sse, opens, drops>>,
           frame = "stream_closed" => ~conn[c].open /\ conn[c].closure # "session_takeover",
           at = "done" => conn[c].closure = "producer_closed" /\ conn[c].ch = <<>>
    PROVE  StreamInv'
<1>0. /\ conn[c] \in Connection /\ ConnOK(c) /\ c # None
      /\ conn \in [Conns -> Connection] /\ tab \in [Tabs -> Tab] /\ nextID \in Nat \ {0}
  BY InvFacts DEF StreamInv, StreamTypeOK
<1>1. UNCHANGED <<produce, endSent, buf, nextID, closed, subscriber, held, sse, opens, drops>>
  BY DEF generation
<1>2. conn' = [conn EXCEPT ![c].at = "detach", ![c].wrote = frame]
  BY DEF LastFrame
<1>3. /\ conn' \in [Conns -> Connection] /\ \A d \in Conns : d # c => conn'[d] = conn[d]
      /\ conn'[c].at = "detach" /\ conn'[c].wrote = frame
      /\ \A f \in {"tab", "cursor", "ch", "cap", "open", "closure", "taken"} : conn'[c][f] = conn[c][f]
  BY <1>0, <1>2 DEF Connection
<1>4. ConnOK(c)'
  <2>1. \A i \in DOMAIN conn'[c].ch : FrameOK(conn[c].ch[i])'
    BY <1>0, <1>1, <1>3, FrameKept DEF ConnOK
  <2>2. /\ conn'[c].ch = conn[c].ch /\ conn'[c].cap = conn[c].cap /\ conn'[c].open = conn[c].open
        /\ conn'[c].closure = conn[c].closure /\ conn'[c].taken = conn[c].taken
    BY <1>3
  <2>3. conn[c].closure = "session_takeover" => conn[c].taken /\ frame # "stream_closed"
    BY <1>0 DEF ConnOK
  <2>4. frame = "stream_closed" => ~conn'[c].open
    BY <2>2
  <2>5. subscriber' = c => conn'[c].open /\ ~closed' /\ (sse' = c \/ conn'[c].taken)
    <3>1. subscriber = c => conn[c].open /\ ~closed /\ (sse = c \/ conn[c].taken)
      BY <1>0 DEF ConnOK
    <3> QED
      BY SMTT(30), <1>1, <2>2, <3>1
  <2>6. Len(conn'[c].ch) <= conn'[c].cap /\ (conn'[c].closure = "producer_closed" => closed')
    BY SMTT(30), <1>0, <1>1, <2>2 DEF ConnOK
  <2> QED
    BY <1>3, <2>1, <2>2, <2>3, <2>4, <2>5, <2>6 DEF ConnOK
<1>5. ASSUME NEW t \in Tabs, tab[t].conn # c PROVE tab'[t] = tab[t]
  <2>1. CASE Linked(c)
    BY <1>0, <1>5, <2>1 DEF LastFrame, Linked
  <2>2. CASE ~Linked(c)
    BY <2>2 DEF LastFrame
  <2> QED
    BY <2>1, <2>2
<1>6. ASSUME NEW t \in Tabs, tab[t].conn = c PROVE tab'[t] \in Tab /\ TabOK(t)'
  <2>0. Linked(c) /\ conn[c].tab = t /\ tab[t] \in Tab /\ TabOK(t)
    BY <1>0, <1>6, InvFacts, LinkFacts
  <2>1. tab' = [tab EXCEPT ![t].at = at, ![t].conn = None]
    BY <2>0 DEF LastFrame
  <2>2. /\ tab'[t] \in Tab /\ tab'[t].at = at /\ tab'[t].conn = None
        /\ tab'[t].cursor = tab[t].cursor /\ tab'[t].got = tab[t].got /\ tab'[t].told = tab[t].told
    BY <1>0, <2>0, <2>1 DEF Tab
  <2>3. ASSUME at = "done" PROVE closed' /\ 1..(nextID - 1) \subseteq Accounted(t)
    <3>1. closed /\ Continues(t, c)
      BY <1>0, <1>6, <2>0, <2>3 DEF ConnOK, TabOK
    <3>2. PICK b \in 0..(nextID - 1) :
              /\ 1..b \subseteq Accounted(t) \cup Reported(<<>>)
              /\ Reach(<<>>, b) = nextID - 1
      BY <2>3, <3>1 DEF Continues
    <3>3. Reported(<<>>) = {} /\ Reports(<<>>) = 0
      BY DEF Reported, Reports
    <3>4. b = nextID - 1
      BY SMTT(30), <1>0, <3>2, <3>3 DEF Reach
    <3> QED
      BY SMTT(30), <1>1, <3>1, <3>2, <3>3, <3>4
  <2> QED
    BY <1>1, <2>0, <2>2, <2>3, TabLeft
<1>7. tab' \in [Tabs -> Tab]
  <2>1. \A t \in Tabs : tab'[t] \in Tab
    BY <1>0, <1>5, <1>6
  <2>2. tab' = [t \in Tabs |-> tab'[t]]
    BY <1>0 DEF LastFrame
  <2> QED
    BY <2>1, <2>2
<1> QED
  BY <1>1, <1>3, <1>4, <1>5, <1>6, <1>7, HandlerKeeps

\* A connection that no tab has: its handler lets go of it.
LEMMA LeaveKeeps ==
    ASSUME StreamInv, NEW c \in Conns, HangUp(c) \/ Detach(c)
    PROVE  StreamInv'
<1>0. /\ conn[c] \in Connection /\ ConnOK(c) /\ c # None
      /\ conn \in [Conns -> Connection] /\ tab \in [Tabs -> Tab]
  BY InvFacts DEF StreamInv, StreamTypeOK
<1>1. /\ UNCHANGED <<produce, endSent, buf, nextID, closed, held, sse, tab, opens, drops>>
      /\ subscriber' \in {subscriber, None} /\ conn[c].at \in {"serve", "detach"}
  BY DEF HangUp, Detach, generation
<1>2. \A t \in Tabs : tab[t].conn # c
  <2>1. ~Linked(c) \/ conn[c].at = "detach"
    BY DEF HangUp, Detach
  <2> QED
    BY <1>0, <2>1, LinkFacts
<1>3. /\ conn' \in [Conns -> Connection] /\ \A d \in Conns : d # c => conn'[d] = conn[d]
      /\ \A f \in {"tab", "cursor", "ch", "cap", "taken", "wrote"} : conn'[c][f] = conn[c][f]
  <2>1. PICK r : conn' = [conn EXCEPT ![c] = r] /\ \/ r = [conn[c] EXCEPT !.at = "detach"]
                                                   \/ r = [conn[c] EXCEPT !.at = "unregister"]
                                                   \/ r = Closed([conn[c] EXCEPT !.at = "unregister"],
                                                                 "observer_detached")
    BY <1>0 DEF HangUp, Detach
  <2>2. ASSUME NEW x \in {"detach", "unregister"}
        PROVE  /\ [conn[c] EXCEPT !.at = x] \in Connection
               /\ \A f \in {"tab", "cursor", "ch", "cap", "taken", "wrote"} :
                      [conn[c] EXCEPT !.at = x][f] = conn[c][f]
    <3>1. [conn[c] EXCEPT !.at = x] \in Connection
      BY <1>0 DEF Connection
    <3>2. \A f \in {"tab", "cursor", "ch", "cap", "taken", "wrote"} :
              [conn[c] EXCEPT !.at = x][f] = conn[c][f]
      BY <1>0 DEF Connection
    <3> QED
      BY <3>1, <3>2
  <2>3. /\ r \in Connection
        /\ \A f \in {"tab", "cursor", "ch", "cap", "taken", "wrote"} : r[f] = conn[c][f]
    <3>1. CASE r = [conn[c] EXCEPT !.at = "detach"] \/ r = [conn[c] EXCEPT !.at = "unregister"]
      BY <2>2, <3>1
    <3>2. CASE r = Closed([conn[c] EXCEPT !.at = "unregister"], "observer_detached")
      <4>1. PICK x : x = [conn[c] EXCEPT !.at = "unregister"]
        OBVIOUS
      <4>2. /\ x \in Connection /\ r = Closed(x, "observer_detached")
            /\ \A f \in {"tab", "cursor", "ch", "cap", "taken", "wrote"} : x[f] = conn[c][f]
        BY <2>2, <3>2, <4>1
      <4>3. r \in Connection
        BY <4>2, ClosedFacts
      <4>4. \A f \in {"tab", "cursor", "ch", "cap", "taken", "wrote"} : r[f] = x[f]
        BY <4>2 DEF Closed, Connection
      <4> QED
        BY <4>2, <4>3, <4>4
    <3> QED
      BY <2>1, <3>1, <3>2
  <2> QED
    BY <1>0, <2>1, <2>3
<1>4. ConnOK(c)'
  <2>1. \A i \in DOMAIN conn'[c].ch : FrameOK(conn[c].ch[i])'
    BY <1>0, <1>1, <1>3, FrameKept DEF ConnOK
  <2>2. CASE HangUp(c)
    <3>1. /\ conn'[c].at = "detach" /\ conn'[c].open = conn[c].open
          /\ conn'[c].closure = conn[c].closure /\ subscriber' = subscriber
      BY <1>0, <2>2 DEF HangUp, Connection
    <3> QED
      BY <1>0, <1>1, <1>3, <2>1, <3>1 DEF ConnOK
  <2>3. CASE Detach(c) /\ subscriber = c
    <3>1. /\ conn'[c].at = "unregister" /\ conn'[c].open = FALSE
          /\ conn'[c].closure = "observer_detached" /\ subscriber' = None
      BY <1>0, <2>3 DEF Detach, Closed, Connection
    <3> QED
      BY <1>0, <1>1, <1>3, <2>1, <3>1 DEF ConnOK
  <2>4. CASE Detach(c) /\ subscriber # c
    <3>1. /\ conn'[c].at = "unregister" /\ conn'[c].open = conn[c].open
          /\ conn'[c].closure = conn[c].closure /\ subscriber' = subscriber
      BY <1>0, <2>4 DEF Detach, Connection
    <3> QED
      BY <1>0, <1>1, <1>3, <2>1, <2>4, <3>1 DEF ConnOK
  <2> QED
    BY <2>2, <2>3, <2>4
<1> QED
  BY <1>0, <1>1, <1>2, <1>3, <1>4, HandlerKeeps

\* A handler unregisters itself, and no successor.
LEMMA UnregisterKeeps ==
    ASSUME StreamInv, NEW c \in Conns, UnregisterSSE(c)
    PROVE  StreamInv'
<1>0. /\ StreamTypeOK /\ RingOK /\ conn[c] \in Connection /\ ConnOK(c) /\ c # None
      /\ conn \in [Conns -> Connection]
  BY InvFacts DEF StreamInv, StreamTypeOK
<1>1. /\ conn[c].at = "unregister" /\ sse' = (IF sse = c THEN None ELSE sse)
      /\ conn' = [conn EXCEPT ![c] = NoConn]
      /\ UNCHANGED <<produce, endSent, buf, nextID, closed, subscriber, held, tab, opens, drops>>
  BY DEF UnregisterSSE, generation
<1>2. NoConn \in Connection
  BY SMTT(30) DEF NoConn, Connection
<1>3. /\ conn' \in [Conns -> Connection] /\ conn'[c] = NoConn
      /\ \A d \in Conns : d # c => conn'[d] = conn[d]
  BY <1>0, <1>1, <1>2
<1>4. StreamTypeOK'
  BY <1>0, <1>1, <1>3 DEF StreamTypeOK
<1>5. RingOK'
  BY <1>0, <1>1, RingKept
<1>6. ASSUME NEW d \in Conns PROVE ConnOK(d)'
  <2>1. ConnOK(d) /\ d # None
    BY InvFacts
  <2>2. CASE d = c
    <3>1. subscriber # c
      BY <1>0, <1>1 DEF ConnOK
    <3> QED
      BY SMTT(30), <1>1, <1>3, <2>2, <3>1 DEF ConnOK, NoConn
  <2>3. CASE d # c
    <3>1. conn'[d] = conn[d] /\ (sse = d => sse' = d)
      BY <1>1, <1>3, <2>3
    <3>2. \A i \in DOMAIN conn'[d].ch : FrameOK(conn[d].ch[i])'
      BY <1>1, <2>1, <3>1, FrameKept DEF ConnOK
    <3> QED
      BY <1>1, <2>1, <3>1, <3>2 DEF ConnOK
  <2> QED
    BY <2>2, <2>3
<1>7. ASSUME NEW t \in Tabs PROVE TabOK(t)'
  <2>1. tab[t].conn # None => tab[t].conn \in Conns /\ tab[t].conn # c
    BY <1>1, LinkFacts
  <2>2. tab[t].conn # None => SameFeed(tab[t].conn)
    BY <1>1, <1>3, <2>1 DEF SameFeed
  <2> QED
    BY <1>1, <2>2, TabKept DEF StreamInv
<1> QED
  BY <1>4, <1>5, <1>6, <1>7 DEF StreamInv

LEMMA ServeKeeps ==
    ASSUME StreamInv, NEW c \in Conns, Serve(c)
    PROVE  StreamInv'
<1>1. CASE Takeover(c)
  BY <1>1, LastFrameKeeps DEF Takeover
<1>2. CASE EOF(c)
  <2>1. ConnOK(c)
    BY InvFacts
  <2>2. conn[c].at = "serve" /\ conn[c].ch = <<>> /\ ~conn[c].open
        /\ UNCHANGED <<generation, buf, nextID, closed, subscriber, held, sse, opens, drops>>
    BY <1>2 DEF EOF
  <2>3. CASE LastFrame(c, "session_takeover", "displaced")
    BY <2>2, <2>3, LastFrameKeeps
  <2>4. CASE conn[c].closure = "producer_closed" /\ LastFrame(c, "stream_end", "done")
    BY <2>2, <2>4, LastFrameKeeps
  <2>5. CASE ~conn[c].taken /\ LastFrame(c, "stream_closed", "away")
    <3>1. conn[c].closure # "session_takeover"
      BY <2>1, <2>5 DEF ConnOK
    <3> QED
      BY <2>2, <2>5, <3>1, LastFrameKeeps
  <2> QED
    BY <1>2, <2>3, <2>4, <2>5 DEF EOF
<1> QED
  BY <1>1, <1>2, SubscribeKeeps, CarryKeeps, LeaveKeeps, UnregisterKeeps DEF Serve

-----------------------------------------------------------------------------
(* The theorems. *)

LEMMA StreamStarts == StreamInit => StreamInv
<1> SUFFICES ASSUME StreamInit PROVE StreamInv
  OBVIOUS
<1>1. /\ produce = [q |-> <<>>, open |-> TRUE] /\ endSent = 0 /\ buf = <<>> /\ nextID = 1
      /\ closed = FALSE /\ subscriber = None /\ held = TRUE /\ sse = None /\ opens = 0 /\ drops = 0
      /\ conn = [c \in Conns |-> NoConn]
      /\ tab = [t \in Tabs |-> [at |-> "shut", conn |-> None, cursor |-> 0, got |-> <<>>, told |-> {}]]
  BY DEF StreamInit
<1>2. NoConn \in Connection
  BY SMTT(30) DEF NoConn, Connection
<1>3. [at |-> "shut", conn |-> None, cursor |-> 0, got |-> <<>>, told |-> {}] \in Tab
  BY SMTT(30) DEF Tab
<1>4. StreamTypeOK
  <2>1. <<>> \in Seq({"delta", "end"}) /\ <<>> \in Seq(Frame) /\ 0 \in Nat /\ 1 \in Nat \ {0}
    BY SMTT(30)
  <2>2. produce \in [q : Seq({"delta", "end"}), open : BOOLEAN]
    BY <1>1, <2>1
  <2>3. conn \in [Conns -> Connection] /\ tab \in [Tabs -> Tab]
    BY <1>1, <1>2, <1>3
  <2> QED
    BY <1>1, <2>1, <2>2, <2>3 DEF StreamTypeOK
<1>5. RingOK
  BY SMTT(30), <1>1, StreamAssumption DEF RingOK
<1>6. ASSUME NEW c \in Conns PROVE ConnOK(c)
  <2>1. c # None
    BY SMTT(30), StreamAssumption DEF Conns, None
  <2>2. /\ conn[c].ch = <<>> /\ conn[c].cap = 0 /\ conn[c].closure = "none"
        /\ conn[c].wrote = "none" /\ conn[c].at = "free"
    BY <1>1 DEF NoConn
  <2>3. Len(conn[c].ch) <= conn[c].cap /\ DOMAIN conn[c].ch = {}
    BY SMTT(30), <2>2
  <2>4. subscriber # c
    BY <1>1, <2>1
  <2> QED
    BY <2>2, <2>3, <2>4 DEF ConnOK
<1>7. ASSUME NEW t \in Tabs PROVE TabOK(t)
  <2>1. /\ tab[t].at = "shut" /\ tab[t].conn = None /\ tab[t].cursor = 0 /\ tab[t].got = <<>>
    BY <1>1
  <2>2. DOMAIN tab[t].got = {} /\ 1..tab[t].cursor = {} /\ tab[t].cursor < nextID
    BY SMTT(30), <1>1, <2>1
  <2> QED
    BY <2>1, <2>2 DEF TabOK
<1> QED
  BY <1>4, <1>5, <1>6, <1>7 DEF StreamInv

LEMMA StreamStep == StreamInv /\ [StreamNext]_streamVars => StreamInv'
<1> SUFFICES ASSUME StreamInv, [StreamNext]_streamVars PROVE StreamInv'
  OBVIOUS
<1>1. ASSUME NEW t \in Tabs, OpenTab(t) PROVE StreamInv'
  <2>1. opens' \in Nat /\ tab[t].at # "linked" /\ tab[t].at # "done"
    BY SMTT(30), <1>1 DEF OpenTab, StreamInv, StreamTypeOK
  <2> QED
    BY <1>1, <2>1, RegisterKeeps DEF OpenTab
<1>2. ASSUME NEW t \in Tabs, Reconnect(t) PROVE StreamInv'
  <2>1. opens' \in Nat /\ tab[t].at # "linked" /\ tab[t].at # "done"
    BY <1>2 DEF Reconnect, StreamInv, StreamTypeOK
  <2> QED
    BY <1>2, <2>1, RegisterKeeps DEF Reconnect
<1> QED
  BY <1>1, <1>2, ProduceKeeps, IdleKeeps, PumpKeeps, PumpEndsKeeps, TabStepKeeps, ServeKeeps
     DEF StreamNext

\* Ring, channels, handlers and tabs agree on what has been numbered, replayed, carried
\* and taken over: the inductive invariant of stream.go and its handlers.
THEOREM StreamInvariant == StreamSpec => []StreamInv
  BY StreamStarts, StreamStep, PTL DEF StreamSpec

\* Whatever connections are lost, overrun or taken over, a tab has or knows it misses
\* every event up to its cursor, and up to the end it is told of.
THEOREM NothingLostSilently == StreamSpec => []NoSilentLoss
<1>1. StreamInv => NoSilentLoss
  <2> SUFFICES ASSUME StreamInv, NEW t \in Tabs
               PROVE  /\ 1..tab[t].cursor \subseteq Accounted(t)
                      /\ tab[t].at = "done" =>
                             \A i \in 1..(nextID - 1) : i \in Accounted(t) \/ (endSent # 0 /\ i > endSent)
    BY DEF NoSilentLoss
  <2>1. TabOK(t) /\ nextID \in Nat /\ endSent \in Nat
    BY DEF StreamInv, StreamTypeOK
  <2> QED
    BY SMTT(30), <2>1 DEF TabOK
<1> QED
  BY <1>1, StreamInvariant, PTL

\* A replay and the live events after it reach a tab in order and once.
THEOREM OrderedOnce == StreamSpec => []InOrderOnce
<1>1. StreamInv => InOrderOnce
  BY DEF StreamInv, TabOK, InOrderOnce
<1> QED
  BY <1>1, StreamInvariant, PTL

\* A connection another one replaced is never reported to its tab as dropped.
THEOREM TakeoverIsTold == StreamSpec => []TakeoverTold
<1>1. StreamInv => TakeoverTold
  BY DEF StreamInv, ConnOK, TakeoverTold
<1> QED
  BY <1>1, StreamInvariant, PTL

\* A channel is never given more than it holds, so the replay does not block the stream.
THEOREM ChannelsFit == StreamSpec => []ReplayFits
<1>1. StreamInv => ReplayFits
  BY DEF StreamInv, ConnOK, ReplayFits
<1> QED
  BY <1>1, StreamInvariant, PTL
=============================================================================
