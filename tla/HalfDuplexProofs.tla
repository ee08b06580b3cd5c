--------------------------- MODULE HalfDuplexProofs ---------------------------
(***************************************************************************)
(* The soft core's use of the acoustic channel, for any times, queue and   *)
(* FIFO lengths, characters and counter width that keep the code's pace:   *)
(* the state is well typed, the master never takes its own tone for the    *)
(* slave, characters are played once and in order and, as long as the      *)
(* loop has not been held up for longer than the queue can bridge, none is *)
(* lost unless a slave was heard.                                          *)
(*                                                                         *)
(* The argument for the last: what the player still has to do, in turns,   *)
(* is what the ESP32's pause has left and one turn more for every turn     *)
(* the loop was held up; a full queue would be more than that.             *)
(***************************************************************************)
EXTENDS HalfDuplex, SequenceTheorems, FiniteSetTheorems, TLAPS

(* How long the loop may be held up in all: less than the queue takes to   *)
(* fill at the ESP32's pace, and than the UART's FIFO.                     *)
StallsFit ==
  /\ WarmupPace >= Pace
  /\ MaxStalls < QueueLen * Pace /\ MaxStalls + 1 < FifoLen * Pace

-----------------------------------------------------------------------------
(* The inductive invariant.                                                *)
Length == IF p_warm THEN Warmup ELSE Tone

(* The player ends a tone or a silence in time, late by the turns lost.    *)
Timing ==
  /\ pstate = "TONE" => Since(p_t0) \in 1..(Length + stalls)
  /\ pstate = "SIL" => Since(p_t0) \in 1..(Sil + stalls)

(* A frame with the master's tone is still on its way only while the       *)
(* player is in the tone or in the silence after it.                       *)
Deaf ==
  \A i \in 1..Latency :
    air[i].own => pstate = "TONE" \/ (pstate = "SIL" /\ Since(p_t0) <= Latency - i)

(* Characters in the order they were sent, in three places.                *)
Rising(s) == \A i, j \in 1..Len(s) : i < j => s[i] < s[j]
Before(s, t) == \A i \in 1..Len(s), j \in 1..Len(t) : s[i] < t[j]
Elems(s) == {s[i] : i \in 1..Len(s)}
Ordered(p, q, f, l, n) ==
  /\ Rising(p) /\ Rising(q) /\ Rising(f)
  /\ Before(p, q) /\ Before(p, f) /\ Before(q, f)
  /\ Elems(p) \cup Elems(q) \cup Elems(f) \cup l = 1..n
OrderInv == Ordered(played, queue, fifo, lost, sent)

(* The same when none is missing.                                          *)
Line(p, q, f, n) ==
  /\ n = Len(p) + Len(q) + Len(f)
  /\ \A i \in 1..Len(q) : q[i] = Len(p) + i
  /\ \A i \in 1..Len(f) : f[i] = Len(p) + Len(q) + i

(* Turns before the player can begin another tone; turns the characters    *)
(* from the m-th to the n-th take at most.                                 *)
Rem ==
  CASE pstate = "IDLE" -> 0
    [] pstate = "TONE" -> Less(Length, Since(p_t0)) + Sil + 1
    [] pstate = "SIL"  -> Less(Sil, Since(p_t0)) + 1
Warms(m, n) == {c \in (m + 1)..n : is_warmup(c)}
Plain(m, n) == {c \in (m + 1)..n : ~is_warmup(c)}
Work(m, n) == Cardinality(Warms(m, n)) * WarmupPace + Cardinality(Plain(m, n)) * Pace

(* While no slave was heard nothing is lost, and the player keeps up.      *)
KeepsUp ==
  ~g_slave_seen =>
    /\ ~g_channel_busy /\ lost = {} /\ Line(played, queue, fifo, sent)
    /\ Rem + Work(Len(played), sent) <= pace + stalls + 1
    /\ Len(played) < sent => pace < PauseAfter(sent)

-----------------------------------------------------------------------------
LEMMA Constants ==
  /\ Wrap \in Nat /\ HoldTime \in Nat /\ Tone \in Nat /\ Sil \in Nat /\ Warmup \in Nat
  /\ QueueLen \in Nat /\ FifoLen \in Nat /\ Latency \in Nat /\ Guard \in Nat /\ MaxWait \in Nat
  /\ Pace \in Nat /\ WarmupPace \in Nat /\ FrameChars \in Nat /\ MaxChars \in Nat /\ MaxStalls \in Nat
  /\ HoldTime > 0 /\ Tone > 0 /\ Sil > 0 /\ Warmup > 0 /\ QueueLen > 0 /\ FifoLen > 0
  /\ Latency > 0 /\ Guard > 0 /\ MaxWait > 0 /\ Pace > 0 /\ WarmupPace > 0 /\ FrameChars > 0
  /\ MaxChars > 0
  /\ Wrap > HoldTime + 1 /\ Wrap > Tone + MaxStalls + 1 /\ Wrap > Warmup + MaxStalls + 1
  /\ Wrap > Sil + MaxStalls + 1
  /\ Latency <= Sil
  /\ Pace >= Tone + Sil + 1 /\ WarmupPace >= Warmup + Sil + 1
BY ChannelAssumption, PaceAssumption

LEMMA Modulo ==
  ASSUME NEW n \in Nat \ {0}, NEW x \in Int
  PROVE  x % n \in 0..(n - 1)
OBVIOUS

LEMMA ModuloNext ==
  ASSUME NEW n \in Nat \ {0}, NEW x \in Nat, x < n
  PROVE  (x + 1) % n = IF x = n - 1 THEN 0 ELSE x + 1
OBVIOUS

LEMMA ModuloLess ==
  ASSUME NEW n \in Nat \ {0}, NEW x \in 0..(n - 1), NEW y \in 0..(n - 1)
  PROVE  (x - y) % n = IF x >= y THEN x - y ELSE x - y + n
OBVIOUS

(* The counter ticks: what was begun at t is a turn older.                 *)
LEMMA SinceNext ==
  ASSUME NEW n \in 0..(Wrap - 1), NEW t \in 0..(Wrap - 1), NEW m, m = (n + 1) % Wrap
  PROVE  /\ m \in 0..(Wrap - 1) /\ (n - t) % Wrap \in 0..(Wrap - 1)
         /\ (m - t) % Wrap = IF (n - t) % Wrap = Wrap - 1 THEN 0 ELSE ((n - t) % Wrap) + 1
         /\ (m - n) % Wrap = 1
<1>1. Wrap \in Nat \ {0} /\ Wrap > 2
  BY Constants
<1>2. m = IF n = Wrap - 1 THEN 0 ELSE n + 1
  BY <1>1, ModuloNext
<1>3. m \in 0..(Wrap - 1)
  BY <1>1, <1>2
<1>4. /\ (n - t) % Wrap = IF n >= t THEN n - t ELSE n - t + Wrap
      /\ (m - t) % Wrap = IF m >= t THEN m - t ELSE m - t + Wrap
      /\ (m - n) % Wrap = IF m >= n THEN m - n ELSE m - n + Wrap
  BY <1>1, <1>3, ModuloLess
<1> QED BY <1>1, <1>2, <1>3, <1>4

-----------------------------------------------------------------------------
(* Characters on their way: each move keeps the order and loses none.      *)
LEMMA TailOf ==
  ASSUME NEW S, NEW q \in Seq(S), q # <<>>
  PROVE  /\ Head(q) = q[1] /\ Head(q) \in S /\ Tail(q) \in Seq(S)
         /\ Len(q) \in Nat /\ Len(q) > 0 /\ Len(Tail(q)) = Len(q) - 1
         /\ \A i \in 1..Len(Tail(q)) : Tail(q)[i] = q[i + 1]
BY HeadTailProperties, LenProperties

LEMMA ElemsTail ==
  ASSUME NEW S, NEW q \in Seq(S), q # <<>>
  PROVE  Elems(q) = Elems(Tail(q)) \cup {Head(q)}
<1>1. ASSUME NEW i \in 1..Len(q) PROVE q[i] \in Elems(Tail(q)) \cup {Head(q)}
  <2>1. CASE i = 1
    BY <2>1, TailOf
  <2>2. CASE i # 1
    <3>1. i - 1 \in 1..Len(Tail(q)) /\ Tail(q)[i - 1] = q[(i - 1) + 1] /\ (i - 1) + 1 = i
      BY <2>2, TailOf
    <3> QED BY <3>1 DEF Elems
  <2> QED BY <2>1, <2>2
<1>2. ASSUME NEW i \in 1..Len(Tail(q)) PROVE Tail(q)[i] \in Elems(q)
  <2>1. i + 1 \in 1..Len(q) /\ Tail(q)[i] = q[i + 1]
    BY TailOf
  <2> QED BY <2>1 DEF Elems
<1>3. Head(q) \in Elems(q)
  <2>1. 1 \in 1..Len(q) /\ Head(q) = q[1]
    BY TailOf
  <2> QED BY <2>1 DEF Elems
<1>4. Elems(q) \subseteq Elems(Tail(q)) \cup {Head(q)}
  BY <1>1 DEF Elems
<1>5. Elems(Tail(q)) \subseteq Elems(q)
  BY <1>2 DEF Elems
<1> QED BY <1>3, <1>4, <1>5

LEMMA ElemsAppend ==
  ASSUME NEW S, NEW q \in Seq(S), NEW c \in S
  PROVE  Elems(Append(q, c)) = Elems(q) \cup {c}
<1> DEFINE a == Append(q, c)
<1>1. /\ Len(q) \in Nat /\ Len(a) = Len(q) + 1 /\ a[Len(q) + 1] = c
      /\ \A i \in 1..Len(q) : a[i] = q[i]
  BY AppendProperties, LenProperties
<1> HIDE DEF a
<1>2. ASSUME NEW i \in 1..Len(a) PROVE a[i] \in Elems(q) \cup {c}
  <2>1. i = Len(q) + 1 \/ i \in 1..Len(q)
    BY <1>1
  <2> QED BY <1>1, <2>1 DEF Elems
<1>3. ASSUME NEW i \in 1..Len(q) PROVE q[i] \in Elems(a)
  <2>1. i \in 1..Len(a) /\ a[i] = q[i]
    BY <1>1
  <2> QED BY <2>1 DEF Elems
<1>4. c \in Elems(a)
  <2>1. Len(q) + 1 \in 1..Len(a) /\ a[Len(q) + 1] = c
    BY <1>1
  <2> QED BY <2>1 DEF Elems
<1>5. Elems(a) \subseteq Elems(q) \cup {c}
  BY <1>2 DEF Elems
<1>6. Elems(q) \subseteq Elems(a)
  BY <1>3 DEF Elems
<1>7. Elems(a) = Elems(q) \cup {c}
  BY <1>4, <1>5, <1>6
<1> QED BY <1>7 DEF a

(* What a sequence loses at its head or gains at its end, as far as the    *)
(* order goes.                                                             *)
LEMMA RisingTail ==
  ASSUME NEW q \in Seq(Nat), q # <<>>, Rising(q)
  PROVE  /\ Rising(Tail(q)) /\ \A x \in Elems(Tail(q)) : Head(q) < x
<1>1. ASSUME NEW i \in 1..Len(Tail(q)), NEW j \in 1..Len(Tail(q)), i < j
      PROVE  Tail(q)[i] < Tail(q)[j]
  <2>1. i + 1 \in 1..Len(q) /\ j + 1 \in 1..Len(q) /\ i + 1 < j + 1
    BY <1>1, TailOf
  <2>2. q[i + 1] < q[j + 1]
    BY <2>1 DEF Rising
  <2>3. Tail(q)[i] = q[i + 1] /\ Tail(q)[j] = q[j + 1]
    BY TailOf
  <2> QED BY <2>2, <2>3
<1>2. ASSUME NEW i \in 1..Len(Tail(q)) PROVE Head(q) < Tail(q)[i]
  <2>1. 1 \in 1..Len(q) /\ i + 1 \in 1..Len(q) /\ 1 < i + 1
    BY TailOf
  <2>2. q[1] < q[i + 1]
    BY <2>1 DEF Rising
  <2> QED BY <2>2, TailOf
<1> QED BY <1>1, <1>2 DEF Rising, Elems

LEMMA RisingAppend ==
  ASSUME NEW q \in Seq(Nat), NEW c \in Nat, Rising(q), \A x \in Elems(q) : x < c
  PROVE  Rising(Append(q, c))
<1> DEFINE a == Append(q, c)
<1>1. /\ Len(q) \in Nat /\ Len(a) = Len(q) + 1 /\ a[Len(q) + 1] = c
      /\ \A i \in 1..Len(q) : a[i] = q[i]
  BY AppendProperties, LenProperties
<1> HIDE DEF a
<1>2. ASSUME NEW i \in 1..Len(a), NEW j \in 1..Len(a), i < j PROVE a[i] < a[j]
  <2>1. i \in 1..Len(q) /\ (j = Len(q) + 1 \/ j \in 1..Len(q))
    BY <1>1, <1>2
  <2>2. CASE j = Len(q) + 1
    BY <1>1, <2>1, <2>2 DEF Elems
  <2>3. CASE j \in 1..Len(q)
    BY <1>1, <1>2, <2>1, <2>3 DEF Rising
  <2> QED BY <2>1, <2>2, <2>3
<1>3. Rising(a)
  BY <1>2 DEF Rising
<1> QED BY <1>3 DEF a

LEMMA BeforeElems ==
  ASSUME NEW s, NEW t
  PROVE  Before(s, t) <=> \A x \in Elems(s), y \in Elems(t) : x < y
BY DEF Before, Elems

LEMMA Bounded ==
  ASSUME NEW p, NEW q, NEW f, NEW l, NEW n \in Nat, Ordered(p, q, f, l, n)
  PROVE  \A x \in Elems(p) \cup Elems(q) \cup Elems(f) : x \in Nat /\ x < n + 1
<1>1. \A x \in 1..n : x \in Nat /\ x < n + 1
  OBVIOUS
<1> QED BY <1>1 DEF Ordered

LEMMA OrderedCapture ==
  ASSUME NEW p \in Seq(Nat), NEW q \in Seq(Nat), NEW f \in Seq(Nat), NEW l, NEW n \in Nat,
         Ordered(p, q, f, l, n), f # <<>>
  PROVE  Ordered(p, Append(q, Head(f)), Tail(f), l, n)
<1> DEFINE c == Head(f)
<1>1. c \in Nat /\ Tail(f) \in Seq(Nat)
  BY TailOf
<1>2. Elems(f) = Elems(Tail(f)) \cup {c} /\ Elems(Append(q, c)) = Elems(q) \cup {c}
  BY <1>1, ElemsTail, ElemsAppend
<1>3. Rising(Tail(f)) /\ \A x \in Elems(Tail(f)) : c < x
  BY RisingTail DEF Ordered
<1>4. \A x \in Elems(q) : x < c
  BY <1>2, BeforeElems DEF Ordered
<1> HIDE DEF c
<1>5. Rising(Append(q, c))
  BY <1>1, <1>4, RisingAppend DEF Ordered
<1>6. Before(p, Append(q, c)) /\ Before(p, Tail(f)) /\ Before(Append(q, c), Tail(f))
  BY <1>2, <1>3, BeforeElems DEF Ordered
<1>7. Elems(p) \cup Elems(Append(q, c)) \cup Elems(Tail(f)) \cup l = 1..n
  BY <1>2 DEF Ordered
<1>8. Ordered(p, Append(q, c), Tail(f), l, n)
  BY <1>3, <1>5, <1>6, <1>7 DEF Ordered
<1> QED BY <1>8 DEF c

LEMMA OrderedDrop ==
  ASSUME NEW p \in Seq(Nat), NEW q \in Seq(Nat), NEW f \in Seq(Nat), NEW l, NEW n \in Nat,
         Ordered(p, q, f, l, n), q # <<>>
  PROVE  Ordered(p, Tail(q), f, l \cup {Head(q)}, n)
<1>1. Elems(q) = Elems(Tail(q)) \cup {Head(q)}
  BY ElemsTail
<1>2. Rising(Tail(q))
  BY RisingTail DEF Ordered
<1>3. Before(p, Tail(q)) /\ Before(Tail(q), f)
  BY <1>1, BeforeElems DEF Ordered
<1>4. Elems(p) \cup Elems(Tail(q)) \cup Elems(f) \cup (l \cup {Head(q)}) = 1..n
  BY <1>1 DEF Ordered
<1> QED BY <1>2, <1>3, <1>4 DEF Ordered

LEMMA OrderedPlay ==
  ASSUME NEW p \in Seq(Nat), NEW q \in Seq(Nat), NEW f \in Seq(Nat), NEW l, NEW n \in Nat,
         Ordered(p, q, f, l, n), q # <<>>
  PROVE  Ordered(Append(p, Head(q)), Tail(q), f, l, n)
<1> DEFINE c == Head(q)
<1>1. c \in Nat /\ Tail(q) \in Seq(Nat)
  BY TailOf
<1>2. Elems(q) = Elems(Tail(q)) \cup {c} /\ Elems(Append(p, c)) = Elems(p) \cup {c}
  BY <1>1, ElemsTail, ElemsAppend
<1>3. Rising(Tail(q)) /\ \A x \in Elems(Tail(q)) : c < x
  BY RisingTail DEF Ordered
<1>4. \A x \in Elems(p) : x < c
  BY <1>2, BeforeElems DEF Ordered
<1> HIDE DEF c
<1>5. Rising(Append(p, c))
  BY <1>1, <1>4, RisingAppend DEF Ordered
<1>6. Before(Append(p, c), f) /\ Before(Append(p, c), Tail(q)) /\ Before(Tail(q), f)
  BY <1>2, <1>3, BeforeElems DEF Ordered
<1>7. Elems(Append(p, c)) \cup Elems(Tail(q)) \cup Elems(f) \cup l = 1..n
  BY <1>2 DEF Ordered
<1>8. Ordered(Append(p, c), Tail(q), f, l, n)
  BY <1>3, <1>5, <1>6, <1>7 DEF Ordered
<1> QED BY <1>8 DEF c

LEMMA OrderedSend ==
  ASSUME NEW p \in Seq(Nat), NEW q \in Seq(Nat), NEW f \in Seq(Nat), NEW l, NEW n \in Nat,
         Ordered(p, q, f, l, n)
  PROVE  /\ Ordered(p, q, Append(f, n + 1), l, n + 1)
         /\ Ordered(p, q, f, l \cup {n + 1}, n + 1)
<1>1. \A x \in Elems(p) \cup Elems(q) \cup Elems(f) : x < n + 1
  BY Bounded
<1>2. Elems(Append(f, n + 1)) = Elems(f) \cup {n + 1}
  BY ElemsAppend
<1>3. 1..(n + 1) = 1..n \cup {n + 1}
  OBVIOUS
<1>4. Rising(Append(f, n + 1))
  BY <1>1, RisingAppend DEF Ordered
<1>5. Before(p, Append(f, n + 1)) /\ Before(q, Append(f, n + 1))
  BY <1>1, <1>2, BeforeElems DEF Ordered
<1>6. /\ Elems(p) \cup Elems(q) \cup Elems(Append(f, n + 1)) \cup l = 1..(n + 1)
      /\ Elems(p) \cup Elems(q) \cup Elems(f) \cup (l \cup {n + 1}) = 1..(n + 1)
  BY <1>2, <1>3 DEF Ordered
<1> QED BY <1>4, <1>5, <1>6 DEF Ordered

LEMMA LineCapture ==
  ASSUME NEW p \in Seq(Nat), NEW q \in Seq(Nat), NEW f \in Seq(Nat), NEW n \in Nat,
         Line(p, q, f, n), f # <<>>
  PROVE  Line(p, Append(q, Head(f)), Tail(f), n)
<1> DEFINE c == Head(f)  a == Append(q, c)
<1>1. /\ Len(q) \in Nat /\ Len(p) \in Nat /\ Len(a) = Len(q) + 1 /\ a[Len(q) + 1] = c
      /\ \A i \in 1..Len(q) : a[i] = q[i]
  BY AppendProperties, LenProperties, TailOf
<1>2. /\ c = f[1] /\ Len(f) \in Nat /\ Len(f) > 0 /\ Len(Tail(f)) = Len(f) - 1
      /\ \A i \in 1..Len(Tail(f)) : Tail(f)[i] = f[i + 1]
  BY TailOf
<1> HIDE DEF a, c
<1>3. n = Len(p) + Len(a) + Len(Tail(f))
  BY <1>1, <1>2 DEF Line
<1>4. ASSUME NEW i \in 1..Len(a) PROVE a[i] = Len(p) + i
  <2>1. CASE i = Len(q) + 1
    <3>1. f[1] = Len(p) + Len(q) + 1
      BY <1>2 DEF Line
    <3> QED BY <2>1, <3>1, <1>1, <1>2
  <2>2. CASE i # Len(q) + 1
    <3>1. i \in 1..Len(q)
      BY <2>2, <1>1
    <3> QED BY <3>1, <1>1 DEF Line
  <2> QED BY <2>1, <2>2
<1>5. ASSUME NEW i \in 1..Len(Tail(f)) PROVE Tail(f)[i] = Len(p) + Len(a) + i
  <2>1. i + 1 \in 1..Len(f)
    BY <1>2
  <2>2. f[i + 1] = Len(p) + Len(q) + (i + 1)
    BY <2>1 DEF Line
  <2> QED BY <2>2, <1>1, <1>2
<1>6. Line(p, a, Tail(f), n)
  BY <1>3, <1>4, <1>5 DEF Line
<1> QED BY <1>6 DEF a, c

LEMMA LinePlay ==
  ASSUME NEW p \in Seq(Nat), NEW q \in Seq(Nat), NEW f \in Seq(Nat), NEW n \in Nat,
         Line(p, q, f, n), q # <<>>
  PROVE  /\ Head(q) = Len(p) + 1 /\ Len(p) < n /\ Len(Append(p, Head(q))) = Len(p) + 1
         /\ Line(Append(p, Head(q)), Tail(q), f, n)
<1> DEFINE c == Head(q)  a == Append(p, c)
<1>1. Len(p) \in Nat /\ Len(a) = Len(p) + 1
  BY AppendProperties, LenProperties, TailOf
<1>2. /\ c = q[1] /\ Len(q) \in Nat /\ Len(q) > 0 /\ Len(Tail(q)) = Len(q) - 1
      /\ \A i \in 1..Len(Tail(q)) : Tail(q)[i] = q[i + 1]
  BY TailOf
<1>3. Len(f) \in Nat
  BY LenProperties
<1> HIDE DEF a, c
<1>4. n = Len(a) + Len(Tail(q)) + Len(f) /\ Len(p) < n
  BY <1>1, <1>2, <1>3 DEF Line
<1>5. c = Len(p) + 1
  BY <1>2 DEF Line
<1>6. ASSUME NEW i \in 1..Len(Tail(q)) PROVE Tail(q)[i] = Len(a) + i
  <2>1. i + 1 \in 1..Len(q)
    BY <1>2
  <2>2. q[i + 1] = Len(p) + (i + 1)
    BY <2>1 DEF Line
  <2> QED BY <2>2, <1>1, <1>2
<1>7. ASSUME NEW i \in 1..Len(f) PROVE f[i] = Len(a) + Len(Tail(q)) + i
  <2>1. f[i] = Len(p) + Len(q) + i
    BY DEF Line
  <2> QED BY <2>1, <1>1, <1>2
<1>8. Line(a, Tail(q), f, n)
  BY <1>4, <1>6, <1>7 DEF Line
<1> QED BY <1>1, <1>4, <1>5, <1>8 DEF a, c

LEMMA LineSend ==
  ASSUME NEW p \in Seq(Nat), NEW q \in Seq(Nat), NEW f \in Seq(Nat), NEW n \in Nat,
         Line(p, q, f, n)
  PROVE  Line(p, q, Append(f, n + 1), n + 1)
<1> DEFINE a == Append(f, n + 1)
<1>1. /\ Len(p) \in Nat /\ Len(q) \in Nat /\ Len(f) \in Nat
      /\ Len(a) = Len(f) + 1 /\ a[Len(f) + 1] = n + 1
      /\ \A i \in 1..Len(f) : a[i] = f[i]
  BY AppendProperties, LenProperties
<1> HIDE DEF a
<1>2. ASSUME NEW i \in 1..Len(a) PROVE a[i] = Len(p) + Len(q) + i
  <2>1. i = Len(f) + 1 \/ i \in 1..Len(f)
    BY <1>1
  <2>2. CASE i = Len(f) + 1
    BY <1>1, <2>2 DEF Line
  <2>3. CASE i \in 1..Len(f)
    BY <1>1, <2>3 DEF Line
  <2> QED BY <2>1, <2>2, <2>3
<1>3. Line(p, q, a, n + 1)
  BY <1>1, <1>2 DEF Line
<1> QED BY <1>3 DEF a

-----------------------------------------------------------------------------
(* The player's work: what is queued takes at least a Pace for each        *)
(* character.                                                              *)
LEMMA WorkTyped ==
  ASSUME NEW m \in Nat, NEW n \in Nat
  PROVE  /\ IsFiniteSet(Warms(m, n)) /\ IsFiniteSet(Plain(m, n))
         /\ Cardinality(Warms(m, n)) \in Nat /\ Cardinality(Plain(m, n)) \in Nat
         /\ Work(m, n) \in Nat
<1>1. m + 1 \in Int /\ n \in Int
  OBVIOUS
<1>2. IsFiniteSet((m + 1)..n)
  BY <1>1, FS_Interval
<1>3. Warms(m, n) \subseteq (m + 1)..n /\ Plain(m, n) \subseteq (m + 1)..n
  BY DEF Warms, Plain
<1>4. IsFiniteSet(Warms(m, n)) /\ IsFiniteSet(Plain(m, n))
  BY <1>2, <1>3, FS_Subset
<1>5. Cardinality(Warms(m, n)) \in Nat /\ Cardinality(Plain(m, n)) \in Nat
  BY <1>4, FS_CardinalityType
<1>6. \A a, b \in Nat : a * WarmupPace + b * Pace \in Nat
  BY Constants
<1> QED BY <1>4, <1>5, <1>6 DEF Work

LEMMA WorkNone ==
  ASSUME NEW n \in Nat
  PROVE  Work(n, n) = 0
<1>1. Warms(n, n) = {} /\ Plain(n, n) = {}
  BY DEF Warms, Plain
<1>2. Cardinality(Warms(n, n)) = 0 /\ Cardinality(Plain(n, n)) = 0
  BY <1>1, FS_EmptySet
<1> QED BY <1>2, Constants DEF Work

(* A character c joins the set S of those that wait.                       *)
LEMMA WorkMore ==
  ASSUME NEW m \in Nat, NEW n \in Nat, NEW k \in Nat, NEW l \in Nat, NEW c \in Nat,
         (k + 1)..l = ((m + 1)..n) \cup {c}, c \notin (m + 1)..n
  PROVE  Work(k, l) = Work(m, n) + PauseAfter(c)
<1> DEFINE w == Cardinality(Warms(m, n))  u == Cardinality(Plain(m, n))
<1>1. IsFiniteSet(Warms(m, n)) /\ IsFiniteSet(Plain(m, n)) /\ w \in Nat /\ u \in Nat
  BY WorkTyped
<1>2. c \notin Warms(m, n) /\ c \notin Plain(m, n)
  BY DEF Warms, Plain
<1>3. /\ Cardinality(Warms(m, n) \cup {c}) = w + 1
      /\ Cardinality(Plain(m, n) \cup {c}) = u + 1
  BY <1>1, <1>2, FS_AddElement
<1>4. \A a, b \in Nat : /\ (a + 1) * WarmupPace + b * Pace = a * WarmupPace + b * Pace + WarmupPace
                        /\ a * WarmupPace + (b + 1) * Pace = a * WarmupPace + b * Pace + Pace
  BY Constants
<1>5. CASE is_warmup(c)
  <2>1. Warms(k, l) = Warms(m, n) \cup {c} /\ Plain(k, l) = Plain(m, n)
    BY <1>5 DEF Warms, Plain
  <2>2. Work(k, l) = (w + 1) * WarmupPace + u * Pace /\ Work(m, n) = w * WarmupPace + u * Pace
    BY <2>1, <1>3 DEF Work
  <2>3. PauseAfter(c) = WarmupPace
    BY <1>5 DEF PauseAfter
  <2> HIDE DEF w, u
  <2> QED BY <2>2, <2>3, <1>1, <1>4
<1>6. CASE ~is_warmup(c)
  <2>1. Plain(k, l) = Plain(m, n) \cup {c} /\ Warms(k, l) = Warms(m, n)
    BY <1>6 DEF Warms, Plain
  <2>2. Work(k, l) = w * WarmupPace + (u + 1) * Pace /\ Work(m, n) = w * WarmupPace + u * Pace
    BY <2>1, <1>3 DEF Work
  <2>3. PauseAfter(c) = Pace
    BY <1>6 DEF PauseAfter
  <2> HIDE DEF w, u
  <2> QED BY <2>2, <2>3, <1>1, <1>4
<1> QED BY <1>5, <1>6

LEMMA WorkSend ==
  ASSUME NEW m \in Nat, NEW n \in Nat, m <= n
  PROVE  Work(m, n + 1) = Work(m, n) + PauseAfter(n + 1)
<1>1. PICK c \in Nat : c = n + 1
  OBVIOUS
<1>2. (m + 1)..c = ((m + 1)..n) \cup {c} /\ c \notin (m + 1)..n
  BY <1>1
<1>3. Work(m, c) = Work(m, n) + PauseAfter(c)
  BY <1>2, WorkMore
<1> QED BY <1>1, <1>3

LEMMA WorkPlay ==
  ASSUME NEW m \in Nat, NEW n \in Nat, m < n
  PROVE  Work(m, n) = Work(m + 1, n) + PauseAfter(m + 1)
<1>1. (m + 1)..n = (((m + 1) + 1)..n) \cup {m + 1} /\ m + 1 \notin ((m + 1) + 1)..n
  OBVIOUS
<1>2. m + 1 \in Nat
  OBVIOUS
<1> QED BY <1>1, <1>2, WorkMore

LEMMA WorkAtLeast ==
  ASSUME NEW m \in Nat, NEW n \in Nat, m <= n, WarmupPace >= Pace
  PROVE  Work(m, n) >= (n - m) * Pace
<1> DEFINE w == Cardinality(Warms(m, n))  u == Cardinality(Plain(m, n))
<1>1. IsFiniteSet(Warms(m, n)) /\ IsFiniteSet(Plain(m, n)) /\ w \in Nat /\ u \in Nat
  BY WorkTyped
<1>2. Warms(m, n) \cup Plain(m, n) = (m + 1)..n /\ Warms(m, n) \cap Plain(m, n) = {}
  BY DEF Warms, Plain
<1>3. Cardinality(Warms(m, n) \cup Plain(m, n)) = w + u
  <2>1. Cardinality(Warms(m, n) \cap Plain(m, n)) = 0
    BY <1>2, FS_EmptySet
  <2>2. Cardinality(Warms(m, n) \cup Plain(m, n)) = w + u - Cardinality(Warms(m, n) \cap Plain(m, n))
    BY <1>1, FS_Union
  <2> HIDE DEF w, u
  <2> QED BY <2>1, <2>2, <1>1
<1>4. Cardinality((m + 1)..n) = n - m
  <2>1. m + 1 \in Int /\ n \in Int
    OBVIOUS
  <2>2. Cardinality((m + 1)..n) = IF m + 1 > n THEN 0 ELSE n - (m + 1) + 1
    BY <2>1, FS_Interval
  <2> QED BY <2>2
<1>5. w + u = n - m
  BY <1>2, <1>3, <1>4
<1>6. Work(m, n) = w * WarmupPace + u * Pace
  BY DEF Work
<1> HIDE DEF w, u
<1>7. \A a \in Nat : a * WarmupPace >= a * Pace
  BY Constants
<1>8. (w + u) * Pace = w * Pace + u * Pace
  BY <1>1, Constants
<1>9. w * WarmupPace >= w * Pace
  BY <1>1, <1>7
<1>10. w * WarmupPace \in Nat /\ w * Pace \in Nat /\ u * Pace \in Nat
  BY <1>1, Constants
<1> QED BY <1>5, <1>6, <1>8, <1>9, <1>10

-----------------------------------------------------------------------------
(* Every variable keeps its type.                                          *)
LEMMA Numbers ==
  ASSUME TypeOK
  PROVE  /\ now \in 0..(Wrap - 1) /\ p_t0 \in 0..(Wrap - 1) /\ g_slave_last \in 0..(Wrap - 1)
         /\ sent \in Nat /\ sent <= MaxChars /\ pace \in Nat /\ pace <= Pace + WarmupPace
         /\ stalls \in Nat /\ stalls <= MaxStalls /\ silence \in Nat /\ silence <= HoldTime
         /\ quiet \in Nat /\ quiet <= Guard /\ waited \in Nat /\ waited <= MaxWait + 1
<1>1. /\ sent \in 0..MaxChars /\ pace \in 0..(Pace + WarmupPace) /\ stalls \in 0..MaxStalls
      /\ silence \in 0..HoldTime /\ quiet \in 0..Guard /\ waited \in 0..(MaxWait + 1)
  BY DEF TypeOK
<1>2. now \in 0..(Wrap - 1) /\ p_t0 \in 0..(Wrap - 1) /\ g_slave_last \in 0..(Wrap - 1)
  BY DEF TypeOK
<1> QED BY <1>1, <1>2, Constants

LEMMA Queues ==
  ASSUME TypeOK
  PROVE  /\ queue \in Seq(Chars) /\ fifo \in Seq(Chars) /\ played \in Seq(Chars)
         /\ queue \in Seq(Nat) /\ fifo \in Seq(Nat) /\ played \in Seq(Nat)
         /\ Len(queue) \in Nat /\ Len(fifo) \in Nat /\ Len(played) \in Nat
         /\ Len(queue) <= QueueLen /\ Len(fifo) <= FifoLen
<1>1. Chars \subseteq Nat
  BY Constants DEF Chars
<1>2. /\ queue \in Seq(Chars) /\ fifo \in Seq(Chars) /\ played \in Seq(Chars)
      /\ Len(queue) <= QueueLen /\ Len(fifo) <= FifoLen
  BY DEF TypeOK
<1>3. queue \in Seq(Nat) /\ fifo \in Seq(Nat) /\ played \in Seq(Nat)
  BY <1>1, <1>2, SeqMonotonic
<1>4. Len(queue) \in Nat /\ Len(fifo) \in Nat /\ Len(played) \in Nat
  BY <1>3, LenProperties
<1> QED BY <1>2, <1>3, <1>4

LEMMA Flags ==
  ASSUME TypeOK
  PROVE  p_warm \in BOOLEAN /\ g_channel_busy \in BOOLEAN /\ g_slave_seen \in BOOLEAN
BY DEF TypeOK

LEMMA CapturedTyped ==
  ASSUME TypeOK
  PROVE  /\ Captured \in Seq(Chars) /\ Len(Captured) <= QueueLen
         /\ Captured # <<>> => /\ Head(Captured) \in Chars /\ Tail(Captured) \in Seq(Chars)
                               /\ Len(Tail(Captured)) <= QueueLen
<1>1. ASSUME fifo = <<>> PROVE Captured \in Seq(Chars) /\ Len(Captured) <= QueueLen
  BY <1>1, Queues DEF Captured
<1>2. ASSUME fifo # <<>> PROVE Captured \in Seq(Chars) /\ Len(Captured) <= QueueLen
  <2> DEFINE q == IF Len(queue) >= QueueLen THEN Tail(queue) ELSE queue
  <2>1. Head(fifo) \in Chars
    BY <1>2, Queues, TailOf
  <2>2. q \in Seq(Chars) /\ Len(q) \in Nat /\ Len(q) < QueueLen
    <3>1. CASE Len(queue) >= QueueLen
      <4>1. queue # <<>>
        <5>1. Len(<<>>) = 0
          OBVIOUS
        <5> QED BY <3>1, <5>1, Constants
      <4>2. /\ Tail(queue) \in Seq(Chars) /\ Len(Tail(queue)) = Len(queue) - 1 /\ Len(queue) > 0
        BY <4>1, Queues, TailOf
      <4>3. q = Tail(queue)
        BY <3>1
      <4>4. Len(queue) - 1 \in Nat /\ Len(queue) - 1 < QueueLen
        BY <4>2, Queues, Constants
      <4> QED BY <4>2, <4>3, <4>4
    <3>2. CASE ~(Len(queue) >= QueueLen)
      <4>1. q = queue
        BY <3>2
      <4>2. Len(queue) < QueueLen
        BY <3>2, Queues, Constants
      <4> QED BY <4>1, <4>2, Queues
    <3> QED BY <3>1, <3>2
  <2> HIDE DEF q
  <2>3. Append(q, Head(fifo)) \in Seq(Chars) /\ Len(Append(q, Head(fifo))) = Len(q) + 1
    BY <2>1, <2>2, AppendProperties
  <2>4. Captured = Append(q, Head(fifo))
    BY <1>2 DEF Captured, enqueue, q
  <2> QED BY <2>2, <2>3, <2>4, Constants
<1>3. Captured \in Seq(Chars) /\ Len(Captured) <= QueueLen
  BY <1>1, <1>2
<1>4. ASSUME Captured # <<>>
      PROVE  /\ Head(Captured) \in Chars /\ Tail(Captured) \in Seq(Chars)
             /\ Len(Tail(Captured)) <= QueueLen
  BY <1>3, <1>4, TailOf, Constants
<1> QED BY <1>3, <1>4

Frames == [own : BOOLEAN, slave : BOOLEAN]

(* What the ESP32 does in a turn.                                          *)
LEMMA EspStep ==
  ASSUME NEW symbol, NEW takes, Esp(symbol, takes)
  PROVE  \E sends \in BOOLEAN :
        LET c == sent + 1
            q == IF takes THEN Tail(fifo) ELSE fifo
        IN  /\ sends => MaySend
            /\ fifo' = IF sends /\ Len(q) < FifoLen THEN Append(q, c) ELSE q
            /\ sent' = IF sends THEN c ELSE sent
            /\ pace' = IF sends THEN PauseAfter(c) - 1 ELSE Less(pace, 1)
            /\ waited' = IF sends \/ pace > 0 \/ quiet >= Guard THEN 0
                         ELSE IF waited <= MaxWait THEN waited + 1 ELSE waited
            /\ quiet' = IF symbol THEN 0 ELSE IF quiet < Guard THEN quiet + 1 ELSE quiet
            /\ lost' = lost \cup (IF takes THEN DroppedOld ELSE {})
                            \cup (IF sends /\ Len(q) >= FifoLen THEN {c} ELSE {})
<1>1. \A sends \in {FALSE} \cup {MaySend} : sends \in BOOLEAN /\ (sends => MaySend)
  BY DEF MaySend
<1> QED BY <1>1 DEF Esp

LEMMA TypeNext ==
  ASSUME TypeOK, Next
  PROVE  TypeOK'
<1>1. PICK symbol \in BOOLEAN, takes \in BOOLEAN :
        Esp(symbol, takes) /\ (takes => fifo # <<>>)
  <2>1. CASE Loop
    <3>1. air[1] \in Frames
      <4>1. air \in Seq(Frames) /\ 1 \in 1..Len(air)
        BY Constants DEF TypeOK, Frames
      <4> QED BY <4>1, ElementOfSeq
    <3>2. Symbol \subseteq BOOLEAN
      BY <3>1 DEF Symbol, frame, Frames
    <3> QED BY <2>1, <3>2 DEF Loop
  <2>2. CASE Stall
    BY <2>2 DEF Stall
  <2> QED BY <2>1, <2>2 DEF Next
<1>2. PICK sends \in BOOLEAN :
        LET c == sent + 1
            q == IF takes THEN Tail(fifo) ELSE fifo
        IN  /\ sends => MaySend
            /\ fifo' = IF sends /\ Len(q) < FifoLen THEN Append(q, c) ELSE q
            /\ sent' = IF sends THEN c ELSE sent
            /\ pace' = IF sends THEN PauseAfter(c) - 1 ELSE Less(pace, 1)
            /\ waited' = IF sends \/ pace > 0 \/ quiet >= Guard THEN 0
                         ELSE IF waited <= MaxWait THEN waited + 1 ELSE waited
            /\ quiet' = IF symbol THEN 0 ELSE IF quiet < Guard THEN quiet + 1 ELSE quiet
            /\ lost' = lost \cup (IF takes THEN DroppedOld ELSE {})
                            \cup (IF sends /\ Len(q) >= FifoLen THEN {c} ELSE {})
  BY <1>1, EspStep
<1>3. sends => sent < MaxChars /\ sent + 1 \in Chars
  <2>1. sends => sent < MaxChars
    BY <1>2 DEF MaySend
  <2>2. sent < MaxChars => sent + 1 \in 1..MaxChars
    BY Numbers, Constants
  <2> QED BY <2>1, <2>2 DEF Chars
<1>4. sent' \in 0..MaxChars /\ pace' \in 0..(Pace + WarmupPace)
  <2>1. sent' \in 0..MaxChars
    <3>1. sent \in 0..MaxChars /\ (sent < MaxChars => sent + 1 \in 0..MaxChars)
      BY Numbers, Constants
    <3> QED BY <1>2, <1>3, <3>1
  <2>2. PauseAfter(sent + 1) \in {Pace, WarmupPace}
    BY DEF PauseAfter
  <2>3. PauseAfter(sent + 1) - 1 \in 0..(Pace + WarmupPace)
    BY <2>2, Constants
  <2>4. Less(pace, 1) \in 0..(Pace + WarmupPace)
    BY Numbers, Constants DEF Less
  <2> QED BY <1>2, <2>1, <2>3, <2>4
<1>5. waited' \in 0..(MaxWait + 1) /\ quiet' \in 0..Guard
  <2>1. /\ 0 \in 0..(MaxWait + 1) /\ waited \in 0..(MaxWait + 1)
        /\ waited <= MaxWait => waited + 1 \in 0..(MaxWait + 1)
    BY Numbers, Constants
  <2>2. 0 \in 0..Guard /\ quiet \in 0..Guard /\ (quiet < Guard => quiet + 1 \in 0..Guard)
    BY Numbers, Constants
  <2>3. waited' \in 0..(MaxWait + 1)
    BY <1>2, <2>1
  <2>4. quiet' \in 0..Guard
    BY <1>2, <2>2
  <2> QED BY <2>3, <2>4
<1>6. fifo' \in Seq(Chars) /\ Len(fifo') <= FifoLen
  <2> DEFINE q == IF takes THEN Tail(fifo) ELSE fifo
  <2>1. q \in Seq(Chars) /\ Len(q) \in Nat /\ Len(q) <= FifoLen
    <3>1. fifo # <<>> => Tail(fifo) \in Seq(Chars) /\ Len(Tail(fifo)) = Len(fifo) - 1 /\ Len(fifo) > 0
      BY Queues, TailOf
    <3>2. CASE takes
      BY <3>1, <3>2, <1>1, Queues, Constants
    <3>3. CASE ~takes
      BY <3>3, Queues
    <3> QED BY <3>2, <3>3
  <2>2. fifo' = IF sends /\ Len(q) < FifoLen THEN Append(q, sent + 1) ELSE q
    BY <1>2
  <2> HIDE DEF q
  <2>3. sends => Append(q, sent + 1) \in Seq(Chars) /\ Len(Append(q, sent + 1)) = Len(q) + 1
    BY <1>3, <2>1, AppendProperties
  <2> QED BY <2>1, <2>2, <2>3, Constants
<1>7. lost' \subseteq Chars
  <2>1. lost \subseteq Chars
    BY DEF TypeOK
  <2>2. DroppedOld \subseteq Chars
    <3>1. Len(queue) >= QueueLen => queue # <<>>
      <4>1. Len(<<>>) = 0
        OBVIOUS
      <4> QED BY <4>1, Constants
    <3>2. queue # <<>> => Head(queue) \in Chars
      BY Queues, TailOf
    <3> QED BY <3>1, <3>2 DEF DroppedOld
  <2> QED BY <1>2, <1>3, <2>1, <2>2
<1>8. now' \in 0..(Wrap - 1)
  <2>1. now + 1 \in Int /\ Wrap \in Nat \ {0}
    BY Numbers, Constants
  <2>2. (now + 1) % Wrap \in 0..(Wrap - 1)
    BY <2>1, Modulo
  <2> QED BY <2>2 DEF Next, Loop, Stall, Pass
<1>9. air' \in Seq(Frames) /\ Len(air') = Latency
  <2>1. PICK slave \in BOOLEAN : air' = Append(Tail(air), [own |-> pstate' = "TONE", slave |-> slave])
    BY DEF Next, Loop, Stall, Pass
  <2>2. [own |-> pstate' = "TONE", slave |-> slave] \in Frames
    BY DEF Frames
  <2>3. air \in Seq(Frames) /\ Len(air) = Latency /\ air # <<>>
    <3>1. Len(<<>>) = 0
      OBVIOUS
    <3> QED BY <3>1, Constants DEF TypeOK, Frames
  <2>4. Tail(air) \in Seq(Frames) /\ Len(Tail(air)) = Latency - 1
    BY <2>3, TailOf
  <2>5. /\ Append(Tail(air), [own |-> pstate' = "TONE", slave |-> slave]) \in Seq(Frames)
        /\ Len(Append(Tail(air), [own |-> pstate' = "TONE", slave |-> slave])) = (Latency - 1) + 1
    BY <2>2, <2>4, AppendProperties
  <2> QED BY <2>1, <2>5, Constants
<1>10. /\ p_t0' \in 0..(Wrap - 1) /\ g_slave_last' \in 0..(Wrap - 1)
       /\ queue' \in Seq(Chars) /\ Len(queue') <= QueueLen /\ played' \in Seq(Chars)
       /\ pstate' \in {"IDLE", "TONE", "SIL"}
       /\ p_warm' \in BOOLEAN /\ g_channel_busy' \in BOOLEAN /\ g_slave_seen' \in BOOLEAN
       /\ silence' \in 0..HoldTime /\ stalls' \in 0..MaxStalls
  <2>1. CASE Loop
    <3> USE <2>1 DEF Loop
    <3>1. p_t0' \in 0..(Wrap - 1)
      <4>1. 0 \in 0..(Wrap - 1)
        BY Constants
      <4> QED BY <4>1, Numbers DEF Play
    <3>2. queue' \in Seq(Chars) /\ Len(queue') <= QueueLen
      BY CapturedTyped DEF Play, Starts
    <3>3. played' \in Seq(Chars)
      <4>1. Starts => Append(played, Head(Captured)) \in Seq(Chars)
        BY CapturedTyped, Queues, AppendProperties DEF Starts
      <4> QED BY <4>1, Queues DEF Play, next_char
    <3>4. pstate' \in {"IDLE", "TONE", "SIL"}
      BY DEF Play, player, TypeOK
    <3>5. p_warm' \in BOOLEAN
      BY Flags DEF Play, is_warmup
    <3>6. air[1] \in Frames
      <4>1. air \in Seq(Frames) /\ 1 \in 1..Len(air)
        BY Constants DEF TypeOK, Frames
      <4> QED BY <4>1, ElementOfSeq
    <3>7. Carrier \subseteq BOOLEAN
      BY <3>6 DEF Carrier, frame, Frames
    <3>8. PICK carrier \in BOOLEAN :
            LET hears == ~emit_busy /\ carrier
                last  == IF hears THEN now ELSE g_slave_last
            IN  /\ g_slave_last' = last
                /\ g_slave_seen' = (g_slave_seen \/ hears)
                /\ g_channel_busy' = held(g_slave_seen \/ hears, last)
                /\ silence' = IF hears THEN 0 ELSE IF silence < HoldTime THEN silence + 1 ELSE silence
      BY <3>7 DEF Decode
    <3>9. g_slave_last' \in 0..(Wrap - 1) /\ g_slave_seen' \in BOOLEAN
      BY <3>8, Numbers, Flags
    <3>10. g_channel_busy' \in BOOLEAN
      BY <3>8 DEF held
    <3>11. silence' \in 0..HoldTime
      BY <3>8, Numbers, Constants
    <3>12. stalls' \in 0..MaxStalls
      BY DEF TypeOK
    <3> QED BY <3>1, <3>2, <3>3, <3>4, <3>5, <3>9, <3>10, <3>11, <3>12
  <2>2. CASE Stall
    <3> USE <2>2 DEF Stall
    <3>1. stalls' \in 0..MaxStalls
      BY Numbers, Constants
    <3>2. silence' \in 0..HoldTime
      BY Numbers, Constants
    <3> QED BY <3>1, <3>2 DEF fpgaVars, TypeOK
  <2> QED BY <2>1, <2>2 DEF Next
<1>11. {p_t0', g_slave_last'} \subseteq 0..(Wrap - 1) /\ {p_warm', g_channel_busy', g_slave_seen'} \subseteq BOOLEAN
  BY <1>10
<1> QED BY <1>4, <1>5, <1>6, <1>7, <1>8, <1>9, <1>10, <1>11 DEF TypeOK, Frames

-----------------------------------------------------------------------------
(* The player in a turn, and in one in which the loop is held up.          *)
LEMMA Ages ==
  ASSUME TypeOK, Timing, Next
  PROVE  /\ Since(p_t0) \in Nat
         /\ p_t0' = now => Since(p_t0)' = 1
         /\ p_t0' = p_t0 /\ pstate # "IDLE" => Since(p_t0)' = Since(p_t0) + 1
<1>1. PICK m : m = now' /\ m = (now + 1) % Wrap
  BY DEF Next, Loop, Stall, Pass
<1>2. /\ (now - p_t0) % Wrap \in 0..(Wrap - 1) /\ (m - now) % Wrap = 1
      /\ (m - p_t0) % Wrap
           = IF (now - p_t0) % Wrap = Wrap - 1 THEN 0 ELSE ((now - p_t0) % Wrap) + 1
  <2>1. now \in 0..(Wrap - 1) /\ p_t0 \in 0..(Wrap - 1)
    BY Numbers
  <2>2. \A n, t \in 0..(Wrap - 1) : \A k : k = (n + 1) % Wrap =>
          /\ (n - t) % Wrap \in 0..(Wrap - 1) /\ (k - n) % Wrap = 1
          /\ (k - t) % Wrap
               = IF (n - t) % Wrap = Wrap - 1 THEN 0 ELSE ((n - t) % Wrap) + 1
    BY SinceNext
  <2> QED BY <1>1, <2>1, <2>2
<1>3. pstate # "IDLE" => (now - p_t0) % Wrap # Wrap - 1
  <2>1. pstate # "IDLE" => pstate = "TONE" \/ pstate = "SIL"
    BY DEF TypeOK
  <2>2. CASE pstate = "TONE"
    <3>1. (now - p_t0) % Wrap \in 1..(Length + stalls)
      BY <2>2 DEF Timing, Since
    <3>2. Length \in Nat /\ Length + stalls < Wrap - 1
      BY Numbers, Constants DEF Length
    <3> QED BY <3>1, <3>2, Numbers, Constants
  <2>3. CASE pstate = "SIL"
    <3>1. (now - p_t0) % Wrap \in 1..(Sil + stalls)
      BY <2>3 DEF Timing, Since
    <3> QED BY <3>1, Numbers, Constants
  <2> QED BY <2>1, <2>2, <2>3
<1>4. (now - p_t0) % Wrap \in Nat
  BY <1>2, Constants
<1> QED BY <1>1, <1>2, <1>3, <1>4 DEF Since

LEMMA PlayerStep ==
  ASSUME TypeOK, Timing, Loop
  PROVE  \/ pstate = "IDLE" /\ ~Starts /\ pstate' = "IDLE"
         \/ /\ Starts /\ pstate = "IDLE" /\ pstate' = "TONE" /\ Since(p_t0)' = 1
            /\ p_warm' = is_warmup(Head(Captured))
         \/ /\ pstate = "TONE" /\ pstate' = "TONE" /\ Since(p_t0) < Length
            /\ Since(p_t0)' = Since(p_t0) + 1 /\ Length' = Length /\ ~Starts
         \/ /\ pstate = "TONE" /\ pstate' = "SIL" /\ Since(p_t0) >= Length
            /\ Since(p_t0)' = 1 /\ ~Starts
         \/ /\ pstate = "SIL" /\ pstate' = "SIL" /\ Since(p_t0) < Sil
            /\ Since(p_t0)' = Since(p_t0) + 1 /\ ~Starts
         \/ pstate = "SIL" /\ pstate' = "IDLE" /\ Since(p_t0) >= Sil /\ ~Starts
<1> USE DEF Loop
<1>1. /\ Since(p_t0) \in Nat /\ (p_t0' = now => Since(p_t0)' = 1)
      /\ p_t0' = p_t0 /\ pstate # "IDLE" => Since(p_t0)' = Since(p_t0) + 1
  BY Ages DEF Next
<1>2. Length \in Nat
  BY Constants DEF Length
<1>3. pstate' = player /\ p_t0' = CASE player = "IDLE" -> 0 [] player = pstate -> p_t0 [] OTHER -> now
  BY DEF Play
<1>4. p_warm' = IF Starts THEN is_warmup(next_char(Captured)) ELSE player = "TONE" /\ p_warm
  BY DEF Play
<1>5. pstate \in {"IDLE", "TONE", "SIL"} /\ p_warm \in BOOLEAN
  BY DEF TypeOK
<1>6. CASE pstate = "IDLE"
  <2>1. CASE Starts
    <3>1. player = "TONE" /\ p_t0' = now
      BY <1>3, <1>6, <2>1 DEF player
    <3> QED BY <1>1, <1>3, <1>4, <1>6, <2>1, <3>1 DEF next_char
  <2>2. CASE ~Starts
    BY <1>3, <1>6, <2>2 DEF player
  <2> QED BY <2>1, <2>2
<1>7. CASE pstate = "TONE"
  <2>1. ~Starts
    BY <1>7 DEF Starts
  <2>2. tone_over <=> Since(p_t0) >= Length
    BY DEF tone_over, Length
  <2>3. CASE tone_over
    <3>1. player = "SIL" /\ p_t0' = now
      BY <1>3, <1>7, <2>3 DEF player
    <3> QED BY <1>1, <1>3, <1>7, <2>1, <2>2, <2>3, <3>1
  <2>4. CASE ~tone_over
    <3>1. player = "TONE" /\ p_t0' = p_t0
      BY <1>3, <1>7, <2>4 DEF player
    <3>2. p_warm' = p_warm
      BY <1>4, <1>5, <2>1, <3>1
    <3>3. Length' = Length
      BY <3>2 DEF Length
    <3>4. Since(p_t0) < Length
      BY <1>1, <1>2, <2>2, <2>4
    <3> QED BY <1>1, <1>3, <1>7, <2>1, <3>1, <3>3, <3>4
  <2> QED BY <2>3, <2>4
<1>8. CASE pstate = "SIL"
  <2>1. ~Starts
    BY <1>8 DEF Starts
  <2>2. CASE sil_over
    <3>1. player = "IDLE"
      BY <1>8, <2>2 DEF player
    <3> QED BY <1>3, <1>8, <2>1, <2>2, <3>1 DEF sil_over
  <2>3. CASE ~sil_over
    <3>1. player = "SIL" /\ p_t0' = p_t0
      BY <1>3, <1>8, <2>3 DEF player
    <3>2. Since(p_t0) < Sil
      BY <1>1, <2>3, Constants DEF sil_over
    <3> QED BY <1>1, <1>3, <1>8, <2>1, <3>1, <3>2
  <2> QED BY <2>2, <2>3
<1> QED BY <1>5, <1>6, <1>7, <1>8

LEMMA StallStep ==
  ASSUME TypeOK, Timing, Stall
  PROVE  /\ pstate' = pstate /\ Length' = Length /\ stalls' = stalls + 1
         /\ Since(p_t0) \in Nat /\ (pstate # "IDLE" => Since(p_t0)' = Since(p_t0) + 1)
<1>1. pstate' = pstate /\ p_t0' = p_t0 /\ p_warm' = p_warm /\ stalls' = stalls + 1
  BY DEF Stall, fpgaVars
<1>2. Length' = Length
  BY <1>1 DEF Length
<1> QED BY <1>1, <1>2, Ages DEF Next

LEMMA TimingNext ==
  ASSUME TypeOK, Timing, Next
  PROVE  Timing'
<1>1. Length \in Nat /\ Length > 0 /\ stalls \in Nat
  BY Numbers, Constants DEF Length
<1>2. Length' \in Nat /\ Length' > 0
  BY Constants DEF Length
<1>3. Since(p_t0) \in Nat
  BY Ages
<1>4. CASE Loop
  <2>1. stalls' = stalls
    BY <1>4 DEF Loop
  <2>2. pstate' = "TONE" => Since(p_t0)' \in 1..(Length' + stalls)
    <3>1. ASSUME pstate' = "TONE"
          PROVE  \/ Since(p_t0)' = 1
                 \/ Since(p_t0)' = Since(p_t0) + 1 /\ Since(p_t0) < Length /\ Length' = Length
      BY <1>4, <3>1, PlayerStep
    <3>2. 1 \in 1..(Length' + stalls)
      <4>1. \A k \in Nat : k > 0 => 1 \in 1..(k + stalls)
        BY <1>1
      <4> QED BY <1>2, <4>1
    <3>3. Since(p_t0) < Length => Since(p_t0) + 1 \in 1..(Length + stalls)
      BY <1>1, <1>3
    <3> QED BY <3>1, <3>2, <3>3
  <2>3. pstate' = "SIL" => Since(p_t0)' \in 1..(Sil + stalls)
    <3>1. ASSUME pstate' = "SIL"
          PROVE  \/ Since(p_t0)' = 1
                 \/ Since(p_t0)' = Since(p_t0) + 1 /\ Since(p_t0) < Sil
      BY <1>4, <3>1, PlayerStep
    <3>2. 1 \in 1..(Sil + stalls)
      BY <1>1, Constants
    <3>3. Since(p_t0) < Sil => Since(p_t0) + 1 \in 1..(Sil + stalls)
      BY <1>1, <1>3, Constants
    <3> QED BY <3>1, <3>2, <3>3
  <2> QED BY <2>1, <2>2, <2>3 DEF Timing
<1>5. CASE Stall
  <2>1. /\ pstate' = pstate /\ Length' = Length /\ stalls' = stalls + 1
        /\ pstate # "IDLE" => Since(p_t0)' = Since(p_t0) + 1
    BY <1>5, StallStep
  <2>2. ASSUME pstate = "TONE" PROVE Since(p_t0)' \in 1..(Length + (stalls + 1))
    <3>1. Since(p_t0) \in 1..(Length + stalls)
      BY <2>2 DEF Timing
    <3>2. Since(p_t0) + 1 \in 1..(Length + (stalls + 1))
      BY <3>1, <1>1
    <3> QED BY <2>1, <2>2, <3>2
  <2>3. ASSUME pstate = "SIL" PROVE Since(p_t0)' \in 1..(Sil + (stalls + 1))
    <3>1. Since(p_t0) \in 1..(Sil + stalls)
      BY <2>3 DEF Timing
    <3>2. Since(p_t0) + 1 \in 1..(Sil + (stalls + 1))
      BY <3>1, <1>1, Constants
    <3> QED BY <2>1, <2>3, <3>2
  <2> QED BY <2>1, <2>2, <2>3 DEF Timing
<1> QED BY <1>4, <1>5 DEF Next

-----------------------------------------------------------------------------
(* The frames on their way to the loop.                                    *)
LEMMA AirStep ==
  ASSUME TypeOK, Next
  PROVE  /\ \A i \in 1..Latency : i # Latency => i + 1 \in 1..Latency /\ air'[i] = air[i + 1]
         /\ air'[Latency].own = (pstate' = "TONE")
<1>1. PICK slave \in BOOLEAN : air' = Append(Tail(air), [own |-> pstate' = "TONE", slave |-> slave])
  BY DEF Next, Loop, Stall, Pass
<1> DEFINE new == [own |-> pstate' = "TONE", slave |-> slave]
           rest == Tail(air)
<1>2. air \in Seq(Frames) /\ Len(air) = Latency /\ air # <<>>
  <2>1. Len(<<>>) = 0
    OBVIOUS
  <2> QED BY <2>1, Constants DEF TypeOK, Frames
<1>3. /\ rest \in Seq(Frames) /\ Len(rest) = Latency - 1
      /\ \A i \in 1..Len(rest) : rest[i] = air[i + 1]
  BY <1>2, TailOf
<1>4. new \in Frames /\ new.own = (pstate' = "TONE")
  BY DEF Frames
<1> HIDE DEF new, rest
<1>5. /\ \A i \in 1..Len(rest) : Append(rest, new)[i] = rest[i]
      /\ Append(rest, new)[Len(rest) + 1] = new
  BY <1>3, <1>4, AppendProperties
<1>6. air' = Append(rest, new)
  BY <1>1 DEF new, rest
<1>7. ASSUME NEW i \in 1..Latency, i # Latency
      PROVE  i + 1 \in 1..Latency /\ air'[i] = air[i + 1]
  <2>1. i + 1 \in 1..Latency /\ i \in 1..Len(rest)
    BY <1>3, <1>7, Constants
  <2> QED BY <1>3, <1>5, <1>6, <2>1
<1>8. air'[Latency] = new
  <2>1. Len(rest) + 1 = Latency
    BY <1>3, Constants
  <2> QED BY <1>5, <1>6, <2>1
<1> QED BY <1>4, <1>7, <1>8

(* The frame read in the turn a silence ends, or in an idle one, was taken *)
(* when the master made no sound.                                          *)
LEMMA QuietWhenHeard ==
  ASSUME TypeOK, Timing, Deaf, Loop, ~emit_busy
  PROVE  ~air[1].own
<1>1. player = "IDLE"
  BY DEF emit_busy
<1>2. pstate = "IDLE" \/ (pstate = "SIL" /\ Since(p_t0) >= Sil)
  <2>1. pstate' = "IDLE"
    BY <1>1 DEF Loop, Play
  <2> QED BY <2>1, PlayerStep
<1>3. 1 \in 1..Latency /\ Latency <= Sil /\ Latency \in Nat /\ Sil \in Nat
  BY Constants
<1>4. Since(p_t0) \in Nat
  BY Ages DEF Next
<1>5. ~(pstate = "SIL" /\ Since(p_t0) >= Sil /\ Since(p_t0) <= Latency - 1)
  BY <1>3, <1>4
<1>6. air[1].own => pstate = "TONE" \/ (pstate = "SIL" /\ Since(p_t0) <= Latency - 1)
  BY <1>3 DEF Deaf
<1> QED BY <1>2, <1>5, <1>6

LEMMA DeafNext ==
  ASSUME TypeOK, Timing, Deaf, Next
  PROVE  Deaf'
<1> SUFFICES ASSUME NEW i \in 1..Latency, air'[i].own
             PROVE  pstate' = "TONE" \/ (pstate' = "SIL" /\ Since(p_t0)' <= Latency - i)
  BY DEF Deaf
<1>1. Latency \in Nat /\ i \in Nat /\ i <= Latency /\ Latency <= Sil /\ Sil \in Nat
  BY Constants
<1>2. Since(p_t0) \in Nat
  BY Ages
<1>3. CASE i = Latency
  BY <1>3, AirStep
<1>4. CASE i # Latency
  <2>1. i + 1 \in 1..Latency /\ air[i + 1].own
    BY <1>4, AirStep
  <2>2. pstate = "TONE" \/ (pstate = "SIL" /\ Since(p_t0) <= Latency - (i + 1))
    BY <2>1 DEF Deaf
  <2>3. CASE pstate = "TONE"
    <3>1. pstate' = "TONE" \/ (pstate' = "SIL" /\ Since(p_t0)' = 1)
      BY <2>3, PlayerStep, StallStep DEF Next
    <3>2. 1 <= Latency - i
      BY <1>1, <1>4
    <3> QED BY <3>1, <3>2
  <2>4. CASE pstate = "SIL" /\ Since(p_t0) <= Latency - (i + 1)
    <3>1. ~(Since(p_t0) >= Sil)
      BY <1>1, <1>2, <2>4
    <3>2. pstate' = "SIL" /\ Since(p_t0)' = Since(p_t0) + 1
      BY <2>4, <3>1, PlayerStep, StallStep DEF Next
    <3>3. Since(p_t0) + 1 <= Latency - i
      BY <1>1, <1>2, <2>4
    <3> QED BY <3>2, <3>3
  <2> QED BY <2>2, <2>3, <2>4
<1> QED BY <1>3, <1>4

-----------------------------------------------------------------------------
(* Every character sent is played, on its way, or lost, in its order.      *)
LEMMA OrderNext ==
  ASSUME TypeOK, OrderInv, Next
  PROVE  OrderInv'
<1>1. sent \in Nat /\ queue \in Seq(Nat) /\ fifo \in Seq(Nat) /\ played \in Seq(Nat)
  BY Numbers, Queues
<1>2. ASSUME NEW q \in Seq(Nat), NEW p \in Seq(Nat), NEW f \in Seq(Nat), NEW l,
             Ordered(p, q, f, l, sent), NEW sends \in BOOLEAN,
             fifo' = IF sends /\ Len(f) < FifoLen THEN Append(f, sent + 1) ELSE f,
             sent' = IF sends THEN sent + 1 ELSE sent,
             lost' = l \cup (IF sends /\ Len(f) >= FifoLen THEN {sent + 1} ELSE {})
      PROVE  Ordered(p, q, fifo', lost', sent')
  <2>1. /\ Ordered(p, q, Append(f, sent + 1), l, sent + 1)
        /\ Ordered(p, q, f, l \cup {sent + 1}, sent + 1)
    BY <1>1, <1>2, OrderedSend
  <2>2. Len(f) \in Nat /\ FifoLen \in Nat
    BY LenProperties, Constants
  <2>3. CASE ~sends
    <3>1. fifo' = f /\ sent' = sent /\ lost' = l
      BY <1>2, <2>3
    <3> QED BY <1>2, <3>1
  <2>4. CASE sends /\ Len(f) < FifoLen
    <3>1. fifo' = Append(f, sent + 1) /\ sent' = sent + 1 /\ lost' = l
      BY <1>2, <2>2, <2>4
    <3> QED BY <2>1, <3>1
  <2>5. CASE sends /\ Len(f) >= FifoLen
    <3>1. fifo' = f /\ sent' = sent + 1 /\ lost' = l \cup {sent + 1}
      BY <1>2, <2>2, <2>5
    <3> QED BY <2>1, <3>1
  <2> QED BY <2>2, <2>3, <2>4, <2>5
<1>3. CASE Loop
  <2>1. PICK symbol : Esp(symbol, fifo # <<>>)
    BY <1>3 DEF Loop
  <2> DEFINE f == IF fifo # <<>> THEN Tail(fifo) ELSE fifo
             l == lost \cup (IF fifo # <<>> THEN DroppedOld ELSE {})
  <2>2. PICK sends \in BOOLEAN :
          /\ fifo' = IF sends /\ Len(f) < FifoLen THEN Append(f, sent + 1) ELSE f
          /\ sent' = IF sends THEN sent + 1 ELSE sent
          /\ lost' = l \cup (IF sends /\ Len(f) >= FifoLen THEN {sent + 1} ELSE {})
    BY <2>1, EspStep
  <2>3. f \in Seq(Nat) /\ Captured \in Seq(Nat) /\ Ordered(played, Captured, f, l, sent)
    <3>1. CASE fifo = <<>>
      BY <1>1, <3>1 DEF Captured, OrderInv
    <3>2. CASE fifo # <<>>
      <4>1. f = Tail(fifo) /\ f \in Seq(Nat) /\ Head(fifo) \in Nat
        BY <1>1, <3>2, TailOf
      <4>2. CASE Len(queue) >= QueueLen
        <5>1. queue # <<>>
          <6>1. Len(<<>>) = 0
            OBVIOUS
          <6> QED BY <4>2, <6>1, Constants
        <5>2. l = lost \cup {Head(queue)} /\ Captured = Append(Tail(queue), Head(fifo))
          BY <3>2, <4>2 DEF DroppedOld, Captured, enqueue
        <5>3. Tail(queue) \in Seq(Nat)
          BY <1>1, <5>1, TailOf
        <5>4. Ordered(played, Tail(queue), fifo, lost \cup {Head(queue)}, sent)
          BY <1>1, <5>1, OrderedDrop DEF OrderInv
        <5>5. Ordered(played, Append(Tail(queue), Head(fifo)), Tail(fifo), lost \cup {Head(queue)}, sent)
          BY <1>1, <3>2, <5>3, <5>4, OrderedCapture
        <5>6. Append(Tail(queue), Head(fifo)) \in Seq(Nat)
          BY <4>1, <5>3, AppendProperties
        <5> HIDE DEF f, l
        <5> QED BY <4>1, <5>2, <5>5, <5>6
      <4>3. CASE ~(Len(queue) >= QueueLen)
        <5>1. l = lost /\ Captured = Append(queue, Head(fifo))
          BY <3>2, <4>3 DEF DroppedOld, Captured, enqueue
        <5>2. Ordered(played, Append(queue, Head(fifo)), Tail(fifo), lost, sent)
          BY <1>1, <3>2, OrderedCapture DEF OrderInv
        <5>3. Append(queue, Head(fifo)) \in Seq(Nat)
          BY <1>1, <4>1, AppendProperties
        <5> HIDE DEF f, l
        <5> QED BY <4>1, <5>1, <5>2, <5>3
      <4> QED BY <4>2, <4>3
    <3> QED BY <3>1, <3>2
  <2> HIDE DEF f, l
  <2>4. played' \in Seq(Nat) /\ queue' \in Seq(Nat) /\ Ordered(played', queue', f, l, sent)
    <3>1. CASE Starts
      <4>1. played' = Append(played, Head(Captured)) /\ queue' = Tail(Captured) /\ Captured # <<>>
        BY <1>3, <3>1 DEF Loop, Play, Starts, next_char
      <4>2. Ordered(Append(played, Head(Captured)), Tail(Captured), f, l, sent)
        BY <1>1, <2>3, <4>1, OrderedPlay
      <4>3. Tail(Captured) \in Seq(Nat) /\ Head(Captured) \in Nat
        BY <2>3, <4>1, TailOf
      <4>4. Append(played, Head(Captured)) \in Seq(Nat)
        BY <1>1, <4>3, AppendProperties
      <4> QED BY <4>1, <4>2, <4>3, <4>4
    <3>2. CASE ~Starts
      <4>1. played' = played /\ queue' = Captured
        BY <1>3, <3>2 DEF Loop, Play
      <4> QED BY <1>1, <2>3, <4>1
    <3> QED BY <3>1, <3>2
  <2> QED BY <1>2, <2>2, <2>3, <2>4 DEF OrderInv
<1>4. CASE Stall
  <2>1. Esp(FALSE, FALSE) /\ played' = played /\ queue' = queue
    BY <1>4 DEF Stall, fpgaVars
  <2>2. PICK sends \in BOOLEAN :
          /\ fifo' = IF sends /\ Len(fifo) < FifoLen THEN Append(fifo, sent + 1) ELSE fifo
          /\ sent' = IF sends THEN sent + 1 ELSE sent
          /\ lost' = lost \cup (IF sends /\ Len(fifo) >= FifoLen THEN {sent + 1} ELSE {})
    <3>1. \A sends \in BOOLEAN :
            lost \cup {} \cup (IF sends /\ Len(fifo) >= FifoLen THEN {sent + 1} ELSE {})
              = lost \cup (IF sends /\ Len(fifo) >= FifoLen THEN {sent + 1} ELSE {})
      OBVIOUS
    <3> QED BY <2>1, <3>1, EspStep
  <2> QED BY <1>1, <1>2, <2>1, <2>2 DEF OrderInv
<1> QED BY <1>3, <1>4 DEF Next

-----------------------------------------------------------------------------
(* The player's work and the ESP32's pauses.                               *)
LEMMA RemTyped ==
  ASSUME TypeOK, Timing, Next
  PROVE  Rem \in Nat /\ (Rem = 0 <=> pstate = "IDLE")
<1>1. Since(p_t0) \in Nat /\ Length \in Nat /\ Sil \in Nat
  BY Ages, Constants DEF Length
<1>2. \A a, b \in Nat : Less(a, b) \in Nat
  BY DEF Less
<1>3. pstate \in {"IDLE", "TONE", "SIL"}
  BY DEF TypeOK
<1>4. Less(Length, Since(p_t0)) \in Nat /\ Less(Sil, Since(p_t0)) \in Nat
  BY <1>1, <1>2
<1>5. pstate = "IDLE" => Rem = 0
  BY DEF Rem
<1>6. pstate = "TONE" => Rem = Less(Length, Since(p_t0)) + Sil + 1
  BY DEF Rem
<1>7. pstate = "SIL" => Rem = Less(Sil, Since(p_t0)) + 1
  BY DEF Rem
<1> QED BY <1>1, <1>3, <1>4, <1>5, <1>6, <1>7

LEMMA RemLoop ==
  ASSUME TypeOK, Timing, Loop
  PROVE  /\ ~Starts => Rem' = Less(Rem, 1)
         /\ Starts => Rem = 0 /\ \E r \in Nat : Rem' = r /\ r < PauseAfter(Head(Captured))
<1>1. Since(p_t0) \in Nat /\ Length \in Nat /\ Sil \in Nat /\ Sil > 0
  BY Ages, Constants DEF Length, Next
<1>2. CASE pstate = "IDLE" /\ ~Starts /\ pstate' = "IDLE"
  BY <1>2 DEF Rem, Less
<1>3. CASE /\ Starts /\ pstate = "IDLE" /\ pstate' = "TONE" /\ Since(p_t0)' = 1
           /\ p_warm' = is_warmup(Head(Captured))
  <2>1. Rem = 0 /\ Rem' = Less(Length', 1) + Sil + 1
    BY <1>3 DEF Rem
  <2> DEFINE t == IF is_warmup(Head(Captured)) THEN Warmup ELSE Tone
  <2>2. Length' = t
    BY <1>3 DEF Length
  <2>3. t \in Nat /\ t > 0 /\ t + Sil + 1 <= PauseAfter(Head(Captured)) /\ PauseAfter(Head(Captured)) \in Nat
    BY Constants DEF PauseAfter
  <2> HIDE DEF t
  <2>4. Less(t, 1) + Sil + 1 \in Nat /\ Less(t, 1) + Sil + 1 < PauseAfter(Head(Captured))
    BY <1>1, <2>3 DEF Less
  <2> QED BY <1>3, <2>1, <2>2, <2>4
<1>4. CASE /\ pstate = "TONE" /\ pstate' = "TONE" /\ Since(p_t0) < Length
           /\ Since(p_t0)' = Since(p_t0) + 1 /\ Length' = Length /\ ~Starts
  <2>1. Rem = Less(Length, Since(p_t0)) + Sil + 1 /\ Rem' = Less(Length, Since(p_t0) + 1) + Sil + 1
    BY <1>4 DEF Rem
  <2>2. Less(Length, Since(p_t0) + 1) + Sil + 1 = Less(Less(Length, Since(p_t0)) + Sil + 1, 1)
    BY <1>1, <1>4 DEF Less
  <2> QED BY <1>4, <2>1, <2>2
<1>5. CASE /\ pstate = "TONE" /\ pstate' = "SIL" /\ Since(p_t0) >= Length
           /\ Since(p_t0)' = 1 /\ ~Starts
  <2>1. Rem = Less(Length, Since(p_t0)) + Sil + 1 /\ Rem' = Less(Sil, 1) + 1
    BY <1>5 DEF Rem
  <2>2. Less(Sil, 1) + 1 = Less(Less(Length, Since(p_t0)) + Sil + 1, 1)
    BY <1>1, <1>5 DEF Less
  <2> QED BY <1>5, <2>1, <2>2
<1>6. CASE /\ pstate = "SIL" /\ pstate' = "SIL" /\ Since(p_t0) < Sil
           /\ Since(p_t0)' = Since(p_t0) + 1 /\ ~Starts
  <2>1. Rem = Less(Sil, Since(p_t0)) + 1 /\ Rem' = Less(Sil, Since(p_t0) + 1) + 1
    BY <1>6 DEF Rem
  <2>2. Less(Sil, Since(p_t0) + 1) + 1 = Less(Less(Sil, Since(p_t0)) + 1, 1)
    BY <1>1, <1>6 DEF Less
  <2> QED BY <1>6, <2>1, <2>2
<1>7. CASE pstate = "SIL" /\ pstate' = "IDLE" /\ Since(p_t0) >= Sil /\ ~Starts
  <2>1. Rem = Less(Sil, Since(p_t0)) + 1 /\ Rem' = 0
    BY <1>7 DEF Rem
  <2>2. Less(Less(Sil, Since(p_t0)) + 1, 1) = 0
    BY <1>1, <1>7 DEF Less
  <2> QED BY <1>7, <2>1, <2>2
<1> QED BY <1>2, <1>3, <1>4, <1>5, <1>6, <1>7, PlayerStep

LEMMA RemStall ==
  ASSUME TypeOK, Timing, Stall
  PROVE  \E r \in Nat : Rem' = r /\ r <= Rem
<1>1. Since(p_t0) \in Nat /\ Length \in Nat /\ Sil \in Nat
  BY Ages, Constants DEF Length, Next
<1>2. pstate' = pstate /\ Length' = Length /\ (pstate # "IDLE" => Since(p_t0)' = Since(p_t0) + 1)
  BY StallStep
<1>3. pstate \in {"IDLE", "TONE", "SIL"}
  BY DEF TypeOK
<1>4. CASE pstate = "IDLE"
  BY <1>2, <1>4 DEF Rem
<1>5. CASE pstate = "TONE"
  <2>1. Rem = Less(Length, Since(p_t0)) + Sil + 1 /\ Rem' = Less(Length, Since(p_t0) + 1) + Sil + 1
    BY <1>2, <1>5 DEF Rem
  <2>2. /\ Less(Length, Since(p_t0) + 1) + Sil + 1 \in Nat
        /\ Less(Length, Since(p_t0) + 1) + Sil + 1 <= Less(Length, Since(p_t0)) + Sil + 1
    BY <1>1 DEF Less
  <2> QED BY <2>1, <2>2
<1>6. CASE pstate = "SIL"
  <2>1. Rem = Less(Sil, Since(p_t0)) + 1 /\ Rem' = Less(Sil, Since(p_t0) + 1) + 1
    BY <1>2, <1>6 DEF Rem
  <2>2. /\ Less(Sil, Since(p_t0) + 1) + 1 \in Nat
        /\ Less(Sil, Since(p_t0) + 1) + 1 <= Less(Sil, Since(p_t0)) + 1
    BY <1>1 DEF Less
  <2> QED BY <2>1, <2>2
<1> QED BY <1>3, <1>4, <1>5, <1>6

LEMMA PauseTyped ==
  ASSUME NEW c
  PROVE  PauseAfter(c) \in Nat /\ PauseAfter(c) > 0
BY Constants DEF PauseAfter

(* A turn, held up (d = 1) or not: the work was x and is y before the      *)
(* ESP32's turn.                                                           *)
LEMMA PaceKeeps ==
  ASSUME TypeOK, NEW p \in Nat, p <= sent, NEW d \in {0, 1}, NEW x \in Nat, NEW y \in Nat,
         x <= pace + stalls + 1, y <= IF d = 1 THEN x ELSE Less(x, 1),
         p < sent => pace < PauseAfter(sent)
  PROVE  /\ pace = 0 => /\ y + PauseAfter(sent + 1) <= (PauseAfter(sent + 1) - 1) + (stalls + d) + 1
                        /\ PauseAfter(sent + 1) - 1 < PauseAfter(sent + 1)
         /\ y <= Less(pace, 1) + (stalls + d) + 1
         /\ p < sent => Less(pace, 1) < PauseAfter(sent)
<1>1. pace \in Nat /\ stalls \in Nat
  BY Numbers
<1>2. PICK b \in Nat : b = PauseAfter(sent + 1) /\ b > 0
  BY PauseTyped
<1>3. PauseAfter(sent) \in Nat /\ PauseAfter(sent) > 0
  BY PauseTyped
<1>4. d = 0 \/ d = 1
  OBVIOUS
<1>5. ASSUME pace = 0 PROVE y + b <= (b - 1) + (stalls + d) + 1
  <2>1. CASE d = 1
    BY <1>1, <1>2, <1>5, <2>1
  <2>2. CASE d = 0
    BY <1>1, <1>2, <1>5, <2>2 DEF Less
  <2> QED BY <1>4, <2>1, <2>2
<1>6. y <= Less(pace, 1) + (stalls + d) + 1
  <2>1. CASE d = 1
    BY <1>1, <2>1 DEF Less
  <2>2. CASE d = 0
    BY <1>1, <2>2 DEF Less
  <2> QED BY <1>4, <2>1, <2>2
<1>7. p < sent => Less(pace, 1) < PauseAfter(sent)
  BY <1>1, <1>3 DEF Less
<1> QED BY <1>2, <1>5, <1>6, <1>7

(* As long as the player keeps up neither the queue nor the FIFO is full   *)
(* when a character comes.                                                 *)
LEMMA RoomInQueue ==
  ASSUME TypeOK, Timing, KeepsUp, StallsFit, Next, ~g_slave_seen, fifo # <<>>
  PROVE  ~(Len(queue) >= QueueLen)
<1> SUFFICES ASSUME Len(queue) >= QueueLen PROVE FALSE
  OBVIOUS
<1> DEFINE m == Len(played)
<1>1. /\ m \in Nat /\ Len(queue) \in Nat /\ Len(fifo) \in Nat /\ Len(fifo) > 0 /\ sent \in Nat
      /\ sent = m + Len(queue) + Len(fifo)
  BY Queues, Numbers, TailOf DEF KeepsUp, Line
<1> HIDE DEF m
<1>2. PICK n \in Nat : sent = n + 1 /\ m <= n /\ n - m >= QueueLen
  <2>1. sent - 1 \in Nat /\ sent = (sent - 1) + 1 /\ m <= sent - 1 /\ (sent - 1) - m >= QueueLen
    BY <1>1, Constants
  <2> QED BY <2>1
<1>3. Rem + Work(m, sent) <= pace + stalls + 1 /\ pace < PauseAfter(sent)
  <2>1. m < sent
    BY <1>1
  <2> QED BY <2>1 DEF KeepsUp, m
<1>4. Work(m, sent) = Work(m, n) + PauseAfter(sent)
  BY <1>1, <1>2, WorkSend
<1>5. Work(m, n) \in Nat /\ Work(m, n) >= (n - m) * Pace
  BY <1>1, <1>2, WorkTyped, WorkAtLeast DEF StallsFit
<1>6. (n - m) * Pace >= QueueLen * Pace /\ QueueLen * Pace \in Nat
  <2>1. PICK e \in Nat : n - m = QueueLen + e
    <3>1. (n - m) - QueueLen \in Nat /\ n - m = QueueLen + ((n - m) - QueueLen)
      BY <1>1, <1>2, Constants
    <3> QED BY <3>1
  <2>2. (QueueLen + e) * Pace = QueueLen * Pace + e * Pace /\ e * Pace \in Nat /\ QueueLen * Pace \in Nat
    BY Constants
  <2> QED BY <2>1, <2>2
<1>7. /\ Rem \in Nat /\ pace \in Nat /\ stalls \in Nat /\ stalls <= MaxStalls
      /\ MaxStalls \in Nat /\ MaxStalls < QueueLen * Pace
  BY Numbers, RemTyped, Constants DEF StallsFit
<1>8. PICK a \in Nat : a = QueueLen * Pace
  BY <1>6
<1>9. PICK w \in Nat : w = Work(m, n) /\ w >= a
  <2>1. (n - m) * Pace \in Int
    BY <1>1, Constants
  <2> QED BY <1>5, <1>6, <1>8, <2>1
<1>10. PICK b \in Nat : b = PauseAfter(sent)
  BY PauseTyped
<1>11. Rem + (w + b) <= pace + stalls + 1 /\ pace < b /\ stalls < a
  BY <1>3, <1>4, <1>7, <1>8, <1>9, <1>10
<1> QED BY <1>7, <1>9, <1>10, <1>11

LEMMA RoomInFifo ==
  ASSUME TypeOK, Timing, KeepsUp, StallsFit, Next, ~g_slave_seen, pace = 0
  PROVE  Len(fifo) < FifoLen
<1> SUFFICES ASSUME ~(Len(fifo) < FifoLen) PROVE FALSE
  OBVIOUS
<1> DEFINE m == Len(played)
<1>1. /\ m \in Nat /\ Len(queue) \in Nat /\ Len(fifo) \in Nat /\ sent \in Nat
      /\ sent = m + Len(queue) + Len(fifo)
  BY Queues, Numbers DEF KeepsUp, Line
<1>2. Rem + Work(m, sent) <= stalls + 1
  <2>1. Rem + Work(m, sent) <= pace + stalls + 1
    BY DEF KeepsUp
  <2> QED BY <2>1, Numbers
<1> HIDE DEF m
<1>3. m <= sent /\ sent - m >= FifoLen
  BY <1>1, Constants
<1>4. Work(m, sent) \in Nat /\ Work(m, sent) >= (sent - m) * Pace
  BY <1>1, <1>3, WorkTyped, WorkAtLeast DEF StallsFit
<1>5. (sent - m) * Pace >= FifoLen * Pace /\ FifoLen * Pace \in Nat /\ (sent - m) * Pace \in Int
  <2>1. PICK e \in Nat : sent - m = FifoLen + e
    <3>1. (sent - m) - FifoLen \in Nat /\ sent - m = FifoLen + ((sent - m) - FifoLen)
      BY <1>1, <1>3, Constants
    <3> QED BY <3>1
  <2>2. (FifoLen + e) * Pace = FifoLen * Pace + e * Pace /\ e * Pace \in Nat /\ FifoLen * Pace \in Nat
    BY Constants
  <2> QED BY <2>1, <2>2
<1>6. /\ Rem \in Nat /\ stalls \in Nat /\ stalls <= MaxStalls
      /\ MaxStalls \in Nat /\ MaxStalls + 1 < FifoLen * Pace
  BY Numbers, RemTyped, Constants DEF StallsFit
<1>7. PICK a \in Nat : a = FifoLen * Pace
  BY <1>5
<1>8. PICK w \in Nat : w = Work(m, sent) /\ w >= a
  BY <1>4, <1>5, <1>7
<1>9. Rem + w <= stalls + 1 /\ stalls + 1 < a
  BY <1>2, <1>6, <1>7, <1>8
<1> QED BY <1>6, <1>7, <1>8, <1>9

(* The ESP32's turn on characters none of which is missing.                *)
LEMMA SendKeeps ==
  ASSUME NEW p \in Seq(Nat), NEW q \in Seq(Nat), NEW f \in Seq(Nat), NEW n \in Nat,
         Line(p, q, f, n)
  PROVE  /\ Len(p) \in Nat /\ Len(p) <= n
         /\ Line(p, q, Append(f, n + 1), n + 1)
<1>1. Len(p) \in Nat /\ Len(q) \in Nat /\ Len(f) \in Nat
  BY LenProperties
<1>2. n = Len(p) + Len(q) + Len(f)
  BY DEF Line
<1> QED BY <1>1, <1>2, LineSend

LEMMA KeepsUpNext ==
  ASSUME TypeOK, Timing, KeepsUp, StallsFit, Next
  PROVE  KeepsUp'
<1> SUFFICES ASSUME ~g_slave_seen'
             PROVE  /\ ~g_channel_busy' /\ lost' = {} /\ Line(played', queue', fifo', sent')
                    /\ Rem' + Work(Len(played'), sent') <= pace' + stalls' + 1
                    /\ Len(played') < sent' => pace' < PauseAfter(sent')
  BY DEF KeepsUp
<1>1. /\ sent \in Nat /\ queue \in Seq(Nat) /\ fifo \in Seq(Nat) /\ played \in Seq(Nat)
      /\ pace \in Nat /\ stalls \in Nat /\ Rem \in Nat /\ (Rem = 0 <=> pstate = "IDLE")
  BY Numbers, Queues, RemTyped
<1>2. ~g_slave_seen /\ ~g_channel_busy'
  <2>1. CASE Loop
    <3>1. Decode
      BY <2>1 DEF Loop
    <3>2. \E hears \in BOOLEAN : \E last : /\ g_slave_seen' = (g_slave_seen \/ hears)
                                            /\ g_channel_busy' = held(g_slave_seen \/ hears, last)
      <4>1. \A carrier : (~emit_busy /\ carrier) \in BOOLEAN
        OBVIOUS
      <4> QED BY <3>1, <4>1 DEF Decode
    <3>3. PICK hears \in BOOLEAN :
            \E last : /\ g_slave_seen' = (g_slave_seen \/ hears)
                      /\ g_channel_busy' = held(g_slave_seen \/ hears, last)
      BY <3>2
    <3>4. ~(g_slave_seen \/ hears)
      BY <3>3
    <3> QED BY <3>3, <3>4 DEF held
  <2>2. CASE Stall
    <3>1. g_slave_seen' = g_slave_seen /\ g_channel_busy' = g_channel_busy
      BY <2>2 DEF Stall, fpgaVars
    <3> QED BY <3>1 DEF KeepsUp
  <2> QED BY <2>1, <2>2 DEF Next
<1>3. /\ ~g_channel_busy /\ lost = {} /\ Line(played, queue, fifo, sent)
      /\ Rem + Work(Len(played), sent) <= pace + stalls + 1
      /\ Len(played) < sent => pace < PauseAfter(sent)
  BY <1>2 DEF KeepsUp
<1>4. Len(played) \in Nat /\ Len(played) <= sent
  BY <1>1, <1>3, SendKeeps
<1>5. PICK x \in Nat : x = Rem + Work(Len(played), sent)
  <2>1. Work(Len(played), sent) \in Nat
    BY <1>1, <1>4, WorkTyped
  <2>2. Rem + Work(Len(played), sent) \in Nat
    BY <1>1, <2>1
  <2> QED BY <2>2
<1>6. ASSUME NEW p \in Seq(Nat), NEW q \in Seq(Nat), NEW f \in Seq(Nat), Line(p, q, f, sent),
             NEW r \in Nat, NEW d \in {0, 1}, Len(p) >= Len(played),
             r + Work(Len(p), sent) <= (IF d = 1 THEN x ELSE Less(x, 1)),
             NEW sends \in BOOLEAN, sends => pace = 0 /\ Len(f) < FifoLen,
             fifo' = IF sends /\ Len(f) < FifoLen THEN Append(f, sent + 1) ELSE f,
             sent' = IF sends THEN sent + 1 ELSE sent,
             pace' = IF sends THEN PauseAfter(sent + 1) - 1 ELSE Less(pace, 1)
      PROVE  /\ Line(p, q, fifo', sent')
             /\ r + Work(Len(p), sent') <= pace' + (stalls + d) + 1
             /\ Len(p) < sent' => pace' < PauseAfter(sent')
  <2>1. Len(p) \in Nat /\ Len(p) <= sent /\ Line(p, q, Append(f, sent + 1), sent + 1)
    BY <1>1, <1>6, SendKeeps
  <2>2. Len(p) < sent => pace < PauseAfter(sent)
    BY <1>3, <1>4, <1>6, <2>1, <1>1
  <2>3. x <= pace + stalls + 1
    BY <1>3, <1>5
  <2>4. PICK y \in Nat : y = r + Work(Len(p), sent)
    <3>1. Work(Len(p), sent) \in Nat
      BY <1>1, <2>1, WorkTyped
    <3> QED BY <3>1
  <2>5. y <= IF d = 1 THEN x ELSE Less(x, 1)
    BY <1>6, <2>4
  <2>6. r + Work(Len(p), sent + 1) = y + PauseAfter(sent + 1)
    <3>1. Work(Len(p), sent + 1) = Work(Len(p), sent) + PauseAfter(sent + 1)
      BY <1>1, <2>1, WorkSend
    <3>2. Work(Len(p), sent) \in Nat /\ PauseAfter(sent + 1) \in Nat
      BY <1>1, <2>1, WorkTyped, PauseTyped
    <3> QED BY <2>4, <3>1, <3>2
  <2>7. /\ pace = 0 => /\ y + PauseAfter(sent + 1) <= (PauseAfter(sent + 1) - 1) + (stalls + d) + 1
                       /\ PauseAfter(sent + 1) - 1 < PauseAfter(sent + 1)
        /\ y <= Less(pace, 1) + (stalls + d) + 1
        /\ Len(p) < sent => Less(pace, 1) < PauseAfter(sent)
    BY <2>1, <2>2, <2>3, <2>5, PaceKeeps
  <2>8. CASE sends
    <3>1. fifo' = Append(f, sent + 1) /\ sent' = sent + 1 /\ pace' = PauseAfter(sent + 1) - 1
      BY <1>6, <2>8
    <3> QED BY <1>6, <2>1, <2>6, <2>7, <2>8, <3>1
  <2>9. CASE ~sends
    <3>1. fifo' = f /\ sent' = sent /\ pace' = Less(pace, 1)
      BY <1>6, <2>9
    <3> QED BY <1>6, <2>4, <2>7, <2>9, <3>1
  <2> QED BY <2>8, <2>9
<1>7. pace = 0 => Len(fifo) < FifoLen
  BY <1>2, RoomInFifo
<1>8. CASE Loop
  <2>1. PICK symbol : Esp(symbol, fifo # <<>>)
    BY <1>8 DEF Loop
  <2> DEFINE f == IF fifo # <<>> THEN Tail(fifo) ELSE fifo
  <2>2. PICK sends \in BOOLEAN :
          /\ sends => MaySend
          /\ fifo' = IF sends /\ Len(f) < FifoLen THEN Append(f, sent + 1) ELSE f
          /\ sent' = IF sends THEN sent + 1 ELSE sent
          /\ pace' = IF sends THEN PauseAfter(sent + 1) - 1 ELSE Less(pace, 1)
          /\ lost' = lost \cup (IF fifo # <<>> THEN DroppedOld ELSE {})
                          \cup (IF sends /\ Len(f) >= FifoLen THEN {sent + 1} ELSE {})
    BY <2>1, EspStep
  <2>3. /\ f \in Seq(Nat) /\ Captured \in Seq(Nat) /\ Line(played, Captured, f, sent)
        /\ (IF fifo # <<>> THEN DroppedOld ELSE {}) = {} /\ Len(f) \in Nat /\ Len(f) <= Len(fifo)
    <3>1. CASE fifo = <<>>
      BY <1>1, <1>3, <3>1, LenProperties DEF Captured
    <3>2. CASE fifo # <<>>
      <4>1. f = Tail(fifo) /\ f \in Seq(Nat) /\ Head(fifo) \in Nat /\ Len(f) \in Nat /\ Len(f) <= Len(fifo)
        <5>1. /\ Tail(fifo) \in Seq(Nat) /\ Head(fifo) \in Nat /\ Len(fifo) \in Nat
              /\ Len(fifo) > 0 /\ Len(Tail(fifo)) = Len(fifo) - 1
          BY <1>1, <3>2, TailOf
        <5> QED BY <3>2, <5>1
      <4>2. ~(Len(queue) >= QueueLen)
        BY <1>2, <3>2, RoomInQueue
      <4>3. DroppedOld = {} /\ Captured = Append(queue, Head(fifo))
        BY <3>2, <4>2 DEF DroppedOld, Captured, enqueue
      <4>4. Line(played, Append(queue, Head(fifo)), Tail(fifo), sent)
        BY <1>1, <1>3, <3>2, LineCapture
      <4>5. Append(queue, Head(fifo)) \in Seq(Nat)
        BY <1>1, <4>1, AppendProperties
      <4> HIDE DEF f
      <4> QED BY <3>2, <4>1, <4>3, <4>4, <4>5
    <3> QED BY <3>1, <3>2
  <2>4. sends => pace = 0 /\ Len(f) < FifoLen
    BY <1>7, <2>2, <2>3, <1>1, Queues, Constants DEF MaySend
  <2> HIDE DEF f
  <2>5. lost' = {}
    <3>1. ~(sends /\ Len(f) >= FifoLen)
      BY <2>3, <2>4, Constants
    <3> QED BY <1>3, <2>2, <2>3, <3>1
  <2>6. /\ played' \in Seq(Nat) /\ queue' \in Seq(Nat) /\ Line(played', queue', f, sent)
        /\ Len(played') >= Len(played)
        /\ \E r \in Nat : Rem' = r /\ r + Work(Len(played'), sent) <= Less(x, 1)
    <3>1. CASE Starts
      <4>1. played' = Append(played, Head(Captured)) /\ queue' = Tail(Captured) /\ Captured # <<>>
        BY <1>8, <3>1 DEF Loop, Play, Starts, next_char
      <4>2. /\ Head(Captured) = Len(played) + 1 /\ Len(played) < sent /\ Len(played') = Len(played) + 1
            /\ Line(played', queue', f, sent)
        BY <1>1, <2>3, <4>1, LinePlay
      <4>3. Tail(Captured) \in Seq(Nat) /\ Head(Captured) \in Nat
        BY <2>3, <4>1, TailOf
      <4>4. played' \in Seq(Nat)
        BY <1>1, <4>1, <4>3, AppendProperties
      <4>5. Work(Len(played), sent) = Work(Len(played) + 1, sent) + PauseAfter(Len(played) + 1)
        BY <1>1, <1>4, <4>2, WorkPlay
      <4>6. Rem = 0 /\ \E r \in Nat : Rem' = r /\ r < PauseAfter(Head(Captured))
        BY <1>8, <3>1, RemLoop
      <4>7. PICK r \in Nat : Rem' = r /\ r < PauseAfter(Len(played) + 1)
        BY <4>2, <4>6
      <4>8. PICK b \in Nat : b = PauseAfter(Len(played) + 1)
        BY PauseTyped
      <4>9. PICK w \in Nat : w = Work(Len(played) + 1, sent)
        <5>1. Len(played) + 1 \in Nat
          BY <1>4
        <5> QED BY <1>1, <5>1, WorkTyped
      <4>10. x = w + b /\ r < b
        BY <1>5, <4>5, <4>6, <4>7, <4>8, <4>9
      <4>11. r + w <= Less(x, 1)
        BY <4>10 DEF Less
      <4>12. Len(played) + 1 >= Len(played)
        BY <1>4
      <4> QED BY <4>1, <4>2, <4>3, <4>4, <4>7, <4>9, <4>11, <4>12
    <3>2. CASE ~Starts
      <4>1. played' = played /\ queue' = Captured
        BY <1>8, <3>2 DEF Loop, Play
      <4>2. Rem' = Less(Rem, 1)
        BY <1>8, <3>2, RemLoop
      <4>3. PICK w \in Nat : w = Work(Len(played), sent)
        BY <1>1, <1>4, WorkTyped
      <4>4. Rem = 0 => w = 0
        <5> SUFFICES ASSUME Rem = 0 PROVE w = 0
          OBVIOUS
        <5>1. Captured = <<>>
          BY <1>1, <1>3, <3>2 DEF Starts
        <5>2. fifo = <<>> /\ Captured = queue
          <6>1. ASSUME fifo # <<>> PROVE FALSE
            <7>1. \A t \in Seq(Nat) : Append(t, Head(fifo)) # <<>>
              <8>1. Head(fifo) \in Nat
                BY <1>1, <6>1, TailOf
              <8> QED BY <8>1, AppendProperties
            <7>2. Captured = Append(queue, Head(fifo))
              <8>1. ~(Len(queue) >= QueueLen)
                BY <1>2, <6>1, RoomInQueue
              <8> QED BY <6>1, <8>1 DEF Captured, enqueue
            <7> QED BY <1>1, <5>1, <7>1, <7>2
          <6> QED BY <6>1 DEF Captured
        <5>3. sent = Len(played)
          <6>1. Len(<<>>) = 0
            OBVIOUS
          <6>2. sent = Len(played) + Len(queue) + Len(fifo)
            BY <1>3 DEF Line
          <6> QED BY <1>4, <5>1, <5>2, <6>1, <6>2
        <5> QED BY <1>1, <4>3, <5>3, WorkNone
      <4>5. x = Rem + w
        BY <1>5, <4>3
      <4>6. Less(Rem, 1) \in Nat /\ Less(Rem, 1) + w <= Less(x, 1)
        BY <1>1, <4>4, <4>5 DEF Less
      <4>7. Len(played) >= Len(played)
        BY <1>4
      <4> QED BY <1>1, <2>3, <4>1, <4>2, <4>3, <4>6, <4>7
    <3> QED BY <3>1, <3>2
  <2>7. PICK r \in Nat : Rem' = r /\ r + Work(Len(played'), sent) <= Less(x, 1)
    BY <2>6
  <2>8. /\ Line(played', queue', fifo', sent')
        /\ r + Work(Len(played'), sent') <= pace' + (stalls + 0) + 1
        /\ Len(played') < sent' => pace' < PauseAfter(sent')
    BY <1>6, <2>2, <2>3, <2>4, <2>6, <2>7
  <2>9. stalls' = stalls + 0
    BY <1>1, <1>8 DEF Loop
  <2> QED BY <1>2, <2>5, <2>7, <2>8, <2>9
<1>9. CASE Stall
  <2>1. Esp(FALSE, FALSE) /\ played' = played /\ queue' = queue /\ stalls' = stalls + 1
    BY <1>9 DEF Stall, fpgaVars
  <2>2. PICK sends \in BOOLEAN :
          /\ sends => MaySend
          /\ fifo' = IF sends /\ Len(fifo) < FifoLen THEN Append(fifo, sent + 1) ELSE fifo
          /\ sent' = IF sends THEN sent + 1 ELSE sent
          /\ pace' = IF sends THEN PauseAfter(sent + 1) - 1 ELSE Less(pace, 1)
          /\ lost' = lost \cup {} \cup (IF sends /\ Len(fifo) >= FifoLen THEN {sent + 1} ELSE {})
    BY <2>1, EspStep
  <2>3. sends => pace = 0 /\ Len(fifo) < FifoLen
    BY <1>7, <2>2 DEF MaySend
  <2>4. lost' = {}
    <3>1. ~(sends /\ Len(fifo) >= FifoLen)
      BY <2>3, Queues, Constants
    <3> QED BY <1>3, <2>2, <3>1
  <2>5. PICK r \in Nat : Rem' = r /\ r <= Rem
    BY <1>9, RemStall
  <2>6. r + Work(Len(played), sent) <= x
    <3>1. Work(Len(played), sent) \in Nat
      BY <1>1, <1>4, WorkTyped
    <3> QED BY <1>1, <1>5, <2>5, <3>1
  <2>7. Len(played) >= Len(played)
    BY <1>4
  <2>8. /\ Line(played, queue, fifo', sent')
        /\ r + Work(Len(played), sent') <= pace' + (stalls + 1) + 1
        /\ Len(played) < sent' => pace' < PauseAfter(sent')
    BY <1>1, <1>3, <1>6, <2>2, <2>3, <2>6, <2>7
  <2> QED BY <1>2, <2>1, <2>4, <2>5, <2>8
<1> QED BY <1>8, <1>9 DEF Next

-----------------------------------------------------------------------------
IInv == TypeOK /\ Timing /\ Deaf /\ OrderInv

LEMMA Inductive ==
  Spec => []IInv
<1>1. Init => IInv
  <2> SUFFICES ASSUME Init PROVE IInv
    OBVIOUS
  <2>1. TypeOK
    <3>1. /\ now \in 0..(Wrap - 1) /\ {p_t0, g_slave_last} \subseteq 0..(Wrap - 1)
          /\ sent \in 0..MaxChars /\ pace \in 0..(Pace + WarmupPace) /\ quiet \in 0..Guard
          /\ waited \in 0..(MaxWait + 1)
      BY Constants DEF Init
    <3>2. silence \in 0..HoldTime /\ stalls \in 0..MaxStalls
      BY Constants DEF Init
    <3>3. /\ queue \in Seq(Chars) /\ Len(queue) <= QueueLen /\ fifo \in Seq(Chars)
          /\ Len(fifo) <= FifoLen /\ played \in Seq(Chars) /\ lost \subseteq Chars
      BY Constants DEF Init
    <3>4. pstate \in {"IDLE", "TONE", "SIL"} /\ {p_warm, g_channel_busy, g_slave_seen} \subseteq BOOLEAN
      BY DEF Init
    <3>5. air \in Seq(Frames) /\ Len(air) = Latency
      <4>1. [own |-> FALSE, slave |-> FALSE] \in Frames
        BY DEF Frames
      <4>2. air = [i \in 1..Latency |-> [own |-> FALSE, slave |-> FALSE]]
        BY DEF Init
      <4>3. air \in [1..Latency -> Frames]
        BY <4>1, <4>2
      <4> QED BY <4>3, Constants
    <3> QED BY <3>1, <3>2, <3>3, <3>4, <3>5 DEF TypeOK, Frames
  <2>2. Timing
    BY DEF Init, Timing
  <2>3. Deaf
    BY DEF Init, Deaf
  <2>4. OrderInv
    <3>1. /\ Rising(<<>>) /\ Before(<<>>, <<>>) /\ Elems(<<>>) = {}
      <4>1. Len(<<>>) = 0
        OBVIOUS
      <4> QED BY <4>1 DEF Rising, Before, Elems
    <3>2. 1..0 = {}
      OBVIOUS
    <3> QED BY <3>1, <3>2 DEF Init, OrderInv, Ordered
  <2> QED BY <2>1, <2>2, <2>3, <2>4 DEF IInv
<1>2. IInv /\ [Next]_vars => IInv'
  <2> SUFFICES ASSUME IInv, [Next]_vars PROVE IInv'
    OBVIOUS
  <2>1. CASE Next
    BY <2>1, TypeNext, TimingNext, DeafNext, OrderNext DEF IInv
  <2>2. CASE UNCHANGED vars
    BY <2>2 DEF vars, fpgaVars, espVars, IInv, TypeOK, Timing, Deaf, OrderInv, Since, Length
  <2> QED BY <2>1, <2>2
<1> QED BY <1>1, <1>2, PTL DEF Spec

(* Every variable has its type and the tone queue never outgrows its       *)
(* array (emit_tone.c:51-59).                                              *)
THEOREM TypeCorrect == Spec => []TypeOK
<1>1. IInv => TypeOK
  BY DEF IInv
<1> QED BY <1>1, Inductive, PTL

(* The carrier the channel is held for is always the slave's, for any      *)
(* delay of the frames up to the player's silence (main.c:189-194,         *)
(* emit_tone.c:98-104).                                                    *)
THEOREM SelfIsNotHeard == Spec => SelfNotHeard
<1>1. IInv /\ [Next]_vars => [Loop /\ silence' = 0 => frame.slave]_vars
  <2> SUFFICES ASSUME IInv, Loop, silence' = 0 PROVE frame.slave
    OBVIOUS
  <2>1. PICK carrier \in Carrier :
          silence' = IF ~emit_busy /\ carrier THEN 0
                     ELSE IF silence < HoldTime THEN silence + 1 ELSE silence
    BY DEF Loop, Decode
  <2>2. ~emit_busy /\ carrier
    <3>1. TypeOK
      BY DEF IInv
    <3>2. silence \in Nat /\ HoldTime \in Nat /\ HoldTime > 0
      BY <3>1, Numbers, Constants
    <3> QED BY <2>1, <3>2
  <2>3. ~air[1].own
    BY <2>2, QuietWhenHeard DEF IInv
  <2> QED BY <2>1, <2>2, <2>3 DEF Carrier, frame
<1> QED BY <1>1, Inductive, PTL DEF Spec, SelfNotHeard

(* The three places as one sequence.                                       *)
LEMMA Places ==
  ASSUME NEW p \in Seq(Nat), NEW q \in Seq(Nat), NEW f \in Seq(Nat),
         NEW k \in Nat, NEW m \in Nat, NEW n \in Nat,
         k = Len(p), m = k + Len(q), n = m + Len(f)
  PROVE  /\ DOMAIN (p \o q \o f) = 1..n
         /\ \A i \in 1..n :
              (p \o q \o f)[i] = IF i <= k THEN p[i] ELSE IF i <= m THEN q[i - k] ELSE f[i - m]
<1> DEFINE pq == p \o q  all == pq \o f
<1>1. k = Len(p) /\ m = Len(p) + Len(q) /\ n = m + Len(f)
  OBVIOUS
<1>2. /\ pq \in Seq(Nat) /\ Len(pq) = m
      /\ \A i \in 1..m : pq[i] = IF i <= k THEN p[i] ELSE q[i - k]
  <2>1. /\ pq \in Seq(Nat) /\ Len(pq) = Len(p) + Len(q)
        /\ \A i \in 1..Len(p) + Len(q) : pq[i] = IF i <= Len(p) THEN p[i] ELSE q[i - Len(p)]
    BY ConcatProperties
  <2> QED BY <1>1, <2>1
<1> HIDE DEF pq
<1>3. /\ all \in Seq(Nat) /\ Len(all) = n
      /\ \A i \in 1..n : all[i] = IF i <= m THEN pq[i] ELSE f[i - m]
  <2>1. /\ all \in Seq(Nat) /\ Len(all) = Len(pq) + Len(f)
        /\ \A i \in 1..Len(pq) + Len(f) : all[i] = IF i <= Len(pq) THEN pq[i] ELSE f[i - Len(pq)]
    BY <1>2, ConcatProperties
  <2> QED BY <1>1, <1>2, <2>1
<1>4. DOMAIN all = 1..n
  BY <1>3, LenProperties
<1> HIDE DEF all
<1>5. k <= m /\ m <= n
  <2>1. Len(p) \in Nat /\ Len(q) \in Nat /\ Len(f) \in Nat
    BY LenProperties
  <2> QED BY <1>1, <2>1
<1>6. ASSUME NEW i \in 1..n
      PROVE  all[i] = IF i <= k THEN p[i] ELSE IF i <= m THEN q[i - k] ELSE f[i - m]
  <2>1. all[i] = IF i <= m THEN pq[i] ELSE f[i - m]
    BY <1>3
  <2>2. i <= m => i \in 1..m
    BY <1>5
  <2>3. i <= k => i <= m
    BY <1>5
  <2> QED BY <1>2, <2>1, <2>2, <2>3
<1> QED BY <1>4, <1>5, <1>6 DEF all, pq

(* Characters are played in the order they were sent, each once, and every *)
(* one sent is played, waiting or was dropped, whatever the slave and the  *)
(* stalls do (emit_tone.c:56-63, 71-90).                                   *)
THEOREM InOrder == Spec => []PlayedInOrder
<1>1. ASSUME IInv PROVE PlayedInOrder
  <2> DEFINE all == played \o queue \o fifo
  <2>1. played \in Seq(Nat) /\ queue \in Seq(Nat) /\ fifo \in Seq(Nat)
    BY <1>1, Queues DEF IInv
  <2>2. PICK k, m, n \in Nat :
          /\ k <= m /\ m <= n /\ DOMAIN all = 1..n
          /\ Len(played) = k /\ Len(queue) = m - k /\ Len(fifo) = n - m
          /\ \A i \in 1..n :
               all[i] = IF i <= k THEN played[i] ELSE IF i <= m THEN queue[i - k] ELSE fifo[i - m]
    <3>1. Len(played) \in Nat /\ Len(queue) \in Nat /\ Len(fifo) \in Nat
      BY <2>1, LenProperties
    <3>2. PICK k, m, n \in Nat : k = Len(played) /\ m = k + Len(queue) /\ n = m + Len(fifo)
      BY <3>1
    <3>3. /\ DOMAIN all = 1..n
          /\ \A i \in 1..n :
               all[i] = IF i <= k THEN played[i] ELSE IF i <= m THEN queue[i - k] ELSE fifo[i - m]
      BY <2>1, <3>2, Places
    <3>4. k <= m /\ m <= n /\ Len(played) = k /\ Len(queue) = m - k /\ Len(fifo) = n - m
      BY <3>1, <3>2
    <3> HIDE DEF all
    <3> QED BY <3>3, <3>4
  <2>3. /\ Rising(played) /\ Rising(queue) /\ Rising(fifo)
        /\ Before(played, queue) /\ Before(played, fifo) /\ Before(queue, fifo)
        /\ Elems(played) \cup Elems(queue) \cup Elems(fifo) \cup lost = 1..sent
    BY <1>1 DEF IInv, OrderInv, Ordered
  <2> HIDE DEF all
  <2>4. ASSUME NEW i \in 1..n
        PROVE  /\ i <= k => i \in 1..Len(played) /\ all[i] = played[i]
               /\ ~(i <= k) /\ i <= m => i - k \in 1..Len(queue) /\ all[i] = queue[i - k]
               /\ ~(i <= m) => ~(i <= k) /\ i - m \in 1..Len(fifo) /\ all[i] = fifo[i - m]
    BY <2>2
  <2>5. ASSUME NEW i \in 1..n, NEW j \in 1..n, i < j PROVE all[i] < all[j]
    <3>1. i - k < j - k /\ i - m < j - m /\ (j <= k => i <= k) /\ (j <= m => i <= m)
      BY <2>2, <2>5
    <3>2. CASE j <= k
      BY <2>3, <2>4, <2>5, <3>1, <3>2 DEF Rising
    <3>3. CASE ~(j <= k) /\ j <= m
      <4>1. CASE i <= k
        BY <2>3, <2>4, <3>3, <4>1 DEF Before
      <4>2. CASE ~(i <= k)
        BY <2>3, <2>4, <3>1, <3>3, <4>2 DEF Rising
      <4> QED BY <4>1, <4>2
    <3>4. CASE ~(j <= m)
      <4>1. CASE i <= k
        BY <2>3, <2>4, <3>4, <4>1 DEF Before
      <4>2. CASE ~(i <= k) /\ i <= m
        BY <2>3, <2>4, <3>4, <4>2 DEF Before
      <4>3. CASE ~(i <= m)
        BY <2>3, <2>4, <3>1, <3>4, <4>3 DEF Rising
      <4> QED BY <4>1, <4>2, <4>3
    <3> QED BY <3>2, <3>3, <3>4
  <2>6. {all[i] : i \in 1..n} = Elems(played) \cup Elems(queue) \cup Elems(fifo)
    <3>1. {all[i] : i \in 1..n} \subseteq Elems(played) \cup Elems(queue) \cup Elems(fifo)
      BY <2>4 DEF Elems
    <3>2. ASSUME NEW i \in 1..Len(played) PROVE \E j \in 1..n : all[j] = played[i]
      <4>1. i \in 1..n /\ i <= k
        BY <2>2
      <4> QED BY <2>4, <4>1
    <3>3. ASSUME NEW i \in 1..Len(queue) PROVE \E j \in 1..n : all[j] = queue[i]
      <4>1. k + i \in 1..n /\ ~(k + i <= k) /\ k + i <= m /\ (k + i) - k = i
        BY <2>2
      <4> QED BY <2>4, <4>1
    <3>4. ASSUME NEW i \in 1..Len(fifo) PROVE \E j \in 1..n : all[j] = fifo[i]
      <4>1. m + i \in 1..n /\ ~(m + i <= m) /\ (m + i) - m = i
        BY <2>2
      <4> QED BY <2>4, <4>1
    <3>5. Elems(played) \cup Elems(queue) \cup Elems(fifo) \subseteq {all[i] : i \in 1..n}
      BY <3>2, <3>3, <3>4 DEF Elems
    <3> QED BY <3>1, <3>5
  <2>7. DOMAIN all = 1..n /\ {all[i] : i \in DOMAIN all} \cup lost = 1..sent
    BY <2>2, <2>3, <2>6
  <2> QED BY <2>5, <2>7 DEF PlayedInOrder, all
<1> QED BY <1>1, Inductive, PTL

(* What is sent is played, in order, unless a slave was heard: the ESP32's *)
(* pauses leave the player the time it needs, as long as the loop has not  *)
(* been held up for longer than its queue and the UART's FIFO bridge       *)
(* (fpga_uart_link.cpp:24-31, emit_tone.c:56-59).                          *)
THEOREM NothingLost ==
  ASSUME StallsFit
  PROVE  Spec => []PlayedFaithfully
<1>1. Init => KeepsUp
  <2> SUFFICES ASSUME Init PROVE KeepsUp
    OBVIOUS
  <2>1. Rem = 0 /\ Work(Len(played), sent) = 0
    <3>1. Len(played) = 0 /\ sent = 0
      BY DEF Init
    <3> QED BY <3>1, WorkNone DEF Init, Rem
  <2>2. Line(played, queue, fifo, sent)
    BY DEF Init, Line
  <2> QED BY <2>1, <2>2 DEF Init, KeepsUp
<1>2. IInv /\ KeepsUp /\ [Next]_vars => KeepsUp'
  <2> SUFFICES ASSUME IInv, KeepsUp, [Next]_vars PROVE KeepsUp'
    OBVIOUS
  <2>1. CASE Next
    BY <2>1, KeepsUpNext DEF IInv
  <2>2. CASE UNCHANGED vars
    BY <2>2 DEF vars, fpgaVars, espVars, KeepsUp, Rem, Since, Length
  <2> QED BY <2>1, <2>2
<1>3. KeepsUp => LostOnlyIfHeard
  BY DEF KeepsUp, LostOnlyIfHeard
<1>4. Spec => []LostOnlyIfHeard
  BY <1>1, <1>2, <1>3, Inductive, PTL DEF Spec
<1>5. PlayedInOrder /\ LostOnlyIfHeard => PlayedFaithfully
  BY DEF PlayedFaithfully
<1> QED BY <1>4, <1>5, InOrder, PTL
=============================================================================
