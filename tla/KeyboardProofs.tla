--------------------------- MODULE KeyboardProofs ---------------------------
(***************************************************************************)
(* Proofs about Keyboard for rings of every size: the ring is a queue, and *)
(* the character of a key is the one that shift and caps lock say.         *)
(*                                                                         *)
(* The interrupt handler sees one code at a time and keeps four flags of   *)
(* those before it.  KInv says that the flags are right whatever is still  *)
(* to come of a key.                                                       *)
(***************************************************************************)
EXTENDS Keyboard, SequenceTheorems, TLAPS

Chars == {NoChar, "lower", "upper", "newline", "backspace"}
KeyNames == Keys \cup {"E0", "E1", "ctrl", "numlock"}
ScanCode == [key : KeyNames, up : BOOLEAN]

\* The keyboard completes what it starts, and sends shift, caps lock and letters
\* at the start only.
InOrder(codes) ==
  /\ codes # <<>> => codes[Len(codes)].key \notin {"E0", "E1", "ctrl"}
  /\ \A i \in 1 .. Len(codes) - 1 :
       /\ codes[i].key = "E0" <=> codes[i + 1].key = "arrow"
       /\ codes[i].key = "E1" <=> codes[i + 1].key = "ctrl"
       /\ codes[i].key = "ctrl" <=> codes[i + 1].key = "numlock"
       /\ codes[i + 1].key # "shift" /\ codes[i + 1] \notin {Code("caps"), Code("letter")}

\* The flags before a code, and when nothing is to come.
FlagsBefore(code) ==
  [ShiftFlag |-> IF code.key = "shift" THEN ~held ELSE held,
   CapslockFlag |-> (code = Code("caps")) # locked,
   ExtentedFlag |-> code.key = "arrow",
   PauseFlag |-> CASE code.key = "ctrl" -> 2 [] code.key = "numlock" -> 1 [] OTHER -> 0]

Flags ==
  [ShiftFlag |-> held, CapslockFlag |-> locked, ExtentedFlag |-> FALSE, PauseFlag |-> 0]

RingOK == buf_head \in Cells /\ buf_tail \in Cells /\ kbd_buf \in [Cells -> Chars]

FlagsOK ==
  /\ held \in BOOLEAN /\ locked \in BOOLEAN
  /\ sending \in Seq(ScanCode)
  /\ InOrder(sending)
  /\ sending # <<>> /\ sending[1].key = "shift" => held = ~sending[1].up
  /\ KStat = IF sending = <<>> THEN Flags ELSE FlagsBefore(sending[1])

KInv == RingOK /\ FlagsOK

-----------------------------------------------------------------------------
(* Arithmetic modulo the size of the ring.                                 *)

LEMMA Wrap ==
  ASSUME NEW B \in Nat \ {0}, NEW x \in Nat, x < 2 * B
  PROVE  x % B = IF x < B THEN x ELSE x - B
<1> DEFINE q == x \div B
           r == x % B
<1>1. q \in Nat /\ r \in 0 .. B - 1 /\ x = B * q + r
  OBVIOUS
<1> HIDE DEF q, r
<1>2. CASE q = 0
  BY <1>1, <1>2 DEF r
<1>3. CASE q = 1
  BY <1>1, <1>3 DEF r
<1>4. CASE q > 1
  <2>1. PICK d \in Nat : q = 2 + d
    <3>1. q - 2 \in Nat /\ q = 2 + (q - 2)
      BY <1>1, <1>4
    <3>2. QED BY <3>1
  <2>2. B * q = 2 * B + B * d /\ B * d \in Nat
    BY <2>1
  <2>3. QED BY <1>1, <2>2
<1>5. QED BY <1>1, <1>2, <1>3, <1>4

LEMMA Negative ==
  ASSUME NEW B \in Nat \ {0}, NEW x \in Int, -B < x, x < 0
  PROVE  x % B = x + B
<1> DEFINE q == x \div B
           r == x % B
<1>1. q \in Int /\ r \in 0 .. B - 1 /\ x = B * q + r
  OBVIOUS
<1> HIDE DEF q, r
<1>2. CASE q = -1
  BY <1>1, <1>2 DEF r
<1>3. CASE q > -1
  <2>1. q \in Nat
    BY <1>1, <1>3
  <2>2. B * q \in Nat
    BY <2>1
  <2>3. QED BY <1>1, <2>2
<1>4. CASE q < -1
  <2>1. PICK d \in Nat : q = -2 - d
    <3>1. -2 - q \in Nat /\ q = -2 - (-2 - q)
      BY <1>1, <1>4
    <3>2. QED BY <3>1
  <2>2. B * q = -(2 * B) - B * d /\ B * d \in Nat
    BY <2>1
  <2>3. QED BY <1>1, <2>2
<1>5. QED BY <1>1, <1>2, <1>3, <1>4

\* How many characters lie between two cells of a ring.
LEMMA Between ==
  ASSUME NEW B \in Nat \ {0}, NEW h \in Nat, NEW t \in Nat, h < B, t < B
  PROVE  (t - h) % B = IF h <= t THEN t - h ELSE (t - h) + B
<1>1. CASE h <= t
  <2>1. t - h \in Nat /\ t - h < 2 * B /\ t - h < B
    BY <1>1
  <2>2. QED BY <1>1, <2>1, Wrap
<1>2. CASE t < h
  <2>1. t - h \in Int /\ -B < t - h /\ t - h < 0
    BY <1>2
  <2>2. (t - h) % B = (t - h) + B
    BY <2>1, Negative
  <2>3. QED BY <1>2, <2>2
<1>3. QED BY <1>1, <1>2

-----------------------------------------------------------------------------
(* The ring.                                                               *)


LEMMA IsAppend ==
  ASSUME NEW S, NEW q \in Seq(S), NEW ch \in S, NEW q2 \in Seq(S),
         Len(q2) = Len(q) + 1, \A i \in 1 .. Len(q) : q2[i] = q[i], q2[Len(q) + 1] = ch
  PROVE  q2 = Append(q, ch)
<1> DEFINE a == Append(q, ch)
<1>1. /\ a \in Seq(S) /\ Len(a) = Len(q) + 1 /\ a[Len(q) + 1] = ch
      /\ \A i \in 1 .. Len(q) : a[i] = q[i]
  BY AppendProperties
<1>2. Len(q) \in Nat
  OBVIOUS
<1> HIDE DEF a
<1>3. \A i \in 1 .. Len(q2) : i \in 1 .. Len(q) \/ i = Len(q) + 1
  BY <1>2
<1>4. \A i \in 1 .. Len(q2) : q2[i] = a[i]
  BY <1>1, <1>3
<1>5. q2 = a
  BY <1>1, <1>4, SeqEqual
<1>6. QED BY <1>5 DEF a

\* The characters from one cell up to another.
Queue(chars, head, tail) ==
  [i \in 1 .. (tail - head) % BUFSIZ |-> chars[(head + i - 1) % BUFSIZ]]

\* How many characters there are, and where: one more is at the tail.
LEMMA Places ==
  ASSUME NEW B \in Nat \ {0}, NEW h \in Nat, NEW t \in Nat, h < B, t < B,
         NEW n \in Int, n = (t - h) % B
  PROVE  n \in Nat /\ n < B /\ (n = 0 <=> h = t)
<1>1. n = IF h <= t THEN t - h ELSE (t - h) + B
  BY Between
<1>2. QED BY <1>1

LEMMA PlaceOf ==
  ASSUME NEW B \in Nat \ {0}, NEW h \in Nat, NEW t \in Nat, h < B, t < B,
         NEW n \in Int, n = (t - h) % B,
         NEW x \in Nat, h <= x, x <= h + n
  PROVE  /\ x % B \in Nat /\ x % B < B
         /\ x = h + n => x % B = t
         /\ x < h + n => x % B # t
         /\ h < x /\ x < h + n => x % B # h
<1>1. n = (IF h <= t THEN t - h ELSE (t - h) + B) /\ n \in Nat /\ n < B
  BY Between, Places
<1>2. x % B = IF x < B THEN x ELSE x - B
  <2>1. x < 2 * B
    BY <1>1
  <2>2. QED BY <2>1, Wrap
<1> DEFINE r == x % B
<1>3. r = IF x < B THEN x ELSE x - B
  BY <1>2
<1> HIDE DEF r
<1>4. /\ r \in Nat /\ r < B
      /\ x = h + n => r = t
      /\ x < h + n => r # t
      /\ h < x /\ x < h + n => r # h
  BY <1>1, <1>3
<1>5. QED BY <1>4 DEF r

LEMMA QueueSeq ==
  ASSUME NEW chars \in [Cells -> Chars], NEW h \in Cells, NEW t \in Cells
  PROVE  /\ Queue(chars, h, t) \in Seq(Chars)
         /\ Len(Queue(chars, h, t)) = (t - h) % BUFSIZ
         /\ (t - h) % BUFSIZ \in 0 .. BUFSIZ - 1
         /\ Queue(chars, h, t) = <<>> <=> h = t
<1> DEFINE n == (t - h) % BUFSIZ
           q == Queue(chars, h, t)
<1>1. BUFSIZ \in Nat /\ BUFSIZ > 2 /\ h \in Nat /\ t \in Nat /\ h < BUFSIZ /\ t < BUFSIZ
      /\ BUFSIZ \in Nat \ {0}
  BY SizesAssumption, LineAssumption DEF Cells
<1>0. n = (t - h) % BUFSIZ /\ n \in Int
  BY <1>1
<1> HIDE DEF n
<1>p. BUFSIZ \in Nat \ {0}
  BY <1>1
<1>2. /\ n \in 0 .. BUFSIZ - 1 /\ (n = 0 <=> h = t)
      /\ \A i \in 1 .. n : (h + i - 1) % BUFSIZ \in 0 .. BUFSIZ - 1
  <2>1. n \in Nat /\ n < BUFSIZ /\ (n = 0 <=> h = t)
    BY ONLY <1>0, <1>1, Places
  <2>2. ASSUME NEW i \in 1 .. n
        PROVE  (h + i - 1) % BUFSIZ \in 0 .. BUFSIZ - 1
    <3> DEFINE x == h + i - 1
    <3>1. x \in Nat /\ h <= x /\ x <= h + n /\ x < h + n
      BY <1>1, <2>1
    <3> HIDE DEF x
    <3>2. x % BUFSIZ \in 0 .. BUFSIZ - 1
      BY ONLY <1>0, <1>1, <3>1, PlaceOf
    <3>3. QED BY <3>2 DEF x
  <2>3. QED BY <1>1, <2>1, <2>2
<1>3. q = [i \in 1 .. n |-> chars[(h + i - 1) % BUFSIZ]]
  BY <1>0 DEF Queue
<1>4. \A i \in 1 .. n : chars[(h + i - 1) % BUFSIZ] \in Chars
  BY <1>2 DEF Cells
<1> HIDE DEF q
<1>5. q \in [1 .. n -> Chars] /\ n \in Nat
  BY <1>2, <1>3, <1>4
<1>6. q \in Seq(Chars) /\ Len(q) = n
  BY <1>5
<1>7. q = <<>> <=> n = 0
  BY <1>6, EmptySeq
<1>8. QED BY <1>2, <1>6, <1>7 DEF n, q

\* A character stored at the tail of a ring that does not wrap.
LEMMA QueueStored ==
  ASSUME NEW chars \in [Cells -> Chars], NEW h \in Cells, NEW t \in Cells,
         NEW ch \in Chars, (t + 1) % BUFSIZ # h
  PROVE  /\ (t + 1) % BUFSIZ \in Cells
         /\ Queue([chars EXCEPT ![t] = ch], h, (t + 1) % BUFSIZ) = Append(Queue(chars, h, t), ch)
<1> DEFINE n == (t - h) % BUFSIZ
           t2 == (t + 1) % BUFSIZ
           q == Queue(chars, h, t)
           q2 == Queue([chars EXCEPT ![t] = ch], h, t2)
<1>1. BUFSIZ \in Nat /\ BUFSIZ > 2 /\ h \in Nat /\ t \in Nat /\ h < BUFSIZ /\ t < BUFSIZ
      /\ BUFSIZ \in Nat \ {0}
  BY SizesAssumption, LineAssumption DEF Cells
<1>0. n = (t - h) % BUFSIZ /\ n \in Int
  BY <1>1
<1>t. t2 = (t + 1) % BUFSIZ /\ t2 # h
  OBVIOUS
<1> HIDE DEF n, t2
<1>p. BUFSIZ \in Nat \ {0}
  BY <1>1
<1>2. /\ n \in 0 .. BUFSIZ - 1
      /\ \A i \in 1 .. n : (h + i - 1) % BUFSIZ \in 0 .. BUFSIZ - 1 /\ (h + i - 1) % BUFSIZ # t
      /\ (h + n) % BUFSIZ = t
  <2>1. n \in Nat /\ n < BUFSIZ /\ (n = 0 <=> h = t)
    BY ONLY <1>0, <1>1, Places
  <2>2. ASSUME NEW i \in 1 .. n
        PROVE  (h + i - 1) % BUFSIZ \in 0 .. BUFSIZ - 1 /\ (h + i - 1) % BUFSIZ # t
    <3> DEFINE x == h + i - 1
    <3>1. x \in Nat /\ h <= x /\ x <= h + n /\ x < h + n
      BY <1>1, <2>1
    <3> HIDE DEF x
    <3>2. x % BUFSIZ \in 0 .. BUFSIZ - 1 /\ x % BUFSIZ # t
      BY ONLY <1>0, <1>1, <3>1, PlaceOf
    <3>3. QED BY <3>2 DEF x
  <2>3. (h + n) % BUFSIZ = t
    <3> DEFINE x == h + n
    <3>1. x \in Nat /\ h <= x /\ x <= h + n /\ x = h + n
      BY <1>1, <2>1
    <3> HIDE DEF x
    <3>2. x % BUFSIZ = t
      BY ONLY <1>0, <1>1, <3>1, PlaceOf
    <3>3. QED BY <3>2 DEF x
  <2>4. QED BY <1>1, <2>1, <2>2, <2>3
<1>3. t2 = (IF t + 1 < BUFSIZ THEN t + 1 ELSE (t + 1) - BUFSIZ) /\ t2 \in Nat /\ t2 < BUFSIZ
  <2>1. t + 1 \in Nat /\ t + 1 < 2 * BUFSIZ
    BY <1>1
  <2>2. (t + 1) % BUFSIZ = IF t + 1 < BUFSIZ THEN t + 1 ELSE (t + 1) - BUFSIZ
    BY ONLY <1>p, <2>1, Wrap
  <2>3. QED BY <1>1, <1>t, <2>2
<1>4. (t2 - h) % BUFSIZ = n + 1
  <2>1. n = IF h <= t THEN t - h ELSE (t - h) + BUFSIZ
    BY ONLY <1>0, <1>1, <1>p, Between
  <2>2. (t2 - h) % BUFSIZ = IF h <= t2 THEN t2 - h ELSE (t2 - h) + BUFSIZ
    BY ONLY <1>1, <1>3, <1>p, Between
  <2>3. QED BY <1>1, <1>3, <2>1, <2>2
<1>5. q2 = [i \in 1 .. n + 1 |-> [chars EXCEPT ![t] = ch][(h + i - 1) % BUFSIZ]]
  BY <1>4 DEF Queue
<1>6. q \in Seq(Chars) /\ Len(q) = n /\ q = [i \in 1 .. n |-> chars[(h + i - 1) % BUFSIZ]]
  BY <1>0, QueueSeq DEF Queue
<1> HIDE DEF q, q2
<1>7. ASSUME NEW i \in 1 .. n PROVE q2[i] = q[i]
  <2>1. i \in 1 .. n + 1
    BY <1>2
  <2>2. [chars EXCEPT ![t] = ch][(h + i - 1) % BUFSIZ] = chars[(h + i - 1) % BUFSIZ]
    BY <1>2 DEF Cells
  <2>3. QED BY <1>5, <1>6, <2>1, <2>2
<1>8. q2[n + 1] = ch
  <2>1. n + 1 \in 1 .. n + 1 /\ (h + (n + 1) - 1) = h + n
    BY <1>1, <1>2
  <2>2. QED BY <1>2, <1>5, <2>1
<1>9. q2 \in [1 .. n + 1 -> Chars] /\ n \in Nat
  <2>1. \A i \in 1 .. n + 1 : q2[i] \in Chars
    <3>1. \A i \in 1 .. n : q[i] \in Chars
      <4>1. q \in [1 .. Len(q) -> Chars]
        BY <1>6, LenProperties
      <4>2. QED BY <1>6, <4>1
    <3>2. \A i \in 1 .. n + 1 : i \in 1 .. n \/ i = n + 1
      BY <1>2
    <3>3. QED BY <1>7, <1>8, <3>1, <3>2
  <2>2. QED BY <1>2, <1>5, <2>1
<1>10. q2 \in Seq(Chars) /\ Len(q2) = n + 1
  BY <1>9
<1>11. q2 = Append(q, ch)
  <2>1. /\ Len(q2) = Len(q) + 1 /\ q2[Len(q) + 1] = ch
        /\ \A i \in 1 .. Len(q) : q2[i] = q[i]
    BY <1>6, <1>7, <1>8, <1>10
  <2>2. QED BY <1>6, <1>10, <2>1, IsAppend
<1>12. t2 \in Cells
  BY <1>1, <1>3 DEF Cells
<1>13. QED BY <1>11, <1>12 DEF q, q2, t2

\* The character at the head is read.
LEMMA QueueRead ==
  ASSUME NEW chars \in [Cells -> Chars], NEW h \in Cells, NEW t \in Cells, h # t,
         NEW h2, h2 = (h + 1) % BUFSIZ
  PROVE  /\ h2 \in Cells
         /\ Queue([chars EXCEPT ![h] = NoChar], h2, t) = Tail(Queue(chars, h, t))
<1> DEFINE n == (t - h) % BUFSIZ
           q == Queue(chars, h, t)
           q2 == Queue([chars EXCEPT ![h] = NoChar], h2, t)
<1>1. BUFSIZ \in Nat /\ BUFSIZ > 2 /\ h \in Nat /\ t \in Nat /\ h < BUFSIZ /\ t < BUFSIZ
      /\ BUFSIZ \in Nat \ {0}
  BY SizesAssumption, LineAssumption DEF Cells
<1>0. n = (t - h) % BUFSIZ /\ n \in Int
  BY <1>1
<1> HIDE DEF n
<1>p. BUFSIZ \in Nat \ {0}
  BY <1>1
<1>2. /\ n \in 1 .. BUFSIZ - 1
      /\ \A i \in 1 .. n : (h + i - 1) % BUFSIZ \in 0 .. BUFSIZ - 1
      /\ \A i \in 2 .. n : (h + i - 1) % BUFSIZ # h
  <2>1. n \in Nat /\ n < BUFSIZ /\ (n = 0 <=> h = t)
    BY ONLY <1>0, <1>1, Places
  <2>2. ASSUME NEW i \in 1 .. n
        PROVE  (h + i - 1) % BUFSIZ \in 0 .. BUFSIZ - 1 /\ (i >= 2 => (h + i - 1) % BUFSIZ # h)
    <3> DEFINE x == h + i - 1
    <3>1. x \in Nat /\ h <= x /\ x <= h + n /\ x < h + n /\ (i >= 2 => h < x)
      BY <1>1, <2>1
    <3> HIDE DEF x
    <3>2. x % BUFSIZ \in 0 .. BUFSIZ - 1 /\ (i >= 2 => x % BUFSIZ # h)
      BY ONLY <1>0, <1>1, <3>1, PlaceOf
    <3>3. QED BY <3>2 DEF x
  <2>3. ASSUME NEW i \in 2 .. n PROVE i \in 1 .. n /\ i >= 2
    BY <2>1
  <2>4. QED BY <1>1, <2>1, <2>2, <2>3
<1>3. h2 = (IF h + 1 < BUFSIZ THEN h + 1 ELSE (h + 1) - BUFSIZ) /\ h2 \in Nat /\ h2 < BUFSIZ
  <2>1. h + 1 \in Nat /\ h + 1 < 2 * BUFSIZ
    BY <1>1
  <2>2. (h + 1) % BUFSIZ = IF h + 1 < BUFSIZ THEN h + 1 ELSE (h + 1) - BUFSIZ
    BY ONLY <1>p, <2>1, Wrap
  <2>3. QED BY <1>1, <2>2
<1>4. (t - h2) % BUFSIZ = n - 1
  <2>1. n = IF h <= t THEN t - h ELSE (t - h) + BUFSIZ
    BY ONLY <1>0, <1>1, <1>p, Between
  <2>2. (t - h2) % BUFSIZ = IF h2 <= t THEN t - h2 ELSE (t - h2) + BUFSIZ
    BY ONLY <1>1, <1>3, <1>p, Between
  <2>3. QED BY <1>1, <1>3, <2>1, <2>2
<1>5. q2 = [i \in 1 .. n - 1 |-> [chars EXCEPT ![h] = NoChar][(h2 + i - 1) % BUFSIZ]]
  BY <1>4 DEF Queue
<1>6. q \in Seq(Chars) /\ Len(q) = n /\ q = [i \in 1 .. n |-> chars[(h + i - 1) % BUFSIZ]]
  BY <1>0, QueueSeq DEF Queue
<1>7. ASSUME NEW i \in 1 .. n - 1
      PROVE  (h2 + i - 1) % BUFSIZ = (h + (i + 1) - 1) % BUFSIZ
  <2> DEFINE x == h2 + i - 1
             y == h + (i + 1) - 1
  <2>1. x \in Nat /\ x < 2 * BUFSIZ /\ y \in Nat /\ y < 2 * BUFSIZ
        /\ (x = y \/ (x = y - BUFSIZ /\ y >= BUFSIZ /\ x < BUFSIZ))
    BY <1>1, <1>2, <1>3
  <2> HIDE DEF x, y
  <2>2. x % BUFSIZ = IF x < BUFSIZ THEN x ELSE x - BUFSIZ
    BY ONLY <1>p, <2>1, Wrap
  <2>3. y % BUFSIZ = IF y < BUFSIZ THEN y ELSE y - BUFSIZ
    BY ONLY <1>p, <2>1, Wrap
  <2>4. x % BUFSIZ = y % BUFSIZ
    BY <1>1, <2>1, <2>2, <2>3
  <2>5. QED BY <2>4 DEF x, y
<1> HIDE DEF q, q2
<1>8. ASSUME NEW i \in 1 .. n - 1 PROVE q2[i] = q[i + 1]
  <2>1. i + 1 \in 2 .. n /\ i + 1 \in 1 .. n
    BY <1>2
  <2>2. (h + (i + 1) - 1) % BUFSIZ # h /\ (h + (i + 1) - 1) % BUFSIZ \in Cells
    BY <1>2, <2>1 DEF Cells
  <2>3. q2[i] = [chars EXCEPT ![h] = NoChar][(h + (i + 1) - 1) % BUFSIZ]
    BY <1>5, <1>7
  <2>4. q[i + 1] = chars[(h + (i + 1) - 1) % BUFSIZ]
    BY <1>6, <2>1
  <2>5. QED BY <2>2, <2>3, <2>4
<1>9. q # <<>>
  BY <1>2, <1>6, EmptySeq
<1>10. Tail(q) \in Seq(Chars) /\ Len(Tail(q)) = n - 1 /\ \A i \in 1 .. n - 1 : Tail(q)[i] = q[i + 1]
  BY <1>2, <1>6, <1>9, HeadTailProperties
<1>11. q2 = Tail(q)
  <2> DEFINE a == Tail(q)
  <2>1. a \in Seq(Chars) /\ Len(a) = n - 1 /\ \A i \in 1 .. n - 1 : a[i] = q[i + 1]
    BY <1>10
  <2> HIDE DEF a
  <2>2. a \in [1 .. n - 1 -> Chars] /\ n - 1 \in Nat
    BY <1>2, <2>1
  <2>3. \A i \in 1 .. n - 1 : q2[i] = a[i] /\ q2[i] \in Chars
    BY <1>8, <2>1, <2>2
  <2>4. q2 \in [1 .. n - 1 -> Chars]
    BY <1>5, <2>3
  <2>5. q2 \in Seq(Chars) /\ Len(q2) = n - 1
    BY <2>2, <2>4
  <2>6. q2 = a
    BY <2>1, <2>3, <2>5, SeqEqual
  <2>7. QED BY <2>6 DEF a
<1>12. h2 \in Cells
  BY <1>1, <1>3 DEF Cells
<1>13. QED BY <1>11, <1>12 DEF q, q2

\* A ring with the tail right behind the head holds all it can, whether
\* isFull sees it or not.
LEMMA FullAtWrap ==
  ASSUME BUFSIZ \in Nat \ {0}, NEW h \in Cells, NEW t \in Cells, (t + 1) % BUFSIZ = h
  PROVE  (t - h) % BUFSIZ = BUFSIZ - 1
<1>1. h \in Nat /\ t \in Nat /\ h < BUFSIZ /\ t < BUFSIZ
  BY DEF Cells
<1> DEFINE x == t + 1
<1>2. x \in Nat /\ x < 2 * BUFSIZ /\ x % BUFSIZ = h
  BY <1>1
<1> HIDE DEF x
<1>3. h = IF x < BUFSIZ THEN x ELSE x - BUFSIZ
  BY <1>2, Wrap
<1>4. (t - h) % BUFSIZ = IF h <= t THEN t - h ELSE (t - h) + BUFSIZ
  BY <1>1, Between
<1>5. QED BY <1>1, <1>3, <1>4 DEF x

LEMMA FullIs ==
  ASSUME BUFSIZ \in Nat \ {0}, buf_head \in Cells, buf_tail \in Cells, isFull
  PROVE  (buf_tail - buf_head) % BUFSIZ = BUFSIZ - 1
<1> DEFINE h == buf_head
           t == buf_tail
<1>1. h \in Nat /\ t \in Nat /\ h < BUFSIZ /\ t < BUFSIZ /\ BUFSIZ > 2
  BY LineAssumption DEF Cells
<1>2. (IF h - 1 < 0 THEN -((-(h - 1)) % BUFSIZ) ELSE (h - 1) % BUFSIZ) = t
  BY DEF isFull, CRem
<1>3. h # 0
  <2>1. SUFFICES ASSUME h = 0 PROVE FALSE
    OBVIOUS
  <2>2. 1 % BUFSIZ = 1
    <3> DEFINE x == 1
    <3>1. x \in Nat /\ x < BUFSIZ /\ x < 2 * BUFSIZ
      BY <1>1
    <3> HIDE DEF x
    <3>2. x % BUFSIZ = x
      BY <3>1, Wrap
    <3>3. QED BY <3>2 DEF x
  <2>3. -((-(h - 1)) % BUFSIZ) = -1
    BY <2>1, <2>2
  <2>4. QED BY <1>1, <1>2, <2>1, <2>3
<1>4. t = h - 1
  <2> DEFINE x == h - 1
  <2>1. x \in Nat /\ x < BUFSIZ /\ x < 2 * BUFSIZ /\ ~(x < 0)
    BY <1>1, <1>3
  <2>2. x % BUFSIZ = t
    BY <1>2, <2>1
  <2> HIDE DEF x
  <2>3. x % BUFSIZ = x
    BY <1>1, <2>1, Wrap
  <2>4. QED BY <2>2, <2>3 DEF x
<1>5. (t - h) % BUFSIZ = IF h <= t THEN t - h ELSE (t - h) + BUFSIZ
  BY <1>1, Between
<1> HIDE DEF h, t
<1>6. (t - h) % BUFSIZ = BUFSIZ - 1
  BY <1>1, <1>4, <1>5
<1>7. QED BY <1>6 DEF h, t

-----------------------------------------------------------------------------
(* The flags.                                                              *)

LEMMA Pair ==
  ASSUME NEW S, NEW a \in S, NEW b \in S
  PROVE  <<a>> \o <<b>> = <<a, b>>
<1> DEFINE x == <<a>>
           y == <<b>>
           c == x \o y
           d == <<a, b>>
<1>1. x \in Seq(S) /\ y \in Seq(S) /\ Len(x) = 1 /\ Len(y) = 1 /\ x[1] = a /\ y[1] = b
  OBVIOUS
<1>2. d \in Seq(S) /\ Len(d) = 2 /\ d[1] = a /\ d[2] = b
  OBVIOUS
<1> HIDE DEF x, y, d
<1>3. /\ c \in Seq(S) /\ Len(c) = Len(x) + Len(y)
      /\ \A i \in 1 .. Len(x) + Len(y) : c[i] = IF i <= Len(x) THEN x[i] ELSE y[i - Len(x)]
  BY <1>1, ConcatProperties
<1> HIDE DEF c
<1>4. Len(c) = 2 /\ c[1] = a /\ c[2] = b
  BY <1>1, <1>3
<1>5. \A i \in 1 .. Len(c) : c[i] = d[i]
  <2>1. \A i \in 1 .. 2 : i = 1 \/ i = 2
    OBVIOUS
  <2>2. QED BY <1>2, <1>4, <2>1
<1>6. c = d
  BY <1>2, <1>3, <1>4, <1>5, SeqEqual
<1>7. QED BY <1>6 DEF c, d, x, y

LEMMA TwoPairs ==
  ASSUME NEW S, NEW a \in S, NEW b \in S, NEW a2 \in S, NEW b2 \in S
  PROVE  <<a, b>> \o <<a2, b2>> = <<a, b, a2, b2>>
<1> DEFINE x == <<a, b>>
           y == <<a2, b2>>
           c == x \o y
           d == <<a, b, a2, b2>>
<1>1. /\ x \in Seq(S) /\ y \in Seq(S) /\ Len(x) = 2 /\ Len(y) = 2
      /\ x[1] = a /\ x[2] = b /\ y[1] = a2 /\ y[2] = b2
  OBVIOUS
<1>2. d \in Seq(S) /\ Len(d) = 4 /\ d[1] = a /\ d[2] = b /\ d[3] = a2 /\ d[4] = b2
  OBVIOUS
<1> HIDE DEF x, y, d
<1>3. /\ c \in Seq(S) /\ Len(c) = Len(x) + Len(y)
      /\ \A i \in 1 .. Len(x) + Len(y) : c[i] = IF i <= Len(x) THEN x[i] ELSE y[i - Len(x)]
  BY <1>1, ConcatProperties
<1> HIDE DEF c
<1>4. Len(c) = 4 /\ c[1] = a /\ c[2] = b /\ c[3] = a2 /\ c[4] = b2
  BY <1>1, <1>3
<1>5. \A i \in 1 .. Len(c) : c[i] = d[i]
  <2>1. \A i \in 1 .. 4 : i = 1 \/ i = 2 \/ i = 3 \/ i = 4
    OBVIOUS
  <2>2. QED BY <1>2, <1>4, <2>1
<1>6. c = d
  BY <1>2, <1>3, <1>4, <1>5, SeqEqual
<1>7. QED BY <1>6 DEF c, d, x, y

\* What pressing a key sends.
Sent(key) == Codes(key, FALSE) \o IF key = "shift" THEN <<>> ELSE Codes(key, TRUE)

LEMMA KeyCodes ==
  ASSUME NEW key \in Keys, NEW codes, codes = Sent(key)
  PROVE  /\ codes \in Seq(ScanCode) /\ codes # <<>> /\ InOrder(codes)
         /\ codes[1] = IF key = "arrow" THEN Code("E0")
                       ELSE IF key = "pause" THEN Code("E1") ELSE Code(key)
<1>1. Code(key) \in ScanCode /\ Up(key) \in ScanCode
  BY DEF Code, Up, ScanCode, KeyNames
<1>2. CASE key \in {"letter", "enter", "backspace", "caps"}
  <2>1. Codes(key, FALSE) = <<Code(key)>> /\ Codes(key, TRUE) = <<Up(key)>>
    BY <1>2 DEF Codes, Code, Up
  <2>2. codes = <<Code(key)>> \o <<Up(key)>>
    BY <1>2, <2>1 DEF Sent
  <2>3. codes = <<Code(key), Up(key)>>
    BY <1>1, <2>2, Pair
  <2>4. codes \in Seq(ScanCode) /\ Len(codes) = 2 /\ codes[1] = Code(key) /\ codes[2] = Up(key)
    BY <1>1, <2>3
  <2>5. /\ codes[1].key = key /\ codes[2].key = key
        /\ codes[2] \notin {Code("caps"), Code("letter")}
    BY <2>4 DEF Code, Up
  <2>6. InOrder(codes)
    <3>1. \A i \in 1 .. Len(codes) - 1 : i = 1
      BY <2>4
    <3>2. QED BY <1>2, <2>4, <2>5, <3>1 DEF InOrder
  <2>7. codes # <<>>
    BY <2>4
  <2>8. key # "arrow" /\ key # "pause"
    BY <1>2
  <2>9. QED BY <2>4, <2>6, <2>7, <2>8
<1>3. CASE key = "shift"
  <2>1. codes = <<Code(key)>> \o <<>>
    BY <1>3 DEF Codes, Code, Sent
  <2>2. codes = <<Code(key)>>
    BY <1>1, <2>1, ConcatEmptySeq
  <2>3. codes \in Seq(ScanCode) /\ Len(codes) = 1 /\ codes[1] = Code("shift")
    <3> DEFINE c == Code(key)
    <3>1. c \in ScanCode /\ codes = <<c>> /\ c = Code("shift")
      BY <1>1, <1>3, <2>2
    <3> HIDE DEF c
    <3>2. codes \in Seq(ScanCode) /\ Len(codes) = 1 /\ codes[1] = c
      BY <3>1
    <3>3. QED BY <3>1, <3>2
  <2>4. InOrder(codes)
    <3>1. codes[1].key = "shift"
      BY <2>3 DEF Code
    <3>2. QED BY <2>3, <3>1 DEF InOrder
  <2>5. QED BY <1>3, <2>3, <2>4, EmptySeq
<1>4. CASE key = "arrow"
  <2>1. Codes(key, FALSE) = <<Code("E0"), Code(key)>> /\ Codes(key, TRUE) = <<Code("E0"), Up(key)>>
    BY <1>4 DEF Codes, Code, Up
  <2>2. Code("E0") \in ScanCode
    BY DEF Code, ScanCode, KeyNames
  <2>3. codes = <<Code("E0"), Code(key), Code("E0"), Up(key)>>
    <3>1. codes = <<Code("E0"), Code(key)>> \o <<Code("E0"), Up(key)>>
      BY <1>4, <2>1 DEF Sent
    <3>2. QED BY <1>1, <2>2, <3>1, TwoPairs
  <2>4. /\ codes \in Seq(ScanCode) /\ Len(codes) = 4
        /\ codes[1] = Code("E0") /\ codes[2] = Code(key)
        /\ codes[3] = Code("E0") /\ codes[4] = Up(key)
    BY <1>1, <2>2, <2>3
  <2>5. InOrder(codes)
    <3>1. /\ codes[1].key = "E0" /\ codes[2].key = "arrow"
          /\ codes[3].key = "E0" /\ codes[4].key = "arrow"
      BY <1>4, <2>4 DEF Code, Up
    <3>2. \A i \in 1 .. Len(codes) - 1 : i = 1 \/ i = 2 \/ i = 3
      BY <2>4
    <3>3. QED BY <2>4, <3>1, <3>2 DEF InOrder, Code
  <2>6. QED BY <1>4, <2>4, <2>5, EmptySeq
<1>5. CASE key = "pause"
  <2> DEFINE d == <<Code("E1"), Code("ctrl"), Code("numlock"), Code("E1"), Up("ctrl"), Up("numlock")>>
  <2>1. Codes(key, FALSE) = d /\ Codes(key, TRUE) = <<>>
    BY <1>5 DEF Codes
  <2>2. /\ Code("E1") \in ScanCode /\ Code("ctrl") \in ScanCode /\ Code("numlock") \in ScanCode
        /\ Up("ctrl") \in ScanCode /\ Up("numlock") \in ScanCode
    BY DEF Code, Up, ScanCode, KeyNames
  <2>3. /\ d \in Seq(ScanCode) /\ Len(d) = 6
        /\ d[1] = Code("E1") /\ d[2] = Code("ctrl") /\ d[3] = Code("numlock")
        /\ d[4] = Code("E1") /\ d[5] = Up("ctrl") /\ d[6] = Up("numlock")
    BY <2>2
  <2> HIDE DEF d
  <2>4. codes = d
    <3>1. codes = d \o <<>>
      BY <1>5, <2>1 DEF Sent
    <3>2. QED BY <2>3, <3>1, ConcatEmptySeq
  <2>5. InOrder(d)
    <3>1. /\ d[1].key = "E1" /\ d[2].key = "ctrl" /\ d[3].key = "numlock"
          /\ d[4].key = "E1" /\ d[5].key = "ctrl" /\ d[6].key = "numlock"
      BY <2>3 DEF Code, Up
    <3>2. \A i \in 1 .. Len(d) - 1 : i = 1 \/ i = 2 \/ i = 3 \/ i = 4 \/ i = 5
      BY <2>3
    <3>3. QED BY <2>3, <3>1, <3>2 DEF InOrder, Code
  <2>6. QED BY <1>5, <2>3, <2>4, <2>5, EmptySeq
<1>6. QED BY <1>2, <1>3, <1>4, <1>5 DEF Keys

\* The next code and what is left.
LEMMA NextCode ==
  ASSUME sending \in Seq(ScanCode), sending # <<>>, InOrder(sending),
         NEW code, code = sending[1], NEW rest, rest = Tail(sending)
  PROVE  /\ code \in ScanCode /\ Head(sending) = code
         /\ rest \in Seq(ScanCode) /\ InOrder(rest)
         /\ rest = <<>> => code.key \notin {"E0", "E1", "ctrl"}
         /\ rest # <<>> =>
              /\ code.key = "E0" <=> rest[1].key = "arrow"
              /\ code.key = "E1" <=> rest[1].key = "ctrl"
              /\ code.key = "ctrl" <=> rest[1].key = "numlock"
              /\ rest[1].key # "shift" /\ rest[1] \notin {Code("caps"), Code("letter")}
<1>1. /\ Head(sending) \in ScanCode /\ rest \in Seq(ScanCode) /\ Len(rest) = Len(sending) - 1
      /\ \A i \in 1 .. Len(rest) : rest[i] = sending[i + 1]
  BY HeadTailProperties
<1>2. Len(sending) \in Nat \ {0} /\ Head(sending) = sending[1]
  BY EmptySeq
<1>3. Len(rest) \in Nat /\ (rest # <<>> => Len(rest) > 0)
  BY <1>1, EmptySeq
<1> DEFINE n == Len(rest)
<1>4. Len(sending) = n + 1 /\ n \in Nat
  BY <1>1, <1>2, <1>3
<1>5. \A i \in 1 .. n : rest[i] = sending[i + 1]
  BY <1>1
<1> HIDE DEF n
<1>6. /\ sending[n + 1].key \notin {"E0", "E1", "ctrl"}
      /\ \A i \in 1 .. n :
           /\ sending[i].key = "E0" <=> sending[i + 1].key = "arrow"
           /\ sending[i].key = "E1" <=> sending[i + 1].key = "ctrl"
           /\ sending[i].key = "ctrl" <=> sending[i + 1].key = "numlock"
           /\ sending[i + 1].key # "shift" /\ sending[i + 1] \notin {Code("caps"), Code("letter")}
  BY <1>4 DEF InOrder
<1>7. rest # <<>> =>
        /\ code.key = "E0" <=> rest[1].key = "arrow"
        /\ code.key = "E1" <=> rest[1].key = "ctrl"
        /\ code.key = "ctrl" <=> rest[1].key = "numlock"
        /\ rest[1].key # "shift" /\ rest[1] \notin {Code("caps"), Code("letter")}
  <2>1. rest # <<>> => 1 \in 1 .. n /\ 1 + 1 = 2
    BY <1>3, <1>4 DEF n
  <2>2. QED BY <1>5, <1>6, <2>1
<1>8. rest = <<>> => code.key \notin {"E0", "E1", "ctrl"}
  <2>1. rest = <<>> => n + 1 = 1
    <3>1. rest = <<>> => Len(rest) = 0
      OBVIOUS
    <3>2. QED BY <3>1 DEF n
  <2>2. QED BY <1>6, <2>1
<1>9. InOrder(rest)
  <2>1. rest # <<>> => rest[n] = sending[n + 1]
    BY <1>3, <1>4, <1>5 DEF n
  <2>2. ASSUME NEW i \in 1 .. n - 1
        PROVE  /\ rest[i].key = "E0" <=> rest[i + 1].key = "arrow"
               /\ rest[i].key = "E1" <=> rest[i + 1].key = "ctrl"
               /\ rest[i].key = "ctrl" <=> rest[i + 1].key = "numlock"
               /\ rest[i + 1].key # "shift" /\ rest[i + 1] \notin {Code("caps"), Code("letter")}
    <3> DEFINE j == i + 1
    <3>1. i \in 1 .. n /\ j \in 1 .. n
      BY <1>4
    <3>2. rest[i] = sending[j] /\ rest[j] = sending[j + 1]
      BY <1>5, <3>1
    <3> HIDE DEF j
    <3>3. /\ rest[i].key = "E0" <=> rest[j].key = "arrow"
          /\ rest[i].key = "E1" <=> rest[j].key = "ctrl"
          /\ rest[i].key = "ctrl" <=> rest[j].key = "numlock"
          /\ rest[j].key # "shift" /\ rest[j] \notin {Code("caps"), Code("letter")}
      BY <1>6, <3>1, <3>2
    <3>4. QED BY <3>3 DEF j
  <2>3. QED BY <1>6, <2>1, <2>2 DEF InOrder, n
<1>10. QED BY <1>1, <1>2, <1>7, <1>8, <1>9

\* The handler takes a code for the character that the user means.
LEMMA TakenAsMeant ==
  ASSUME KInv, sending # <<>>
  PROVE  Converted(Head(sending)) \ {NoChar} = Meant /\ Meant \subseteq Chars
<1> DEFINE code == sending[1]
<1>1. code \in ScanCode /\ Head(sending) = code
  BY NextCode DEF KInv, FlagsOK
<1>2. /\ KStat = FlagsBefore(code) /\ held \in BOOLEAN /\ locked \in BOOLEAN
  BY DEF KInv, FlagsOK
<1>3. /\ KStat.PauseFlag > 0 <=> code.key \in {"ctrl", "numlock"}
      /\ KStat.ExtentedFlag <=> code.key = "arrow"
      /\ code.key # "shift" => KStat.ShiftFlag = held
      /\ code # Code("caps") => KStat.CapslockFlag = locked
  <2>1. KStat.PauseFlag = CASE code.key = "ctrl" -> 2 [] code.key = "numlock" -> 1 [] OTHER -> 0
    BY <1>2 DEF FlagsBefore
  <2>2. KStat.ExtentedFlag <=> code.key = "arrow"
    BY <1>2 DEF FlagsBefore
  <2>3. KStat.ShiftFlag = IF code.key = "shift" THEN ~held ELSE held
    BY <1>2 DEF FlagsBefore
  <2>4. KStat.CapslockFlag = ((code = Code("caps")) # locked)
    BY <1>2 DEF FlagsBefore
  <2>5. code # Code("caps") => KStat.CapslockFlag = locked
    BY <1>2, <2>4
  <2> HIDE DEF code
  <2>6. KStat.PauseFlag > 0 <=> code.key \in {"ctrl", "numlock"}
    BY <2>1
  <2>7. QED BY <2>2, <2>3, <2>5, <2>6
<1>4. code.up \in BOOLEAN /\ code = [key |-> code.key, up |-> code.up]
  BY <1>1 DEF ScanCode
<1> HIDE DEF code
<1>5. CASE code.up \/ code.key \in {"E0", "E1", "ctrl", "numlock", "arrow"}
  <2>1. Converted(code) = {}
    BY <1>3, <1>5 DEF Converted
  <2>2. code # Code("letter") /\ code # Code("enter") /\ code # Code("backspace")
    BY <1>5 DEF Code
  <2>3. Meant = {}
    BY <2>2 DEF Meant, code
  <2>4. QED BY <1>1, <2>1, <2>3
<1>6. CASE ~code.up /\ code.key \notin {"E0", "E1", "ctrl", "numlock", "arrow"}
  <2>1. Converted(code) = {Kbd_Map(code.key)}
    BY <1>3, <1>6 DEF Converted
  <2>2. code = Code(code.key)
    BY <1>4, <1>6 DEF Code
  <2>3. CASE code.key = "letter"
    <3>1. KStat.ShiftFlag = held /\ KStat.CapslockFlag = locked
      BY <1>3, <2>3 DEF Code
    <3>2. Kbd_Map(code.key) = IF held = locked THEN "lower" ELSE "upper"
      BY <2>3, <3>1 DEF Kbd_Map
    <3>3. Meant = {IF held = locked THEN "lower" ELSE "upper"}
      BY <2>2, <2>3 DEF Meant, code, Code
    <3>4. QED BY <1>1, <2>1, <3>2, <3>3 DEF NoChar, Chars
  <2>4. CASE code.key = "enter"
    <3>1. KStat.ShiftFlag = held
      BY <1>3, <2>4
    <3>2. Kbd_Map(code.key) = IF held THEN NoChar ELSE "newline"
      BY <2>4, <3>1 DEF Kbd_Map
    <3>3. Meant = IF held THEN {} ELSE {"newline"}
      BY <2>2, <2>4 DEF Meant, code, Code
    <3>4. QED BY <1>1, <2>1, <3>2, <3>3 DEF NoChar, Chars
  <2>5. CASE code.key = "backspace"
    <3>1. Kbd_Map(code.key) = "backspace"
      BY <2>5 DEF Kbd_Map
    <3>2. Meant = {"backspace"}
      BY <2>2, <2>5 DEF Meant, code, Code
    <3>3. QED BY <1>1, <2>1, <3>1, <3>2 DEF NoChar, Chars
  <2>6. CASE code.key \notin {"letter", "enter", "backspace"}
    <3>1. Kbd_Map(code.key) = NoChar
      BY <2>6 DEF Kbd_Map
    <3>2. code # Code("letter") /\ code # Code("enter") /\ code # Code("backspace")
      BY <2>6 DEF Code
    <3>3. Meant = {}
      BY <3>2 DEF Meant, code
    <3>4. QED BY <1>1, <2>1, <3>1, <3>3
  <2>7. QED BY <2>3, <2>4, <2>5, <2>6
<1>7. QED BY <1>5, <1>6

-----------------------------------------------------------------------------
(* The steps.                                                              *)

\* The step is one that KeysKept allows.
Kept ==
  \/ Unread' = Unread /\ (sending = <<>> \/ sending' = sending \/ Meant = {})
  \/ sending # <<>> /\ \E ch \in Meant : Unread' = Append(Unread, ch)
  \/ sending' = sending /\ Unread # <<>> /\ Unread' = Tail(Unread)
  \/ Len(Unread) = BUFSIZ - 1

LEMMA UnreadIs ==
  /\ Unread = Queue(kbd_buf, buf_head, buf_tail)
  /\ Unread' = Queue(kbd_buf', buf_head', buf_tail')
BY DEF Unread, Queue

LEMMA InitKInv == Init => KInv
<1> SUFFICES ASSUME Init PROVE KInv
  OBVIOUS
<1>1. RingOK
  BY SizesAssumption, LineAssumption DEF Init, RingOK, Cells, Blank, Chars
<1>2. FlagsOK
  <2>1. sending = <<>> /\ held = FALSE /\ locked = FALSE
    BY DEF Init
  <2>2. sending \in Seq(ScanCode) /\ InOrder(sending)
    BY <2>1 DEF InOrder
  <2>3. KStat = Flags
    BY <2>1 DEF Init, Flags
  <2>4. QED BY <2>1, <2>2, <2>3 DEF FlagsOK
<1>3. QED BY <1>1, <1>2 DEF KInv

\* The flags after a code are those before the next.
LEMMA CodeFlags ==
  ASSUME FlagsOK, sending # <<>>, KStat' = KStatAfter(Head(sending)),
         sending' = Tail(sending), UNCHANGED <<held, locked>>
  PROVE  FlagsOK'
<1> DEFINE code == sending[1]
           rest == Tail(sending)
<1>1. /\ code \in ScanCode /\ Head(sending) = code
      /\ rest \in Seq(ScanCode) /\ InOrder(rest)
      /\ rest = <<>> => code.key \notin {"E0", "E1", "ctrl"}
      /\ rest # <<>> =>
           /\ code.key = "E0" <=> rest[1].key = "arrow"
           /\ code.key = "E1" <=> rest[1].key = "ctrl"
           /\ code.key = "ctrl" <=> rest[1].key = "numlock"
           /\ rest[1].key # "shift" /\ rest[1] \notin {Code("caps"), Code("letter")}
  BY NextCode DEF FlagsOK
<1>2. /\ KStat = FlagsBefore(code) /\ held \in BOOLEAN /\ locked \in BOOLEAN
      /\ code.key = "shift" => held = ~code.up
  BY DEF FlagsOK
<1>3. KStat' = KStatAfter(code) /\ sending' = rest /\ held' = held /\ locked' = locked
  BY <1>1
<1> HIDE DEF code, rest
<1>4. /\ KStat.PauseFlag = (CASE code.key = "ctrl" -> 2 [] code.key = "numlock" -> 1 [] OTHER -> 0)
      /\ KStat.ExtentedFlag = (code.key = "arrow")
      /\ KStat.ShiftFlag = (IF code.key = "shift" THEN ~held ELSE held)
      /\ KStat.CapslockFlag = ((code = Code("caps")) # locked)
  BY <1>2 DEF FlagsBefore
<1> DEFINE shift == IF code.key = "shift" THEN ~code.up ELSE KStat.ShiftFlag
           caps == (code = Code("caps")) # KStat.CapslockFlag
           pause == PauseFlagAfter(code)
<1>5. shift = held
  BY <1>2, <1>4
<1>6. caps = locked
  BY <1>2, <1>4
<1>7. pause = IF code.key = "ctrl" THEN 1 ELSE IF code.key = "E1" THEN 2 ELSE 0
  <2> DEFINE flag == KStat.PauseFlag
             ext == KStat.ExtentedFlag
  <2>1. pause = IF flag > 0 THEN flag - 1 ELSE IF code.key = "E1" /\ ~ext THEN 2 ELSE 0
    BY DEF PauseFlagAfter
  <2>2. /\ flag = IF code.key = "ctrl" THEN 2 ELSE IF code.key = "numlock" THEN 1 ELSE 0
        /\ ext = (code.key = "arrow")
    BY <1>4
  <2> HIDE DEF flag, ext, pause
  <2> DEFINE want == IF code.key = "ctrl" THEN 1 ELSE IF code.key = "E1" THEN 2 ELSE 0
  <2>3. CASE code.key = "ctrl"
    BY <2>1, <2>2, <2>3
  <2>4. CASE code.key = "numlock"
    BY <2>1, <2>2, <2>4
  <2>5. CASE code.key # "ctrl" /\ code.key # "numlock"
    <3>1. flag = 0
      BY <2>2, <2>5
    <3>2. pause = IF code.key = "E1" /\ ~ext THEN 2 ELSE 0
      BY <2>1, <3>1
    <3>3. code.key = "E1" => ~ext
      BY <2>2
    <3>4. want = IF code.key = "E1" THEN 2 ELSE 0
      BY <2>5
    <3>5. pause = want
      <4>1. CASE code.key = "E1"
        BY <3>2, <3>3, <3>4, <4>1
      <4>2. CASE code.key # "E1"
        BY <3>2, <3>4, <4>2
      <4>3. QED BY <4>1, <4>2
    <3>6. QED BY <3>5
  <2>6. QED BY <2>3, <2>4, <2>5
<1>8. KStat' = [ShiftFlag |-> shift, CapslockFlag |-> caps,
                ExtentedFlag |-> code.key = "E0", PauseFlag |-> pause]
  BY <1>3 DEF KStatAfter
<1> HIDE DEF shift, caps, pause
<1>9. KStat' = [ShiftFlag |-> held, CapslockFlag |-> locked,
                ExtentedFlag |-> code.key = "E0", PauseFlag |-> pause]
  BY <1>5, <1>6, <1>8
<1>10. CASE rest = <<>>
  <2>1. code.key \notin {"E0", "E1", "ctrl"}
    BY <1>1, <1>10
  <2>2. pause = 0 /\ (code.key = "E0") = FALSE
    BY <1>7, <2>1
  <2>3. KStat' = [ShiftFlag |-> held', CapslockFlag |-> locked',
                  ExtentedFlag |-> FALSE, PauseFlag |-> 0]
    BY <1>3, <1>9, <2>2
  <2>4. (KStat = Flags)'
    BY <2>3 DEF Flags
  <2>5. QED BY <1>1, <1>2, <1>3, <1>10, <2>4 DEF FlagsOK, InOrder
<1>11. CASE rest # <<>>
  <2> DEFINE next == rest[1]
  <2>1. /\ code.key = "E0" <=> next.key = "arrow"
        /\ code.key = "E1" <=> next.key = "ctrl"
        /\ code.key = "ctrl" <=> next.key = "numlock"
        /\ next.key # "shift" /\ next \notin {Code("caps"), Code("letter")}
    BY <1>1, <1>11
  <2> HIDE DEF next
  <2>2. pause = CASE next.key = "ctrl" -> 2 [] next.key = "numlock" -> 1 [] OTHER -> 0
    BY <1>7, <2>1
  <2>3. (code.key = "E0") = (next.key = "arrow") /\ ((next = Code("caps")) # locked) = locked
    BY <1>2, <2>1
  <2>4. (IF next.key = "shift" THEN ~held ELSE held) = held
    BY <2>1
  <2>5. KStat' = [ShiftFlag |-> IF next.key = "shift" THEN ~held' ELSE held',
                  CapslockFlag |-> (next = Code("caps")) # locked',
                  ExtentedFlag |-> next.key = "arrow",
                  PauseFlag |-> CASE next.key = "ctrl" -> 2 [] next.key = "numlock" -> 1 [] OTHER -> 0]
    BY <1>3, <1>9, <2>2, <2>3, <2>4
  <2>6. sending'[1] = next
    BY <1>3 DEF next
  <2>7. (KStat = FlagsBefore(sending[1]))'
    BY <2>5, <2>6 DEF FlagsBefore
  <2>8. QED BY <1>1, <1>2, <1>3, <1>11, <2>1, <2>6, <2>7 DEF FlagsOK, InOrder
<1>12. QED BY <1>10, <1>11

\* Other codes are to come.
LEMMA NewFlags ==
  ASSUME KStat = Flags, UNCHANGED KStat, held \in BOOLEAN, locked \in BOOLEAN,
         held' \in BOOLEAN, locked' \in BOOLEAN,
         NEW code, sending' # <<>>, sending' \in Seq(ScanCode), InOrder(sending)',
         sending'[1] = code,
         code.key \notin {"arrow", "ctrl", "numlock"},
         held' = IF code.key = "shift" THEN ~held ELSE held,
         code.key = "shift" => held' = ~code.up,
         locked' = ((code = Code("caps")) # locked)
  PROVE  FlagsOK'
<1>1. KStat' = [ShiftFlag |-> held, CapslockFlag |-> locked, ExtentedFlag |-> FALSE, PauseFlag |-> 0]
  BY DEF Flags
<1>2. held = IF code.key = "shift" THEN ~held' ELSE held'
  OBVIOUS
<1>3. locked = ((code = Code("caps")) # locked')
  OBVIOUS
<1>4. (code.key = "arrow") = FALSE
      /\ (CASE code.key = "ctrl" -> 2 [] code.key = "numlock" -> 1 [] OTHER -> 0) = 0
  OBVIOUS
<1>5. KStat' = [ShiftFlag |-> IF code.key = "shift" THEN ~held' ELSE held',
                CapslockFlag |-> (code = Code("caps")) # locked',
                ExtentedFlag |-> code.key = "arrow",
                PauseFlag |-> CASE code.key = "ctrl" -> 2 [] code.key = "numlock" -> 1 [] OTHER -> 0]
  BY ONLY <1>1, <1>2, <1>3, <1>4
<1>6. (KStat = FlagsBefore(sending[1]))'
  BY <1>5 DEF FlagsBefore
<1>7. QED BY <1>6 DEF FlagsOK, InOrder

LEMMA PressStep ==
  ASSUME KInv, NEW key \in Keys, Press(key)
  PROVE  KInv' /\ Kept
<1>1. /\ sending = <<>> /\ (key = "shift" => ~held) /\ held' = (held \/ key = "shift")
      /\ locked' = ((key = "caps") # locked)
      /\ UNCHANGED <<kbd_buf, buf_head, buf_tail, KStat>>
  BY DEF Press, ring
<1>2. sending' = Sent(key)
  BY DEF Press, Sent
<1>3. /\ sending' \in Seq(ScanCode) /\ sending' # <<>> /\ InOrder(sending')
      /\ sending'[1] = IF key = "arrow" THEN Code("E0")
                       ELSE IF key = "pause" THEN Code("E1") ELSE Code(key)
  BY <1>2, KeyCodes
<1>4. KStat = Flags /\ held \in BOOLEAN /\ locked \in BOOLEAN
  BY <1>1 DEF KInv, FlagsOK
<1> DEFINE code == sending'[1]
<1>5. /\ code.key = (IF key = "arrow" THEN "E0" ELSE IF key = "pause" THEN "E1" ELSE key)
      /\ code.up = FALSE /\ (code = Code("caps") <=> key = "caps")
  <2> DEFINE name == IF key = "arrow" THEN "E0" ELSE IF key = "pause" THEN "E1" ELSE key
  <2>1. code = [key |-> name, up |-> FALSE]
    BY <1>3 DEF Code
  <2>2. name = "caps" <=> key = "caps"
    OBVIOUS
  <2> HIDE DEF code, name
  <2>3. code.key = name /\ code.up = FALSE
    BY <2>1
  <2>4. code = Code("caps") <=> name = "caps"
    BY <2>1 DEF Code
  <2>5. QED BY <2>2, <2>3, <2>4 DEF name
<1> HIDE DEF code
<1>6. /\ code.key \notin {"arrow", "ctrl", "numlock"}
      /\ code.key = "shift" <=> key = "shift"
  BY <1>5 DEF Keys
<1>7. held' \in BOOLEAN /\ locked' \in BOOLEAN
  BY <1>1, <1>4
<1>8. held' = (IF code.key = "shift" THEN ~held ELSE held)
  BY <1>1, <1>4, <1>6
<1>9. code.key = "shift" => held' = ~code.up
  BY <1>1, <1>4, <1>5, <1>6
<1>10. locked' = ((code = Code("caps")) # locked)
  BY <1>1, <1>4, <1>5
<1>11. FlagsOK'
  BY <1>1, <1>3, <1>4, <1>6, <1>7, <1>8, <1>9, <1>10, NewFlags DEF code, InOrder
<1>12. RingOK'
  BY <1>1 DEF KInv, RingOK
<1>13. Unread' = Unread
  BY <1>1, UnreadIs
<1>14. QED BY <1>1, <1>11, <1>12, <1>13 DEF KInv, Kept

LEMMA ReleaseStep ==
  ASSUME KInv, ReleaseShift
  PROVE  KInv' /\ Kept
<1>1. /\ sending = <<>> /\ held /\ held' = FALSE /\ locked' = locked
      /\ UNCHANGED <<kbd_buf, buf_head, buf_tail, KStat>>
  BY DEF ReleaseShift, ring
<1> DEFINE code == Up("shift")
<1>2. sending' = <<code>>
  BY DEF ReleaseShift, Codes, Up
<1>3. code \in ScanCode /\ code.key = "shift" /\ code.up = TRUE /\ code # Code("caps")
  BY DEF Up, Code, ScanCode, KeyNames, Keys
<1> HIDE DEF code
<1>4. sending' \in Seq(ScanCode) /\ sending' # <<>> /\ Len(sending') = 1 /\ sending'[1] = code
  BY <1>2, <1>3
<1>5. InOrder(sending)'
  BY <1>3, <1>4 DEF InOrder
<1>6. KStat = Flags /\ held \in BOOLEAN /\ locked \in BOOLEAN
  BY <1>1 DEF KInv, FlagsOK
<1>7. FlagsOK'
  <2>1. held' \in BOOLEAN /\ locked' \in BOOLEAN /\ held' = ~held /\ held' = ~code.up
        /\ locked' = ((code = Code("caps")) # locked)
    BY <1>1, <1>3, <1>6
  <2>2. QED BY <1>1, <1>3, <1>4, <1>5, <1>6, <2>1, NewFlags
<1>8. RingOK'
  BY <1>1 DEF KInv, RingOK
<1>9. Unread' = Unread
  BY <1>1, UnreadIs
<1>10. QED BY <1>1, <1>7, <1>8, <1>9 DEF KInv, Kept

\* What an interrupt does: a code adds the character that was meant, is dropped, or
\* empties a ring that it fills up.
Taken ==
  Unread' \in {Unread, <<>>} \/ \E ch \in Meant : Unread' = Append(Unread, ch)

\* The interrupt: a ring that is not full gets the character.
LEMMA InterruptStep ==
  ASSUME KInv, Interrupt
  PROVE  KInv' /\ Kept /\ Taken
<1> DEFINE code == Head(sending)
<1>1. /\ sending # <<>> /\ kbd_handler(code) /\ sending' = Tail(sending)
      /\ UNCHANGED <<held, locked>>
  BY DEF Interrupt
<1>2. RingOK /\ FlagsOK
  BY DEF KInv
<1>3. KStat' = KStatAfter(code)
  BY <1>1 DEF kbd_handler
<1>4. FlagsOK'
  BY <1>1, <1>2, <1>3, CodeFlags
<1>5. Converted(code) \ {NoChar} = Meant /\ Meant \subseteq Chars
  BY <1>1, TakenAsMeant
<1> HIDE DEF code
<1>6. \/ ~isFull /\ \E ch \in Meant : Stored(ch)
      \/ (isFull \/ Meant = {}) /\ UNCHANGED <<kbd_buf, buf_head, buf_tail>>
  BY <1>1, <1>5 DEF kbd_handler, ring
<1>7. /\ buf_head \in Cells /\ buf_tail \in Cells /\ kbd_buf \in [Cells -> Chars]
      /\ BUFSIZ \in Nat \ {0}
  BY <1>2, SizesAssumption, LineAssumption DEF RingOK
<1>8. Len(Unread) = (buf_tail - buf_head) % BUFSIZ
  BY <1>7, UnreadIs, QueueSeq
<1>9. ASSUME NEW ch \in Meant, Stored(ch)
      PROVE  RingOK' /\ Kept /\ Taken
  <2>1. /\ buf_tail' = (buf_tail + 1) % BUFSIZ /\ buf_head' = buf_head
        /\ kbd_buf' = IF buf_tail' = buf_head THEN Blank ELSE [kbd_buf EXCEPT ![buf_tail] = ch]
    BY <1>9 DEF Stored
  <2>2. ch \in Chars
    BY <1>5
  <2>3. CASE buf_tail' = buf_head
    <3>1. kbd_buf' = Blank /\ Blank \in [Cells -> Chars]
      BY <2>1, <2>3 DEF Blank, Chars
    <3>2. RingOK'
      BY <1>7, <2>1, <2>3, <3>1 DEF RingOK
    <3>3. (buf_tail - buf_head) % BUFSIZ = BUFSIZ - 1
      BY <1>7, <2>1, <2>3, FullAtWrap
    <3>4. Unread' = <<>>
      <4>1. Queue(Blank, buf_head, buf_head) = <<>>
        BY <1>7, <3>1, QueueSeq
      <4>2. Unread' = Queue(Blank, buf_head, buf_head)
        BY <2>1, <2>3, <3>1, UnreadIs
      <4>3. QED BY <4>1, <4>2
    <3>5. QED BY <1>8, <3>2, <3>3, <3>4 DEF Kept, Taken
  <2>4. CASE buf_tail' # buf_head
    <3>1. kbd_buf' = [kbd_buf EXCEPT ![buf_tail] = ch]
      BY <2>1, <2>4
    <3>2. buf_tail' \in Cells /\ Unread' = Append(Unread, ch)
      <4> DEFINE next == buf_tail'
                 chars == [kbd_buf EXCEPT ![buf_tail] = ch]
      <4>1. next = (buf_tail + 1) % BUFSIZ /\ next # buf_head
        BY <2>1, <2>4
      <4> HIDE DEF next
      <4>2. next \in Cells /\ Queue(chars, buf_head, next) = Append(Queue(kbd_buf, buf_head, buf_tail), ch)
        <5>1. (buf_tail + 1) % BUFSIZ # buf_head
          BY <4>1
        <5>2. /\ (buf_tail + 1) % BUFSIZ \in Cells
              /\ Queue(chars, buf_head, (buf_tail + 1) % BUFSIZ)
                   = Append(Queue(kbd_buf, buf_head, buf_tail), ch)
          BY <1>7, <2>2, <5>1, QueueStored
        <5>3. QED BY <4>1, <5>2
      <4> HIDE DEF chars
      <4>3. kbd_buf' = chars
        BY <3>1 DEF chars
      <4>4. Unread' = Queue(chars, buf_head, next)
        BY <2>1, <4>3, UnreadIs DEF next
      <4>5. QED BY <4>2, <4>4, UnreadIs DEF next
    <3>3. RingOK'
      BY <1>7, <2>1, <2>2, <3>1, <3>2 DEF RingOK
    <3>4. QED BY <1>1, <1>9, <3>2, <3>3 DEF Kept, Taken
  <2>5. QED BY <2>3, <2>4
<1>10. ASSUME isFull \/ Meant = {}, UNCHANGED <<kbd_buf, buf_head, buf_tail>>
       PROVE  RingOK' /\ Kept /\ Taken
  <2>1. RingOK'
    BY <1>7, <1>10 DEF RingOK
  <2>2. Unread' = Unread
    BY <1>10, UnreadIs
  <2>3. CASE isFull
    <3>1. (buf_tail - buf_head) % BUFSIZ = BUFSIZ - 1
      BY <1>7, <2>3, FullIs
    <3>2. QED BY <1>8, <2>1, <2>2, <3>1 DEF Kept, Taken
  <2>4. QED BY <1>10, <2>1, <2>2, <2>3 DEF Kept, Taken
<1>11. QED BY <1>4, <1>6, <1>9, <1>10 DEF KInv

LEMMA ReadStep ==
  ASSUME KInv, Read
  PROVE  KInv' /\ Kept
<1>1. /\ buf_head # buf_tail
      /\ kbd_buf' = [kbd_buf EXCEPT ![buf_head] = NoChar]
      /\ buf_head' = (buf_head + 1) % BUFSIZ
      /\ UNCHANGED <<buf_tail, KStat, sending, held, locked>>
  BY DEF Read, isEmpty, user
<1>2. /\ buf_head \in Cells /\ buf_tail \in Cells /\ kbd_buf \in [Cells -> Chars]
  BY DEF KInv, RingOK
<1>3. buf_head' \in Cells /\ Unread' = Tail(Unread)
  BY <1>1, <1>2, QueueRead, UnreadIs
<1>4. Unread # <<>>
  BY <1>1, <1>2, QueueSeq, UnreadIs
<1>5. RingOK'
  BY <1>1, <1>2, <1>3 DEF RingOK, Chars
<1>6. FlagsOK'
  BY <1>1 DEF KInv, FlagsOK, InOrder, Flags, FlagsBefore
<1>7. QED BY <1>1, <1>3, <1>4, <1>5, <1>6 DEF KInv, Kept

\* Every step keeps KInv and is one that KeysKept allows.
LEMMA NextKeys ==
  ASSUME KInv, [Next]_vars
  PROVE  KInv' /\ Kept
<1>1. ASSUME UNCHANGED <<kbd_buf, buf_head, buf_tail, KStat, sending, held, locked>>
      PROVE  KInv' /\ Kept
  <2>1. RingOK'
    BY <1>1 DEF KInv, RingOK
  <2>2. FlagsOK'
    BY <1>1 DEF KInv, FlagsOK, InOrder, Flags, FlagsBefore
  <2>3. Unread' = Unread
    BY <1>1, UnreadIs
  <2>4. QED BY <1>1, <2>1, <2>2, <2>3 DEF KInv, Kept
<1>2. CASE Zero \/ CallGetkbd \/ ReadNone \/ Used \/ UNCHANGED vars
  BY <1>1, <1>2 DEF Zero, CallGetkbd, ReadNone, Used, vars, ring, user
<1>3. QED BY <1>2, InterruptStep, PressStep, ReadStep, ReleaseStep DEF Next, Reader

-----------------------------------------------------------------------------
(* The line.                                                               *)

Letters == {"lower", "upper"}
Typable == Letters \cup {"newline", "backspace"}

\* The unread characters u fit into a line of n letters: it never gets longer than
\* MaxLine, and has at most room letters at the end.
Fits(n, u, room) ==
  \E lengths \in [0 .. Len(u) -> 0 .. MaxLine] :
    /\ lengths[0] = n
    /\ \A i \in DOMAIN u : lengths[i] = LengthAfter(lengths[i - 1], u[i])
    /\ lengths[Len(u)] <= room

\* The length of the line that is not ended, and what it may have when all is read.
Length == IF pc \in {"zero", "line"} THEN 0 ELSE Len(text)
Room == IF sending # <<>> /\ sending[1] = Code("letter") THEN MaxLine - 1 ELSE MaxLine

LineOK ==
  /\ pc \in {"zero", "call", "read", "line"}
  /\ buf \in [Cells -> Chars]
  /\ pc \in {"call", "read"} =>
       /\ text \in Seq(Letters) /\ Len(text) <= MaxLine
       /\ \A i \in Cells : buf[i] = IF i < Len(text) THEN text[i + 1] ELSE NoChar
  /\ pc = "read" => offset = Len(text)
  /\ pc = "line" => \A i \in DOMAIN text : buf[i - 1] = text[i]

LInv == LineOK /\ Unread \in Seq(Typable) /\ Fits(Length, Unread, Room)

LEMMA Lengthened ==
  ASSUME NEW n \in Nat, NEW ch \in Typable
  PROVE  /\ LengthAfter(n, ch) \in Nat /\ LengthAfter(n, ch) <= n + 1
         /\ ch \notin Letters => LengthAfter(n, ch) <= n
BY DEF LengthAfter, Typable, Letters

\* Nothing is left to read.
LEMMA FitsEmpty ==
  ASSUME NEW n \in 0 .. MaxLine
  PROVE  Fits(n, <<>>, MaxLine)
<1> DEFINE lengths == [i \in 0 .. 0 |-> n]
           u == <<>>
<1>1. MaxLine \in Nat /\ Len(u) = 0 /\ DOMAIN u = {}
  BY SizesAssumption
<1>2. lengths \in [0 .. 0 -> 0 .. MaxLine] /\ lengths[0] = n
  OBVIOUS
<1> HIDE DEF lengths, u
<1>3. Fits(n, u, MaxLine)
  BY <1>1, <1>2 DEF Fits
<1>4. QED BY <1>3 DEF u

LEMMA FitsLess ==
  ASSUME NEW n, NEW u, NEW room \in Int, NEW more \in Int, room <= more, Len(u) \in Nat,
         Fits(n, u, room)
  PROVE  Fits(n, u, more) /\ n \in 0 .. MaxLine
<1>1. PICK lengths \in [0 .. Len(u) -> 0 .. MaxLine] :
        /\ lengths[0] = n
        /\ \A i \in DOMAIN u : lengths[i] = LengthAfter(lengths[i - 1], u[i])
        /\ lengths[Len(u)] <= room
  BY DEF Fits
<1>2. 0 \in 0 .. Len(u) /\ Len(u) \in 0 .. Len(u) /\ MaxLine \in Nat
  BY SizesAssumption
<1>3. n \in 0 .. MaxLine
  BY <1>1, <1>2
<1>4. lengths[Len(u)] \in 0 .. MaxLine
  BY <1>1, <1>2
<1>5. lengths[Len(u)] <= more
  BY <1>1, <1>4
<1>6. QED BY <1>1, <1>3, <1>5 DEF Fits

\* A character is typed.
LEMMA FitsAppend ==
  ASSUME NEW n, NEW u \in Seq(Typable), NEW ch \in Typable, NEW room \in Int,
         Fits(n, u, room), room <= MaxLine, ch \in Letters => room < MaxLine
  PROVE  Fits(n, Append(u, ch), MaxLine)
<1> DEFINE k == Len(u)
           a == Append(u, ch)
<1>1. /\ a \in Seq(Typable) /\ Len(a) = k + 1 /\ DOMAIN a = 1 .. k + 1 /\ DOMAIN u = 1 .. k
      /\ a[k + 1] = ch /\ k \in Nat
      /\ \A i \in 1 .. k : a[i] = u[i]
  BY AppendProperties, LenProperties
<1>2. PICK lengths \in [0 .. k -> 0 .. MaxLine] :
        /\ lengths[0] = n
        /\ \A i \in DOMAIN u : lengths[i] = LengthAfter(lengths[i - 1], u[i])
        /\ lengths[k] <= room
  BY DEF Fits
<1> HIDE DEF k, a
<1>3. MaxLine \in Nat /\ lengths[k] \in 0 .. MaxLine
  BY <1>1, <1>2, SizesAssumption
<1> DEFINE last == LengthAfter(lengths[k], ch)
           longer == [i \in 0 .. k + 1 |-> IF i = k + 1 THEN last ELSE lengths[i]]
<1>4. last \in 0 .. MaxLine
  <2> DEFINE m == lengths[k]
  <2>0. m \in Nat /\ last = LengthAfter(m, ch)
    BY <1>3
  <2> HIDE DEF m, last
  <2>1. last \in Nat /\ last <= m + 1 /\ (ch \notin Letters => last <= m)
    BY <2>0, Lengthened
  <2>2. QED BY <1>2, <1>3, <2>1 DEF m
<1> HIDE DEF last
<1>5. longer \in [0 .. k + 1 -> 0 .. MaxLine]
  <2>1. ASSUME NEW i \in 0 .. k + 1, i # k + 1 PROVE lengths[i] \in 0 .. MaxLine
    <3>1. i \in 0 .. k
      BY <1>1, <2>1
    <3>2. QED BY <1>2, <3>1
  <2>2. QED BY <1>4, <2>1
<1>6. longer[0] = n /\ longer[k + 1] = last
  BY <1>1, <1>2
<1>7. ASSUME NEW i \in DOMAIN a PROVE longer[i] = LengthAfter(longer[i - 1], a[i])
  <2>1. CASE i = k + 1
    <3>1. longer[i - 1] = lengths[k] /\ longer[i] = last /\ a[i] = ch
      BY <1>1, <2>1
    <3>2. QED BY <3>1 DEF last
  <2>2. CASE i # k + 1
    <3>1. i \in 1 .. k /\ i - 1 \in 0 .. k + 1 /\ i \in 0 .. k + 1 /\ i - 1 # k + 1
      BY <1>1, <2>2
    <3>2. longer[i - 1] = lengths[i - 1] /\ longer[i] = lengths[i] /\ a[i] = u[i]
      BY <1>1, <2>2, <3>1
    <3>3. QED BY <1>1, <1>2, <3>1, <3>2
  <2>3. QED BY <2>1, <2>2
<1> HIDE DEF longer
<1>8. longer[Len(a)] <= MaxLine
  BY <1>1, <1>3, <1>4, <1>6
<1>9. Fits(n, a, MaxLine)
  BY <1>1, <1>5, <1>6, <1>7, <1>8 DEF Fits
<1>10. QED BY <1>9 DEF a

\* A character is read.
LEMMA FitsTail ==
  ASSUME NEW n, NEW u \in Seq(Typable), u # <<>>, NEW room \in Int, Fits(n, u, room),
         NEW after, after = LengthAfter(n, u[1])
  PROVE  after \in 0 .. MaxLine /\ Fits(after, Tail(u), room)
<1> DEFINE k == Len(u)
           a == Tail(u)
<1>1. /\ a \in Seq(Typable) /\ Len(a) = k - 1 /\ DOMAIN a = 1 .. k - 1 /\ DOMAIN u = 1 .. k
      /\ k \in Nat /\ k > 0
      /\ \A i \in 1 .. k - 1 : a[i] = u[i + 1]
  <2>1. a \in Seq(Typable) /\ Len(a) = Len(u) - 1 /\ \A i \in 1 .. Len(a) : a[i] = u[i + 1]
    BY HeadTailProperties
  <2>2. k \in Nat /\ k > 0 /\ DOMAIN u = 1 .. k
    BY EmptySeq, LenProperties
  <2>3. DOMAIN a = 1 .. Len(a)
    BY <2>1, LenProperties
  <2>4. QED BY <2>1, <2>2, <2>3
<1>2. PICK lengths \in [0 .. k -> 0 .. MaxLine] :
        /\ lengths[0] = n
        /\ \A i \in DOMAIN u : lengths[i] = LengthAfter(lengths[i - 1], u[i])
        /\ lengths[k] <= room
  BY DEF Fits
<1> HIDE DEF k, a
<1> DEFINE shorter == [i \in 0 .. k - 1 |-> lengths[i + 1]]
<1>3. shorter \in [0 .. k - 1 -> 0 .. MaxLine]
  <2>1. ASSUME NEW i \in 0 .. k - 1 PROVE lengths[i + 1] \in 0 .. MaxLine
    <3>1. i + 1 \in 0 .. k
      BY <1>1
    <3>2. QED BY <1>2, <3>1
  <2>2. QED BY <2>1
<1>4. shorter[0] = after
  <2>1. shorter[0] = lengths[1] /\ 1 \in DOMAIN u /\ 1 - 1 = 0
    BY <1>1
  <2>2. QED BY <1>2, <2>1
<1>5. ASSUME NEW i \in DOMAIN a PROVE shorter[i] = LengthAfter(shorter[i - 1], a[i])
  <2> DEFINE j == i + 1
  <2>0. i \in 1 .. k - 1 /\ i \in Int /\ k \in Int /\ 1 <= i /\ i <= k - 1
    BY <1>1
  <2>1. /\ i \in 0 .. k - 1 /\ i - 1 \in 0 .. k - 1 /\ j \in 1 .. k
        /\ j - 1 = i /\ (i - 1) + 1 = i
    <3>1. i \in 0 .. k - 1 /\ i - 1 \in 0 .. k - 1
      BY ONLY <2>0
    <3>2. j \in 1 .. k /\ j - 1 = i /\ (i - 1) + 1 = i
      BY ONLY <2>0
    <3>3. QED BY <3>1, <3>2
  <2>2. shorter[i] = lengths[j] /\ shorter[i - 1] = lengths[i] /\ a[i] = u[j]
    BY <1>1, <2>0, <2>1
  <2> HIDE DEF j, shorter
  <2>3. lengths[j] = LengthAfter(lengths[j - 1], u[j])
    BY <1>1, <1>2, <2>1
  <2>4. QED BY <2>1, <2>2, <2>3
<1>6. shorter[Len(a)] <= room
  BY <1>1, <1>2
<1>7. 0 \in 0 .. k - 1
  BY <1>1
<1> HIDE DEF shorter
<1>8. after \in 0 .. MaxLine
  BY <1>3, <1>4, <1>7
<1>9. Fits(after, a, room)
  BY <1>1, <1>3, <1>4, <1>5, <1>6 DEF Fits
<1>10. QED BY <1>8, <1>9 DEF a

LEMMA RoomIs ==
  /\ MaxLine \in Nat /\ Room \in Int /\ Room <= MaxLine
  /\ sending = <<>> => Room = MaxLine
  /\ sending # <<>> /\ sending[1] # Code("letter") => Room = MaxLine
  /\ sending # <<>> /\ sending[1] = Code("letter") => Room = MaxLine - 1
BY SizesAssumption DEF Room

LEMMA NextRoom ==
  /\ sending' = <<>> => Room' = MaxLine
  /\ sending' # <<>> /\ sending'[1] # Code("letter") => Room' = MaxLine
  /\ sending' # <<>> /\ sending'[1] = Code("letter") => Room' = MaxLine - 1
BY DEF Room

\* Everybody but the reader leaves the line alone.
LEMMA SameLine ==
  ASSUME UNCHANGED reader
  PROVE  Length' = Length /\ (LineOK => LineOK')
BY DEF reader, Length, LineOK

LEMMA InitLInv == Init => LInv
<1> SUFFICES ASSUME Init PROVE LInv
  OBVIOUS
<1>1. LineOK
  BY DEF Init, LineOK, Blank, Chars
<1>2. Unread = <<>>
  <2>1. buf_head \in Cells /\ buf_tail \in Cells /\ kbd_buf \in [Cells -> Chars]
    BY InitKInv DEF KInv, RingOK
  <2>2. Queue(kbd_buf, buf_head, buf_tail) = <<>>
    BY <2>1, QueueSeq DEF Init
  <2>3. QED BY <2>2, UnreadIs
<1>3. Length = 0 /\ Room = MaxLine /\ 0 \in 0 .. MaxLine
  BY SizesAssumption DEF Init, Length, Room
<1>4. Fits(Length, Unread, Room)
  BY <1>2, <1>3, FitsEmpty
<1>5. Unread \in Seq(Typable)
  BY <1>2
<1>6. QED BY <1>1, <1>4, <1>5 DEF LInv

LEMMA PressLine ==
  ASSUME KInv, LInv, NEW key \in Keys, Press(key)
  PROVE  LInv'
<1>1. sending = <<>> /\ UNCHANGED reader /\ UNCHANGED <<kbd_buf, buf_head, buf_tail>>
  BY DEF Press, ring
<1>2. Unread' = Unread
  BY <1>1, UnreadIs
<1>3. sending' = Sent(key)
  BY DEF Press, Sent
<1>4. /\ sending' # <<>>
      /\ sending'[1] = IF key = "arrow" THEN Code("E0")
                       ELSE IF key = "pause" THEN Code("E1") ELSE Code(key)
  BY <1>3, KeyCodes
<1>5. sending'[1] = Code("letter") <=> key = "letter"
  <2> DEFINE name == IF key = "arrow" THEN "E0" ELSE IF key = "pause" THEN "E1" ELSE key
             code == sending'[1]
  <2>1. code = [key |-> name, up |-> FALSE]
    BY <1>4 DEF Code
  <2>2. name = "letter" <=> key = "letter"
    OBVIOUS
  <2> HIDE DEF code, name
  <2>3. code = Code("letter") <=> name = "letter"
    BY <2>1 DEF Code
  <2>4. QED BY <2>2, <2>3 DEF code
<1>6. Fits(Length, Unread, Room')
  <2>1. CASE key = "letter"
    <3>1. Room' = MaxLine - 1 /\ MaxLine \in Nat
      BY <1>4, <1>5, <2>1, NextRoom, RoomIs
    <3>2. PICK lengths \in [0 .. Len(Unread) -> 0 .. MaxLine] :
            LineLengths(lengths) /\ lengths[Len(Unread)] < MaxLine
      BY <2>1 DEF Press, RoomForLetter
    <3>3. /\ lengths[0] = Length
          /\ \A i \in DOMAIN Unread : lengths[i] = LengthAfter(lengths[i - 1], Unread[i])
      BY <3>2 DEF LineLengths, Length
    <3>4. Len(Unread) \in 0 .. Len(Unread)
      BY LenProperties DEF LInv
    <3>5. lengths[Len(Unread)] <= MaxLine - 1
      <4> DEFINE m == lengths[Len(Unread)]
      <4>1. m \in 0 .. MaxLine /\ m < MaxLine
        BY <3>2, <3>4
      <4> HIDE DEF m
      <4>2. m <= MaxLine - 1
        BY <3>1, <4>1
      <4>3. QED BY <4>2 DEF m
    <3>6. QED BY <3>1, <3>2, <3>3, <3>5 DEF Fits
  <2>2. CASE key # "letter"
    <3>1. Room' = MaxLine /\ Room = MaxLine
      BY <1>1, <1>4, <1>5, <2>2, NextRoom, RoomIs
    <3>2. QED BY <3>1 DEF LInv
  <2>3. QED BY <2>1, <2>2
<1>7. QED BY <1>1, <1>2, <1>6, SameLine DEF LInv

LEMMA ReleaseLine ==
  ASSUME KInv, LInv, ReleaseShift
  PROVE  LInv'
<1>1. sending = <<>> /\ UNCHANGED reader /\ UNCHANGED <<kbd_buf, buf_head, buf_tail>>
  BY DEF ReleaseShift, ring
<1>2. Unread' = Unread
  BY <1>1, UnreadIs
<1>3. sending' = <<Up("shift")>>
  BY DEF ReleaseShift, Codes, Up
<1>4. sending' # <<>> /\ sending'[1] # Code("letter")
  BY <1>3 DEF Up, Code
<1>5. Room' = MaxLine /\ Room = MaxLine
  BY <1>1, <1>4, NextRoom, RoomIs
<1>6. QED BY <1>1, <1>2, <1>5, SameLine DEF LInv

LEMMA InterruptLine ==
  ASSUME KInv, LInv, Interrupt
  PROVE  LInv'
<1>1. sending # <<>> /\ sending' = Tail(sending) /\ UNCHANGED reader
  BY DEF Interrupt
<1>2. Room' = MaxLine
  <2>1. sending' = <<>> \/ sending'[1] # Code("letter")
    BY <1>1, NextCode DEF KInv, FlagsOK
  <2>2. QED BY <2>1, NextRoom
<1>3. /\ Unread \in Seq(Typable) /\ Len(Unread) \in Nat
      /\ Fits(Length, Unread, Room)
      /\ Room \in Int /\ Room <= MaxLine /\ MaxLine \in Int
  BY RoomIs, LenProperties DEF LInv
<1>4. Fits(Length, Unread, MaxLine) /\ Length \in 0 .. MaxLine
  BY <1>3, FitsLess
<1>5. Unread' \in Seq(Typable) /\ Fits(Length, Unread', MaxLine)
  <2>1. CASE Unread' = Unread
    BY <1>3, <1>4, <2>1
  <2>2. CASE Unread' = <<>>
    <3>1. Fits(Length, <<>>, MaxLine)
      BY <1>4, FitsEmpty
    <3>2. QED BY <2>2, <3>1
  <2>3. ASSUME NEW ch \in Meant, Unread' = Append(Unread, ch)
        PROVE  Unread' \in Seq(Typable) /\ Fits(Length, Unread', MaxLine)
    <3>1. ch \in Typable
      BY DEF Meant, Typable, Letters
    <3>2. ch \in Letters => sending[1] = Code("letter")
      BY DEF Meant, Letters
    <3>3. ch \in Letters => Room < MaxLine
      BY <1>1, <3>2, RoomIs
    <3>4. Fits(Length, Append(Unread, ch), MaxLine)
      BY <1>3, <3>1, <3>3, FitsAppend
    <3>5. Append(Unread, ch) \in Seq(Typable)
      BY <1>3, <3>1, AppendProperties
    <3>6. QED BY <2>3, <3>4, <3>5
  <2>4. QED BY <2>1, <2>2, <2>3, InterruptStep DEF Taken
<1>6. QED BY <1>1, <1>2, <1>5, SameLine DEF LInv

\* A call of getkbd() goes on behind the line.
LEMMA ScansTo ==
  ASSUME LineOK, pc = "call"
  PROVE  /\ ScanTo(buf) = Len(text) /\ Len(text) \in 0 .. BUFSIZ - 2
         /\ buf[Len(text)] = NoChar
<1> DEFINE n == Len(text)
           stops == {i \in 0 .. BUFSIZ - 2 : buf[i] \in {NoChar, "newline"}}
<1>1. /\ text \in Seq(Letters) /\ n <= MaxLine /\ n \in Nat /\ BUFSIZ \in Nat /\ MaxLine \in Nat
      /\ MaxLine < BUFSIZ - 1
  BY SizesAssumption, LineAssumption, LenProperties DEF LineOK
<1>2. \A i \in Cells : buf[i] = IF i < n THEN text[i + 1] ELSE NoChar
  BY DEF LineOK
<1>3. n \in 0 .. BUFSIZ - 2 /\ n \in Cells
  BY <1>1 DEF Cells
<1>4. buf[n] = NoChar
  BY <1>1, <1>2, <1>3
<1>5. ASSUME NEW i \in 0 .. BUFSIZ - 2, i < n PROVE i \notin stops
  <2>1. i \in Cells /\ i + 1 \in 1 .. n
    BY <1>1, <1>5 DEF Cells
  <2>2. buf[i] = text[i + 1]
    BY <1>2, <1>5, <2>1
  <2>3. text[i + 1] \in Letters
    BY <1>1, <2>1, LenProperties
  <2>4. QED BY <2>2, <2>3 DEF Letters, NoChar
<1>6. n \in stops
  BY <1>3, <1>4
<1>7. stops # {} /\ stops \subseteq Int
  BY <1>6
<1>8. \A j \in stops : n <= j
  BY <1>1, <1>5
<1>9. ScanTo(buf) = CHOOSE i \in stops : \A j \in stops : i <= j
  BY <1>7 DEF ScanTo
<1>p. n \in Int
  BY <1>1
<1> HIDE DEF stops, n
<1>10. \A i \in stops : (\A j \in stops : i <= j) => i = n
  <2>1. ASSUME NEW i \in stops, \A j \in stops : i <= j PROVE i = n
    <3>1. i \in Int /\ i <= n /\ n <= i
      BY <1>6, <1>7, <1>8, <2>1
    <3>2. QED BY <1>p, <3>1
  <2>2. QED BY <2>1
<1>11. (CHOOSE i \in stops : \A j \in stops : i <= j) = n
  BY <1>6, <1>8, <1>10
<1>12. QED BY <1>3, <1>4, <1>9, <1>11 DEF n

\* The reader between its reads.
LEMMA QuietLine ==
  ASSUME LInv, Zero \/ CallGetkbd \/ ReadNone \/ Used
  PROVE  LInv'
<1>1. UNCHANGED <<kbd_buf, buf_head, buf_tail, sending>>
  BY DEF Zero, CallGetkbd, ReadNone, Used, ring, user
<1>2. Unread' = Unread /\ Room' = Room
  BY <1>1, UnreadIs DEF Room
<1>3. LineOK
  BY DEF LInv
<1>4. LineOK' /\ Length' = Length
  <2>1. CASE Zero
    <3>1. pc = "zero" /\ pc' = "call" /\ text' = <<>> /\ buf' = Blank
      BY <2>1 DEF Zero
    <3>2. Length' = Length
      BY <3>1 DEF Length
    <3>3. <<>> \in Seq(Letters) /\ Len(<<>>) = 0 /\ MaxLine \in Nat
      BY SizesAssumption
    <3>4. Blank \in [Cells -> Chars] /\ \A i \in Cells : Blank[i] = NoChar /\ ~(i < 0)
      BY DEF Blank, Chars, Cells
    <3>5. LineOK'
      BY <3>1, <3>3, <3>4 DEF LineOK
    <3>6. QED BY <3>2, <3>5
  <2>2. CASE CallGetkbd
    <3>1. pc = "call" /\ pc' = "read" /\ text' = text
      BY <2>2 DEF CallGetkbd
    <3>2. ScanTo(buf) = Len(text) /\ buf[Len(text)] = NoChar
      BY <1>3, <3>1, ScansTo
    <3>3. offset' = Len(text) /\ buf' = buf
      <4>1. ~(ScanTo(buf) < BUFSIZ - 1 /\ buf[ScanTo(buf)] = "newline")
        BY <3>2 DEF NoChar
      <4>2. QED BY <2>2, <3>2, <4>1 DEF CallGetkbd
    <3>4. QED BY <1>3, <3>1, <3>3 DEF LineOK, Length
  <2>3. CASE ReadNone
    BY <1>3, <2>3 DEF ReadNone, LineOK, Length
  <2>4. CASE Used
    BY <1>3, <2>4 DEF Used, LineOK, Length
  <2>5. QED BY <2>1, <2>2, <2>3, <2>4
<1>5. QED BY <1>2, <1>4 DEF LInv

\* The line after a character: typed is a line of n letters with the character.
Edited(line, ch, n, typed) ==
  /\ n \in Nat
  /\ ch # "backspace" =>
       /\ typed \in Seq(Typable) /\ Len(typed) = n + 1 /\ typed[n + 1] = ch
       /\ ch \in Letters => typed \in Seq(Letters)
       /\ \A i \in 1 .. n : typed[i] = line[i]
  /\ ch = "backspace" =>
       /\ typed \in Seq(Letters) /\ Len(typed) = IF n = 0 THEN 0 ELSE n - 1
       /\ \A i \in 1 .. n - 1 : typed[i] = line[i]

LEMMA TypedProps ==
  ASSUME NEW line \in Seq(Letters), NEW ch \in Typable
  PROVE  Edited(line, ch, Len(line), Typed(line, ch))
<1> DEFINE n == Len(line)
           typed == Typed(line, ch)
<1>1. /\ n \in Nat /\ line \in Seq(Typable) /\ n = Len(line)
      /\ \A i \in 1 .. n : line[i] \in Letters
  BY LenProperties DEF Typable
<1>t. typed = Typed(line, ch)
  OBVIOUS
<1> HIDE DEF n, typed
<1>2. ASSUME ch # "backspace" PROVE Edited(line, ch, n, typed)
  <2>1. typed = Append(line, ch)
    BY <1>2, <1>t DEF Typed
  <2>2. /\ typed \in Seq(Typable) /\ Len(typed) = n + 1 /\ typed[n + 1] = ch
        /\ \A i \in 1 .. n : typed[i] = line[i]
    BY <1>1, <2>1, AppendProperties
  <2>3. ch \in Letters => typed \in Seq(Letters)
    BY <2>1, AppendProperties
  <2>4. QED BY <1>1, <1>2, <2>2, <2>3 DEF Edited
<1>3. ASSUME ch = "backspace" /\ line = <<>> PROVE Edited(line, ch, n, typed)
  <2>1. typed = line /\ n = 0
    BY <1>1, <1>3, <1>t DEF Typed
  <2>2. QED BY <1>1, <1>3, <2>1 DEF Edited
<1>4. ASSUME ch = "backspace" /\ line # <<>> PROVE Edited(line, ch, n, typed)
  <2> DEFINE m == n - 1
  <2>1. typed = SubSeq(line, 1, m) /\ m \in Int /\ 1 <= m + 1 /\ n # 0
    BY <1>1, <1>4, <1>t, EmptySeq DEF Typed, Front
  <2>2. \A i \in 1 .. m : line[i] \in Letters
    BY <1>1
  <2> HIDE DEF m
  <2>3. /\ typed \in Seq(Letters) /\ Len(typed) = IF 1 <= m THEN (m - 1) + 1 ELSE 0
        /\ \A i \in 1 .. (m - 1) + 1 : typed[i] = line[(1 + i) - 1]
    BY <2>1, <2>2, SubSeqProperties
  <2>4. Len(typed) = m /\ \A i \in 1 .. m : typed[i] = line[i]
    BY <2>1, <2>3
  <2>5. QED BY <1>1, <1>4, <2>1, <2>3, <2>4 DEF m, Edited
<1>5. Edited(line, ch, n, typed)
  BY <1>2, <1>3, <1>4
<1>6. QED BY <1>5 DEF n, typed

\* A read takes the oldest character.
LEMMA ReadsFirst ==
  ASSUME KInv, Read
  PROVE  /\ Unread # <<>> /\ Unread' = Tail(Unread)
         /\ Unread[1] = kbd_buf[buf_head]
<1>1. buf_head # buf_tail
  BY DEF Read, isEmpty
<1>2. /\ buf_head \in Cells /\ buf_tail \in Cells /\ kbd_buf \in [Cells -> Chars]
  BY DEF KInv, RingOK
<1>3. Unread' = Tail(Unread)
  <2>1. /\ kbd_buf' = [kbd_buf EXCEPT ![buf_head] = NoChar]
        /\ buf_head' = (buf_head + 1) % BUFSIZ /\ buf_tail' = buf_tail
    BY DEF Read
  <2>2. QED BY <1>1, <1>2, <2>1, QueueRead, UnreadIs
<1>4. /\ Unread \in Seq(Chars) /\ Len(Unread) = (buf_tail - buf_head) % BUFSIZ /\ Unread # <<>>
  BY <1>1, <1>2, QueueSeq, UnreadIs
<1> DEFINE k == (buf_tail - buf_head) % BUFSIZ
<1>5. 1 \in 1 .. k
  <2>1. Len(Unread) \in Nat /\ Len(Unread) # 0
    BY <1>4, EmptySeq
  <2>2. k = Len(Unread)
    BY <1>4
  <2> HIDE DEF k
  <2>3. QED BY <2>1, <2>2
<1>6. Unread = [i \in 1 .. k |-> kbd_buf[(buf_head + i - 1) % BUFSIZ]]
  BY DEF Unread
<1> HIDE DEF k
<1>7. Unread[1] = kbd_buf[(buf_head + 1 - 1) % BUFSIZ]
  BY <1>5, <1>6
<1>8. (buf_head + 1 - 1) % BUFSIZ = buf_head
  <2> DEFINE x == buf_head
  <2>1. x \in Nat /\ x < 2 * BUFSIZ /\ x < BUFSIZ /\ BUFSIZ \in Nat \ {0} /\ buf_head + 1 - 1 = x
    BY <1>2, SizesAssumption, LineAssumption DEF Cells
  <2> HIDE DEF x
  <2>2. x % BUFSIZ = x
    BY <2>1, Wrap
  <2>3. QED BY <2>1, <2>2 DEF x
<1>9. QED BY <1>3, <1>4, <1>7, <1>8

\* A character is read and the line edited.
LEMMA ReadLine ==
  ASSUME KInv, LInv, Read
  PROVE  LInv'
<1> DEFINE ch == kbd_buf[buf_head]
           n == Len(text)
           typed == Typed(text, ch)
<1>1. /\ pc = "read" /\ Edit(ch) /\ pc' = IF ch = "newline" THEN "line" ELSE "read"
      /\ text' = typed /\ sending' = sending
  BY DEF Read, user
<1>2. /\ Unread # <<>> /\ Unread' = Tail(Unread) /\ Unread[1] = ch
      /\ Unread \in Seq(Typable) /\ Fits(Length, Unread, Room)
  BY ReadsFirst DEF LInv
<1>3. ch \in Typable /\ Tail(Unread) \in Seq(Typable)
  <2>1. 1 \in 1 .. Len(Unread)
    BY <1>2, EmptySeq
  <2>2. Unread[1] \in Typable
    BY <1>2, <2>1, LenProperties
  <2>3. QED BY <1>2, <2>2, HeadTailProperties
<1>4. /\ text \in Seq(Letters) /\ n <= MaxLine /\ offset = n
      /\ buf \in [Cells -> Chars]
      /\ \A i \in Cells : buf[i] = IF i < n THEN text[i + 1] ELSE NoChar
  BY <1>1 DEF LInv, LineOK
<1>5. Length = n
  BY <1>1 DEF Length
<1>6. LengthAfter(n, ch) \in 0 .. MaxLine /\ Fits(LengthAfter(n, ch), Tail(Unread), Room)
  BY <1>2, <1>5, RoomIs, FitsTail
<1>d. n = Len(text) /\ typed = Typed(text, ch)
  OBVIOUS
<1> HIDE DEF ch, typed, n
<1>7. /\ n \in Nat
      /\ ch # "backspace" =>
           /\ typed \in Seq(Typable) /\ Len(typed) = n + 1 /\ typed[n + 1] = ch
           /\ ch \in Letters => typed \in Seq(Letters)
           /\ \A i \in 1 .. n : typed[i] = text[i]
      /\ ch = "backspace" =>
           /\ typed \in Seq(Letters) /\ Len(typed) = IF n = 0 THEN 0 ELSE n - 1
           /\ \A i \in 1 .. n - 1 : typed[i] = text[i]
  <2>1. Edited(text, ch, n, typed)
    BY <1>3, <1>4, <1>d, TypedProps
  <2>2. QED BY <2>1 DEF Edited
<1>8. Room' = Room
  BY <1>1 DEF Room
<1>9. MaxLine \in Nat /\ BUFSIZ \in Nat /\ MaxLine < BUFSIZ - 1
  BY SizesAssumption, LineAssumption
<1>10. LineOK' /\ Length' = LengthAfter(n, ch)
  <2>1. CASE ch \in Letters
    <3>1. pc' = "read" /\ ch # "backspace" /\ ch # "newline"
      BY <1>1, <2>1 DEF Letters
    <3>2. n + 1 <= MaxLine /\ LengthAfter(n, ch) = n + 1
      BY <1>6, <1>7, <3>1 DEF LengthAfter
    <3>3. buf' = [buf EXCEPT ![n] = ch] /\ offset' = Clamped(n + 1)
      BY <1>1, <1>4, <3>1 DEF Edit
    <3>4. offset' = n + 1
      BY <1>7, <1>9, <3>2, <3>3 DEF Clamped
    <3>5. /\ typed \in Seq(Letters) /\ Len(typed) = n + 1 /\ typed[n + 1] = ch
          /\ \A i \in 1 .. n : typed[i] = text[i]
      BY <1>7, <2>1, <3>1
    <3>6. n \in Cells /\ ch \in Chars /\ buf' \in [Cells -> Chars]
      BY <1>4, <1>7, <1>9, <2>1, <3>3 DEF Cells, Chars, Letters
    <3>7. ASSUME NEW i \in Cells
          PROVE  buf'[i] = IF i < n + 1 THEN typed[i + 1] ELSE NoChar
      <4>0. i \in Nat
        BY DEF Cells
      <4>1. CASE i = n
        BY <1>4, <1>7, <3>3, <3>5, <3>6, <4>1
      <4>2. CASE i < n
        <5>1. i + 1 \in 1 .. n
          BY <1>7, <4>0, <4>2
        <5>2. buf'[i] = text[i + 1]
          BY <1>4, <1>7, <3>3, <4>0, <4>2
        <5>3. QED BY <1>7, <3>5, <4>0, <4>2, <5>1, <5>2
      <4>3. CASE i > n
        BY <1>4, <1>7, <3>3, <4>0, <4>3
      <4>4. QED BY <1>7, <4>0, <4>1, <4>2, <4>3
    <3>8. LineOK'
      BY <1>1, <3>1, <3>2, <3>4, <3>5, <3>6, <3>7 DEF LineOK
    <3>9. Length' = n + 1
      BY <1>1, <3>1, <3>5 DEF Length
    <3>10. QED BY <3>2, <3>8, <3>9
  <2>2. CASE ch = "newline"
    <3>1. pc' = "line" /\ buf' = [buf EXCEPT ![n] = ch]
      BY <1>1, <1>4, <2>2 DEF Edit
    <3>2. /\ typed \in Seq(Typable) /\ Len(typed) = n + 1 /\ typed[n + 1] = ch
          /\ \A i \in 1 .. n : typed[i] = text[i]
      BY <1>7, <2>2
    <3>3. n \in Cells /\ buf' \in [Cells -> Chars]
      BY <1>4, <1>7, <1>9, <2>2, <3>1 DEF Cells, Chars
    <3>4. ASSUME NEW i \in DOMAIN typed PROVE buf'[i - 1] = typed[i]
      <4>1. i \in 1 .. n + 1
        BY <3>2, LenProperties
      <4>2. CASE i = n + 1
        <5>1. i - 1 = n
          BY <1>7, <4>2
        <5>2. buf'[n] = ch
          BY <1>4, <3>1, <3>3
        <5>3. QED BY <3>2, <4>2, <5>1, <5>2
      <4>3. CASE i # n + 1
        <5> DEFINE j == i - 1
        <5>1. i \in 1 .. n /\ j \in Cells /\ j < n /\ j + 1 = i /\ j # n
          BY <1>4, <1>7, <1>9, <4>1, <4>3 DEF Cells
        <5> HIDE DEF j
        <5>2. buf'[j] = text[i]
          BY <1>4, <3>1, <5>1
        <5>3. QED BY <3>2, <5>1, <5>2 DEF j
      <4>4. QED BY <4>2, <4>3
    <3>5. LineOK'
      BY <1>1, <3>1, <3>3, <3>4 DEF LineOK
    <3>6. Length' = 0 /\ LengthAfter(n, ch) = 0
      BY <2>2, <3>1 DEF Length, LengthAfter
    <3>7. QED BY <3>5, <3>6
  <2>3. CASE ch = "backspace"
    <3>1. pc' = "read"
      BY <1>1, <2>3
    <3>2. /\ typed \in Seq(Letters) /\ Len(typed) = LengthAfter(n, ch)
          /\ LengthAfter(n, ch) = IF n = 0 THEN 0 ELSE n - 1
          /\ \A i \in 1 .. n - 1 : typed[i] = text[i]
      BY <1>7, <2>3 DEF LengthAfter
    <3>3. Length' = LengthAfter(n, ch)
      BY <1>1, <3>1, <3>2 DEF Length
    <3>4. CASE n = 0
      <4>1. buf' = buf /\ offset' = n
        BY <1>1, <1>4, <2>3, <3>4 DEF Edit
      <4>2. ASSUME NEW i \in Cells
            PROVE  buf'[i] = IF i < 0 THEN typed[i + 1] ELSE NoChar
        <5>1. ~(i < 0) /\ ~(i < n)
          BY <3>4 DEF Cells
        <5>2. QED BY <1>4, <4>1, <5>1
      <4>3. QED BY <1>1, <1>4, <1>9, <3>1, <3>2, <3>3, <3>4, <4>1, <4>2 DEF LineOK
    <3>5. CASE n # 0
      <4> DEFINE m == n - 1
      <4>1. m \in Nat /\ m + 1 = n /\ m < BUFSIZ - 1 /\ m \in Cells /\ m <= MaxLine
        BY <1>4, <1>7, <1>9, <3>5 DEF Cells
      <4>2. buf' = [buf EXCEPT ![m] = NoChar] /\ offset' = Clamped(m)
        BY <1>1, <1>4, <2>3, <3>5 DEF Edit
      <4>3. Len(typed) = m /\ \A i \in 1 .. m : typed[i] = text[i]
        BY <3>2, <3>5
      <4> HIDE DEF m
      <4>4. offset' = m
        BY <1>9, <4>1, <4>2 DEF Clamped
      <4>5. buf' \in [Cells -> Chars]
        BY <1>4, <4>1, <4>2 DEF Chars
      <4>6. ASSUME NEW i \in Cells
            PROVE  buf'[i] = IF i < m THEN typed[i + 1] ELSE NoChar
        <5>0. i \in Nat
          BY DEF Cells
        <5>1. CASE i = m
          BY <1>4, <4>1, <4>2, <5>1
        <5>2. CASE i < m
          <6>1. i + 1 \in 1 .. m /\ i < n /\ i # m
            BY <4>1, <5>0, <5>2
          <6>2. buf'[i] = text[i + 1]
            BY <1>4, <4>2, <6>1
          <6>3. QED BY <4>3, <5>2, <6>1, <6>2
        <5>3. CASE i > m
          <6>1. ~(i < m) /\ ~(i < n) /\ i # m
            BY <4>1, <5>0, <5>3
          <6>2. QED BY <1>4, <4>2, <6>1
        <5>4. QED BY <4>1, <5>0, <5>1, <5>2, <5>3
      <4>7. LineOK'
        BY <1>1, <3>1, <3>2, <4>1, <4>3, <4>4, <4>5, <4>6 DEF LineOK
      <4>8. QED BY <3>3, <4>7
    <3>6. QED BY <3>4, <3>5
  <2>4. QED BY <1>3, <2>1, <2>2, <2>3 DEF Typable
<1>11. QED BY <1>2, <1>3, <1>6, <1>8, <1>10 DEF LInv

\* Every step keeps LInv.
LEMMA NextLine ==
  ASSUME KInv, LInv, [Next]_vars
  PROVE  LInv'
<1>1. CASE UNCHANGED vars
  <2>1. UNCHANGED reader /\ UNCHANGED <<kbd_buf, buf_head, buf_tail, sending>>
    BY <1>1 DEF vars, ring, user
  <2>2. Unread' = Unread /\ Room' = Room
    BY <2>1, UnreadIs DEF Room
  <2>3. QED BY <2>1, <2>2, SameLine DEF LInv
<1>2. QED BY <1>1, QuietLine, ReadLine, InterruptLine, PressLine, ReleaseLine DEF Next, Reader

-----------------------------------------------------------------------------
(* The theorems.                                                           *)

\* Whatever is still to come of a key, the driver's flags are right for it, and
\* the ring's indices stay in the ring (kbd_handler(), UpdateKeyStat()).
THEOREM KeyboardInvariance == Spec => []KInv
<1>1. KInv /\ [Next]_vars => KInv'
  BY NextKeys
<1>2. QED BY <1>1, InitKInv, PTL DEF Spec

\* A ring that is not full is a queue of the characters that the user meant,
\* whatever the interrupts and the reads do to it in between
\* (ConvertScancodeToASCII(), kbd_handler(), kbd_read_char()).
THEOREM RingIsQueue == Spec => KeysKept
<1>1. KInv /\ [Next]_vars => [Kept]_vars
  BY NextKeys
<1>2. QED BY <1>1, KeyboardInvariance, PTL DEF Spec, KeysKept, Kept

\* No character of a line is lost, kept or put elsewhere by the calls that find half
\* of it, the backspaces and the interrupts in between (getkbd(), ssuread()).
THEOREM LinesAreTyped == Spec => []LineIsTyped
<1>1. LInv => LineIsTyped
  <2>1. SUFFICES ASSUME LineOK, pc \in {"call", "line"} PROVE LineIsTyped
    BY DEF LInv, LineIsTyped
  <2>2. CASE pc = "line"
    BY <2>1, <2>2 DEF LineOK, LineIsTyped
  <2>3. CASE pc = "call"
    <3> DEFINE n == Len(text)
    <3>1. /\ text \in Seq(Letters) /\ n \in Nat /\ n < BUFSIZ - 1 /\ BUFSIZ \in Nat
          /\ DOMAIN text = 1 .. n
      BY <2>1, <2>3, ScansTo, LenProperties, SizesAssumption, LineAssumption DEF LineOK
    <3>2. \A i \in Cells : buf[i] = IF i < n THEN text[i + 1] ELSE NoChar
      BY <2>1, <2>3 DEF LineOK
    <3> HIDE DEF n
    <3>3. ASSUME NEW i \in DOMAIN text PROVE buf[i - 1] = text[i]
      <4> DEFINE j == i - 1
      <4>1. j \in Cells /\ j < n /\ j + 1 = i
        BY <3>1 DEF Cells
      <4> HIDE DEF j
      <4>2. buf[j] = text[i]
        BY <3>2, <4>1
      <4>3. QED BY <4>2 DEF j
    <3>4. ASSUME NEW i \in Cells, i >= n PROVE buf[i] = NoChar
      <4>1. ~(i < n)
        BY <3>1, <3>4 DEF Cells
      <4>2. QED BY <3>2, <4>1
    <3>5. QED BY <3>3, <3>4 DEF LineIsTyped, n
  <2>4. QED BY <2>1, <2>2, <2>3
<1>2. KInv /\ LInv /\ [Next]_vars => LInv'
  BY NextLine
<1>3. Spec => []LInv
  BY <1>2, InitLInv, KeyboardInvariance, PTL DEF Spec
<1>4. QED BY <1>1, <1>3, PTL
=============================================================================
