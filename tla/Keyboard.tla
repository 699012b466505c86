------------------------------ MODULE Keyboard ------------------------------
(***************************************************************************)
(* From the keyboard to a line of input in SSUOS_P3: the interrupt handler *)
(* with its ring of characters (device/kbd.c), the system call ssuread()   *)
(* and the line editing of getkbd() (ssulib.c) as the shell calls it.      *)
(*                                                                         *)
(* The keyboard sends one scan code at a time and may do so between any    *)
(* two steps of the reader.  A system call runs with interrupts off, and   *)
(* what getkbd() does with a character touches only the line, so reading a *)
(* character and editing with it are one step.                             *)
(*                                                                         *)
(* One letter key stands for all, and scan codes are named by their keys:  *)
(* a code is its name and whether the key goes up.                         *)
(***************************************************************************)
EXTENDS Integers, SequencesExt

CONSTANTS
  BUFSIZ,     \* size of the ring and of the line
  MaxLine     \* bound: letters of a line; more would meet the end of the line

ASSUME SizesAssumption == BUFSIZ \in Nat /\ MaxLine \in Nat
ASSUME LineAssumption == BUFSIZ > 2 /\ MaxLine < BUFSIZ - 1

VARIABLES
  \* device/kbd.c
  kbd_buf, buf_head, buf_tail,
  KStat,      \* ShiftFlag, CapslockFlag, ExtentedFlag, PauseFlag
  \* getkbd() and its caller
  pc,         \* "zero", "call", "read" or "line": a complete line is in buf
  buf,        \* the line, 0 where nothing is
  offset,
  \* the user and the keyboard
  sending,    \* codes of the key just pressed or released that are still to come
  held,       \* whether the shift key is down
  locked,     \* whether caps lock is on
  \* history
  text,       \* what a line editor makes of the characters read for the line
  wrapped     \* whether the last character made the ring wrap onto its head

ring == <<kbd_buf, buf_head, buf_tail>>
reader == <<pc, buf, offset, text>>
user == <<sending, held, locked>>
vars == <<ring, KStat, reader, user, wrapped>>

Cells == 0 .. BUFSIZ - 1
NoChar == "0"
Blank == [i \in Cells |-> NoChar]

\* C's remainder has the sign of the dividend.
CRem(x, n) == IF x < 0 THEN -((-x) % n) ELSE x % n

Code(key) == [key |-> key, up |-> FALSE]
Up(key) == [key |-> key, up |-> TRUE]

-----------------------------------------------------------------------------
(* The keyboard interrupt.                                                 *)

isFull == CRem(buf_head - 1, BUFSIZ) = buf_tail

\* Variant: the last character is taken for none.
isEmptyEarly == buf_head = buf_tail \/ (buf_head + 1) % BUFSIZ = buf_tail

isEmpty == buf_head = buf_tail

\* Kbd_Map, the table of both flags down to the plain one; NoChar for keys without.
Kbd_Map(key) ==
  CASE key = "letter" -> IF KStat.ShiftFlag = KStat.CapslockFlag THEN "lower" ELSE "upper"
    [] key = "enter" -> IF KStat.ShiftFlag THEN NoChar ELSE "newline"
    [] key = "backspace" -> "backspace"
    [] OTHER -> NoChar

\* ConvertScancodeToASCII: the character of a code as a set, empty when it returns FALSE.
\* A code after E0 is returned as it is, and the handler uses it to scroll.
Converted(code) ==
  IF KStat.PauseFlag > 0 \/ code.up \/ code.key \in {"E0", "E1"} \/ KStat.ExtentedFlag
  THEN {} ELSE {Kbd_Map(code.key)}

PauseFlagAfter(code) ==
  IF KStat.PauseFlag > 0 THEN KStat.PauseFlag - 1
  ELSE IF code.key = "E1" /\ ~KStat.ExtentedFlag THEN 2 ELSE 0

\* Variant: a code after E0 does not end the extended key.
KStatAfterSticky(code) ==
  [ShiftFlag |-> IF code.key = "shift" THEN ~code.up ELSE KStat.ShiftFlag,
   CapslockFlag |-> (code = Code("caps")) # KStat.CapslockFlag,
   ExtentedFlag |-> code.key = "E0" \/ KStat.ExtentedFlag,
   PauseFlag |-> PauseFlagAfter(code)]

\* UpdateKeyStat, with the PauseFlag left by the conversion.
KStatAfter(code) ==
  [ShiftFlag |-> IF code.key = "shift" THEN ~code.up ELSE KStat.ShiftFlag,
   CapslockFlag |-> (code = Code("caps")) # KStat.CapslockFlag,
   ExtentedFlag |-> code.key = "E0",
   PauseFlag |-> PauseFlagAfter(code)]

\* The character at the tail.  The model empties a cell that nobody will read again:
\* one that was read, and all of them when the tail arrives at the head.
Stored(ch) ==
  /\ buf_tail' = (buf_tail + 1) % BUFSIZ
  /\ wrapped' = (buf_tail' = buf_head)
  /\ kbd_buf' = IF wrapped' THEN Blank ELSE [kbd_buf EXCEPT ![buf_tail] = ch]
  /\ UNCHANGED buf_head

\* kbd_handler, called with the next code; it drops what does not fit.
kbd_handler(code) ==
  LET typed == Converted(code) \ {NoChar}
  IN  /\ KStat' = KStatAfter(code)
      /\ \/ ~isFull /\ \E ch \in typed : Stored(ch)
         \/ (isFull \/ typed = {}) /\ UNCHANGED <<ring, wrapped>>

-----------------------------------------------------------------------------
(* The user.                                                               *)

Unread == [i \in 1 .. (buf_tail - buf_head) % BUFSIZ |-> kbd_buf[(buf_head + i - 1) % BUFSIZ]]

\* What a line editor makes of a line and a character.
Typed(line, ch) ==
  IF ch # "backspace" THEN Append(line, ch) ELSE IF line = <<>> THEN line ELSE Front(line)

\* The length of the unfinished line after a character.
LengthAfter(n, ch) ==
  CASE ch = "newline" -> 0 [] ch = "backspace" -> IF n = 0 THEN 0 ELSE n - 1 [] OTHER -> n + 1

\* lengths[i] is the length of the unfinished line after the first i unread characters.
LineLengths(lengths) ==
  /\ lengths[0] = IF pc \in {"zero", "line"} THEN 0 ELSE Len(text)
  /\ \A i \in DOMAIN Unread : lengths[i] = LengthAfter(lengths[i - 1], Unread[i])

RoomForLetter ==
  \E lengths \in [0 .. Len(Unread) -> 0 .. MaxLine] :
    LineLengths(lengths) /\ lengths[Len(Unread)] < MaxLine

\* The codes of a key that goes down or up.
Codes(key, up) ==
  CASE key = "arrow" -> <<Code("E0"), [key |-> key, up |-> up]>>
    [] key = "pause" -> IF up THEN <<>> ELSE
         <<Code("E1"), Code("ctrl"), Code("numlock"), Code("E1"), Up("ctrl"), Up("numlock")>>
    [] OTHER -> <<[key |-> key, up |-> up]>>

Keys == {"letter", "enter", "backspace", "shift", "caps", "arrow", "pause"}

\* Only the shift key is held while others are pressed.
Press(key) ==
  /\ sending = <<>>
  /\ key = "shift" => ~held
  /\ key = "letter" => RoomForLetter
  /\ sending' = Codes(key, FALSE) \o IF key = "shift" THEN <<>> ELSE Codes(key, TRUE)
  /\ held' = (held \/ key = "shift")
  /\ locked' = ((key = "caps") # locked)
  /\ UNCHANGED <<ring, KStat, reader, wrapped>>

ReleaseShift ==
  /\ sending = <<>> /\ held
  /\ sending' = Codes("shift", TRUE)
  /\ held' = FALSE
  /\ UNCHANGED <<ring, KStat, reader, locked, wrapped>>

Interrupt ==
  /\ sending # <<>>
  /\ kbd_handler(Head(sending))
  /\ sending' = Tail(sending)
  /\ UNCHANGED <<reader, held, locked>>

-----------------------------------------------------------------------------
(* The reader.                                                             *)

\* The shell clears the line ...
Zero ==
  /\ pc = "zero"
  /\ buf' = Blank /\ pc' = "call" /\ text' = <<>>
  /\ UNCHANGED <<ring, KStat, offset, user, wrapped>>

\* Variant: every call starts the line again.
ScanToStart(line) == 0

\* ... and calls getkbd() until it returns FALSE.  A call goes on where the line ends,
\* or starts again if the line is complete (the shell never asks for that).
ScanTo(line) ==
  LET stops == {i \in 0 .. BUFSIZ - 2 : line[i] \in {NoChar, "newline"}}
  IN IF stops = {} THEN BUFSIZ - 1 ELSE CHOOSE i \in stops : \A j \in stops : i <= j

CallGetkbd ==
  /\ pc = "call"
  /\ LET stop == ScanTo(buf)
         again == stop < BUFSIZ - 1 /\ buf[stop] = "newline"
     IN  /\ offset' = IF again THEN 0 ELSE stop
         /\ buf' = IF again THEN [i \in Cells |-> IF i <= stop THEN NoChar ELSE buf[i]] ELSE buf
  /\ pc' = "read"
  /\ UNCHANGED <<ring, KStat, text, user, wrapped>>

\* The line and the offset after a character; at its end the offset goes back by one.
Clamped(o) == IF o = BUFSIZ - 1 THEN o - 1 ELSE o

Edit(ch) ==
  CASE ch = "backspace" -> IF offset = 0 THEN UNCHANGED <<buf, offset>>
                           ELSE buf' = [buf EXCEPT ![offset - 1] = NoChar] /\ offset' = Clamped(offset - 1)
    [] ch = "newline" -> buf' = [buf EXCEPT ![offset] = ch] /\ UNCHANGED offset
    [] OTHER -> buf' = [buf EXCEPT ![offset] = ch] /\ offset' = Clamped(offset + 1)

\* ssuread(), kbd_read_char().
Read ==
  /\ pc = "read" /\ ~isEmpty
  /\ LET ch == kbd_buf[buf_head]
     IN  /\ Edit(ch)
         /\ pc' = IF ch = "newline" THEN "line" ELSE "read"
         /\ text' = Typed(text, ch)
  /\ kbd_buf' = [kbd_buf EXCEPT ![buf_head] = NoChar]
  /\ buf_head' = (buf_head + 1) % BUFSIZ
  /\ UNCHANGED <<buf_tail, KStat, user, wrapped>>

\* Nothing to read: getkbd() returns TRUE and is called again.
ReadNone ==
  /\ pc = "read" /\ isEmpty
  /\ pc' = "call"
  /\ UNCHANGED <<ring, KStat, buf, offset, text, user, wrapped>>

\* The shell has used the line.
Used ==
  /\ pc = "line"
  /\ pc' = "zero"
  /\ UNCHANGED <<ring, KStat, buf, offset, text, user, wrapped>>

-----------------------------------------------------------------------------

Init ==
  /\ kbd_buf = Blank /\ buf_head = 0 /\ buf_tail = 0
  /\ KStat = [ShiftFlag |-> FALSE, CapslockFlag |-> FALSE, ExtentedFlag |-> FALSE, PauseFlag |-> 0]
  /\ pc = "zero" /\ buf = Blank /\ offset = 0 /\ text = <<>>
  /\ sending = <<>> /\ held = FALSE /\ locked = FALSE
  /\ wrapped = FALSE

Reader == Zero \/ CallGetkbd \/ Read \/ ReadNone \/ Used

Next == Reader \/ Interrupt \/ ReleaseShift \/ \E key \in Keys : Press(key)

\* The shell is scheduled again and again (FifoService); nobody has to type.
Spec == Init /\ [][Next]_vars /\ WF_vars(Reader)

-----------------------------------------------------------------------------
(* Properties.                                                             *)

\* The character the user means by the next code, as a set.
Meant ==
  CASE sending[1] = Code("letter") -> {IF held = locked THEN "lower" ELSE "upper"}
    [] sending[1] = Code("enter") -> IF held THEN {} ELSE {"newline"}
    [] sending[1] = Code("backspace") -> {"backspace"}
    [] OTHER -> {}

\* The ring is a queue between interrupts and system calls: a key adds the character
\* that shift and caps lock say, a read takes the oldest, and no other step, code of
\* an extended key or code of the pause key changes what is unread, unless the ring
\* holds all it can when a key comes.
KeysKept ==
  [][\/ Unread' = Unread /\ (sending = <<>> \/ sending' = sending \/ Meant = {})
     \/ sending # <<>> /\ \E ch \in Meant : Unread' = Append(Unread, ch)
     \/ sending' = sending /\ Unread # <<>> /\ Unread' = Tail(Unread)
     \/ Len(Unread) = BUFSIZ - 1]_vars

\* The line getkbd() completes is what a line editor makes of the keys, however many
\* calls it took and wherever the interrupts came, and so is a partial line when a call
\* goes on with it.
LineIsTyped ==
  pc \in {"call", "line"} =>
    /\ \A i \in DOMAIN text : buf[i - 1] = text[i]
    /\ pc = "call" => \A i \in Cells : i >= Len(text) => buf[i] = NoChar

\* A newline that is in the ring completes a line unless the ring wraps: no order of
\* interrupts, calls that find nothing and lines that are cleared loses or skips it.
LinesEnd == (\E i \in DOMAIN Unread : Unread[i] = "newline") ~> (pc = "line" \/ wrapped)
=============================================================================
