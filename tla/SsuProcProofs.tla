--------------------------- MODULE SsuProcProofs ---------------------------
(***************************************************************************)
(* Theorems about SsuProc for every number of slots, slice length and set  *)
(* of commands: IInv is inductive, and the safety properties and the FIFO  *)
(* order of RunQueue follow from it; ShellInv and ReapInv, inductive with  *)
(* it, give the shell's handshake and a slot for every fork.               *)
(***************************************************************************)
EXTENDS SsuProc, SequenceTheorems, TLAPS

(* Lists.                                                                  *)

\* Unlinking an element that is not linked changes nothing.
LEMMA UnlinkAbsent ==
  ASSUME NEW q, NEW p, p \notin Members(q)
  PROVE  Unlink(q, p) = q
BY DEF Unlink

\* Appending an element that is not in the list.
LEMMA AppendProps ==
  ASSUME NEW S, NEW q \in Seq(S), NEW p \in S, p \notin Members(q), Distinct(q)
  PROVE  /\ Append(q, p) \in Seq(S)
         /\ Distinct(Append(q, p))
         /\ Members(Append(q, p)) = Members(q) \cup {p}
         /\ Append(q, p) # <<>>
         /\ Head(Append(q, p)) = IF q = <<>> THEN p ELSE Head(q)
<1>1. /\ Append(q, p) \in Seq(S)
      /\ Append(q, p) # <<>>
      /\ Len(Append(q, p)) = Len(q) + 1
  BY AppendProperties
<1>2. /\ \A i \in DOMAIN q : Append(q, p)[i] = q[i]
      /\ Append(q, p)[Len(q) + 1] = p
  OBVIOUS
<1>3. /\ DOMAIN q = 1 .. Len(q)
      /\ DOMAIN Append(q, p) = 1 .. Len(q) + 1
      /\ Len(q) \in Nat
  BY <1>1
<1>4. Distinct(Append(q, p))
  BY <1>2, <1>3 DEF Distinct, Members
<1>5. Members(Append(q, p)) = Members(q) \cup {p}
  BY <1>2, <1>3 DEF Members
<1>6. Head(Append(q, p)) = IF q = <<>> THEN p ELSE Head(q)
  BY HeadTailAppend
<1>7. QED BY <1>1, <1>4, <1>5, <1>6

\* Taking the head off a list without duplicates.
LEMMA TailProps ==
  ASSUME NEW S, NEW q \in Seq(S), q # <<>>, Distinct(q)
  PROVE  /\ Tail(q) \in Seq(S)
         /\ Distinct(Tail(q))
         /\ Members(Tail(q)) = Members(q) \ {Head(q)}
         /\ Head(q) \in Members(q)
         /\ Head(q) \in S
<1>1. /\ Tail(q) \in Seq(S)
      /\ Len(q) \in Nat
      /\ Len(q) >= 1
      /\ Len(Tail(q)) = Len(q) - 1
      /\ \A i \in 1 .. Len(q) - 1 : Tail(q)[i] = q[i + 1]
      /\ Head(q) = q[1]
  OBVIOUS
<1>2. DOMAIN q = 1 .. Len(q) /\ DOMAIN Tail(q) = 1 .. Len(q) - 1
  BY <1>1
<1>3. Distinct(Tail(q))
  BY <1>1, <1>2 DEF Distinct
<1>4. Head(q) \in Members(q)
  BY <1>1, <1>2 DEF Members
<1>5. Members(Tail(q)) \subseteq Members(q) \ {Head(q)}
  BY <1>1, <1>2 DEF Members, Distinct
<1>6. ASSUME NEW x \in Members(q) \ {Head(q)}
      PROVE  x \in Members(Tail(q))
  <2>1. PICK i \in 1 .. Len(q) : x = q[i]
    BY <1>2 DEF Members
  <2>2. i # 1
    BY <1>1, <2>1
  <2>3. i - 1 \in 1 .. Len(q) - 1 /\ Tail(q)[i - 1] = q[i]
    BY <1>1, <2>1, <2>2
  <2>4. QED BY <1>2, <2>1, <2>3 DEF Members
<1>7. QED BY <1>1, <1>3, <1>4, <1>5, <1>6

\* Unlinking an element from anywhere in a list without duplicates.
LEMMA UnlinkProps ==
  ASSUME NEW S, NEW q \in Seq(S), NEW p \in S, Distinct(q)
  PROVE  /\ Unlink(q, p) \in Seq(S)
         /\ Distinct(Unlink(q, p))
         /\ Members(Unlink(q, p)) = Members(q) \ {p}
<1>1. CASE p \notin Members(q)
  BY <1>1, UnlinkAbsent
<1>2. CASE p \in Members(q)
  <2> DEFINE at == CHOOSE i \in DOMAIN q : q[i] = p
             r == SubSeq(q, 1, at - 1) \o SubSeq(q, at + 1, Len(q))
  <2>1. DOMAIN q = 1 .. Len(q) /\ Len(q) \in Nat
    OBVIOUS
  <2>2. at \in 1 .. Len(q) /\ q[at] = p
    BY <1>2, <2>1 DEF Members
  <2> HIDE DEF at
  <2> DEFINE front == SubSeq(q, 1, at - 1)
             back == SubSeq(q, at + 1, Len(q))
  <2>3. /\ front \in Seq(S)
        /\ Len(front) = at - 1
        /\ \A i \in 1 .. at - 1 : front[i] = q[i]
    <3>1. 1 \in Int /\ at - 1 \in Int /\ \A i \in 1 .. at - 1 : q[i] \in S
      BY <2>1, <2>2
    <3>2. /\ front \in Seq(S)
          /\ Len(front) = IF 1 <= at - 1 THEN at - 1 - 1 + 1 ELSE 0
          /\ \A i \in 1 .. at - 1 - 1 + 1 : front[i] = q[1 + i - 1]
      BY <3>1, SubSeqProperties
    <3> HIDE DEF front
    <3>3. QED BY <2>1, <2>2, <3>2
  <2>4. /\ back \in Seq(S)
        /\ Len(back) = Len(q) - at
        /\ \A i \in 1 .. Len(q) - at : back[i] = q[i + at]
    <3>1. /\ at + 1 \in Int /\ Len(q) \in Int
          /\ \A i \in at + 1 .. Len(q) : q[i] \in S
      BY <2>1, <2>2
    <3>2. /\ back \in Seq(S)
          /\ Len(back) = IF at + 1 <= Len(q) THEN Len(q) - (at + 1) + 1 ELSE 0
          /\ \A i \in 1 .. Len(q) - (at + 1) + 1 : back[i] = q[at + 1 + i - 1]
      BY <3>1, SubSeqProperties
    <3> HIDE DEF back
    <3>3. Len(back) = Len(q) - at
      <4>1. \A n \in Nat : \A k \in 1 .. n :
              (IF k + 1 <= n THEN n - (k + 1) + 1 ELSE 0) = n - k
        OBVIOUS
      <4>2. (IF at + 1 <= Len(q) THEN Len(q) - (at + 1) + 1 ELSE 0) = Len(q) - at
        BY <2>1, <2>2, <4>1
      <4>3. QED BY <3>2, <4>2
    <3>4. ASSUME NEW i \in 1 .. Len(q) - at PROVE back[i] = q[i + at]
      <4>1. i \in 1 .. Len(q) - (at + 1) + 1 /\ at + 1 + i - 1 = i + at
        BY <2>1, <2>2
      <4>2. back[i] = q[at + 1 + i - 1]
        BY <3>2, <4>1
      <4>3. QED BY <4>1, <4>2
    <3>5. QED BY <3>2, <3>3, <3>4
  <2>5. r = front \o back
    OBVIOUS
  <2> HIDE DEF front, back, r
  <2>6. /\ r \in Seq(S)
        /\ Len(r) = Len(q) - 1
        /\ DOMAIN r = 1 .. Len(q) - 1
        /\ \A i \in 1 .. Len(q) - 1 : r[i] = IF i < at THEN q[i] ELSE q[i + 1]
    <3>1. /\ r \in Seq(S)
          /\ Len(r) = Len(front) + Len(back)
          /\ \A i \in 1 .. Len(front) + Len(back) :
               r[i] = IF i <= Len(front) THEN front[i] ELSE back[i - Len(front)]
      BY <2>3, <2>4, <2>5, ConcatProperties
    <3>2. Len(r) = Len(q) - 1
      BY <2>1, <2>2, <2>3, <2>4, <3>1
    <3>3. DOMAIN r = 1 .. Len(q) - 1
      BY <3>1, <3>2
    <3>4. ASSUME NEW i \in 1 .. Len(q) - 1
          PROVE  r[i] = IF i < at THEN q[i] ELSE q[i + 1]
      <4>1. r[i] = IF i <= at - 1 THEN front[i] ELSE back[i - (at - 1)]
        BY <2>1, <2>2, <2>3, <2>4, <3>1
      <4>2. CASE i < at
        BY <2>2, <2>3, <4>1, <4>2
      <4>3. CASE ~(i < at)
        <5>1. /\ i - (at - 1) \in 1 .. Len(q) - at
              /\ i - (at - 1) + at = i + 1
              /\ ~(i <= at - 1)
          BY <2>1, <2>2, <4>3
        <5>2. back[i - (at - 1)] = q[i - (at - 1) + at]
          BY <2>4, <5>1
        <5>3. QED BY <4>1, <4>3, <5>1, <5>2
      <4>4. QED BY <4>2, <4>3
    <3>5. QED BY <3>1, <3>2, <3>3, <3>4
  <2>7. Distinct(r)
    <3> SUFFICES ASSUME NEW i \in 1 .. Len(q) - 1, NEW j \in 1 .. Len(q) - 1,
                        r[i] = r[j]
                 PROVE  i = j
      BY <2>6 DEF Distinct
    <3> DEFINE skip(k) == IF k < at THEN k ELSE k + 1
    <3>1. /\ skip(i) \in DOMAIN q /\ skip(j) \in DOMAIN q
          /\ skip(i) = skip(j) => i = j
      BY <2>1, <2>2
    <3>2. r[i] = q[skip(i)] /\ r[j] = q[skip(j)]
      BY <2>6
    <3> HIDE DEF skip
    <3>3. QED BY <3>1, <3>2 DEF Distinct
  <2>8. Members(r) \subseteq Members(q) \ {p}
    BY <2>1, <2>2, <2>6 DEF Members, Distinct
  <2>9. ASSUME NEW x \in Members(q) \ {p} PROVE x \in Members(r)
    <3>1. PICK i \in 1 .. Len(q) : x = q[i]
      BY <2>1 DEF Members
    <3>2. CASE i < at
      <4>1. i \in 1 .. Len(q) - 1 /\ r[i] = q[i]
        BY <2>1, <2>2, <2>6, <3>1, <3>2
      <4>2. QED BY <2>6, <3>1, <4>1 DEF Members
    <3>3. CASE i > at
      <4>1. i - 1 \in 1 .. Len(q) - 1 /\ r[i - 1] = q[i]
        BY <2>1, <2>2, <2>6, <3>1, <3>3
      <4>2. QED BY <2>6, <3>1, <4>1 DEF Members
    <3>4. QED BY <2>1, <2>2, <3>1, <3>2, <3>3
  <2>10. Unlink(q, p) = r
    BY <1>2 DEF Unlink, r, at
  <2>11. QED BY <2>6, <2>7, <2>8, <2>9, <2>10
<1>3. QED BY <1>1, <1>2

\* Unlinking the head is taking the tail.
LEMMA UnlinkHead ==
  ASSUME NEW S, NEW q \in Seq(S), q # <<>>, Distinct(q)
  PROVE  Unlink(q, Head(q)) = Tail(q)
<1>1. /\ DOMAIN q = 1 .. Len(q) /\ Len(q) \in Nat /\ Len(q) >= 1
      /\ Head(q) = q[1]
  OBVIOUS
<1>2. Head(q) \in Members(q)
  BY <1>1 DEF Members
<1>3. (CHOOSE i \in DOMAIN q : q[i] = Head(q)) = 1
  BY <1>1 DEF Distinct
<1>4. Unlink(q, Head(q)) = SubSeq(q, 1, 1 - 1) \o SubSeq(q, 1 + 1, Len(q))
  BY <1>2, <1>3 DEF Unlink
<1>5. SubSeq(q, 1, 1 - 1) = <<>>
  BY SubSeqEmpty
<1>6. SubSeq(q, 1 + 1, Len(q)) = Tail(q) /\ Tail(q) \in Seq(S)
  BY TailIsSubSeq, HeadTailProperties
<1>7. QED BY <1>4, <1>5, <1>6, ConcatEmptySeq

-----------------------------------------------------------------------------
(* What IInv says of the executing process.                                *)

\* Only idle, kernel and zombie stacks get to schedule(), only idle to its
\* loop, only the login process to the shell and only commands to the rest.
LEMMA RunningFunc ==
  ASSUME IInv
  PROVE  /\ run \in Slots /\ state[run] \in {"RUN", "ZOMBIE"}
         /\ pc[run] \in IdlePoints => run = IdleSlot
         /\ pc[run] \in {"pick"} \cup SwitchWindow =>
              func[run] \in {"idle", "kernel"} \/ state[run] = "ZOMBIE"
         /\ pc[run] \in LoginPoints => func[run] = "login" /\ state[run] = "RUN"
         /\ pc[run] \in CommandPoints =>
              func[run] \in Commands /\ run # IdleSlot /\ parent[run] \in Slots
BY CommandsAssumption
   DEF IInv, TypeOK, ProcessesOK, RunningOK, WhereItIs, IdlePoints, CreatePoints,
       LoginPoints, CommandPoints, SwitchWindow

\* The idle process is always runnable, so the run list never runs empty.
LEMMA ListNeverEmpty ==
  ASSUME IInv, run # IdleSlot
  PROVE  r_list # <<>>
<1>1. IdleSlot \in Slots /\ func[IdleSlot] = "idle"
  BY SlotsAssumption DEF IInv, ProcessesOK, Slots, IdleSlot
<1>2. IdleSlot \in Members(r_list)
  BY <1>1 DEF IInv, ProcessesOK, ListsOK
<1>3. QED BY <1>2 DEF Members

\* get_next_proc() always finds a runnable process at the front.
LEMMA RequeuedProps ==
  ASSUME IInv, pc[run] \notin SwitchWindow \cup {"push"}
  PROVE  /\ cur_process = run
         /\ Requeued \in Seq(Slots)
         /\ Distinct(Requeued)
         /\ Requeued # <<>>
         /\ Members(Requeued) =
              Members(r_list) \cup (IF state[run] = "RUN" THEN {run} ELSE {})
         /\ Head(Requeued) \in Slots
         /\ state[Head(Requeued)] = "RUN"
         /\ FrontRunnable(Requeued) = Head(Requeued)
<1>1. cur_process = run /\ run \in Slots
  BY DEF IInv, RunningOK, SwitchWindow
<1>2. r_list \in Seq(Slots) /\ Distinct(r_list)
  BY DEF IInv, TypeOK, ListsOK
<1>3. \A s \in Slots : s \in Members(r_list) => state[s] = "RUN"
  BY DEF IInv, ListsOK
<1>4. CASE state[run] = "RUN" /\ run \in Members(r_list)
  <2>1. r_list # <<>> /\ Head(r_list) = run
    BY <1>4 DEF IInv, RunningOK, Members
  <2>2. Unlink(r_list, run) = Tail(r_list)
    BY <1>2, <2>1, UnlinkHead
  <2>3. /\ Tail(r_list) \in Seq(Slots) /\ Distinct(Tail(r_list))
        /\ Members(Tail(r_list)) = Members(r_list) \ {run}
    BY <1>2, <2>1, TailProps
  <2>4. Requeued = Append(Tail(r_list), run)
    BY <1>1, <1>4, <2>2 DEF Requeued, PushBack
  <2>5. /\ Requeued \in Seq(Slots) /\ Distinct(Requeued) /\ Requeued # <<>>
        /\ Members(Requeued) = Members(r_list) \cup {run}
    <3> DEFINE rest == Tail(r_list)
    <3>2. rest \in Seq(Slots) /\ Distinct(rest) /\ run \notin Members(rest)
      BY <2>3
    <3> HIDE DEF rest
    <3>3. /\ Append(rest, run) \in Seq(Slots) /\ Distinct(Append(rest, run))
          /\ Append(rest, run) # <<>>
          /\ Members(Append(rest, run)) = Members(rest) \cup {run}
      BY <1>1, <3>2, AppendProps
    <3>4. Members(rest) \cup {run} = Members(r_list) \cup {run}
      BY <2>3 DEF rest
    <3>5. QED BY <2>4, <3>3, <3>4 DEF rest
  <2>6. Head(Requeued) \in Members(Requeued) /\ Head(Requeued) \in Slots
    BY <2>5, TailProps
  <2>7. state[Head(Requeued)] = "RUN"
    BY <1>3, <1>4, <2>5, <2>6
  <2>8. QED BY <1>1, <1>4, <2>5, <2>6, <2>7 DEF FrontRunnable
<1>5. CASE state[run] = "RUN" /\ run \notin Members(r_list)
  <2>1. Requeued = Append(r_list, run)
    BY <1>1, <1>5, UnlinkAbsent DEF Requeued, PushBack
  <2>2. /\ Requeued \in Seq(Slots) /\ Distinct(Requeued) /\ Requeued # <<>>
        /\ Members(Requeued) = Members(r_list) \cup {run}
    BY <1>1, <1>2, <1>5, <2>1, AppendProps
  <2>3. Head(Requeued) \in Members(Requeued) /\ Head(Requeued) \in Slots
    BY <2>2, TailProps
  <2>4. state[Head(Requeued)] = "RUN"
    BY <1>3, <1>5, <2>2, <2>3
  <2>5. QED BY <1>1, <1>5, <2>2, <2>3, <2>4 DEF FrontRunnable
<1>6. CASE state[run] # "RUN"
  <2>1. Requeued = r_list
    BY <1>1, <1>6 DEF Requeued
  <2>2. run # IdleSlot
    BY <1>6 DEF IInv, ProcessesOK, RunningOK, WhereItIs
  <2>3. r_list # <<>>
    BY <2>2, ListNeverEmpty
  <2>4. Head(r_list) \in Members(r_list) /\ Head(r_list) \in Slots
    BY <1>2, <2>3, TailProps
  <2>5. state[Head(r_list)] = "RUN"
    BY <1>3, <2>4
  <2>6. QED BY <1>1, <1>2, <1>6, <2>1, <2>3, <2>4, <2>5 DEF FrontRunnable
<1>7. QED BY <1>4, <1>5, <1>6

-----------------------------------------------------------------------------
(* Every action preserves IInv.                                            *)

\* idle() finds its own pid current and never takes the error branch.
LEMMA IdleCheckPreserves ==
  ASSUME IInv, NEW c \in Slots, c = run, IdleCheck(c)
  PROVE  IInv'
<1> USE CommandsAssumption DEF IInv, Goto, table, lists, machine, locals
<1>1. TypeOK'
  BY RunningFunc DEF TypeOK, IdleCheck, Points, IdlePoints, CreatePoints, LoginPoints, CommandPoints, SwitchWindow
<1>2. ProcessesOK'
  BY RunningFunc DEF TypeOK, ProcessesOK, RunningOK, WhereItIs, IdleCheck, IdlePoints, CreatePoints, LoginPoints, CommandPoints, SwitchWindow
<1>3. RunningOK'
  BY RunningFunc DEF TypeOK, RunningOK, IdleCheck, IdlePoints, CreatePoints, LoginPoints, CommandPoints, SwitchWindow
<1>4. WaitingOK'
  BY RunningFunc DEF TypeOK, WaitingOK, IdleCheck, IdlePoints, CreatePoints, LoginPoints, CommandPoints, SwitchWindow
<1>5. ListsOK'
  BY RunningFunc DEF TypeOK, ListsOK, IdleCheck, IdlePoints, CreatePoints, LoginPoints, CommandPoints, SwitchWindow
<1>6. QED BY <1>1, <1>2, <1>3, <1>4, <1>5

\* idle() goes on to schedule() with nothing to reap.
LEMMA IdleYieldPreserves ==
  ASSUME IInv, NEW c \in Slots, c = run, IdleYield(c)
  PROVE  IInv'
<1> USE CommandsAssumption DEF IInv, Goto, table, lists, machine, locals
<1>1. TypeOK'
  BY RunningFunc DEF TypeOK, IdleYield, Points, IdlePoints, CreatePoints, LoginPoints, CommandPoints, SwitchWindow
<1>2. ProcessesOK'
  BY RunningFunc DEF TypeOK, ProcessesOK, WhereItIs, IdleYield, IdlePoints, CreatePoints, LoginPoints, CommandPoints, SwitchWindow
<1>3. RunningOK'
  BY RunningFunc DEF TypeOK, RunningOK, IdleYield, IdlePoints, CreatePoints, LoginPoints, CommandPoints, SwitchWindow
<1>4. WaitingOK'
  BY RunningFunc DEF TypeOK, WaitingOK, IdleYield, IdlePoints, CreatePoints, LoginPoints, CommandPoints, SwitchWindow
<1>5. ListsOK'
  BY RunningFunc DEF TypeOK, ListsOK, IdleYield, IdlePoints, CreatePoints, LoginPoints, CommandPoints, SwitchWindow
<1>6. QED BY <1>1, <1>2, <1>3, <1>4, <1>5

\* The shell takes its own lock; no list and no state changes.
LEMMA ShellCommandPreserves ==
  ASSUME IInv, NEW c \in Slots, c = run, ShellCommand(c)
  PROVE  IInv'
<1> USE CommandsAssumption DEF IInv, Goto, table, lists, machine, locals
<1>1. TypeOK'
  BY RunningFunc DEF TypeOK, ShellCommand, Points, IdlePoints, CreatePoints, LoginPoints, CommandPoints, SwitchWindow
<1>2. ProcessesOK'
  BY RunningFunc DEF TypeOK, ProcessesOK, WhereItIs, ShellCommand, IdlePoints, CreatePoints, LoginPoints, CommandPoints, SwitchWindow
<1>3. RunningOK'
  BY RunningFunc DEF TypeOK, RunningOK, ShellCommand, IdlePoints, CreatePoints, LoginPoints, CommandPoints, SwitchWindow
<1>4. WaitingOK'
  BY RunningFunc DEF TypeOK, WaitingOK, ShellCommand, IdlePoints, CreatePoints, LoginPoints, CommandPoints, SwitchWindow
<1>5. ListsOK'
  BY DEF TypeOK, ListsOK, ShellCommand
<1>6. QED BY <1>1, <1>2, <1>3, <1>4, <1>5

\* The shell leaves its spin loop.
LEMMA ShellResumePreserves ==
  ASSUME IInv, NEW c \in Slots, c = run, ShellResume(c)
  PROVE  IInv'
<1> USE CommandsAssumption DEF IInv, Goto, table, lists, machine, locals
<1>1. TypeOK'
  BY RunningFunc DEF TypeOK, ShellResume, Points, IdlePoints, CreatePoints, LoginPoints, CommandPoints, SwitchWindow
<1>2. ProcessesOK'
  BY RunningFunc DEF TypeOK, ProcessesOK, WhereItIs, ShellResume, IdlePoints, CreatePoints, LoginPoints, CommandPoints, SwitchWindow
<1>3. RunningOK'
  BY RunningFunc DEF TypeOK, RunningOK, ShellResume, IdlePoints, CreatePoints, LoginPoints, CommandPoints, SwitchWindow
<1>4. WaitingOK'
  BY RunningFunc DEF TypeOK, WaitingOK, ShellResume, IdlePoints, CreatePoints, LoginPoints, CommandPoints, SwitchWindow
<1>5. ListsOK'
  BY RunningFunc DEF TypeOK, ListsOK, ShellResume, IdlePoints, CreatePoints, LoginPoints, CommandPoints, SwitchWindow
<1>6. QED BY <1>1, <1>2, <1>3, <1>4, <1>5

\* A command's function returns into proc_end().
LEMMA CommandReturnsPreserves ==
  ASSUME IInv, NEW c \in Slots, c = run, CommandReturns(c)
  PROVE  IInv'
<1> USE CommandsAssumption DEF IInv, Goto, table, lists, machine, locals
<1>1. TypeOK'
  BY RunningFunc DEF TypeOK, CommandReturns, Points, IdlePoints, CreatePoints, LoginPoints, CommandPoints, SwitchWindow
<1>2. ProcessesOK'
  BY RunningFunc DEF TypeOK, ProcessesOK, WhereItIs, CommandReturns, IdlePoints, CreatePoints, LoginPoints, CommandPoints, SwitchWindow
<1>3. RunningOK'
  BY RunningFunc DEF TypeOK, RunningOK, CommandReturns, IdlePoints, CreatePoints, LoginPoints, CommandPoints, SwitchWindow
<1>4. WaitingOK'
  BY RunningFunc DEF TypeOK, WaitingOK, CommandReturns, IdlePoints, CreatePoints, LoginPoints, CommandPoints, SwitchWindow
<1>5. ListsOK'
  BY RunningFunc DEF TypeOK, ListsOK, CommandReturns, IdlePoints, CreatePoints, LoginPoints, CommandPoints, SwitchWindow
<1>6. QED BY <1>1, <1>2, <1>3, <1>4, <1>5

\* proc_free() opens the parent's lock.
LEMMA FreeUnlockPreserves ==
  ASSUME IInv, NEW c \in Slots, c = run, FreeUnlock(c)
  PROVE  IInv'
<1> USE CommandsAssumption DEF IInv, Goto, table, lists, machine, locals
<1>1. TypeOK'
  BY RunningFunc DEF TypeOK, FreeUnlock, Points, IdlePoints, CreatePoints, LoginPoints, CommandPoints, SwitchWindow
<1>2. ProcessesOK'
  BY RunningFunc DEF TypeOK, ProcessesOK, WhereItIs, FreeUnlock, IdlePoints, CreatePoints, LoginPoints, CommandPoints, SwitchWindow
<1>3. RunningOK'
  BY RunningFunc DEF TypeOK, RunningOK, FreeUnlock, IdlePoints, CreatePoints, LoginPoints, CommandPoints, SwitchWindow
<1>4. WaitingOK'
  BY RunningFunc DEF TypeOK, WaitingOK, FreeUnlock, IdlePoints, CreatePoints, LoginPoints, CommandPoints, SwitchWindow
<1>5. ListsOK'
  BY RunningFunc DEF TypeOK, ListsOK, FreeUnlock, IdlePoints, CreatePoints, LoginPoints, CommandPoints, SwitchWindow
<1>6. QED BY <1>1, <1>2, <1>3, <1>4, <1>5

\* cur_process moves to the front of the run list, which is runnable.
LEMMA SetCurrentPreserves ==
  ASSUME IInv, NEW c \in Slots, c = run, SetCurrent(c)
  PROVE  IInv'
<1> USE CommandsAssumption DEF IInv, Goto, table, lists, machine, locals
<1>1. TypeOK'
  <2>1. next[c] \in Slots
    BY HeadTailProperties DEF TypeOK, SetCurrent, RunningOK, SwitchWindow
  <2>2. QED BY <2>1 DEF TypeOK, SetCurrent, Points, SwitchWindow
<1>2. ProcessesOK'
  BY RunningFunc DEF TypeOK, ProcessesOK, WhereItIs, SetCurrent, IdlePoints, CreatePoints, LoginPoints, CommandPoints, SwitchWindow
<1>3. RunningOK'
  BY RunningFunc DEF TypeOK, RunningOK, SetCurrent, IdlePoints, CreatePoints, LoginPoints, CommandPoints, SwitchWindow
<1>4. WaitingOK'
  BY RunningFunc DEF TypeOK, WaitingOK, SetCurrent, IdlePoints, CreatePoints, LoginPoints, CommandPoints, SwitchWindow
<1>5. ListsOK'
  BY RunningFunc DEF TypeOK, ListsOK, SetCurrent, IdlePoints, CreatePoints, LoginPoints, CommandPoints, SwitchWindow
<1>6. QED BY <1>1, <1>2, <1>3, <1>4, <1>5

\* Only the time slice changes.
LEMMA ResetSlicePreserves ==
  ASSUME IInv, NEW c \in Slots, c = run, ResetSlice(c)
  PROVE  IInv'
<1> USE CommandsAssumption DEF IInv, Goto, table, lists, machine, locals
<1>1. TypeOK'
  BY TimerAssumption DEF TypeOK, ResetSlice, Points, SwitchWindow
<1>2. ProcessesOK'
  BY RunningFunc DEF TypeOK, ProcessesOK, WhereItIs, ResetSlice, IdlePoints, CreatePoints, LoginPoints, CommandPoints, SwitchWindow
<1>3. RunningOK'
  BY RunningFunc DEF TypeOK, RunningOK, ResetSlice, IdlePoints, CreatePoints, LoginPoints, CommandPoints, SwitchWindow
<1>4. WaitingOK'
  BY RunningFunc DEF TypeOK, WaitingOK, ResetSlice, IdlePoints, CreatePoints, LoginPoints, CommandPoints, SwitchWindow
<1>5. ListsOK'
  BY RunningFunc DEF TypeOK, ListsOK, ResetSlice, IdlePoints, CreatePoints, LoginPoints, CommandPoints, SwitchWindow
<1>6. QED BY <1>1, <1>2, <1>3, <1>4, <1>5

\* get_next_proc() leaves a runnable process at the front and names it.
LEMMA PickNextPreserves ==
  ASSUME IInv, NEW c \in Slots, c = run, PickNext(c)
  PROVE  IInv'
<1> USE CommandsAssumption DEF IInv, Goto, table, lists, machine, locals
<1>1. TypeOK'
  BY RequeuedProps, RunningFunc DEF TypeOK, PickNext, Points, IdlePoints, CreatePoints, LoginPoints, CommandPoints, SwitchWindow
<1>2. ProcessesOK'
  BY RequeuedProps, RunningFunc DEF TypeOK, ProcessesOK, RunningOK, WhereItIs, PickNext, IdlePoints, CreatePoints, LoginPoints, CommandPoints, SwitchWindow
<1>3. RunningOK'
  BY RequeuedProps, RunningFunc DEF TypeOK, RunningOK, PickNext, IdlePoints, CreatePoints, LoginPoints, CommandPoints, SwitchWindow
<1>4. WaitingOK'
  BY RequeuedProps, RunningFunc DEF TypeOK, WaitingOK, PickNext, IdlePoints, CreatePoints, LoginPoints, CommandPoints, SwitchWindow
<1>5. ListsOK'
  BY RequeuedProps, RunningFunc DEF TypeOK, ListsOK, PickNext, IdlePoints, CreatePoints, LoginPoints, CommandPoints, SwitchWindow
<1>6. QED BY <1>1, <1>2, <1>3, <1>4, <1>5

\* The process becomes a zombie while it is on the run list at most.
LEMMA FreeZombiePreserves ==
  ASSUME IInv, NEW c \in Slots, c = run, FreeZombie(c)
  PROVE  IInv'
<1> USE CommandsAssumption DEF IInv, Goto, table, lists, machine, locals
<1>1. TypeOK'
  BY RunningFunc DEF TypeOK, FreeZombie, Points, IdlePoints, CreatePoints, LoginPoints, CommandPoints, SwitchWindow
<1>2. ProcessesOK'
  BY RunningFunc DEF TypeOK, ProcessesOK, RunningOK, WhereItIs, FreeZombie, IdlePoints, CreatePoints, LoginPoints, CommandPoints, SwitchWindow
<1>3. RunningOK'
  BY RunningFunc DEF TypeOK, RunningOK, FreeZombie, IdlePoints, CreatePoints, LoginPoints, CommandPoints, SwitchWindow
<1>4. WaitingOK'
  BY RunningFunc DEF TypeOK, WaitingOK, FreeZombie, IdlePoints, CreatePoints, LoginPoints, CommandPoints, SwitchWindow
<1>5. ListsOK'
  BY RunningFunc DEF TypeOK, RunningOK, ListsOK, FreeZombie, IdlePoints, CreatePoints, LoginPoints, CommandPoints, SwitchWindow
<1>6. QED BY <1>1, <1>2, <1>3, <1>4, <1>5

\* The head of the deleted list is a zombie and becomes idle()'s p.
LEMMA IdlePopPreserves ==
  ASSUME IInv, NEW c \in Slots, c = run, IdlePop(c)
  PROVE  IInv'
<1> USE CommandsAssumption DEF IInv, Goto, table, lists, machine, locals
<1>1. c = IdleSlot /\ reap = None
  BY RunningFunc DEF IdlePop, IdlePoints, ListsOK
<1>2. /\ d_list' \in Seq(Slots) /\ Distinct(d_list')
      /\ Members(d_list') = Members(d_list) \ {reap'}
      /\ reap' \in Slots /\ reap' \in Members(d_list)
  BY TailProps DEF TypeOK, ListsOK, IdlePop
<1>3. reap' # None
  BY <1>2 DEF None, Slots
<1>4. TypeOK'
  BY <1>2 DEF TypeOK, IdlePop, Points, IdlePoints
<1>5. ProcessesOK'
  BY <1>1 DEF TypeOK, ProcessesOK, RunningOK, WhereItIs, IdlePop, IdlePoints
<1>6. RunningOK'
  BY DEF TypeOK, RunningOK, IdlePop, IdlePoints, CreatePoints, LoginPoints, CommandPoints, SwitchWindow
<1>7. WaitingOK'
  BY DEF TypeOK, WaitingOK, IdlePop, SwitchWindow
<1>8. ListsOK'
  <2>1. state[reap'] = "ZOMBIE" /\ reap' # run
    BY <1>1, <1>2 DEF ListsOK, ProcessesOK
  <2>2. r_list' = r_list /\ state' = state /\ run' = run
        /\ pc' = [pc EXCEPT ![c] = "unuse"] /\ pc[c] = "drain"
    BY DEF IdlePop
  <2>3. Distinct(r_list') /\ Distinct(d_list')
    BY <1>2, <2>2 DEF ListsOK
  <2>4. ASSUME NEW s \in Slots
        PROVE  /\ s \in Members(r_list') => state'[s] = "RUN" \/ (s = run' /\ pc'[s] = "push")
               /\ s \in Members(d_list') => state'[s] = "ZOMBIE"
               /\ state'[s] = "RUN" => s \in Members(r_list') \/ (s = run' /\ pc'[s] = "zombie")
               /\ state'[s] = "ZOMBIE" =>
                    s \in Members(d_list') \/ s = reap'
                      \/ (s = run' /\ pc'[s] \in {"zombie", "push"})
    BY <1>1, <1>2, <2>2 DEF TypeOK, ListsOK, None, Slots
  <2>5. reap' \notin Members(d_list')
    BY <1>2
  <2>6. pc'[IdleSlot] = "unuse"
    BY <1>1, <2>2 DEF TypeOK
  <2>7. QED BY <1>3, <2>1, <2>2, <2>3, <2>4, <2>5, <2>6 DEF ListsOK
<1>9. QED BY <1>4, <1>5, <1>6, <1>7, <1>8

\* Only a zombie that is off every list becomes unused.
LEMMA IdleUnusePreserves ==
  ASSUME IInv, NEW c \in Slots, c = run, IdleUnuse(c)
  PROVE  IInv'
<1> USE CommandsAssumption DEF IInv, Goto, table, lists, machine, locals
<1>1. /\ c = IdleSlot /\ reap \in Slots /\ reap # None
      /\ reap # c /\ state[reap] = "ZOMBIE"
  BY RunningFunc DEF TypeOK, IdleUnuse, IdlePoints, ListsOK
<1>2. TypeOK'
  BY <1>1 DEF TypeOK, IdleUnuse, Points, IdlePoints
<1>3. ProcessesOK'
  BY <1>1 DEF TypeOK, ProcessesOK, WhereItIs, IdleUnuse, IdlePoints
<1>4. RunningOK'
  BY <1>1 DEF TypeOK, RunningOK, IdleUnuse, IdlePoints, CreatePoints, LoginPoints, CommandPoints, SwitchWindow
<1>5. WaitingOK'
  BY <1>1 DEF TypeOK, WaitingOK, IdleUnuse, SwitchWindow
<1>6. ListsOK'
  BY <1>1 DEF TypeOK, ListsOK, IdleUnuse
<1>7. QED BY <1>2, <1>3, <1>4, <1>5, <1>6

\* A tick that does not reschedule only counts.
LEMMA TickChargesPreserves ==
  ASSUME IInv, TickCharges
  PROVE  IInv'
<1> USE CommandsAssumption DEF IInv, Goto, table, lists, machine, locals
<1>1. TypeOK'
  BY TimerAssumption, RunningFunc DEF TypeOK, TickCharges, Charged, Points, IdlePoints, CreatePoints, LoginPoints, CommandPoints, SwitchWindow
<1>2. ProcessesOK'
  BY TimerAssumption, RunningFunc DEF TypeOK, ProcessesOK, RunningOK, WhereItIs, TickCharges, Charged, IdlePoints, CreatePoints, LoginPoints, CommandPoints, SwitchWindow
<1>3. RunningOK'
  BY TimerAssumption, RunningFunc DEF TypeOK, RunningOK, TickCharges, Charged, IdlePoints, CreatePoints, LoginPoints, CommandPoints, SwitchWindow
<1>4. WaitingOK'
  BY TimerAssumption, RunningFunc DEF TypeOK, WaitingOK, TickCharges, Charged, IdlePoints, CreatePoints, LoginPoints, CommandPoints, SwitchWindow
<1>5. ListsOK'
  BY TimerAssumption, RunningFunc DEF TypeOK, ListsOK, TickCharges, Charged, IdlePoints, CreatePoints, LoginPoints, CommandPoints, SwitchWindow
<1>6. QED BY <1>1, <1>2, <1>3, <1>4, <1>5

\* The executing command takes itself off both lists and maybe onto d_list.
LEMMA UnlinkBoth ==
  ASSUME IInv, pc[run] \in CommandPoints
  PROVE  /\ cur_process = run
         /\ Unlink(r_list, run) \in Seq(Slots) /\ Distinct(Unlink(r_list, run))
         /\ Members(Unlink(r_list, run)) = Members(r_list) \ {run}
         /\ Unlink(d_list, run) \in Seq(Slots) /\ Distinct(Unlink(d_list, run))
         /\ Members(Unlink(d_list, run)) = Members(d_list) \ {run}
         /\ PushBack(d_list, run) \in Seq(Slots) /\ Distinct(PushBack(d_list, run))
         /\ Members(PushBack(d_list, run)) = Members(d_list) \cup {run}
<1>1. run \in Slots /\ cur_process = run
  BY DEF IInv, RunningOK, CommandPoints
<1>2. /\ r_list \in Seq(Slots) /\ Distinct(r_list)
      /\ d_list \in Seq(Slots) /\ Distinct(d_list)
  BY DEF IInv, TypeOK, ListsOK
<1>3. /\ Unlink(r_list, run) \in Seq(Slots) /\ Distinct(Unlink(r_list, run))
      /\ Members(Unlink(r_list, run)) = Members(r_list) \ {run}
  BY <1>1, <1>2, UnlinkProps
<1>4. /\ Unlink(d_list, run) \in Seq(Slots) /\ Distinct(Unlink(d_list, run))
      /\ Members(Unlink(d_list, run)) = Members(d_list) \ {run}
  BY <1>1, <1>2, UnlinkProps
<1> DEFINE rest == Unlink(d_list, run)
<1>5. rest \in Seq(Slots) /\ Distinct(rest) /\ run \notin Members(rest)
  BY <1>4
<1> HIDE DEF rest
<1>6. /\ Append(rest, run) \in Seq(Slots) /\ Distinct(Append(rest, run))
      /\ Members(Append(rest, run)) = Members(rest) \cup {run}
  BY <1>1, <1>5, AppendProps
<1>7. PushBack(d_list, run) = Append(rest, run)
  BY DEF PushBack, rest
<1>8. Members(rest) \cup {run} = Members(d_list) \cup {run}
  BY <1>4 DEF rest
<1>9. QED BY <1>1, <1>3, <1>4, <1>6, <1>7, <1>8

\* The process is off both lists.
LEMMA FreeRemovePreserves ==
  ASSUME IInv, NEW c \in Slots, c = run, FreeRemove(c)
  PROVE  IInv'
<1> USE CommandsAssumption DEF IInv, Goto, table, lists, machine, locals
<1>1. TypeOK'
  BY UnlinkBoth, RunningFunc DEF TypeOK, FreeRemove, Points, CommandPoints
<1>2. ProcessesOK'
  BY UnlinkBoth, RunningFunc DEF TypeOK, ProcessesOK, WhereItIs, FreeRemove, IdlePoints, CreatePoints, LoginPoints, CommandPoints, SwitchWindow
<1>3. RunningOK'
  BY UnlinkBoth, RunningFunc DEF TypeOK, RunningOK, FreeRemove, IdlePoints, CreatePoints, LoginPoints, CommandPoints, SwitchWindow
<1>4. WaitingOK'
  BY UnlinkBoth, RunningFunc DEF TypeOK, WaitingOK, FreeRemove, CommandPoints, SwitchWindow
<1>5. ListsOK'
  BY UnlinkBoth, RunningFunc DEF TypeOK, ListsOK, FreeRemove, CommandPoints
<1>6. QED BY <1>1, <1>2, <1>3, <1>4, <1>5

\* The zombie is on the deleted list only.
LEMMA FreePushPreserves ==
  ASSUME IInv, NEW c \in Slots, c = run, FreePush(c)
  PROVE  IInv'
<1> USE CommandsAssumption DEF IInv, Goto, table, lists, machine, locals
<1>1. TypeOK'
  BY UnlinkBoth, RunningFunc DEF TypeOK, FreePush, Points, CommandPoints
<1>2. ProcessesOK'
  BY UnlinkBoth, RunningFunc DEF TypeOK, ProcessesOK, WhereItIs, FreePush, IdlePoints, CreatePoints, LoginPoints, CommandPoints, SwitchWindow
<1>3. RunningOK'
  BY UnlinkBoth, RunningFunc DEF TypeOK, RunningOK, FreePush, IdlePoints, CreatePoints, LoginPoints, CommandPoints, SwitchWindow
<1>4. WaitingOK'
  BY UnlinkBoth, RunningFunc DEF TypeOK, WaitingOK, FreePush, CommandPoints, SwitchWindow
<1>5. ListsOK'
  <2>1. /\ c # IdleSlot /\ pc[c] = "push" /\ pc[c] \in CommandPoints /\ state[c] # "RUN"
    BY RunningFunc DEF FreePush, ProcessesOK, WhereItIs, CommandPoints
  <2>2. /\ pc' = [pc EXCEPT ![c] = "pick"] /\ UNCHANGED <<state, run, reap>>
        /\ Members(r_list') = Members(r_list) \ {c} /\ Distinct(r_list')
        /\ Members(d_list') = Members(d_list) \cup {c} /\ Distinct(d_list')
    BY <2>1, UnlinkBoth DEF FreePush
  <2>3. state[c] = "ZOMBIE" /\ reap # c
    BY <2>1, RunningFunc DEF ListsOK, None, Slots
  <2>4. QED BY <2>1, <2>2, <2>3 DEF TypeOK, ListsOK
<1>6. QED BY <1>1, <1>2, <1>3, <1>4, <1>5

\* exit() makes the executing command a zombie on the deleted list.
LEMMA CommandExitsPreserves ==
  ASSUME IInv, NEW c \in Slots, c = run, CommandExits(c)
  PROVE  IInv'
<1> USE CommandsAssumption DEF IInv, Goto, table, lists, machine, locals
<1>1. TypeOK'
  BY UnlinkBoth, RunningFunc DEF TypeOK, CommandExits, Points, CommandPoints
<1>2. ProcessesOK'
  <2>1. /\ pc[c] = "body" /\ pc[c] \in CommandPoints /\ cur_process = c
        /\ c # IdleSlot /\ func[c] \in Commands
    BY UnlinkBoth, RunningFunc DEF CommandExits, CommandPoints
  <2>2. /\ state' = [state EXCEPT ![c] = "ZOMBIE"] /\ pc' = [pc EXCEPT ![c] = "tail"]
        /\ UNCHANGED <<func, pid, parent>>
    BY <2>1 DEF CommandExits
  <2>3. QED BY <2>1, <2>2, RunningFunc DEF TypeOK, ProcessesOK, WhereItIs, CommandPoints
<1>3. RunningOK'
  BY UnlinkBoth, RunningFunc DEF TypeOK, RunningOK, CommandExits, IdlePoints, CreatePoints, LoginPoints, CommandPoints, SwitchWindow
<1>4. WaitingOK'
  BY UnlinkBoth, RunningFunc DEF TypeOK, WaitingOK, CommandExits, CommandPoints, SwitchWindow
<1>5. ListsOK'
  BY UnlinkBoth, RunningFunc DEF TypeOK, ListsOK, CommandExits, CommandPoints
<1>6. QED BY <1>1, <1>2, <1>3, <1>4, <1>5

\* switch_process() gives the CPU to the process it names and leaves the
\* previous one ready to be resumed.
LEMMA SwitchProps ==
  ASSUME IInv, NEW new \in Slots, state[new] = "RUN", NEW how \in {"call", "intr"},
         switch_process(run, new, how)
  PROVE  /\ run' = new
         /\ stack' = [stack EXCEPT ![run] = run, ![new] = None]
         /\ saved' = [saved EXCEPT ![run] = how]
         /\ intr' \in BOOLEAN
         /\ intr' = FALSE => saved'[new] = "call"
<1>1. /\ run \in Slots /\ stack \in [Slots -> Slots \cup {None}] /\ intr \in BOOLEAN
      /\ saved \in [Slots -> {"fresh", "intr", "call"}]
  BY DEF IInv, TypeOK, RunningOK
<1>2. new # run => stack[new] = new
  BY DEF IInv, WaitingOK
<1>3. [stack EXCEPT ![run] = run][new] = new
  BY <1>1, <1>2
<1>4. new # None
  BY DEF Slots, None
<1>5. /\ stack' = [[stack EXCEPT ![run] = run] EXCEPT ![new] = None]
      /\ run' = new
      /\ saved' = [saved EXCEPT ![run] = how]
      /\ intr' = IF new = None \/ saved'[new] = "call" THEN intr /\ how = "call" ELSE TRUE
  BY <1>3 DEF switch_process
<1>6. QED BY <1>1, <1>4, <1>5

\* schedule() resumes a process that has its own stack saved.
LEMMA SwitchStackPreserves ==
  ASSUME IInv, NEW c \in Slots, c = run, SwitchStack(c)
  PROVE  IInv'
<1> USE CommandsAssumption DEF IInv, Goto, table, lists, machine, locals
<1> DEFINE new == next[run]
<1>1. /\ pc[c] = "switch" /\ cur[c] = run /\ cur_process = new
      /\ new \in Slots /\ state[new] = "RUN"
      /\ r_list # <<>> /\ new = Head(r_list)
  BY HeadTailProperties DEF SwitchStack, RunningOK, TypeOK, SwitchWindow
<1>2. /\ run' = new
      /\ stack' = [stack EXCEPT ![run] = run, ![new] = None]
      /\ saved' = [saved EXCEPT ![run] = "call"]
      /\ intr' \in BOOLEAN
      /\ intr' = FALSE => saved'[new] = "call"
  BY <1>1, SwitchProps DEF SwitchStack
<1>3. /\ pc' = [pc EXCEPT ![c] = ReturnPoint(func[c])]
      /\ cur' = [cur EXCEPT ![c] = None] /\ next' = [next EXCEPT ![c] = None]
      /\ UNCHANGED <<table, time_slice, lists, cur_process, reap>>
  BY DEF SwitchStack
<1>4. ReturnPoint(func[c]) = IF func[c] = "idle" THEN "check"
                             ELSE IF func[c] = "kernel" THEN "pick" ELSE "never"
  BY DEF ReturnPoint
<1>5. \/ c = IdleSlot /\ func[c] = "idle"
      \/ func[c] = "kernel"
      \/ func[c] \in Commands /\ state[c] = "ZOMBIE" /\ ReturnPoint(func[c]) = "never"
  BY <1>1, <1>4 DEF TypeOK, ProcessesOK, RunningOK, WhereItIs, IdlePoints, CreatePoints, LoginPoints, CommandPoints, SwitchWindow
<1> HIDE DEF new
<1>6. TypeOK'
  BY <1>1, <1>2, <1>3, <1>4 DEF TypeOK, Points, IdlePoints
<1>7. ProcessesOK'
  BY <1>1, <1>2, <1>3, <1>4, <1>5 DEF TypeOK, ProcessesOK, WhereItIs, IdlePoints, CreatePoints, LoginPoints, CommandPoints, SwitchWindow
<1>8. RunningOK'
  <2>1. CASE new = c
    BY <1>1, <1>2, <1>3, <1>4, <1>5, <2>1 DEF TypeOK, RunningOK, IdlePoints, CreatePoints, LoginPoints, CommandPoints, SwitchWindow
  <2>2. CASE new # c
    <3>1. pc'[new] = pc[new] /\ saved'[new] = saved[new]
      BY <1>1, <1>2, <1>3, <2>2 DEF TypeOK
    <3>2. pc[new] \notin SwitchWindow /\ (saved[new] = "call" => pc[new] \in {"check", "pick"})
      BY <1>1, <2>2 DEF WaitingOK
    <3>3. pc[new] # "never"
      BY <1>1 DEF ProcessesOK, WhereItIs, IdlePoints, CreatePoints, LoginPoints, CommandPoints, SwitchWindow
    <3>4. pc'[new] \in LoginPoints \cup CommandPoints => intr'
      BY <1>2, <3>1, <3>2 DEF LoginPoints, CommandPoints
    <3>5. QED BY <1>1, <1>2, <1>3, <3>1, <3>2, <3>3, <3>4
              DEF RunningOK, SwitchWindow
  <2>3. QED BY <2>1, <2>2
<1>9. WaitingOK'
  BY <1>1, <1>2, <1>3, <1>4, <1>5 DEF TypeOK, WaitingOK, SwitchWindow
<1>10. ListsOK'
  BY <1>1, <1>2, <1>3, <1>4 DEF TypeOK, ListsOK
<1>11. QED BY <1>6, <1>7, <1>8, <1>9, <1>10

\* A tick that reschedules outside the two windows does the same.
LEMMA TickPreemptsPreserves ==
  ASSUME IInv, Calm, TickPreempts
  PROVE  IInv'
<1> USE CommandsAssumption DEF IInv, table, lists, machine, locals
<1> DEFINE new == Head(Requeued)
<1>1. /\ pc[run] \notin SwitchWindow /\ run \in Slots /\ cur_process = run
      /\ ~(state[run] = "ZOMBIE" /\ pc[run] \in {"zombie", "push"})
  BY DEF TickPreempts, Preemptible, Unlisted, Calm, RunningOK, SwitchWindow
<1>2. pc[run] # "push" /\ state[run] \in {"RUN", "ZOMBIE"}
  BY <1>1 DEF TypeOK, ProcessesOK, RunningOK, WhereItIs, IdlePoints, CreatePoints, LoginPoints, CommandPoints, SwitchWindow
<1>3. /\ Requeued \in Seq(Slots) /\ Distinct(Requeued) /\ Requeued # <<>>
      /\ Members(Requeued) = Members(r_list) \cup (IF state[run] = "RUN" THEN {run} ELSE {})
      /\ new \in Slots /\ state[new] = "RUN" /\ FrontRunnable(Requeued) = new
  BY <1>1, <1>2, RequeuedProps
<1>4. /\ r_list' = Requeued /\ cur_process' = new
      /\ time_slice' = [time_slice EXCEPT ![run] = Charged, ![new] = 0]
      /\ switch_process(run, new, "intr")
      /\ UNCHANGED <<table, d_list, pc, locals>>
  BY <1>1, <1>3 DEF TickPreempts
<1> HIDE DEF new
<1>5. /\ run' = new
      /\ stack' = [stack EXCEPT ![run] = run, ![new] = None]
      /\ saved' = [saved EXCEPT ![run] = "intr"]
      /\ intr' \in BOOLEAN
      /\ intr' = FALSE => saved'[new] = "call"
  BY <1>3, <1>4, SwitchProps
<1>6. TypeOK'
  <2>1. Charged \in 0 .. TIMER_MAX /\ 0 \in 0 .. TIMER_MAX
    BY <1>1, TimerAssumption DEF TypeOK, Charged
  <2>2. QED BY <1>1, <1>3, <1>4, <1>5, <2>1 DEF TypeOK
<1>7. ProcessesOK'
  BY <1>4 DEF ProcessesOK, WhereItIs
<1>8. RunningOK'
  <2>1. pc[new] \notin SwitchWindow
    BY <1>1, <1>3 DEF WaitingOK
  <2>2. pc[new] # "never"
    BY <1>3 DEF ProcessesOK, WhereItIs, IdlePoints, CreatePoints, LoginPoints, CommandPoints, SwitchWindow
  <2>3. saved'[new] = "call" => pc[new] \in {"check", "pick"}
    BY <1>1, <1>3, <1>5 DEF TypeOK, WaitingOK
  <2>4. pc[new] \in LoginPoints \cup CommandPoints => intr'
    BY <1>5, <2>3 DEF LoginPoints, CommandPoints
  <2>5. QED BY <1>3, <1>4, <1>5, <2>1, <2>2, <2>4 DEF new, RunningOK, SwitchWindow
<1>9. WaitingOK'
  BY <1>1, <1>3, <1>4, <1>5 DEF TypeOK, WaitingOK
<1>10. ListsOK'
  BY <1>1, <1>2, <1>3, <1>4, <1>5 DEF TypeOK, ListsOK
<1>11. QED BY <1>6, <1>7, <1>8, <1>9, <1>10

\* Creating a process, from idle() or from the shell's fork.
LEMMA CreatePreserves ==
  ASSUME IInv, NEW f \in {"kernel", "login"} \cup Commands,
         pc[run] \in CreatePoints \cup {"fork"}, proc_create(f)
  PROVE  IInv'
<1> USE CommandsAssumption DEF IInv, table, lists, machine, locals
<1>1. PICK s \in Slots :
        /\ state[s] = "UNUSED"
        /\ lately_pid' = lately_pid + 1
        /\ pid' = [pid EXCEPT ![s] = lately_pid + 1]
        /\ state' = [state EXCEPT ![s] = "RUN"]
        /\ func' = [func EXCEPT ![s] = f]
        /\ parent' = [parent EXCEPT ![s] = cur_process]
        /\ simple_lock' = [simple_lock EXCEPT ![s] = 0]
        /\ stack' = [stack EXCEPT ![s] = s]
        /\ saved' = [saved EXCEPT ![s] = "fresh"]
        /\ pc' = [pc EXCEPT ![s] = StartPoint(f), ![run] = AfterCreate(pc[run])]
        /\ r_list' = Append(r_list, s)
        /\ UNCHANGED <<d_list, time_slice, cur_process, intr, run, locals>>
  BY DEF proc_create, IsFirstUnused
<1>2. /\ run \in Slots /\ state[run] = "RUN" /\ cur_process = run /\ s # run
      /\ s # IdleSlot /\ s # reap
  <2>1. run \in Slots /\ cur_process = run
    BY DEF RunningOK, CreatePoints, SwitchWindow
  <2>2. state[run] = "RUN"
    BY RunningFunc DEF ProcessesOK, IdlePoints, LoginPoints
  <2>3. s # run /\ s # IdleSlot
    BY <1>1, <2>2 DEF ProcessesOK
  <2>4. s # reap
    BY <1>1 DEF ListsOK, None, Slots
  <2>5. QED BY <2>1, <2>2, <2>3, <2>4
<1>3. s \notin Members(r_list) /\ s \notin Members(d_list) /\ run \in Members(r_list)
  BY <1>1, <1>2 DEF ListsOK, CreatePoints
<1>4. /\ r_list' \in Seq(Slots) /\ Distinct(r_list') /\ r_list' # <<>>
      /\ Members(r_list') = Members(r_list) \cup {s}
      /\ r_list # <<>> /\ Head(r_list') = Head(r_list)
  <2>1. r_list \in Seq(Slots) /\ Distinct(r_list) /\ r_list # <<>>
    BY <1>3 DEF TypeOK, ListsOK, Members
  <2>2. QED BY <1>1, <1>3, <2>1, AppendProps
<1>5. /\ AfterCreate(pc[run]) \in {"create2", "create3", "check", "spin"}
      /\ AfterCreate(pc[run]) = "spin" <=> pc[run] = "fork"
      /\ StartPoint(f) = IF f = "kernel" THEN "pick"
                         ELSE IF f = "login" THEN "prompt" ELSE "body"
  BY DEF AfterCreate, StartPoint, CreatePoints
<1>6. TypeOK'
  <2>1. lately_pid + 1 \in Nat /\ 0 \in {0, 1} /\ f \in Funcs
    BY DEF TypeOK, Funcs
  <2>2. AfterCreate(pc[run]) \in Points /\ StartPoint(f) \in Points
    BY <1>5 DEF Points, IdlePoints, CreatePoints, LoginPoints, CommandPoints, SwitchWindow
  <2>3. pc' \in [Slots -> Points]
    BY <1>1, <2>2 DEF TypeOK
  <2>4. QED BY <1>1, <1>2, <1>4, <2>1, <2>3 DEF TypeOK
<1>7. ProcessesOK'
  <2>1. pid'[IdleSlot] = 0 /\ func'[IdleSlot] = "idle" /\ state'[IdleSlot] = "RUN"
    BY <1>1, <1>2 DEF TypeOK, ProcessesOK
  <2>2. ASSUME NEW t \in Slots, t = s PROVE WhereItIs(t)'
    BY <1>1, <1>2, <1>5, <2>2 DEF TypeOK, WhereItIs, IdlePoints, CreatePoints, LoginPoints, CommandPoints, SwitchWindow
  <2>3. ASSUME NEW t \in Slots, t = run PROVE WhereItIs(t)'
    BY <1>1, <1>2, <1>5, <2>3, RunningFunc DEF TypeOK, ProcessesOK, WhereItIs, IdlePoints, CreatePoints, LoginPoints, CommandPoints, SwitchWindow
  <2>4. ASSUME NEW t \in Slots, t # s, t # run, state'[t] # "UNUSED"
        PROVE  WhereItIs(t)'
    <3>1. WhereItIs(t)
      BY <1>1, <2>4 DEF TypeOK, ProcessesOK
    <3>2. func'[t] = func[t] /\ state'[t] = state[t] /\ pc'[t] = pc[t]
      BY <1>1, <2>4 DEF TypeOK
    <3>3. QED BY <3>1, <3>2 DEF WhereItIs
  <2>5. ASSUME NEW t \in Slots, state'[t] # "UNUSED", func'[t] \in Commands
        PROVE  parent'[t] \in Slots
    BY <1>1, <1>2, <2>5 DEF TypeOK, ProcessesOK
  <2>6. \A t \in Slots : state'[t] # "UNUSED" => WhereItIs(t)'
    BY <2>2, <2>3, <2>4
  <2>7. QED BY <2>1, <2>5, <2>6 DEF ProcessesOK
<1>8. RunningOK'
  BY <1>1, <1>2, <1>3, <1>4, <1>5 DEF TypeOK, RunningOK, IdlePoints, CreatePoints, LoginPoints, CommandPoints, SwitchWindow
<1>9. WaitingOK'
  BY <1>1, <1>2, <1>5 DEF TypeOK, WaitingOK, SwitchWindow
<1>10. ListsOK'
  <2>1. /\ pc'[run] \notin {"unuse", "zombie", "push"}
        /\ pc[run] \notin {"unuse", "zombie", "push"}
        /\ \A t \in Slots : t # s /\ t # run => pc'[t] = pc[t]
    BY <1>1, <1>2, <1>5 DEF TypeOK, CreatePoints
  <2>2. /\ state'[s] = "RUN" /\ \A t \in Slots : t # s => state'[t] = state[t]
        /\ reap' = reap /\ run' = run /\ d_list' = d_list
    BY <1>1 DEF TypeOK
  <2>3. Distinct(r_list') /\ Distinct(d_list')
    BY <1>4, <2>2 DEF ListsOK
  <2>4. ASSUME NEW t \in Slots
        PROVE  /\ t \in Members(r_list') => state'[t] = "RUN" \/ (t = run' /\ pc'[t] = "push")
               /\ t \in Members(d_list') => state'[t] = "ZOMBIE"
               /\ state'[t] = "RUN" => t \in Members(r_list') \/ (t = run' /\ pc'[t] = "zombie")
               /\ state'[t] = "ZOMBIE" =>
                    t \in Members(d_list') \/ t = reap'
                      \/ (t = run' /\ pc'[t] \in {"zombie", "push"})
    BY <1>2, <1>3, <1>4, <2>1, <2>2 DEF ListsOK
  <2>5. reap' # None => state'[reap'] = "ZOMBIE" /\ reap' # run' /\ reap' \notin Members(d_list')
    BY <1>2, <2>2 DEF TypeOK, ListsOK
  <2>6. pc'[IdleSlot] = "unuse" <=> reap' # None
    BY <1>2, <2>1, <2>2, SlotsAssumption DEF ListsOK, IdleSlot, Slots
  <2>7. QED BY <2>3, <2>4, <2>5, <2>6 DEF ListsOK
<1>11. QED BY <1>6, <1>7, <1>8, <1>9, <1>10

-----------------------------------------------------------------------------
(* The invariant and the safety properties that follow from it.            *)

LEMMA InitIInv ==
  Init => IInv
<1> SUFFICES ASSUME Init PROVE IInv
  OBVIOUS
<1>1. IdleSlot \in Slots /\ None \notin Slots /\ Slots \subseteq Nat
  BY SlotsAssumption DEF IdleSlot, None, Slots
<1>2. /\ r_list \in Seq(Slots) /\ d_list \in Seq(Slots) /\ r_list # <<>>
      /\ Head(r_list) = IdleSlot
      /\ Distinct(r_list) /\ Distinct(d_list)
      /\ Members(r_list) = {IdleSlot} /\ Members(d_list) = {}
  BY <1>1 DEF Init, Distinct, Members
<1>3. TypeOK
  BY <1>1, <1>2, TimerAssumption DEF Init, TypeOK, Funcs, Points, IdlePoints, CreatePoints, LoginPoints, CommandPoints, SwitchWindow
<1>4. ProcessesOK
  BY <1>1, CommandsAssumption DEF Init, ProcessesOK, WhereItIs, IdlePoints, CreatePoints, LoginPoints, CommandPoints, SwitchWindow, IdleSlot
<1>5. RunningOK
  BY <1>1, <1>2 DEF Init, RunningOK, IdlePoints, CreatePoints, LoginPoints, CommandPoints, SwitchWindow
<1>6. WaitingOK
  BY <1>1 DEF Init, WaitingOK
<1>7. ListsOK
  BY <1>1, <1>2 DEF Init, ListsOK
<1>8. QED BY <1>3, <1>4, <1>5, <1>6, <1>7 DEF IInv

\* No step leads out of IInv, one case per action.
LEMMA NextIInv ==
  ASSUME Calm, IInv, [Next]_vars
  PROVE  IInv'
<1>1. ASSUME NEW c \in Slots, Step(c) PROVE IInv'
  <2> USE <1>1 DEF Step
  <2>1. CASE schedule(c)
    BY <2>1, PickNextPreserves, SetCurrentPreserves, ResetSlicePreserves,
       SwitchStackPreserves DEF schedule
  <2>2. CASE IdleCreate(c)
    BY <2>2, CreatePreserves DEF IdleCreate, CreatePoints
  <2>3. CASE idle(c) /\ ~IdleCreate(c)
    BY <2>3, IdleCheckPreserves, IdlePopPreserves, IdleUnusePreserves,
       IdleYieldPreserves DEF idle
  <2>4. CASE ShellFork(c)
    BY <2>4, CreatePreserves DEF ShellFork
  <2>5. CASE ShellResume(c)
    BY <2>5, ShellResumePreserves
  <2>6. CASE CommandReturns(c)
    BY <2>6, CommandReturnsPreserves
  <2>7. CASE CommandExits(c)
    BY <2>7, CommandExitsPreserves
  <2>8. CASE proc_free(c)
    BY <2>8, FreeUnlockPreserves, FreeRemovePreserves, FreeZombiePreserves,
       FreePushPreserves DEF proc_free
  <2>9. QED BY <2>1, <2>2, <2>3, <2>4, <2>5, <2>6, <2>7, <2>8
<1>2. CASE UserInput
  BY <1>2, ShellCommandPreserves DEF UserInput
<1>3. CASE Tick
  BY <1>3, TickChargesPreserves, TickPreemptsPreserves DEF Tick
<1>4. CASE UNCHANGED vars
  BY <1>4 DEF vars, table, lists, machine, locals, IInv, TypeOK, ProcessesOK,
              RunningOK, WaitingOK, ListsOK, WhereItIs
<1>5. QED BY <1>1, <1>2, <1>3, <1>4 DEF Next

\* IInv holds in every reachable state.
THEOREM Invariance ==
  ASSUME Calm
  PROVE  Spec => []IInv
<1>1. Init => IInv
  BY InitIInv
<1>2. IInv /\ [Next]_vars => IInv'
  BY NextIInv
<1>3. QED BY <1>1, <1>2, PTL DEF Spec

\* Every variable keeps a value of its kind.
THEOREM TypeCorrect ==
  ASSUME Calm
  PROVE  Spec => []TypeOK
<1>1. IInv => TypeOK
  BY DEF IInv
<1>2. QED BY <1>1, Invariance, PTL

\* The two lists hold exactly the runnable processes and the zombies.
THEOREM ListsAlwaysMatchState ==
  ASSUME Calm
  PROVE  Spec => []ListsMatchState
<1>1. IInv => ListsMatchState
  BY DEF IInv, ListsOK, ListsMatchState, InTransit
<1>2. QED BY <1>1, Invariance, PTL

\* cur_process names the executing stack outside schedule()'s last statements.
THEOREM CurrentAlwaysRunning ==
  ASSUME Calm
  PROVE  Spec => []CurrentIsRunning
<1>1. IInv => CurrentIsRunning
  BY DEF IInv, RunningOK, CurrentIsRunning, None, Slots
<1>2. QED BY <1>1, Invariance, PTL

\* A runnable process that waits has its own stack saved.
THEOREM StacksAlwaysIntact ==
  ASSUME Calm
  PROVE  Spec => []StacksIntact
<1>1. IInv => StacksIntact
  BY DEF IInv, WaitingOK, StacksIntact
<1>2. QED BY <1>1, Invariance, PTL

\* Code that waits for the timer runs with interrupts enabled.
THEOREM IntrAlwaysOnInProcessCode ==
  ASSUME Calm
  PROVE  Spec => []IntrOnInProcessCode
<1>1. IInv => IntrOnInProcessCode
  BY DEF IInv, RunningOK, IntrOnInProcessCode
<1>2. QED BY <1>1, Invariance, PTL

\* The points the code calls unreachable are unreachable.
THEOREM NeverReached ==
  ASSUME Calm
  PROVE  Spec => []UnreachableCode
<1>1. IInv => UnreachableCode
  BY CommandsAssumption
     DEF IInv, ProcessesOK, RunningOK, WhereItIs, UnreachableCode, IdlePoints, CreatePoints, LoginPoints, CommandPoints, SwitchWindow
<1>2. QED BY <1>1, Invariance, PTL

\* A zombie that has left the CPU is on the deleted list.
THEOREM DeletedAlwaysListed ==
  ASSUME Calm
  PROVE  Spec => []DeletedAreListed
<1>1. IInv => DeletedAreListed
  BY DEF IInv, ListsOK, DeletedAreListed
<1>2. QED BY <1>1, Invariance, PTL

-----------------------------------------------------------------------------
(* The run list is a FIFO queue.                                           *)

\* Requeueing the running process is a step of RunQueue.
LEMMA RequeueIsQueueStep ==
  ASSUME IInv, pc[run] \notin SwitchWindow \cup {"push"}, r_list' = Requeued
  PROVE  [Queue!Next]_r_list
<1>1. cur_process = run /\ run \in Slots
  BY RequeuedProps DEF IInv, RunningOK
<1>2. r_list \in Seq(Slots) /\ Distinct(r_list)
  BY DEF IInv, TypeOK, ListsOK
<1>3. CASE state[run] = "RUN" /\ run \in Members(r_list)
  <2>1. r_list # <<>> /\ Head(r_list) = run
    BY <1>3 DEF IInv, RunningOK, Members
  <2>2. Unlink(r_list, run) = Tail(r_list)
    BY <1>2, <2>1, UnlinkHead
  <2>3. r_list' = Append(Tail(r_list), Head(r_list))
    BY <1>1, <1>3, <2>1, <2>2 DEF Requeued, PushBack
  <2>4. QED BY <2>1, <2>3 DEF Queue!Next, Queue!Yield
<1>4. CASE state[run] = "RUN" /\ run \notin Members(r_list)
  <2>1. r_list' = Append(r_list, run)
    BY <1>1, <1>4, UnlinkAbsent DEF Requeued, PushBack
  <2>2. run \in Slots \ Queue!Queued
    BY <1>1, <1>4 DEF Members, Queue!Queued
  <2>3. QED BY <2>1, <2>2 DEF Queue!Next, Queue!Join
<1>5. CASE state[run] # "RUN"
  BY <1>1, <1>5 DEF Requeued
<1>6. QED BY <1>3, <1>4, <1>5

\* A command that unlinks itself leaves from the head of the queue.
LEMMA UnlinkIsQueueStep ==
  ASSUME IInv, pc[run] \in CommandPoints, r_list' = Unlink(r_list, run)
  PROVE  [Queue!Next]_r_list
<1>1. CASE run \in Members(r_list)
  <2>1. r_list # <<>> /\ Head(r_list) = run
    BY <1>1 DEF IInv, RunningOK, Members, CommandPoints, SwitchWindow
  <2>2. r_list' = Tail(r_list)
    BY <2>1, UnlinkHead DEF IInv, TypeOK, ListsOK
  <2>3. Head(r_list) # IdleSlot
    BY <2>1, RunningFunc
  <2>4. QED BY <2>1, <2>2, <2>3 DEF Queue!Next, Queue!Finish
<1>2. CASE run \notin Members(r_list)
  BY <1>2, UnlinkAbsent
<1>3. QED BY <1>1, <1>2

\* A new process joins at the end.
LEMMA CreateIsQueueStep ==
  ASSUME IInv, NEW f, pc[run] \in CreatePoints \cup {"fork"}, proc_create(f)
  PROVE  [Queue!Next]_r_list
<1>1. PICK s \in Slots : state[s] = "UNUSED" /\ r_list' = Append(r_list, s)
  BY DEF proc_create, IsFirstUnused
<1>2. s \notin Members(r_list)
  BY <1>1, RunningFunc DEF IInv, ListsOK
<1>3. QED BY <1>1, <1>2 DEF Members, Queue!Queued, Queue!Next, Queue!Join

LEMMA StepIsQueueStep ==
  ASSUME Calm, IInv, [Next]_vars
  PROVE  [Queue!Next]_r_list
<1> USE DEF table, lists, machine, locals
<1>1. ASSUME NEW c \in Slots, Step(c) PROVE [Queue!Next]_r_list
  <2> USE <1>1 DEF Step
  <2>1. CASE schedule(c)
    <3>1. CASE PickNext(c)
      BY <3>1, RequeueIsQueueStep DEF PickNext, SwitchWindow
    <3>2. CASE ~PickNext(c)
      BY <2>1, <3>2 DEF schedule, SetCurrent, ResetSlice, SwitchStack
    <3>3. QED BY <3>1, <3>2
  <2>2. CASE IdleCreate(c)
    BY <2>2, CreateIsQueueStep DEF IdleCreate, CreatePoints
  <2>3. CASE idle(c) /\ ~IdleCreate(c)
    BY <2>3 DEF idle, IdleCheck, IdlePop, IdleUnuse, IdleYield
  <2>4. CASE ShellFork(c)
    BY <2>4, CreateIsQueueStep DEF ShellFork
  <2>5. CASE ShellResume(c)
    BY <2>5 DEF ShellResume
  <2>6. CASE CommandReturns(c)
    BY <2>6 DEF CommandReturns
  <2>7. CASE CommandExits(c)
    BY <2>7, UnlinkIsQueueStep, UnlinkBoth DEF CommandExits, CommandPoints
  <2>8. CASE proc_free(c)
    <3>1. CASE FreeRemove(c) \/ FreePush(c)
      BY <3>1, UnlinkIsQueueStep, UnlinkBoth DEF FreeRemove, FreePush, CommandPoints
    <3>2. CASE FreeUnlock(c) \/ FreeZombie(c)
      BY <3>2 DEF FreeUnlock, FreeZombie
    <3>3. QED BY <2>8, <3>1, <3>2 DEF proc_free
  <2>9. QED BY <2>1, <2>2, <2>3, <2>4, <2>5, <2>6, <2>7, <2>8
<1>2. CASE UserInput
  BY <1>2 DEF UserInput, ShellCommand
<1>3. CASE TickCharges
  BY <1>3 DEF TickCharges
<1>4. CASE TickPreempts
  <2>1. pc[run] \notin SwitchWindow \cup {"push"}
    BY <1>4 DEF TickPreempts, Preemptible, Unlisted, Calm, IInv, TypeOK, ProcessesOK,
                RunningOK, WhereItIs, IdlePoints, CreatePoints, LoginPoints, CommandPoints, SwitchWindow
  <2>2. QED BY <1>4, <2>1, RequeueIsQueueStep DEF TickPreempts
<1>5. CASE UNCHANGED vars
  BY <1>5 DEF vars
<1>6. QED BY <1>1, <1>2, <1>3, <1>4, <1>5 DEF Next, Tick

\* r_list implements the FIFO queue of RunQueue.
THEOREM FifoImplemented ==
  ASSUME Calm
  PROVE  Spec => FifoOrder
<1>1. Init => Queue!Init
  BY DEF Init, Queue!Init
<1>2. IInv /\ [Next]_vars => [Queue!Next]_r_list
  BY StepIsQueueStep
<1>3. QED BY <1>1, <1>2, Invariance, PTL DEF Spec, FifoOrder, Queue!Spec

-----------------------------------------------------------------------------
(* The handshake between the shell and its command.                        *)

\* Steps that keep the table and move no process into or out of a point
\* ShellInv looks at.
LEMMA NeutralStep ==
  ASSUME ShellInv, UNCHANGED <<state, func, parent, simple_lock>>,
         \A s \in Slots :
           /\ pc'[s] \in {"body", "unlock"} <=> pc[s] \in {"body", "unlock"}
           /\ pc'[s] \in CreatePoints <=> pc[s] \in CreatePoints
           /\ pc'[s] = "spin" <=> pc[s] = "spin"
           /\ pc'[s] = "fork" <=> pc[s] = "fork",
         state[run'] = "ZOMBIE" /\ pc'[run'] \in {"tail", "unlock"} =>
           run' = run /\ pc[run] \in {"tail", "unlock"}
  PROVE  ShellInv'
<1>1. IdleSlot \in Slots
  BY SlotsAssumption DEF IdleSlot, Slots
<1>2. TheLogin'
  BY <1>1 DEF ShellInv, TheLogin
<1>3. \A s \in Slots : Foreground(s)' <=> Foreground(s)
  BY DEF Foreground
<1>4. QED BY <1>2, <1>3 DEF ShellInv

\* schedule() and the timer only choose who runs.
LEMMA SchedulingKeepsShell ==
  ASSUME Calm, IInv, ShellInv,
         Tick \/ \E c \in Slots : c = run /\ schedule(c)
  PROVE  ShellInv'
<1> USE DEF table, lists, machine, locals, Goto
<1>1. CASE TickCharges
  BY <1>1, NeutralStep DEF TickCharges
<1>2. CASE TickPreempts
  <2>1. pc[run] \notin SwitchWindow \cup {"push"}
    BY <1>2 DEF TickPreempts, Preemptible, Unlisted, Calm, IInv, TypeOK, ProcessesOK,
                RunningOK, WhereItIs, IdlePoints, CreatePoints, LoginPoints, CommandPoints, SwitchWindow
  <2>2. /\ Head(Requeued) \in Slots /\ state[Head(Requeued)] = "RUN"
        /\ FrontRunnable(Requeued) = Head(Requeued) /\ cur_process = run
    BY <2>1, RequeuedProps
  <2>3. switch_process(run, Head(Requeued), "intr")
    BY <1>2, <2>2 DEF TickPreempts
  <2>4. state[run'] = "RUN"
    BY <2>2, <2>3, SwitchProps
  <2>5. UNCHANGED <<state, func, parent, simple_lock, pc>>
    BY <1>2 DEF TickPreempts
  <2>6. QED BY <2>4, <2>5, NeutralStep
<1>3. ASSUME NEW c \in Slots, c = run, schedule(c) PROVE ShellInv'
  <2>1. CASE PickNext(c) \/ SetCurrent(c) \/ ResetSlice(c)
    <3>1. PICK point \in SwitchWindow : pc' = [pc EXCEPT ![c] = point]
      BY <2>1 DEF PickNext, SetCurrent, ResetSlice, SwitchWindow
    <3>2. pc[c] \in SwitchWindow \cup {"pick"} /\ UNCHANGED <<state, func, parent, simple_lock, run>>
      BY <2>1 DEF PickNext, SetCurrent, ResetSlice, SwitchWindow
    <3>3. QED BY <1>3, <3>1, <3>2, NeutralStep DEF IInv, TypeOK, SwitchWindow, CreatePoints
  <2>2. CASE SwitchStack(c)
    <3>1. /\ next[run] \in Slots /\ state[next[run]] = "RUN"
          /\ switch_process(run, next[run], "call") /\ pc[c] = "switch"
      BY <1>3, <2>2, HeadTailProperties DEF SwitchStack, IInv, RunningOK, TypeOK, SwitchWindow
    <3>2. state[run'] = "RUN"
      BY <3>1, SwitchProps
    <3>3. /\ pc' = [pc EXCEPT ![c] = ReturnPoint(func[c])]
          /\ ReturnPoint(func[c]) \in {"check", "pick", "never"}
          /\ UNCHANGED <<state, func, parent, simple_lock>>
      BY <2>2 DEF SwitchStack, ReturnPoint
    <3>4. QED BY <3>1, <3>2, <3>3, NeutralStep DEF IInv, TypeOK, CreatePoints
  <2>3. QED BY <1>3, <2>1, <2>2 DEF schedule
<1>4. QED BY <1>1, <1>2, <1>3 DEF Tick

\* The idle process frees slots of zombies only.
LEMMA IdleKeepsShell ==
  ASSUME IInv, ShellInv, NEW c \in Slots, c = run,
         IdleCheck(c) \/ IdlePop(c) \/ IdleUnuse(c) \/ IdleYield(c)
  PROVE  ShellInv'
<1> USE DEF table, lists, machine, locals, Goto
<1>1. c = IdleSlot /\ pc[c] \in {"check", "drain", "unuse"} /\ state[c] = "RUN"
  BY RunningFunc DEF IdleCheck, IdlePop, IdleUnuse, IdleYield, IdlePoints, IInv, ProcessesOK
<1>2. CASE ~IdleUnuse(c)
  <2>1. PICK point \in {"drain", "error", "unuse", "pick"} : pc' = [pc EXCEPT ![c] = point]
    BY <1>2 DEF IdleCheck, IdlePop, IdleYield
  <2>2. UNCHANGED <<state, func, parent, simple_lock, run>>
    BY <1>2 DEF IdleCheck, IdlePop, IdleYield
  <2>3. QED BY <1>1, <2>1, <2>2, NeutralStep DEF IInv, TypeOK, CreatePoints
<1>3. CASE IdleUnuse(c)
  <2>1. reap \in Slots /\ state[reap] = "ZOMBIE"
    BY <1>1, <1>3 DEF IdleUnuse, IInv, ListsOK, TypeOK
  <2>2. /\ state' = [state EXCEPT ![reap] = "UNUSED"] /\ pc' = [pc EXCEPT ![c] = "drain"]
        /\ UNCHANGED <<func, parent, simple_lock, run>>
    BY <1>3 DEF IdleUnuse
  <2>3. \A s \in Slots : Foreground(s)' <=> Foreground(s)
    BY <1>1, <2>1, <2>2 DEF Foreground, IInv, TypeOK
  <2>4. TheLogin'
    BY <1>1, <2>1, <2>2 DEF ShellInv, TheLogin, IInv, TypeOK, CreatePoints
  <2>5. QED BY <1>1, <2>1, <2>2, <2>3, <2>4 DEF ShellInv, IInv, TypeOK
<1>4. QED BY <1>2, <1>3

\* The shell sets its lock before it forks and leaves the spin when it is 0.
LEMMA ShellKeepsShell ==
  ASSUME IInv, ShellInv, NEW c \in Slots, c = run, ShellCommand(c) \/ ShellResume(c)
  PROVE  ShellInv'
<1> USE DEF table, lists, machine, locals, Goto
<1>1. /\ cur_process = c /\ func[c] = "login" /\ state[c] = "RUN"
      /\ pc[c] \in {"prompt", "spin"} /\ c # IdleSlot
  BY RunningFunc DEF ShellCommand, ShellResume, IInv, RunningOK, ProcessesOK,
                     LoginPoints, SwitchWindow
<1>2. /\ \E point \in {"fork", "prompt"} : pc' = [pc EXCEPT ![c] = point]
      /\ UNCHANGED <<state, func, parent, run>>
  BY DEF ShellCommand, ShellResume
<1>3. \A s \in Slots : Foreground(s)' <=> Foreground(s)
  BY <1>1, <1>2, CommandsAssumption DEF Foreground, IInv, TypeOK
<1>4. TheLogin'
  BY <1>1, <1>2 DEF ShellInv, TheLogin, IInv, TypeOK
<1>5. CASE ShellCommand(c)
  BY <1>1, <1>2, <1>3, <1>4, <1>5 DEF ShellInv, TheLogin, IInv, TypeOK, ShellCommand
<1>6. CASE ShellResume(c)
  BY <1>1, <1>2, <1>3, <1>4, <1>6 DEF ShellInv, TheLogin, IInv, TypeOK, ShellResume
<1>7. QED BY <1>5, <1>6

\* Where a command can be, alive or as a zombie.
LEMMA CommandWhere ==
  ASSUME IInv, func[run] \in Commands
  PROVE  \/ state[run] = "RUN" /\ pc[run] \in {"body", "unlock", "remove", "zombie"}
         \/ state[run] = "ZOMBIE" /\ pc[run] \notin {"body", "spin", "fork", "prompt"}
<1>1. run \in Slots /\ state[run] # "UNUSED"
  BY DEF IInv, RunningOK
<1>2. WhereItIs(run)
  BY <1>1 DEF IInv, ProcessesOK
<1>3. QED BY <1>2 DEF WhereItIs, CommandPoints, SwitchWindow

\* A command unlocks its parent once in the foreground; as a zombie it finds
\* the lock open already.
LEMMA CommandKeepsShell ==
  ASSUME IInv, ShellInv, NEW c \in Slots, c = run,
         CommandReturns(c) \/ CommandExits(c) \/ proc_free(c)
  PROVE  ShellInv'
<1> USE DEF table, lists, machine, locals, Goto
<1>1. /\ cur_process = c /\ func[c] \in Commands /\ c # IdleSlot
      /\ parent[c] \in Slots /\ pc[c] \in CommandPoints
      /\ state[c] \in {"RUN", "ZOMBIE"}
  BY RunningFunc, UnlinkBoth
     DEF CommandReturns, CommandExits, proc_free, FreeUnlock, FreeRemove, FreeZombie,
         FreePush, CommandPoints
<1>2. func[parent[c]] = "login" /\ func[c] # "login" /\ parent[c] # c
  BY <1>1, CommandsAssumption DEF ShellInv, TheLogin
<1>3. CASE CommandReturns(c)
  <2>1. /\ (pc[c] = "body" /\ state[c] = "RUN") \/ (pc[c] = "tail" /\ state[c] = "ZOMBIE")
        /\ pc' = [pc EXCEPT ![c] = "unlock"] /\ UNCHANGED <<state, func, parent, simple_lock, run>>
    BY <1>1, <1>3, CommandWhere DEF CommandReturns
  <2>2. \A s \in Slots : Foreground(s)' <=> Foreground(s)
    BY <1>1, <2>1 DEF Foreground, IInv, TypeOK
  <2>3. TheLogin'
    BY <1>1, <2>1 DEF ShellInv, TheLogin, IInv, TypeOK
  <2>4. QED BY <1>1, <1>2, <2>1, <2>2, <2>3 DEF ShellInv, IInv, TypeOK
<1>4. CASE CommandExits(c) \/ FreeUnlock(c)
  <2>1. /\ Foreground(c) \/ (state[c] = "ZOMBIE" /\ pc[c] = "unlock")
        /\ simple_lock' = [simple_lock EXCEPT ![parent[c]] = 0]
        /\ UNCHANGED <<func, parent, run>>
    BY <1>1, <1>4, CommandWhere DEF CommandExits, FreeUnlock, Foreground
  <2>2. /\ state'[c] # "UNUSED" /\ \A s \in Slots : s # c => state'[s] = state[s]
        /\ pc'[c] \in {"tail", "remove"} /\ \A s \in Slots : s # c => pc'[s] = pc[s]
    BY <1>1, <1>4 DEF CommandExits, FreeUnlock, IInv, TypeOK
  <2>3. \A s \in Slots : ~Foreground(s)'
    <3>1. ASSUME NEW s \in Slots, s # c PROVE ~Foreground(s)
      BY <1>1, <1>2, <2>1, <3>1 DEF ShellInv
    <3>2. ASSUME NEW s \in Slots, s # c PROVE ~Foreground(s)'
      BY <2>1, <2>2, <3>1, <3>2 DEF Foreground
    <3>3. ASSUME NEW s \in Slots, s = c PROVE ~Foreground(s)'
      BY <2>2, <3>3 DEF Foreground
    <3>4. QED BY <3>2, <3>3
  <2>4. \A l \in Slots : func[l] = "login" => l = parent[c] /\ pc[l] = "spin"
    BY <1>1, <1>2, <2>1 DEF ShellInv, TheLogin
  <2>5. TheLogin'
    <3>1. /\ \A l \in Slots : func'[l] = "login" => l # c
          /\ IdleSlot \in Slots /\ pc'[IdleSlot] = pc[IdleSlot]
      BY <1>1, <1>2, <2>1, <2>2, SlotsAssumption DEF IdleSlot, Slots
    <3>2. QED BY <1>2, <2>1, <2>2, <3>1 DEF ShellInv, TheLogin
  <2>6. \A l \in Slots : func'[l] = "login" => pc'[l] = "spin" /\ simple_lock'[l] = 0
    BY <1>1, <1>2, <2>1, <2>2, <2>4 DEF IInv, TypeOK
  <2>7. QED BY <2>3, <2>5, <2>6 DEF ShellInv
<1>5. CASE FreeRemove(c) \/ FreeZombie(c) \/ FreePush(c)
  <2>1. /\ pc[c] \in {"remove", "zombie", "push"}
        /\ state'[c] # "UNUSED" /\ \A s \in Slots : s # c => state'[s] = state[s]
        /\ pc'[c] \in {"zombie", "push", "pick"} /\ \A s \in Slots : s # c => pc'[s] = pc[s]
        /\ UNCHANGED <<func, parent, simple_lock, run>>
    BY <1>1, <1>5 DEF FreeRemove, FreeZombie, FreePush, IInv, TypeOK
  <2>2. ASSUME NEW s \in Slots PROVE Foreground(s)' <=> Foreground(s)
    BY <2>1 DEF Foreground
  <2>3. TheLogin'
    <3>1. /\ \A l \in Slots : func'[l] = "login" => l # c
          /\ IdleSlot \in Slots /\ pc'[IdleSlot] = pc[IdleSlot]
      BY <1>1, <1>2, <2>1, SlotsAssumption DEF IdleSlot, Slots
    <3>2. QED BY <1>2, <2>1, <3>1 DEF ShellInv, TheLogin
  <2>4. QED BY <1>1, <1>2, <2>1, <2>2, <2>3 DEF ShellInv
<1>6. QED BY <1>3, <1>4, <1>5 DEF proc_free

\* A process created by idle() is not in the foreground; the one the shell
\* forks is, and the shell spins for it.
LEMMA CreateKeepsShell ==
  ASSUME IInv, ShellInv, NEW f,
         \/ pc[run] \in {"create1", "create2"} /\ f = "kernel"
         \/ pc[run] = "create3" /\ f = "login"
         \/ pc[run] = "fork" /\ f \in Commands,
         proc_create(f)
  PROVE  ShellInv'
<1> USE CommandsAssumption
<1>1. PICK s \in Slots :
        /\ state[s] = "UNUSED"
        /\ state' = [state EXCEPT ![s] = "RUN"]
        /\ func' = [func EXCEPT ![s] = f]
        /\ parent' = [parent EXCEPT ![s] = cur_process]
        /\ simple_lock' = [simple_lock EXCEPT ![s] = 0]
        /\ pc' = [pc EXCEPT ![s] = StartPoint(f), ![run] = AfterCreate(pc[run])]
        /\ run' = run
  BY DEF proc_create, IsFirstUnused
<1>2. /\ IdleSlot \in Slots /\ run \in Slots /\ cur_process = run
      /\ pc[run] \in CreatePoints => run = IdleSlot
      /\ pc[run] = "fork" => func[run] = "login" /\ run # IdleSlot
      /\ state[run] = "RUN" /\ state[IdleSlot] = "RUN"
  BY RunningFunc, SlotsAssumption
     DEF IInv, ProcessesOK, RunningOK, IdlePoints, CreatePoints, LoginPoints,
         SwitchWindow, IdleSlot, Slots
<1>3. s # run /\ s # IdleSlot
  BY <1>1, <1>2
<1>4. /\ state'[s] = "RUN" /\ func'[s] = f /\ parent'[s] = run /\ simple_lock'[s] = 0
      /\ pc'[s] = StartPoint(f) /\ pc'[run] = AfterCreate(pc[run])
      /\ \A t \in Slots \ {s} :
           /\ state'[t] = state[t] /\ func'[t] = func[t] /\ parent'[t] = parent[t]
           /\ simple_lock'[t] = simple_lock[t]
           /\ t # run => pc'[t] = pc[t]
  BY <1>1, <1>2, <1>3 DEF IInv, TypeOK
<1>5. ASSUME NEW t \in Slots \ {s} PROVE Foreground(t)' <=> Foreground(t)
  <2>1. CASE t = run
    BY <1>2, <1>4, <2>1 DEF Foreground, AfterCreate, CreatePoints
  <2>2. CASE t # run
    BY <1>4, <2>2 DEF Foreground
  <2>3. QED BY <2>1, <2>2
<1>6. state[run] = "RUN" /\ state'[run'] = "RUN"
  BY <1>1, <1>2, <1>3, <1>4
<1>7. CASE pc[run] \in CreatePoints
  <2>1. f \in {"kernel", "login"} /\ f \notin Commands /\ run = IdleSlot
        /\ (f = "login" => pc[run] = "create3")
    BY <1>2, <1>7 DEF CreatePoints
  <2>2. \A l \in Slots : func[l] # "login"
    BY <1>2, <1>7 DEF ShellInv, TheLogin
  <2>3. \A t \in Slots : state[t] # "UNUSED" => func[t] \notin Commands
    BY <2>2 DEF ShellInv, TheLogin, IInv, ProcessesOK
  <2>4. \A t \in Slots : ~Foreground(t)'
    <3>1. ~Foreground(s)'
      BY <1>4, <2>1 DEF Foreground
    <3>2. \A t \in Slots \ {s} : ~Foreground(t)'
      BY <1>5, <2>3 DEF Foreground
    <3>3. ASSUME NEW t \in Slots, t = s PROVE ~Foreground(t)'
      BY <1>4, <2>1, <3>3 DEF Foreground
    <3>4. QED BY <3>2, <3>3
  <2>5. TheLogin'
    <3>1. f = "login" => pc'[IdleSlot] = "check"
      BY <1>4, <2>1 DEF AfterCreate
    <3>2. \A l \in Slots : func'[l] = "login" => l = s /\ f = "login"
      BY <1>4, <2>2
    <3>3. \A t \in Slots : state'[t] # "UNUSED" => func'[t] \notin Commands
      BY <1>4, <2>1, <2>3
    <3>4. QED BY <1>4, <3>1, <3>2, <3>3 DEF TheLogin, CreatePoints
  <2>6. \A l \in Slots : func'[l] = "login" => pc'[l] = "prompt"
    BY <1>4, <2>1, <2>2 DEF StartPoint
  <2>7. QED BY <1>6, <2>4, <2>5, <2>6 DEF ShellInv
<1>8. CASE pc[run] = "fork"
  <2>1. f \in Commands /\ func[run] = "login" /\ simple_lock[run] = 1
    BY <1>2, <1>8 DEF ShellInv
  <2>2. \A t \in Slots : ~Foreground(t)
    BY <1>2, <1>8, <2>1 DEF ShellInv
  <2>3. ASSUME NEW t \in Slots PROVE Foreground(t)' <=> t = s
    <3>1. CASE t = s
      BY <1>4, <2>1, <3>1 DEF Foreground, StartPoint
    <3>2. CASE t # s
      BY <1>5, <2>2, <3>2
    <3>3. QED BY <3>1, <3>2
  <2>4. \A l \in Slots : func'[l] = "login" <=> l = run
    BY <1>2, <1>3, <1>4, <2>1 DEF ShellInv, TheLogin
  <2>5. TheLogin'
    <3>1. pc'[IdleSlot] = pc[IdleSlot]
      BY <1>2, <1>3, <1>4, <1>8
    <3>2. pc[IdleSlot] \notin CreatePoints
      BY <1>2, <2>1 DEF ShellInv, TheLogin
    <3>3. ASSUME NEW t \in Slots, state'[t] # "UNUSED", func'[t] \in Commands
          PROVE  func'[parent'[t]] = "login"
      <4>1. CASE t = s
        BY <1>2, <1>4, <2>4, <4>1
      <4>2. CASE t # s
        <5>1. func[parent[t]] = "login" /\ parent[t] \in Slots
          BY <1>4, <3>3, <4>2 DEF ShellInv, TheLogin, IInv, ProcessesOK
        <5>2. parent[t] = run
          BY <1>2, <2>1, <5>1 DEF ShellInv, TheLogin
        <5>3. QED BY <1>2, <1>4, <2>4, <4>2, <5>2
      <4>3. QED BY <4>1, <4>2
    <3>4. QED BY <1>2, <1>6, <1>1, <2>4, <3>1, <3>2, <3>3 DEF TheLogin
  <2>6. pc'[run] = "spin" /\ simple_lock'[run] = 1
    BY <1>2, <1>3, <1>4, <1>8, <2>1 DEF AfterCreate
  <2>7. QED BY <1>1, <1>6, <2>3, <2>4, <2>5, <2>6 DEF ShellInv
<1>9. QED BY <1>7, <1>8 DEF CreatePoints

LEMMA NextShellInv ==
  ASSUME Calm, IInv, ShellInv, [Next]_vars
  PROVE  ShellInv'
<1>1. ASSUME NEW c \in Slots, Step(c) PROVE ShellInv'
  <2> USE <1>1 DEF Step
  <2>1. CASE schedule(c)
    BY <2>1, SchedulingKeepsShell
  <2>2. CASE IdleCreate(c)
    BY <2>2, CreateKeepsShell DEF IdleCreate
  <2>3. CASE idle(c) /\ ~IdleCreate(c)
    BY <2>3, IdleKeepsShell DEF idle
  <2>4. CASE ShellFork(c)
    BY <2>4, CreateKeepsShell DEF ShellFork
  <2>5. CASE ShellResume(c)
    BY <2>5, ShellKeepsShell
  <2>6. CASE CommandReturns(c) \/ CommandExits(c) \/ proc_free(c)
    BY <2>6, CommandKeepsShell
  <2>7. QED BY <2>1, <2>2, <2>3, <2>4, <2>5, <2>6
<1>2. CASE UserInput
  BY <1>2, ShellKeepsShell DEF UserInput
<1>3. CASE Tick
  BY <1>3, SchedulingKeepsShell
<1>4. CASE UNCHANGED vars
  BY <1>4, NeutralStep DEF vars, table, machine
<1>5. QED BY <1>1, <1>2, <1>3, <1>4 DEF Next

LEMMA InitShellInv ==
  Init => ShellInv
BY SlotsAssumption, CommandsAssumption
   DEF Init, ShellInv, TheLogin, Foreground, IdleSlot

\* The shell spins on its lock exactly while its one command is in the
\* foreground.
THEOREM ShellAlwaysWaits ==
  ASSUME Calm
  PROVE  Spec => []ShellWaitsForCommand
<1>1. Init => ShellInv
  BY InitShellInv
<1>2. IInv /\ ShellInv /\ [Next]_vars => ShellInv'
  BY NextShellInv
<1>3. ASSUME IInv, ShellInv PROVE ShellWaitsForCommand
  <2> SUFFICES ASSUME NEW l \in Slots, func[l] = "login"
               PROVE  /\ ({s \in Slots : Foreground(s) /\ parent[s] = l} # {})
                           <=> (pc[l] = "spin" /\ simple_lock[l] = 1)
                      /\ \A s, t \in {s \in Slots : Foreground(s) /\ parent[s] = l} : s = t
    BY DEF ShellWaitsForCommand
  <2>1. \A s \in Slots : Foreground(s) => parent[s] = l
    BY <1>3 DEF ShellInv, TheLogin, Foreground, IInv, ProcessesOK
  <2>2. QED BY <1>3, <2>1 DEF ShellInv
<1>4. QED BY <1>1, <1>2, <1>3, Invariance, PTL DEF Spec

-----------------------------------------------------------------------------
(* Slots for forks, when no tick reschedules in a window.                  *)

\* Lists keep their order at the end and lose it at the head only.
LEMMA PrecedesAppend ==
  ASSUME NEW S, NEW q \in Seq(S), NEW p \in S, NEW s, NEW t, Precedes(q, s, t)
  PROVE  Precedes(Append(q, p), s, t)
<1> DEFINE a == Append(q, p)
<1>1. /\ DOMAIN q = 1 .. Len(q) /\ DOMAIN a = 1 .. Len(q) + 1 /\ Len(q) \in Nat
      /\ \A i \in 1 .. Len(q) : a[i] = q[i]
  BY AppendProperties, LenProperties
<1>2. PICK i, j \in DOMAIN q : i < j /\ q[i] = s /\ q[j] = t
  BY DEF Precedes
<1> HIDE DEF a
<1>3. i \in DOMAIN a /\ j \in DOMAIN a /\ a[i] = s /\ a[j] = t
  BY <1>1, <1>2
<1>4. Precedes(a, s, t)
  BY <1>2, <1>3 DEF Precedes
<1>5. QED BY <1>4 DEF a

LEMMA PrecedesNew ==
  ASSUME NEW S, NEW q \in Seq(S), NEW p \in S, NEW s \in Members(q)
  PROVE  Precedes(Append(q, p), s, p)
<1> DEFINE a == Append(q, p)
           n == Len(q)
<1>1. /\ DOMAIN q = 1 .. n /\ DOMAIN a = 1 .. n + 1 /\ n \in Nat
      /\ \A i \in 1 .. n : a[i] = q[i]
      /\ a[n + 1] = p
  BY AppendProperties, LenProperties
<1>2. PICK i \in DOMAIN q : q[i] = s
  BY DEF Members
<1> HIDE DEF a, n
<1>3. i \in DOMAIN a /\ n + 1 \in DOMAIN a /\ i < n + 1 /\ a[i] = s
  BY <1>1, <1>2
<1>4. Precedes(a, s, p)
  BY <1>1, <1>3 DEF Precedes
<1>5. QED BY <1>4 DEF a

LEMMA PrecedesTail ==
  ASSUME NEW S, NEW q \in Seq(S), q # <<>>, NEW s, NEW t, Precedes(q, s, t), s # Head(q)
  PROVE  Precedes(Tail(q), s, t)
<1> DEFINE a == Tail(q)
           n == Len(q)
<1>1. /\ DOMAIN q = 1 .. n /\ DOMAIN a = 1 .. n - 1 /\ n \in Nat
      /\ \A i \in 1 .. n - 1 : a[i] = q[i + 1]
      /\ Head(q) = q[1]
  BY HeadTailProperties, LenProperties
<1>2. PICK i, j \in DOMAIN q : i < j /\ q[i] = s /\ q[j] = t
  BY DEF Precedes
<1> HIDE DEF a, n
<1> DEFINE k == i - 1
           m == j - 1
<1>3. /\ k \in 1 .. n - 1 /\ m \in 1 .. n - 1 /\ k < m /\ k + 1 = i /\ m + 1 = j
  BY <1>1, <1>2
<1> HIDE DEF k, m
<1>4. a[k] = s /\ a[m] = t
  BY <1>1, <1>2, <1>3
<1>5. Precedes(a, s, t)
  BY <1>1, <1>3, <1>4 DEF Precedes
<1>6. QED BY <1>5 DEF a

LEMMA HeadIsFirst ==
  ASSUME NEW S, NEW q \in Seq(S), q # <<>>, Distinct(q), NEW s, Precedes(q, s, Head(q))
  PROVE  FALSE
<1>1. PICK i, j \in DOMAIN q : i < j /\ q[j] = Head(q)
  BY DEF Precedes
<1>2. DOMAIN q = 1 .. Len(q) /\ 1 \in DOMAIN q /\ Head(q) = q[1] /\ Len(q) \in Nat
  BY LenProperties, EmptySeq
<1>3. j = 1
  BY <1>1, <1>2 DEF Distinct
<1>4. QED BY <1>1, <1>2, <1>3

\* Zombies are commands, and there are none before there is a shell.
LEMMA ZombiesAreCommands ==
  ASSUME IInv, ShellInv
  PROVE  /\ IdleSlot \in Slots
         /\ \A s \in Slots : Zombie(s) => func[s] \in Commands /\ s # IdleSlot
         /\ pc[IdleSlot] \in CreatePoints =>
              \A s \in Slots : ~Foreground(s) /\ ~Zombie(s)
                                /\ (state[s] # "UNUSED" => func[s] \notin Commands)
<1>1. IdleSlot \in Slots
  BY SlotsAssumption DEF IdleSlot, Slots
<1>2. \A s \in Slots : Zombie(s) => func[s] \in Commands /\ s # IdleSlot
  BY CommandsAssumption DEF Zombie, IInv, ProcessesOK, WhereItIs
<1>3. ASSUME pc[IdleSlot] \in CreatePoints, NEW s \in Slots, state[s] # "UNUSED"
      PROVE  func[s] \notin Commands
  <2>1. SUFFICES ASSUME func[s] \in Commands PROVE FALSE
    OBVIOUS
  <2>2. parent[s] \in Slots /\ func[parent[s]] = "login"
    BY <1>3, <2>1 DEF IInv, ProcessesOK, ShellInv, TheLogin
  <2>3. QED BY <1>3, <2>2 DEF ShellInv, TheLogin
<1>4. QED BY <1>1, <1>2, <1>3 DEF Foreground, Zombie

\* A command in the foreground gets the CPU when there are no zombies.
LEMMA ForegroundAlone ==
  ASSUME IInv, ReapInv, Foreground(run)
  PROVE  \A t \in Slots : ~Zombie(t)
<1>1. SUFFICES ASSUME NEW t \in Slots, Zombie(t) PROVE FALSE
  OBVIOUS
<1>2. run \in Slots /\ state[run] = "RUN" /\ pc[run] \in {"body", "unlock"}
  BY DEF Foreground, IInv, RunningOK
<1>3. run \in Members(r_list) /\ r_list \in Seq(Slots) /\ Distinct(r_list)
  BY <1>2 DEF IInv, ListsOK, TypeOK
<1>4. Head(r_list) = run /\ r_list # <<>>
  BY <1>2, <1>3 DEF IInv, RunningOK, SwitchWindow, Members
<1>5. Precedes(r_list, IdleSlot, run)
  BY <1>1, <1>2 DEF ReapInv, IdleReaps
<1>6. QED BY <1>3, <1>4, <1>5, HeadIsFirst

\* Steps that change no process's state.
LEMMA StateKeptReaps ==
  ASSUME ReapInv, UNCHANGED <<state, func, run>>,
         \A s \in Slots : Foreground(s)' <=> Foreground(s),
         pc'[IdleSlot] \in {"create1", "create2"} => pc'[IdleSlot] = pc[IdleSlot],
         pc'[IdleSlot] \in {"pick"} \cup SwitchWindow =>
           run = IdleSlot /\ \A s \in Slots : ~Zombie(s),
         \A s, t \in Slots : Foreground(s) /\ Zombie(t) => Precedes(r_list', IdleSlot, s),
         run \in Slots
  PROVE  ReapInv'
<1>1. \A s \in Slots : (Zombie(s)' <=> Zombie(s)) /\ (Kernel(s)' <=> Kernel(s))
  BY DEF Zombie, Kernel
<1>2. KernelsOK'
  BY <1>1 DEF ReapInv, KernelsOK
<1>3. LeavingOK'
  BY <1>1 DEF ReapInv, LeavingOK
<1>4. IdleReaps'
  BY <1>1 DEF IdleReaps
<1>5. QED BY <1>1, <1>2, <1>3, <1>4 DEF ReapInv

\* The process that gives up the CPU goes behind the next command, and it is not
\* idle() while there are zombies.
LEMMA RequeuedReaps ==
  ASSUME IInv, ReapInv, pc[run] \notin SwitchWindow \cup {"push"},
         NEW s \in Slots, NEW t \in Slots, Foreground(s), Zombie(t), run # IdleSlot
  PROVE  Precedes(Requeued, IdleSlot, s)
<1>1. /\ Precedes(r_list, IdleSlot, s) /\ r_list \in Seq(Slots) /\ Distinct(r_list)
      /\ run \in Slots /\ cur_process = run
  BY RequeuedProps DEF ReapInv, IdleReaps, IInv, TypeOK, ListsOK, RunningOK
<1>2. CASE state[run] # "RUN"
  BY <1>1, <1>2 DEF Requeued
<1>3. CASE state[run] = "RUN" /\ run \notin Members(r_list)
  <2>1. Requeued = Append(r_list, run)
    BY <1>1, <1>3, UnlinkAbsent DEF Requeued, PushBack
  <2>2. QED BY <1>1, <2>1, PrecedesAppend
<1>4. CASE state[run] = "RUN" /\ run \in Members(r_list)
  <2>1. r_list # <<>> /\ Head(r_list) = run
    BY <1>4 DEF IInv, RunningOK, Members
  <2>2. Unlink(r_list, run) = Tail(r_list)
    BY <1>1, <2>1, UnlinkHead
  <2>3. Requeued = Append(Tail(r_list), run)
    BY <1>1, <1>4, <2>2 DEF Requeued, PushBack
  <2>4. Precedes(Tail(r_list), IdleSlot, s) /\ Tail(r_list) \in Seq(Slots)
    BY <1>1, <2>1, PrecedesTail, TailProps
  <2>5. QED BY <1>1, <2>3, <2>4, PrecedesAppend
<1>5. QED BY <1>2, <1>3, <1>4

\* A command does not give up the CPU while it releases the shell.
LEMMA RunChanges ==
  ASSUME IInv, ShellInv, ReapInv, UNCHANGED <<state, func>>,
         run' \in Slots, state[run'] = "RUN",
         state[run] = "RUN" => pc[run] \notin {"remove", "zombie"},
         \A s \in Slots : Foreground(s)' <=> Foreground(s),
         pc'[IdleSlot] = pc[IdleSlot] \/ pc'[IdleSlot] = "check",
         run = IdleSlot => pc'[IdleSlot] \in CreatePoints \cup {"check"},
         \A s, t \in Slots : Foreground(s) /\ Zombie(t) => Precedes(r_list', IdleSlot, s)
  PROVE  ReapInv'
<1>1. \A s \in Slots : (Zombie(s)' <=> Zombie(s)) /\ (Kernel(s)' <=> Kernel(s))
  BY DEF Zombie, Kernel
<1>2. KernelsOK'
  BY <1>1 DEF ReapInv, KernelsOK
<1>3. ASSUME NEW s \in Slots, state[s] = "RUN", func[s] \in Commands PROVE Foreground(s)
  <2>1. SUFFICES ASSUME ~Foreground(s) PROVE FALSE
    OBVIOUS
  <2>2. s = run
    BY <1>3, <2>1 DEF ReapInv, LeavingOK
  <2>3. pc[run] \in {"body", "unlock", "remove", "zombie"}
    BY <1>3, <2>2, CommandWhere
  <2>4. QED BY <1>3, <2>1, <2>2, <2>3 DEF Foreground
<1>4. LeavingOK'
  BY <1>3 DEF LeavingOK
<1>5. ~(pc'[IdleSlot] \in {"pick"} \cup SwitchWindow)
  BY DEF ReapInv, IdleReaps, CreatePoints, SwitchWindow
<1>6. IdleReaps'
  BY <1>1, <1>5 DEF IdleReaps
<1>7. QED BY <1>1, <1>2, <1>4, <1>6 DEF ReapInv
\* Ticks within a slice, and steps that move one stack on.
LEMMA QuietStepsReap ==
  ASSUME IInv, ShellInv, ReapInv, NEW c \in Slots, c = run,
         \/ TickCharges \/ SetCurrent(c) \/ ResetSlice(c) \/ IdleCheck(c) \/ IdlePop(c)
         \/ ShellCommand(c) \/ ShellResume(c) \/ CommandReturns(c)
  PROVE  ReapInv'
<1> USE DEF table, lists, machine, locals, Goto
<1>1. UNCHANGED <<state, func, run, r_list>>
  BY DEF TickCharges, SetCurrent, ResetSlice, IdleCheck, IdlePop, ShellCommand,
         ShellResume, CommandReturns
<1>2. /\ \A s, t \in Slots : Foreground(s) /\ Zombie(t) => Precedes(r_list', IdleSlot, s)
      /\ pc[IdleSlot] \in {"pick"} \cup SwitchWindow =>
           run = IdleSlot /\ \A s \in Slots : ~Zombie(s)
  BY <1>1 DEF ReapInv, IdleReaps
<1>3. CASE TickCharges
  <2>1. pc' = pc
    BY <1>3 DEF TickCharges
  <2>2. \A s \in Slots : Foreground(s)' <=> Foreground(s)
    BY <1>1, <2>1 DEF Foreground
  <2>3. QED BY <1>1, <1>2, <2>1, <2>2, StateKeptReaps
<1>4. CASE ~TickCharges
  <2>1. PICK point \in {"reset", "switch", "drain", "error", "unuse", "fork", "prompt", "unlock"} :
          /\ pc' = [pc EXCEPT ![c] = point]
          /\ point \in {"reset", "switch"} => pc[c] \in SwitchWindow
          /\ point = "unlock" => pc[c] \in {"body", "tail"}
          /\ point # "unlock" => pc[c] \notin {"body", "unlock"}
    BY <1>4 DEF SetCurrent, ResetSlice, IdleCheck, IdlePop, ShellCommand, ShellResume,
                CommandReturns, SwitchWindow
  <2>2. /\ pc'[c] = point /\ \A s \in Slots : s # c => pc'[s] = pc[s]
        /\ IdleSlot \in Slots
    BY <2>1, ZombiesAreCommands DEF IInv, TypeOK
  <2>3. state[c] = "RUN" => pc[c] # "tail"
    <3>1. pc[c] = "tail" => func[c] \in Commands
      BY RunningFunc DEF CommandPoints
    <3>2. QED BY <3>1, CommandWhere
  <2>4. \A s \in Slots : Foreground(s)' <=> Foreground(s)
    BY <1>1, <2>1, <2>2, <2>3 DEF Foreground
  <2>5. pc'[IdleSlot] \in {"create1", "create2"} => pc'[IdleSlot] = pc[IdleSlot]
    BY <2>2
  <2>6. pc'[IdleSlot] \in {"pick"} \cup SwitchWindow =>
          pc[IdleSlot] \in {"pick"} \cup SwitchWindow
    BY <2>1, <2>2 DEF SwitchWindow
  <2>7. QED BY <1>1, <1>2, <2>4, <2>5, <2>6, StateKeptReaps
<1>5. QED BY <1>3, <1>4

\* idle() calls schedule() with d_list empty, which means that there are no zombies.
LEMMA YieldReaps ==
  ASSUME IInv, ShellInv, ReapInv, NEW c \in Slots, c = run, IdleYield(c)
  PROVE  ReapInv'
<1>1. /\ c = IdleSlot /\ pc[c] = "drain" /\ d_list = <<>> /\ pc' = [pc EXCEPT ![c] = "pick"]
      /\ UNCHANGED <<state, func, run, r_list>>
  BY RunningFunc DEF IdleYield, IdlePoints, Goto, table, lists, machine
<1>2. reap = None
  BY <1>1 DEF IInv, ListsOK
<1>3. \A s \in Slots : ~Zombie(s)
  <2>1. None \notin Slots /\ Members(d_list) = {}
    BY <1>1 DEF None, Slots, Members
  <2>2. QED BY <1>1, <1>2, <2>1 DEF Zombie, IInv, ListsOK
<1>4. \A s \in Slots : Foreground(s)' <=> Foreground(s)
  BY <1>1 DEF Foreground, IInv, TypeOK
<1>5. pc'[IdleSlot] = "pick"
  BY <1>1 DEF IInv, TypeOK
<1>6. QED BY <1>1, <1>3, <1>4, <1>5, StateKeptReaps

\* get_next_proc() sends the caller to the end.
LEMMA PickNextReaps ==
  ASSUME IInv, ShellInv, ReapInv, NEW c \in Slots, c = run, PickNext(c)
  PROVE  ReapInv'
<1>1. /\ pc[c] = "pick" /\ pc' = [pc EXCEPT ![c] = "setcur"] /\ r_list' = Requeued
      /\ UNCHANGED <<state, func, run>>
  BY DEF PickNext, Goto, table, machine
<1>2. pc'[c] = "setcur" /\ \A s \in Slots : s # c => pc'[s] = pc[s]
  BY <1>1 DEF IInv, TypeOK
<1>3. IdleSlot \in Slots
  BY ZombiesAreCommands
<1>4. \A s \in Slots : Foreground(s)' <=> Foreground(s)
  BY <1>1, <1>2 DEF Foreground
<1>5. run = IdleSlot => \A s \in Slots : ~Zombie(s)
  BY <1>1 DEF ReapInv, IdleReaps
<1>6. ASSUME NEW s \in Slots, NEW t \in Slots, Foreground(s), Zombie(t)
      PROVE  Precedes(r_list', IdleSlot, s)
  BY <1>1, <1>5, <1>6, RequeuedReaps DEF SwitchWindow
<1>7. pc'[IdleSlot] \in {"pick"} \cup SwitchWindow => run = IdleSlot
  BY <1>2, <1>3 DEF ReapInv, IdleReaps
<1>8. pc'[IdleSlot] \in {"create1", "create2"} => pc'[IdleSlot] = pc[IdleSlot]
  BY <1>2, <1>3
<1>9. QED BY <1>1, <1>4, <1>5, <1>6, <1>7, <1>8, StateKeptReaps

\* switch_process() at the end of schedule().
LEMMA SwitchReaps ==
  ASSUME IInv, ShellInv, ReapInv, NEW c \in Slots, c = run, SwitchStack(c)
  PROVE  ReapInv'
<1>1. /\ next[run] \in Slots /\ state[next[run]] = "RUN"
      /\ switch_process(run, next[run], "call") /\ pc[c] = "switch"
  BY HeadTailProperties DEF SwitchStack, IInv, RunningOK, TypeOK, SwitchWindow
<1>2. run' = next[run]
  BY <1>1, SwitchProps
<1>3. /\ pc' = [pc EXCEPT ![c] = ReturnPoint(func[c])]
      /\ UNCHANGED <<state, func, r_list>>
  BY DEF SwitchStack, Goto, table, lists
<1>4. /\ pc'[c] = ReturnPoint(func[c]) /\ \A s \in Slots : s # c => pc'[s] = pc[s]
      /\ ReturnPoint(func[c]) \notin {"body", "unlock"}
      /\ IdleSlot \in Slots /\ func[IdleSlot] = "idle" /\ ReturnPoint("idle") = "check"
  BY <1>3, ZombiesAreCommands DEF IInv, TypeOK, ProcessesOK, ReturnPoint
<1>5. \A s \in Slots : Foreground(s)' <=> Foreground(s)
  BY <1>1, <1>3, <1>4 DEF Foreground
<1>6. /\ pc'[IdleSlot] = pc[IdleSlot] \/ pc'[IdleSlot] = "check"
      /\ run = IdleSlot => pc'[IdleSlot] = "check"
  BY <1>4
<1>7. \A s, t \in Slots : Foreground(s) /\ Zombie(t) => Precedes(r_list', IdleSlot, s)
  BY <1>3 DEF ReapInv, IdleReaps
<1>8. QED BY <1>1, <1>2, <1>3, <1>5, <1>6, <1>7, RunChanges

\* A tick that reschedules, outside proc_free() and idle()'s loop.
LEMMA TickReaps ==
  ASSUME Windows = {}, IInv, ShellInv, ReapInv, TickPreempts
  PROVE  ReapInv'
<1>1. pc[run] \notin SwitchWindow \cup {"push"}
  BY DEF TickPreempts, Preemptible, Unlisted, IInv, TypeOK, ProcessesOK,
         RunningOK, WhereItIs, IdlePoints, CreatePoints, LoginPoints, CommandPoints, SwitchWindow
<1>2. /\ Head(Requeued) \in Slots /\ state[Head(Requeued)] = "RUN"
      /\ FrontRunnable(Requeued) = Head(Requeued) /\ cur_process = run
  BY <1>1, RequeuedProps
<1>3. switch_process(run, Head(Requeued), "intr")
  BY <1>2 DEF TickPreempts
<1>4. run' = Head(Requeued)
  BY <1>2, <1>3, SwitchProps
<1>5. UNCHANGED <<state, func, pc>> /\ r_list' = Requeued
  BY DEF TickPreempts, table
<1>6. /\ state[run] = "RUN" => pc[run] \notin {"remove", "zombie"}
      /\ run = IdleSlot => pc[run] \in CreatePoints
  BY <1>2 DEF TickPreempts, Preemptible, Releasing
<1>7. \A s \in Slots : Foreground(s)' <=> Foreground(s)
  BY <1>5 DEF Foreground
<1>8. ASSUME NEW s \in Slots, NEW t \in Slots, Foreground(s), Zombie(t)
      PROVE  Precedes(r_list', IdleSlot, s)
  <2>1. run # IdleSlot
    BY <1>6, <1>8, ZombiesAreCommands
  <2>2. QED BY <1>1, <1>5, <1>8, <2>1, RequeuedReaps
<1>9. QED BY <1>2, <1>4, <1>5, <1>6, <1>7, <1>8, RunChanges
\* idle() gives back the slot of a zombie.
LEMMA UnuseReaps ==
  ASSUME IInv, ShellInv, ReapInv, NEW c \in Slots, c = run, IdleUnuse(c)
  PROVE  ReapInv'
<1>1. /\ c = IdleSlot /\ func[c] = "idle" /\ reap \in Slots /\ state[reap] = "ZOMBIE"
      /\ pc' = [pc EXCEPT ![c] = "drain"] /\ state' = [state EXCEPT ![reap] = "UNUSED"]
      /\ UNCHANGED <<func, run, r_list>>
  BY RunningFunc, ZombiesAreCommands
     DEF IdleUnuse, IdlePoints, Goto, machine, lists, IInv, ListsOK, TypeOK, ProcessesOK
<1>2. /\ pc'[c] = "drain" /\ \A s \in Slots : s # c => pc'[s] = pc[s]
      /\ state'[reap] = "UNUSED" /\ \A s \in Slots : s # reap => state'[s] = state[s]
      /\ func[reap] \in Commands
  BY <1>1, ZombiesAreCommands DEF IInv, TypeOK, Zombie
<1>3. "kernel" \notin Commands /\ "idle" \notin Commands
  BY CommandsAssumption
<1>4. ASSUME NEW s \in Slots
      PROVE  /\ Foreground(s)' <=> Foreground(s)
             /\ Zombie(s)' => Zombie(s)
             /\ Kernel(s)' => Kernel(s)
             /\ state'[s] = "RUN" <=> state[s] = "RUN"
  <2>1. CASE s = c
    BY <1>1, <1>2, <1>3, <2>1 DEF Foreground, Zombie, Kernel
  <2>2. CASE s # c
    BY <1>1, <1>2, <1>3, <2>2 DEF Foreground, Zombie, Kernel
  <2>3. QED BY <2>1, <2>2
<1>5. KernelsOK'
  BY <1>1, <1>2, <1>4 DEF ReapInv, KernelsOK
<1>6. LeavingOK'
  BY <1>1, <1>3, <1>4 DEF ReapInv, LeavingOK
<1>7. IdleReaps'
  BY <1>1, <1>2, <1>4 DEF ReapInv, IdleReaps, SwitchWindow
<1>8. QED BY <1>4, <1>5, <1>6, <1>7 DEF ReapInv

\* proc_free(), from the release of the shell on, works on the only command.
LEMMA CommandStepsReap ==
  ASSUME IInv, ShellInv, ReapInv, NEW c \in Slots, c = run,
         CommandExits(c) \/ proc_free(c)
  PROVE  ReapInv'
<1> USE DEF table, lists, machine, locals, Goto
<1>1. /\ cur_process = c /\ func[c] \in Commands /\ c # IdleSlot
      /\ state[c] \in {"RUN", "ZOMBIE"} /\ IdleSlot \in Slots
      /\ "kernel" \notin Commands
  BY RunningFunc, UnlinkBoth, ZombiesAreCommands, CommandsAssumption
     DEF CommandExits, proc_free, FreeUnlock, FreeRemove, FreeZombie,
         FreePush, CommandPoints
<1>2. /\ UNCHANGED <<func, run>>
      /\ state'[c] \in {"RUN", "ZOMBIE"} /\ \A s \in Slots : s # c => state'[s] = state[s]
      /\ pc'[c] \notin {"body", "unlock"} /\ \A s \in Slots : s # c => pc'[s] = pc[s]
  BY <1>1 DEF CommandExits, proc_free, FreeUnlock, FreeRemove, FreeZombie,
              FreePush, IInv, TypeOK
<1>3. ASSUME NEW s \in Slots, s # c PROVE ~Foreground(s) /\ ~Zombie(s)
  <2>1. CASE Foreground(c)
    BY <1>3, <2>1, ForegroundAlone DEF ShellInv
  <2>2. CASE ~Foreground(c)
    BY <1>1, <1>3, <2>2 DEF ReapInv, LeavingOK
  <2>3. QED BY <2>1, <2>2
<1>4. ASSUME NEW s \in Slots
      PROVE  /\ ~Foreground(s)'
             /\ Zombie(s)' => s = c
             /\ Kernel(s)' <=> Kernel(s)
             /\ state'[s] = "RUN" /\ func'[s] \in Commands => s = c
  <2>1. CASE s = c
    BY <1>1, <1>2, <2>1 DEF Foreground, Kernel
  <2>2. CASE s # c
    <3>1. ~Foreground(s) /\ ~Zombie(s)
      BY <1>3, <2>2
    <3>2. ~(state[s] = "RUN" /\ func[s] \in Commands)
      BY <2>2, <3>1 DEF ReapInv, LeavingOK
    <3>3. QED BY <1>2, <2>2, <3>1, <3>2 DEF Foreground, Zombie, Kernel
  <2>3. QED BY <2>1, <2>2
<1>5. pc'[IdleSlot] = pc[IdleSlot]
  BY <1>1, <1>2
<1>6. KernelsOK'
  BY <1>4, <1>5 DEF ReapInv, KernelsOK
<1>7. LeavingOK'
  BY <1>2, <1>4 DEF LeavingOK
<1>8. IdleReaps'
  BY <1>1, <1>4, <1>5 DEF ReapInv, IdleReaps
<1>9. QED BY <1>4, <1>6, <1>7, <1>8 DEF ReapInv

\* idle() creates two kernel processes and the shell; the shell forks when no
\* command is in the foreground, and the new one comes behind idle().
LEMMA CreateReaps ==
  ASSUME IInv, ShellInv, ReapInv, NEW f,
         \/ pc[run] \in {"create1", "create2"} /\ f = "kernel"
         \/ pc[run] = "create3" /\ f = "login"
         \/ pc[run] = "fork" /\ f \in Commands,
         proc_create(f)
  PROVE  ReapInv'
<1>1. PICK s \in Slots :
        /\ state[s] = "UNUSED"
        /\ state' = [state EXCEPT ![s] = "RUN"]
        /\ func' = [func EXCEPT ![s] = f]
        /\ pc' = [pc EXCEPT ![s] = StartPoint(f), ![run] = AfterCreate(pc[run])]
        /\ r_list' = Append(r_list, s)
        /\ run' = run
  BY DEF proc_create, IsFirstUnused
<1>2. /\ IdleSlot \in Slots /\ run \in Slots
      /\ pc[run] \in CreatePoints => run = IdleSlot
      /\ pc[run] = "fork" => func[run] = "login" /\ run # IdleSlot
      /\ state[run] = "RUN" /\ state[IdleSlot] = "RUN"
  BY RunningFunc, ZombiesAreCommands
     DEF IInv, ProcessesOK, RunningOK, IdlePoints, CreatePoints, LoginPoints
<1>3. s # run /\ s # IdleSlot
  BY <1>1, <1>2
<1>4. /\ state'[s] = "RUN" /\ func'[s] = f
      /\ pc'[s] = StartPoint(f) /\ pc'[run] = AfterCreate(pc[run])
      /\ \A t \in Slots \ {s} :
           /\ state'[t] = state[t] /\ func'[t] = func[t]
           /\ t # run => pc'[t] = pc[t]
  BY <1>1, <1>2, <1>3 DEF IInv, TypeOK
<1>5. /\ "kernel" \notin Commands /\ "login" \notin Commands
      /\ ~Kernel(s) /\ ~Zombie(s) /\ ~Zombie(s)'
      /\ Kernel(s)' <=> f = "kernel"
      /\ \A t \in Slots \ {s} : (Kernel(t)' <=> Kernel(t)) /\ (Zombie(t)' <=> Zombie(t))
  BY <1>1, <1>4, CommandsAssumption DEF Kernel, Zombie
<1>6. \A t, u \in Slots : Zombie(t)' /\ Zombie(u)' => t = u
  BY <1>5 DEF ReapInv
<1>7. CASE pc[run] \in CreatePoints
  <2>1. /\ run = IdleSlot /\ f \notin Commands
        /\ \A t \in Slots : ~Foreground(t) /\ ~Zombie(t)
             /\ (state[t] # "UNUSED" => func[t] \notin Commands)
    BY <1>2, <1>5, <1>7, ZombiesAreCommands DEF CreatePoints
  <2>2. \A t \in Slots : ~Zombie(t)' /\ (state'[t] # "UNUSED" => func'[t] \notin Commands)
    BY <1>4, <1>5, <2>1
  <2>3. \A t \in Slots : ~Foreground(t)'
    BY <2>2 DEF Foreground
  <2>4. KernelsOK'
    <3>1. CASE pc[run] = "create1"
      BY <1>4, <1>5, <2>1, <3>1 DEF ReapInv, KernelsOK, AfterCreate
    <3>2. CASE pc[run] = "create2"
      BY <1>4, <1>5, <2>1, <3>2 DEF ReapInv, KernelsOK, AfterCreate
    <3>3. CASE pc[run] = "create3"
      BY <1>4, <1>5, <2>1, <3>3 DEF ReapInv, KernelsOK, AfterCreate
    <3>4. QED BY <1>7, <3>1, <3>2, <3>3 DEF CreatePoints
  <2>5. LeavingOK'
    BY <1>1, <1>2, <1>3, <1>4, <2>2 DEF LeavingOK
  <2>6. IdleReaps'
    BY <1>1, <2>1, <2>2, <2>3 DEF IdleReaps
  <2>7. QED BY <1>6, <2>4, <2>5, <2>6 DEF ReapInv
<1>8. CASE pc[run] = "fork"
  <2>1. /\ func[run] = "login" /\ run # IdleSlot /\ f \in Commands /\ f # "kernel"
        /\ pc'[IdleSlot] = pc[IdleSlot] /\ pc[IdleSlot] \notin CreatePoints
    BY <1>2, <1>3, <1>4, <1>5, <1>8 DEF ShellInv, TheLogin
  <2>2. \A t \in Slots : ~Foreground(t)
    BY <1>2, <1>8, <2>1 DEF ShellInv
  <2>3. ASSUME NEW t \in Slots PROVE Foreground(t)' <=> t = s
    <3>1. CASE t = s
      BY <1>4, <2>1, <3>1, CommandsAssumption DEF Foreground, StartPoint
    <3>2. CASE t # s /\ t # run
      BY <1>4, <2>2, <3>2 DEF Foreground
    <3>3. CASE t = run
      BY <1>3, <1>4, <1>5, <2>1, <3>3 DEF Foreground
    <3>4. QED BY <3>1, <3>2, <3>3
  <2>4. KernelsOK'
    <3>1. \A t \in Slots : Kernel(t)' <=> Kernel(t)
      BY <1>5, <2>1
    <3>2. QED BY <2>1, <3>1 DEF ReapInv, KernelsOK
  <2>5. LeavingOK'
    <3>1. func'[run'] \notin Commands
      BY <1>1, <1>2, <1>3, <1>4, <1>5, <2>1
    <3>2. ASSUME NEW t \in Slots, state'[t] = "RUN", func'[t] \in Commands, ~Foreground(t)'
          PROVE  t = run'
      <4>1. t # s /\ state[t] = "RUN" /\ func[t] \in Commands
        BY <1>4, <2>3, <3>2
      <4>2. t = run
        BY <2>2, <4>1 DEF ReapInv, LeavingOK
      <4>3. QED BY <1>1, <4>2
    <3>3. QED BY <3>1, <3>2 DEF LeavingOK
  <2>6. IdleReaps'
    <3>1. pc'[IdleSlot] \notin {"pick"} \cup SwitchWindow
      BY <2>1 DEF ReapInv, IdleReaps
    <3>2. IdleSlot \in Members(r_list) /\ r_list \in Seq(Slots)
      BY <1>2, <2>1 DEF IInv, ListsOK, TypeOK
    <3>3. Precedes(r_list', IdleSlot, s)
      BY <1>1, <3>2, PrecedesNew
    <3>4. QED BY <2>3, <3>1, <3>3 DEF IdleReaps
  <2>7. QED BY <1>6, <2>4, <2>5, <2>6 DEF ReapInv
<1>9. QED BY <1>7, <1>8 DEF CreatePoints

LEMMA NextReapInv ==
  ASSUME Windows = {}, IInv, ShellInv, ReapInv, [Next]_vars
  PROVE  ReapInv'
<1>1. ASSUME NEW c \in Slots, Step(c) PROVE ReapInv'
  <2> USE <1>1 DEF Step
  <2>1. CASE schedule(c)
    BY <2>1, PickNextReaps, QuietStepsReap, SwitchReaps DEF schedule
  <2>2. CASE IdleCreate(c)
    BY <2>2, CreateReaps DEF IdleCreate
  <2>3. CASE idle(c) /\ ~IdleCreate(c)
    BY <2>3, QuietStepsReap, YieldReaps, UnuseReaps DEF idle
  <2>4. CASE ShellFork(c)
    BY <2>4, CreateReaps DEF ShellFork
  <2>5. CASE ShellResume(c) \/ CommandReturns(c)
    BY <2>5, QuietStepsReap
  <2>6. CASE CommandExits(c) \/ proc_free(c)
    BY <2>6, CommandStepsReap
  <2>7. QED BY <2>1, <2>2, <2>3, <2>4, <2>5, <2>6
<1>2. CASE UserInput
  BY <1>2, QuietStepsReap DEF UserInput
<1>3. CASE Tick
  <2>1. run \in Slots
    BY DEF IInv, RunningOK
  <2>2. QED BY <1>3, <2>1, QuietStepsReap, TickReaps DEF Tick
<1>4. CASE UNCHANGED vars
  BY <1>4 DEF vars, table, lists, machine, ReapInv, Zombie, Kernel, Foreground, KernelsOK,
              LeavingOK, IdleReaps
<1>5. QED BY <1>1, <1>2, <1>3, <1>4 DEF Next

LEMMA InitReapInv ==
  Init => ReapInv
BY SlotsAssumption, CommandsAssumption
   DEF Init, ReapInv, KernelsOK, LeavingOK, IdleReaps, Zombie, Kernel, Foreground,
       IdleSlot, Slots, SwitchWindow

\* Five slots are not all taken by two kernel processes, one shell and one zombie.
LEMMA SlotIsLeft ==
  ASSUME PROC_NUM_MAX >= 6, IInv, ShellInv, ReapInv
  PROVE  ForkFindsSlot
<1> SUFFICES ASSUME pc[run] \in CreatePoints \cup {"fork"},
                    \A s \in Slots : state[s] # "UNUSED"
             PROVE  FALSE
  BY DEF ForkFindsSlot
<1>1. /\ IdleSlot \in Slots /\ run \in Slots /\ state[run] = "RUN"
      /\ pc[run] \in CreatePoints => run = IdleSlot
      /\ pc[run] = "fork" => func[run] = "login" /\ run # IdleSlot
  BY RunningFunc, ZombiesAreCommands
     DEF IInv, ProcessesOK, RunningOK, IdlePoints, CreatePoints, LoginPoints
<1>2. /\ \A s \in Slots : func[s] = "login" => s = run
      /\ \A s \in Slots : func[s] \in Commands => Zombie(s)
  <2>1. CASE pc[run] \in CreatePoints
    BY <1>1, <2>1, ZombiesAreCommands DEF ShellInv, TheLogin
  <2>2. CASE pc[run] = "fork"
    <3>1. \A s \in Slots : ~Foreground(s)
      BY <1>1, <2>2 DEF ShellInv
    <3>2. \A s \in Slots : func[s] \in Commands => state[s] # "RUN"
      BY <1>1, <2>2, <3>1, CommandsAssumption DEF ReapInv, LeavingOK
    <3>3. \A s \in Slots : state[s] \in {"UNUSED", "RUN", "ZOMBIE"}
      BY DEF IInv, TypeOK
    <3>4. QED BY <1>1, <2>2, <3>2, <3>3 DEF Zombie, ShellInv, TheLogin
  <2>3. QED BY <2>1, <2>2
<1>3. \A s \in Slots : s = IdleSlot \/ s = run \/ Zombie(s) \/ Kernel(s)
  BY <1>2 DEF IInv, ProcessesOK, WhereItIs, Kernel
<1>4. \A s \in {1, 2, 3, 4, 5} : s \in Slots /\ s # IdleSlot
  BY SlotsAssumption DEF Slots, IdleSlot
<1>5. /\ \A s, t \in Slots : Zombie(s) /\ Zombie(t) => s = t
      /\ \A s, t, u \in Slots : Kernel(s) /\ Kernel(t) /\ Kernel(u) => s = t \/ t = u \/ s = u
  BY DEF ReapInv, KernelsOK
<1>6. PICK a, b, d \in {1, 2, 3, 4, 5} :
        a # b /\ b # d /\ a # d /\ (\A s \in {a, b, d} : s # run /\ ~Zombie(s))
  BY <1>4, <1>5
<1>7. Kernel(a) /\ Kernel(b) /\ Kernel(d)
  BY <1>3, <1>4, <1>6
<1>8. QED BY <1>4, <1>5, <1>6, <1>7

\* getValidPid() finds a slot at every fork, with the 16 slots of the code and
\* with as few as six: idle() gives back every slot on d_list once per turn of
\* the run list, and the shell forks at most one command per turn.  Ticks that
\* make idle()'s loop, schedule() or proc_free() give up the CPU are excluded.
THEOREM ForksFindSlots ==
  ASSUME Windows = {}, PROC_NUM_MAX >= 6
  PROVE  Spec => []ForkFindsSlot
<1>1. Calm
  BY DEF Calm
<1>2. Init => IInv /\ ShellInv /\ ReapInv
  BY InitIInv, InitShellInv, InitReapInv
<1>3. IInv /\ ShellInv /\ [Next]_vars => ShellInv'
  BY <1>1, NextShellInv
<1>4. IInv /\ ShellInv /\ ReapInv /\ [Next]_vars => ReapInv'
  BY NextReapInv
<1>5. IInv /\ ShellInv /\ ReapInv => ForkFindsSlot
  BY SlotIsLeft
<1>6. Spec => []IInv
  BY <1>1, Invariance
<1>7. QED BY <1>2, <1>3, <1>4, <1>5, <1>6, PTL DEF Spec

=============================================================================
