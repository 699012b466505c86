--------------------------- MODULE ProcListsProofs ---------------------------
(***************************************************************************)
(* Proofs about ProcLists for procs[] of every size: outside the list      *)
(* operations of the current process both lists are linked and hold what   *)
(* the states of the processes say, although ticks cut into proc_free()    *)
(* between the stores of list_remove() and list_push_back(); and the run   *)
(* list is a FIFO queue at every one of these stores.                      *)
(*                                                                         *)
(* Only the current process is inside an operation on r_list, and a zombie *)
(* that was preempted in its list_push_back() stands half linked at the    *)
(* end of d_list.  IInv therefore describes both lists once for every      *)
(* statement that the current process may have reached.                    *)
(***************************************************************************)
EXTENDS ProcLists, FiniteSetTheorems, SequenceTheorems, TLAPS

\* A slice is longer than a proc_free(): one tick at most ends it there, and none ends
\* that of a process which exit() has put on d_list already.
Calm == MaxCuts <= 1 /\ Windows = {}

-----------------------------------------------------------------------------
(* The shapes of a list.                                                   *)

LinkType == [prev : [Nodes -> Nodes \cup {NULL}], next : [Nodes -> Nodes \cup {NULL}]]

\* Processes, once each, and what is left of a sequence from its k-th element on.
Seqs == {q \in Seq(Slots) : IsInjective(q)}
Left(p, k) == SubSeq(p, k, Len(p))

\* The statements of init_proc()'s processes, of get_next_proc(), proc_free() and idle().
Boot == <<Created("kernel"), Created("kernel"), Created("login")>>
Again(c) == list_remove(c) \o list_push_back(r_list, c) \o <<Do("switch")>>
Free(c) == proc_free(c) \o <<Do("pick")>>
Reap(e) == list_remove(e) \o <<On("unuse", e)>>

\* A list l holds u, and then x: a process that is half linked, or the tail.
StartOf(u, x) == IF u = <<>> THEN x ELSE u[1]
EndOf(l, u) == IF u = <<>> THEN l.head ELSE u[Len(u)]

\* The links between the elements, and those to the tail, which still leads past x.
Inner(m, l, u, x) ==
  /\ \A i \in 1 .. Len(u) - 1 : m.next[u[i]] = u[i + 1] /\ m.prev[u[i + 1]] = u[i]
  /\ u # <<>> => m.next[u[Len(u)]] = x /\ m.prev[l.tail] = u[Len(u)]
  /\ x # l.tail => m.next[x] = l.tail /\ (u # <<>> => m.prev[x] = u[Len(u)])

\* The same, entered from the node a: the head or an element before u.
From(m, l, a, u, x) ==
  Inner(m, l, u, x) /\ m.next[a] = StartOf(u, x) /\ m.prev[StartOf(u, x)] = a

List(m, l, u, x) == From(m, l, l.head, u, x) /\ (u = <<>> => m.prev[l.tail] = l.head)

\* c has the links of the first element; those to c may be rewritten already.
Hangs(m, l, c, u, x) == m.prev[c] = l.head /\ m.next[c] = StartOf(u, x) /\ Inner(m, l, u, x)

\* c is the first element.
Fronts(m, l, c, u, x) == m.prev[c] = l.head /\ m.next[l.head] = c /\ From(m, l, c, u, x)

\* list_insert() has executed j of its stores for c.
Linking(m, l, u, x, c, j) ==
  /\ List(m, l, u, IF j < 3 THEN x ELSE c)
  /\ j > 0 => m.prev[c] = EndOf(l, u)
  /\ j > 1 => m.next[c] = l.tail

\* The process has stores of a list operation left.
Pending(s) == \E i \in DOMAIN code[s] : code[s][i].op \in StoreOps

Runnable == {s \in Slots : state[s] = "RUN"}

\* d_list holds the zombies w, and x is the one that was preempted in its list_push_back().
Dead(w, x) ==
  /\ \A s \in ToSet(w) : state[s] = "ZOMBIE"
  /\ x \in Slots => state[x] = "ZOMBIE" /\ x \notin ToSet(w) /\ Pending(x)
  /\ \A s \in Slots : state[s] = "ZOMBIE" /\ ~Pending(s)
       => s \in ToSet(w) \/ On("unuse", s) \in ToSet(code[IdleSlot])

R == r_list.tail
D == d_list.tail

-----------------------------------------------------------------------------
(* What the current process c may be doing: u waits on r_list, w and x are *)
(* on d_list.                                                              *)

\* init_proc(): k - 1 processes are created.
BootCode(c) ==
  \E k \in 1 .. 3 : /\ code[c] = Left(Boot, k) /\ lately = k - 1
                    /\ \A s \in k .. PROC_NUM_MAX - 1 : state[s] = "UNUSED"

StillCode(c) ==
  \/ func[c] = "idle" /\ (code[c] = <<Do("pick")>> \/ BootCode(c))
  \/ func[c] = "kernel" /\ code[c] \in {<<>>, <<Do("pick")>>}
  \/ func[c] = "login" /\ (code[c] = <<>> \/ \E f \in Commands : code[c] = <<Created(f)>>)
  \/ func[c] \in {"returns", "exits"} /\ code[c] = <<>>
  \/ func[c] = "returns" /\ \E k \in 1 .. 2 : code[c] = Left(Free(c), k)

\* c has not touched the lists since it was chosen.
Still(c, u, w, x) ==
  /\ state[c] = "RUN" /\ StillCode(c)
  /\ Fronts(link, r_list, c, u, R) /\ List(link, d_list, w, x)

\* idle() looks at d_list, ...
Idling(c, u, w, x) ==
  /\ func[c] = "idle" /\ code[c] = <<>>
  /\ Fronts(link, r_list, c, u, R) /\ From(link, d_list, d_list.head, w, x)

\* ... and unlinks the zombie e.
Reaping(c, u, w, x, e, k) ==
  /\ func[c] = "idle" /\ code[c] = Left(Reap(e), k)
  /\ Fronts(link, r_list, c, u, R)
  /\ state[e] = "ZOMBIE" /\ e \notin ToSet(w) /\ e # x
  /\ k < 3 => Hangs(link, d_list, e, w, x)
  /\ k > 1 => link.next[d_list.head] = StartOf(w, x)
  /\ k > 2 => From(link, d_list, d_list.head, w, x)

\* get_next_proc() moves c to the end of r_list.
Requeueing(c, u, w, x, k) ==
  /\ func[c] \in {"idle", "kernel"} /\ code[c] = Left(Again(c), k)
  /\ List(link, d_list, w, x)
  /\ k = 1 => Fronts(link, r_list, c, u, R)
  /\ k < 6 => Hangs(link, r_list, c, u, R)
  /\ k > 1 /\ k < 6 => link.next[r_list.head] = StartOf(u, R)
  /\ k > 2 /\ k < 6 => List(link, r_list, u, R)
  /\ k > 4 /\ k < 9 => Linking(link, r_list, u, R, c, k - 5)
  /\ k = 9 => List(link, r_list, Append(u, c), R)

\* proc_free() unlinks c from r_list; a tick that cut in has requeued c.
Leaving(c, u, w, x, k) ==
  /\ func[c] = "returns" /\ code[c] = Left(Free(c), k)
  /\ state[c] = (IF k < 5 THEN "RUN" ELSE "ZOMBIE")
  /\ List(link, d_list, w, x) /\ c \notin ToSet(w) /\ c # x
  /\ k < 7 => /\ Hangs(link, r_list, c, u, R)
              /\ link.next[r_list.head] \in {c, StartOf(u, R)}
  /\ (k < 7 /\ cuts[c] = 0) \/ k > 5 => link.next[r_list.head] = StartOf(u, R)
  /\ (k \in 4 .. 6 /\ cuts[c] = 0) \/ k > 6 => List(link, r_list, u, R)

\* It puts c at the end of d_list.
Burying(c, u, w, x, k) ==
  /\ func[c] \in {"returns", "exited"} /\ code[c] = Left(Free(c), k) /\ state[c] = "ZOMBIE"
  /\ List(link, r_list, u, R)
  /\ c \notin ToSet(w) /\ (c # x \/ k = 10)
  /\ k = 10 => x = c
  /\ Linking(link, d_list, w, x, c, k - 7)

\* c is on d_list and has schedule() to call.
Gone(c, u, w, x) ==
  /\ state[c] = "ZOMBIE" /\ List(link, r_list, u, R) /\ List(link, d_list, w, x)
  /\ func[c] \in {"returns", "exited"} /\ code[c] \in {<<Do("pick")>>, <<Do("switch")>>}

\* exit() has put c at the end of d_list, and proc_free() does so again.
Exited(c, u, w, x, k) ==
  /\ func[c] = "exited" /\ state[c] = "ZOMBIE" /\ c \notin ToSet(w) /\ x = D
  /\ List(link, r_list, u, R)
  /\ \/ k = 0 /\ code[c] = <<>>
     \/ k > 0 /\ code[c] = Left(Free(c), k)
  /\ k < 3 => List(link, d_list, Append(w, c), D)
  /\ k > 2 => link.prev[c] = EndOf(d_list, w) /\ link.next[c] = D
  /\ k = 3 => List([link EXCEPT !.prev[D] = EndOf(d_list, w)], d_list, w, D)
  /\ k > 3 => List(link, d_list, w, D)

Situation(c, u, w, x) ==
  \/ Still(c, u, w, x) /\ Dead(w, x)
  \/ Idling(c, u, w, x) /\ Dead(w, x)
  \/ (\E e \in Slots, k \in 1 .. 3 : Reaping(c, u, w, x, e, k)) /\ Dead(w, x)
  \/ (\E k \in 1 .. 9 : Requeueing(c, u, w, x, k)) /\ Dead(w, x)
  \/ (\E k \in 3 .. 6 : Leaving(c, u, w, x, k)) /\ Dead(w, x)
  \/ (\E k \in 7 .. 10 : Burying(c, u, w, x, k)) /\ Dead(w, x)
  \/ Gone(c, u, w, x) /\ Dead(w, x)
  \/ \E k \in 0 .. 6 : Exited(c, u, w, x, k) /\ Dead(IF k = 0 THEN Append(w, c) ELSE w, x)

\* What a process that is not current has still to execute, if it can run.
Waiting(s) ==
  \/ code[s] = <<>>
  \/ func[s] = "login" /\ \E f \in Commands : code[s] = <<Created(f)>>
  \/ func[s] = "returns" /\ cuts[s] = 1 /\ \E k \in 1 .. 4 : code[s] = Left(Free(s), k)

\* The functions of the processes and their states.
Who ==
  /\ \A s \in Slots : func[s] = "idle" <=> s = IdleSlot
  /\ \A s \in Slots : func[s] = "login" => s = 3
  /\ \A s \in Slots : func[s] \in {"idle", "kernel", "login", "exits"} => state[s] = "RUN"
  /\ \A s \in Slots : func[s] = "exited" => state[s] # "RUN"
  /\ \A s \in Slots : func[s] = "none" => state[s] = "UNUSED"
  /\ \A s \in Slots : func[s] = "login" /\ code[s] # <<>> => \E i \in Slots : state[i] = "UNUSED"
  /\ \A s \in Slots \ {cur_process} : state[s] = "RUN" => Waiting(s)

Types ==
  /\ link \in LinkType
  /\ state \in [Slots -> {"RUN", "ZOMBIE", "UNUSED"}]
  /\ func \in [Slots -> {"none", "idle", "kernel", "login", "returns", "exits", "exited"}]
  /\ code = [s \in Slots |-> code[s]]
  /\ cuts \in [Slots -> 0 .. MaxCuts] /\ lately \in Slots /\ cur_process \in Slots

-----------------------------------------------------------------------------
(* The inductive invariant.                                                *)

IInv ==
  /\ Types /\ Who
  /\ \E u, w \in Seqs, x \in Slots \cup {D} :
       /\ ToSet(u) = Runnable \ {cur_process}
       /\ Situation(cur_process, u, w, x)

-----------------------------------------------------------------------------
(* Least numbers, a whole operation.                                       *)

LEMMA LeastExists ==
  ASSUME NEW I \in SUBSET Nat, I # {}
  PROVE  \E n \in I : \A l \in I : n <= l
<1> DEFINE T == {0 .. n : n \in I}
<1>1. T \subseteq FiniteSubsetsOf(Nat) /\ T # {}
  <2>1. \A n \in I : (0 .. n) \subseteq Nat /\ IsFiniteSet(0 .. n)
    BY FS_Interval
  <2> QED BY <2>1 DEF FiniteSubsetsOf
<1>2. PICK n \in I : \A l \in I : <<0 .. l, 0 .. n>> \notin StrictSubsetOrdering(Nat)
  <2> HIDE DEF T
  <2>1. \E x \in T : \A y \in T : <<y, x>> \notin StrictSubsetOrdering(Nat)
    BY <1>1, FS_StrictSubsetOrderingWellFounded, WFMin
  <2> QED BY <2>1 DEF T
<1>3. ASSUME NEW l \in I, l < n
      PROVE  FALSE
  <2>1. l \in Nat /\ n \in Nat
    OBVIOUS
  <2>2. n \notin 0 .. l /\ n \in 0 .. n /\ 0 .. l \subseteq 0 .. n
    BY <1>3, <2>1
  <2>3. <<0 .. l, 0 .. n>> \in StrictSubsetOrdering(Nat)
    BY <2>1, <2>2 DEF StrictSubsetOrdering
  <2> QED BY <1>2, <2>3
<1> QED BY <1>3

\* The pointers after every statement of an operation.
Course(f, m, s, n) == f = [i \in 0 .. n |-> IF i = 0 THEN m ELSE Stored(f[i - 1], s[i])]

LEMMA CourseExists ==
  ASSUME NEW m, NEW s, NEW n \in Nat
  PROVE  \E f : Course(f, m, s, n)
<1> DEFINE Bad == {i \in Nat : ~\E f : Course(f, m, s, i)}
<1> SUFFICES ASSUME Bad # {}
             PROVE  FALSE
  OBVIOUS
<1>1. PICK k \in Bad : \A l \in Bad : k <= l
  <2>1. Bad \in SUBSET Nat
    OBVIOUS
  <2> HIDE DEF Bad
  <2> QED BY <2>1, LeastExists
<1>2. Course([i \in 0 .. 0 |-> m], m, s, 0)
  BY DEF Course
<1>3. k \in Nat /\ k # 0 /\ k - 1 \in Nat /\ ~(k <= k - 1)
  BY <1>2
<1>4. PICK g : Course(g, m, s, k - 1)
  BY <1>1, <1>3
<1> DEFINE h == [i \in 0 .. k |-> IF i = k THEN Stored(g[k - 1], s[k]) ELSE g[i]]
<1>5. \A i \in 0 .. k - 1 : g[i] = IF i = 0 THEN m ELSE Stored(g[i - 1], s[i])
  BY <1>4 DEF Course
<1>6. \A i \in 0 .. k : h[i] = IF i = 0 THEN m ELSE Stored(h[i - 1], s[i])
  <2> TAKE i \in 0 .. k
  <2>1. CASE i = k
    <3>1. h[i] = Stored(g[k - 1], s[k]) /\ h[k - 1] = g[k - 1]
      BY <1>3, <2>1
    <3> QED BY <1>3, <2>1, <3>1
  <2>2. CASE i # k /\ i = 0
    BY <1>3, <1>5, <2>2
  <2>3. CASE i # k /\ i # 0
    <3>1. i - 1 \in 0 .. k - 1 /\ i \in 0 .. k - 1 /\ i - 1 # k
      BY <1>3, <2>3
    <3>2. h[i] = g[i] /\ h[i - 1] = g[i - 1]
      BY <1>3, <2>3, <3>1
    <3> QED BY <1>5, <2>3, <3>1, <3>2
  <2> QED BY <2>1, <2>2, <2>3
<1>7. h = [i \in 0 .. k |-> h[i]]
  OBVIOUS
<1>8. Course(h, m, s, k)
  <2> HIDE DEF h
  <2> QED BY <1>6, <1>7 DEF Course
<1> HIDE DEF h
<1> QED BY <1>1, <1>8

\* f is what the statements s make of m, one by one.
Statements(f, m, s) ==
  /\ f[0] = m
  /\ \A i \in 1 .. Len(s) : f[i] = Stored(f[i - 1], s[i])
  /\ Done(m, s) = f[Len(s)]

LEMMA DoneIs ==
  ASSUME NEW m, NEW Ops, NEW s, s \in Seq(Ops)
  PROVE  \E f : Statements(f, m, s)
<1> DEFINE f == CHOOSE g : Course(g, m, s, Len(s))
<1>1. Len(s) \in Nat
  OBVIOUS
<1>2. Course(f, m, s, Len(s))
  BY <1>1, CourseExists
<1>3. Done(m, s) = f[Len(s)]
  BY DEF Done, Course
<1> HIDE DEF f
<1>4. \A i \in 0 .. Len(s) : f[i] = IF i = 0 THEN m ELSE Stored(f[i - 1], s[i])
  BY <1>2 DEF Course
<1>5. f[0] = m /\ \A i \in 1 .. Len(s) : f[i] = Stored(f[i - 1], s[i])
  BY <1>1, <1>4
<1> QED BY <1>3, <1>5 DEF Statements

-----------------------------------------------------------------------------
(* What a store does.                                                      *)

SetNext(m, a, b) == [m EXCEPT !.next[a] = b]
SetPrev(m, a, b) == [m EXCEPT !.prev[a] = b]

Lists == {r_list, d_list}

LEMMA NodesAre ==
  /\ \A l \in Lists : /\ l.head \in Nodes /\ l.tail \in Nodes /\ l.head # l.tail
                      /\ l.head \notin Slots /\ l.tail \notin Slots
                      /\ l.head # NULL /\ l.tail # NULL
  /\ \A n \in Slots : n \in Nodes
  /\ NULL \notin Nodes
BY SlotsAssumption DEF Lists, r_list, d_list, Nodes, Slots, NULL

LEMMA ListsApart ==
  /\ \A l, k \in Lists : l # k => /\ l.head # k.head /\ l.head # k.tail
                                 /\ l.tail # k.head /\ l.tail # k.tail
  /\ r_list \in Lists /\ d_list \in Lists /\ r_list # d_list
BY DEF Lists, r_list, d_list

LEMMA PassForward ==
  ASSUME NEW m, NEW c, NEW a \in Nodes, m.prev[c] = a
  PROVE  Stored(m, On("pass_forward", c)) = SetNext(m, a, m.next[c])
<1>1. a # NULL
  BY NodesAre
<1> QED BY <1>1 DEF Stored, On, SetNext

LEMMA PassBack ==
  ASSUME NEW m, NEW c, NEW a \in Nodes, m.next[c] = a
  PROVE  Stored(m, On("pass_back", c)) = SetPrev(m, a, m.prev[c])
<1>1. a # NULL
  BY NodesAre
<1> QED BY <1>1 DEF Stored, On, SetPrev

LEMMA PassBackEither ==
  ASSUME NEW m, NEW c
  PROVE  Stored(m, On("pass_back", c)) = m \/ Stored(m, On("pass_back", c)) = SetPrev(m, m.next[c], m.prev[c])
<1>1. m.next[c] = NULL => Stored(m, On("pass_back", c)) = m
  BY DEF Stored, On
<1>2. m.next[c] # NULL => Stored(m, On("pass_back", c)) = SetPrev(m, m.next[c], m.prev[c])
  BY DEF Stored, On, SetPrev
<1> QED BY <1>1, <1>2

LEMMA PassNothing ==
  ASSUME NEW m, NEW c, m.prev[c] = NULL, m.next[c] = NULL
  PROVE  Stored(m, On("pass_forward", c)) = m /\ Stored(m, On("pass_back", c)) = m
BY DEF Stored, On

LEMMA LinkStores ==
  ASSUME NEW m, NEW l, NEW c
  PROVE  /\ Stored(m, In("set_prev", l, c)) = SetPrev(m, c, m.prev[l.tail])
         /\ Stored(m, In("set_next", l, c)) = SetNext(m, c, l.tail)
         /\ Stored(m, In("link_back", l, c)) = SetPrev(m, l.tail, c)
BY DEF Stored, In, SetNext, SetPrev

LEMMA LinkForward ==
  ASSUME NEW m, NEW l, NEW c, NEW a, a = m.prev[l.tail]
  PROVE  Stored(m, In("link_forward", l, c)) = SetNext(m, a, c)
BY DEF Stored, In, SetNext

\* A store into the links of one node leaves those of the others.
LEMMA NextIs ==
  ASSUME NEW m, NEW a, NEW b, NEW m2, m \in LinkType, a \in Nodes, m2 = SetNext(m, a, b)
  PROVE  /\ b \in Nodes => m2 \in LinkType
         /\ m2.prev = m.prev /\ m2.next[a] = b
         /\ \A n \in Nodes : n # a => m2.next[n] = m.next[n]
BY DEF SetNext, LinkType

LEMMA PrevIs ==
  ASSUME NEW m, NEW a, NEW b, NEW m2, m \in LinkType, a \in Nodes, m2 = SetPrev(m, a, b)
  PROVE  /\ b \in Nodes => m2 \in LinkType
         /\ m2.next = m.next /\ m2.prev[a] = b
         /\ \A n \in Nodes : n # a => m2.prev[n] = m.prev[n]
BY DEF SetPrev, LinkType

-----------------------------------------------------------------------------
(* Lists that a store does not reach.                                      *)

\* A store that reaches only the nodes S and the ends of l.
Reaches(m, m2, l, S) ==
  \A n \in Nodes : n \notin S \cup {l.head, l.tail} => m2.next[n] = m.next[n] /\ m2.prev[n] = m.prev[n]

LEMMA SeqIs ==
  ASSUME NEW u \in Seqs
  PROVE  /\ u \in Seq(Slots) /\ Len(u) \in Nat
         /\ \A i \in 1 .. Len(u) : u[i] \in Slots /\ u[i] \in ToSet(u)
         /\ \A i, j \in 1 .. Len(u) : u[i] = u[j] => i = j
         /\ \A n \in ToSet(u) : n \in Slots /\ \E i \in 1 .. Len(u) : u[i] = n
         /\ u # <<>> <=> Len(u) > 0
<1>1. u \in Seq(Slots) /\ IsInjective(u)
  BY DEF Seqs
<1>2. \A i \in 1 .. Len(u) : u[i] \in Slots
  BY <1>1
<1>3. DOMAIN u = 1 .. Len(u)
  BY <1>1
<1> QED BY <1>1, <1>2, <1>3 DEF ToSet, IsInjective

LEMMA EndsAre ==
  ASSUME NEW u \in Seqs, NEW l \in Lists, NEW x \in Slots \cup {l.tail}
  PROVE  /\ StartOf(u, x) \in Nodes /\ EndOf(l, u) \in Nodes
         /\ StartOf(u, x) \in ToSet(u) \cup {x} /\ EndOf(l, u) \in ToSet(u) \cup {l.head}
         /\ u # <<>> => StartOf(u, x) = u[1] /\ EndOf(l, u) = u[Len(u)]
         /\ u = <<>> => StartOf(u, x) = x /\ EndOf(l, u) = l.head
         /\ StartOf(u, x) # l.head /\ StartOf(u, x) # NULL
         /\ EndOf(l, u) # l.tail /\ EndOf(l, u) # NULL
<1>1. CASE u = <<>>
  BY <1>1, NodesAre DEF StartOf, EndOf
<1>2. CASE u # <<>>
  <2>1. 1 \in 1 .. Len(u) /\ Len(u) \in 1 .. Len(u)
    BY <1>2, SeqIs
  <2>2. u[1] \in Slots \cap ToSet(u) /\ u[Len(u)] \in Slots \cap ToSet(u)
    BY <2>1, SeqIs
  <2> QED BY <1>2, <2>2, NodesAre DEF StartOf, EndOf
<1> QED BY <1>1, <1>2

\* What List says, node by node.
LEMMA ListIs ==
  ASSUME NEW m, NEW l, NEW u, NEW x
  PROVE  List(m, l, u, x) <=>
           /\ Inner(m, l, u, x)
           /\ m.next[l.head] = StartOf(u, x) /\ m.prev[StartOf(u, x)] = l.head
           /\ u = <<>> => m.prev[l.tail] = l.head
BY DEF List, From

SameInner(m, m2, l, u, x) ==
  /\ \A n \in ToSet(u) \cup {x} : n # l.tail => m2.next[n] = m.next[n]
  /\ \A n \in ToSet(u) \cup {x, l.tail} : n # StartOf(u, x) => m2.prev[n] = m.prev[n]

LEMMA InnerKept ==
  ASSUME NEW m, NEW m2, NEW l \in Lists, NEW u \in Seqs, NEW x \in Slots \cup {l.tail},
         Inner(m, l, u, x), x \notin ToSet(u),
         SameInner(m, m2, l, u, x)
  PROVE  Inner(m2, l, u, x)
<1>0. /\ \A n \in ToSet(u) \cup {x} : n # l.tail => m2.next[n] = m.next[n]
      /\ \A n \in ToSet(u) \cup {x, l.tail} : n # StartOf(u, x) => m2.prev[n] = m.prev[n]
  BY DEF SameInner
<1>1. ASSUME NEW i \in 1 .. Len(u) - 1
      PROVE  m2.next[u[i]] = u[i + 1] /\ m2.prev[u[i + 1]] = u[i]
  <2>1. i \in 1 .. Len(u) /\ i + 1 \in 1 .. Len(u) /\ 1 \in 1 .. Len(u) /\ i + 1 # 1 /\ u # <<>>
    BY SeqIs
  <2>2. u[i] \in ToSet(u) /\ u[i] # l.tail /\ u[i + 1] \in ToSet(u) /\ u[i + 1] # u[1]
    BY <2>1, SeqIs, NodesAre
  <2>3. u[i + 1] # StartOf(u, x)
    BY <2>1, <2>2 DEF StartOf
  <2>4. m.next[u[i]] = u[i + 1] /\ m.prev[u[i + 1]] = u[i]
    BY DEF Inner
  <2> QED BY <1>0, <2>2, <2>3, <2>4
<1>2. ASSUME u # <<>>
      PROVE  m2.next[u[Len(u)]] = x /\ m2.prev[l.tail] = u[Len(u)]
  <2>1. u[Len(u)] \in ToSet(u) /\ u[Len(u)] # l.tail /\ u[1] # l.tail
    BY <1>2, SeqIs, NodesAre
  <2>2. l.tail # StartOf(u, x)
    BY <1>2, <2>1 DEF StartOf
  <2> QED BY <1>0, <1>2, <2>1, <2>2 DEF Inner
<1>3. ASSUME x # l.tail
      PROVE  m2.next[x] = l.tail
  BY <1>0, <1>3 DEF Inner
<1>4. ASSUME x # l.tail, u # <<>>, x # u[1]
      PROVE  m2.prev[x] = u[Len(u)]
  BY <1>0, <1>4 DEF Inner, StartOf
<1>5. u # <<>> => x # u[1]
  BY SeqIs
<1> QED BY <1>1, <1>2, <1>3, <1>4, <1>5 DEF Inner

\* The list l with the elements u is none of the list k and the nodes S.
Aside(l, u, x, k, S) ==
  /\ l \in Lists /\ k \in Lists /\ k # l /\ S \cap {l.head, l.tail} = {}
  /\ u \in Seqs /\ x \in Slots \cup {l.tail} /\ x \notin ToSet(u)
  /\ S \cap (ToSet(u) \cup {x}) = {}

Kept(m, m2, l, u, x, S) ==
  /\ Inner(m, l, u, x) => Inner(m2, l, u, x)
  /\ From(m, l, l.head, u, x) => From(m2, l, l.head, u, x)
  /\ List(m, l, u, x) => List(m2, l, u, x)
  /\ \A c \in Slots : c \notin S /\ Hangs(m, l, c, u, x) => Hangs(m2, l, c, u, x)
  /\ \A c \in Slots : c \notin S /\ Fronts(m, l, c, u, x) => Fronts(m2, l, c, u, x)
  /\ m2.next[l.head] = m.next[l.head] /\ m2.prev[l.tail] = m.prev[l.tail]

\* A list no node of which is reached.
LEMMA ListKept ==
  ASSUME NEW m, NEW m2, NEW l, NEW u, NEW x, NEW k, NEW S,
         Aside(l, u, x, k, S), Reaches(m, m2, k, S)
  PROVE  Kept(m, m2, l, u, x, S)
<1> /\ l \in Lists /\ k \in Lists /\ k # l /\ S \cap {l.head, l.tail} = {}
    /\ u \in Seqs /\ x \in Slots \cup {l.tail} /\ x \notin ToSet(u)
    /\ S \cap (ToSet(u) \cup {x}) = {}
  BY DEF Aside
<1>1. \A n \in ToSet(u) \cup {x, l.head, l.tail} :
        n \in Nodes /\ n \notin S /\ n # k.head /\ n # k.tail
  <2>1. \A n \in ToSet(u) : n \in Slots
    BY SeqIs
  <2> QED BY <2>1, NodesAre, ListsApart
<1>2. \A n \in ToSet(u) \cup {x, l.head, l.tail} : m2.next[n] = m.next[n] /\ m2.prev[n] = m.prev[n]
  BY <1>1 DEF Reaches
<1>3. Inner(m, l, u, x) => Inner(m2, l, u, x)
  <2>1. SameInner(m, m2, l, u, x)
    BY <1>2 DEF SameInner
  <2> QED BY <2>1, InnerKept
<1>4. StartOf(u, x) \in ToSet(u) \cup {x}
  BY EndsAre
<1>5. From(m, l, l.head, u, x) => From(m2, l, l.head, u, x)
  BY <1>2, <1>3, <1>4 DEF From
<1>6. List(m, l, u, x) => List(m2, l, u, x)
  BY <1>2, <1>5 DEF List
<1>7. ASSUME NEW c \in Slots, c \notin S
      PROVE  m2.next[c] = m.next[c] /\ m2.prev[c] = m.prev[c]
  BY <1>7, NodesAre DEF Reaches
<1>8. \A c \in Slots : c \notin S /\ Hangs(m, l, c, u, x) => Hangs(m2, l, c, u, x)
  BY <1>3, <1>7 DEF Hangs
<1>9. \A c \in Slots : c \notin S /\ Fronts(m, l, c, u, x) => Fronts(m2, l, c, u, x)
  BY <1>2, <1>3, <1>4, <1>7 DEF Fronts, From
<1> QED BY <1>2, <1>5, <1>6, <1>8, <1>9, <1>3 DEF Kept

LEMMA NodesOfList ==
  ASSUME NEW l \in Lists, NEW u \in Seqs, NEW x \in Slots \cup {l.tail}
  PROVE  /\ \A n \in ToSet(u) \cup {x, l.tail} : n \in Nodes /\ n # l.head
         /\ \A n \in ToSet(u) \cup {x, l.tail, l.head} : n \in Nodes
<1>1. l.head \in Nodes /\ l.tail \in Nodes /\ l.tail # l.head /\ x \in Nodes /\ x # l.head
  BY NodesAre
<1>2. \A n \in ToSet(u) : n \in Nodes /\ n # l.head
  BY SeqIs, NodesAre
<1> QED BY <1>1, <1>2

-----------------------------------------------------------------------------
(* list_remove and list_insert, store by store.                            *)

\* The element c, the list l with elements u, and the one half linked or the tail x.
Setting(m, l, u, x, c) ==
  /\ m \in LinkType /\ l \in Lists /\ u \in Seqs /\ x \in Slots \cup {l.tail} /\ x \notin ToSet(u)
  /\ c \in Slots /\ c \notin ToSet(u) /\ c # x

Starts(m, l, u, x) == m.next[l.head] = StartOf(u, x)

\* What the stores of an operation on l make of the pointers m.
PassedForward(m, m2, l, u, x, c) ==
  /\ m2 \in LinkType /\ Hangs(m2, l, c, u, x) /\ Starts(m2, l, u, x)
  /\ List(m, l, u, x) => List(m2, l, u, x)
  /\ Reaches(m, m2, l, {})

PassedBack(m, m2, l, u, x, c) ==
  /\ m2 \in LinkType /\ Hangs(m2, l, c, u, x) /\ m2.next[l.head] = m.next[l.head]
  /\ Starts(m, l, u, x) => /\ Starts(m2, l, u, x) /\ From(m2, l, l.head, u, x)
                           /\ x = l.tail => List(m2, l, u, x)
  /\ List(m, l, u, x) => List(m2, l, u, x)
  /\ Reaches(m, m2, l, ToSet(u) \cup {x})

LinkedOn(m, m2, l, u, x, c, j) ==
  /\ m2 \in LinkType /\ Linking(m2, l, u, x, c, j + 1)
  /\ Reaches(m, m2, l, ToSet(u) \cup {c})

LEMMA PassForwardIs ==
  ASSUME NEW m, NEW l, NEW u, NEW x, NEW c, NEW m2, Setting(m, l, u, x, c), Hangs(m, l, c, u, x),
         m2 = Stored(m, On("pass_forward", c))
  PROVE  PassedForward(m, m2, l, u, x, c)
<1> /\ m \in LinkType /\ l \in Lists /\ u \in Seqs /\ x \in Slots \cup {l.tail} /\ x \notin ToSet(u)
    /\ c \in Slots /\ c \notin ToSet(u) /\ c # x
  BY DEF Setting
<1>a. /\ l.head \in Nodes /\ l.head # NULL /\ StartOf(u, x) \in Nodes
      /\ c \in Nodes /\ c # l.head /\ l.tail \in Nodes /\ l.tail # l.head /\ x \in Nodes /\ x # l.head
  BY NodesAre, EndsAre
<1>b. m.prev[c] = l.head /\ m.next[c] = StartOf(u, x) /\ Inner(m, l, u, x)
  BY DEF Hangs
<1>1. m2 = SetNext(m, l.head, StartOf(u, x))
  BY <1>a, <1>b, PassForward
<1>2. /\ m2 \in LinkType /\ m2.prev = m.prev /\ m2.next[l.head] = StartOf(u, x)
      /\ \A n \in Nodes : n # l.head => m2.next[n] = m.next[n]
  BY <1>1, <1>a, NextIs
<1>3. \A n \in ToSet(u) \cup {x, l.tail} : n \in Nodes /\ n # l.head
  BY NodesOfList
<1>c. SameInner(m, m2, l, u, x)
  BY <1>2, <1>3 DEF SameInner
<1>4. Inner(m2, l, u, x)
  BY <1>b, <1>c, InnerKept
<1>5. Hangs(m2, l, c, u, x)
  BY <1>a, <1>b, <1>2, <1>4 DEF Hangs
<1>6. List(m, l, u, x) => List(m2, l, u, x)
  BY <1>2, <1>4, ListIs
<1>7. Reaches(m, m2, l, {})
  BY <1>2 DEF Reaches
<1>8. Starts(m2, l, u, x)
  BY <1>2 DEF Starts
<1> QED BY <1>2, <1>5, <1>6, <1>7, <1>8 DEF PassedForward

LEMMA PassBackIs ==
  ASSUME NEW m, NEW l, NEW u, NEW x, NEW c, NEW m2, Setting(m, l, u, x, c), Hangs(m, l, c, u, x),
         m2 = Stored(m, On("pass_back", c))
  PROVE  PassedBack(m, m2, l, u, x, c)
<1> /\ m \in LinkType /\ l \in Lists /\ u \in Seqs /\ x \in Slots \cup {l.tail} /\ x \notin ToSet(u)
    /\ c \in Slots /\ c \notin ToSet(u) /\ c # x
  BY DEF Setting
<1>a. /\ l.head \in Nodes /\ StartOf(u, x) \in Nodes /\ StartOf(u, x) # NULL
      /\ c \in Nodes /\ l.tail \in Nodes /\ l.tail # l.head /\ x \in Nodes
  <2>1. /\ c \in Nodes /\ l.tail \in Nodes /\ l.head \in Nodes /\ l.tail # l.head /\ x \in Nodes
    BY NodesAre
  <2>2. StartOf(u, x) \in Nodes /\ StartOf(u, x) # NULL
    BY EndsAre
  <2> QED BY <2>1, <2>2
<1>b. m.prev[c] = l.head /\ m.next[c] = StartOf(u, x) /\ Inner(m, l, u, x)
  BY DEF Hangs
<1>1. m2 = SetPrev(m, StartOf(u, x), l.head)
  BY <1>a, <1>b, PassBack
<1>2. /\ m2 \in LinkType /\ m2.next = m.next /\ m2.prev[StartOf(u, x)] = l.head
      /\ \A n \in Nodes : n # StartOf(u, x) => m2.prev[n] = m.prev[n]
  BY <1>1, <1>a, PrevIs
<1>3. \A n \in ToSet(u) \cup {x, l.tail} : n \in Nodes
  BY NodesOfList
<1>c. SameInner(m, m2, l, u, x)
  BY <1>2, <1>3 DEF SameInner
<1>4. Inner(m2, l, u, x)
  BY ONLY <1>b, <1>c, InnerKept, l \in Lists, u \in Seqs, x \in Slots \cup {l.tail}, x \notin ToSet(u)
<1>e. StartOf(u, x) \in ToSet(u) \cup {x}
  BY EndsAre
<1>5. c # StartOf(u, x)
  BY <1>e
<1>6. Hangs(m2, l, c, u, x)
  BY <1>a, <1>b, <1>2, <1>4, <1>5 DEF Hangs
<1>7. ASSUME Starts(m, l, u, x)
      PROVE  /\ Starts(m2, l, u, x) /\ From(m2, l, l.head, u, x)
             /\ x = l.tail => List(m2, l, u, x)
  <2>1. From(m2, l, l.head, u, x)
    BY <1>2, <1>4, <1>7 DEF From, Starts
  <2>2. Starts(m2, l, u, x)
    BY <1>2, <1>7 DEF Starts
  <2> QED BY <1>2, <2>1, <2>2, EndsAre DEF List
<1>8. ASSUME List(m, l, u, x)
      PROVE  List(m2, l, u, x)
  <2>1. m.next[l.head] = StartOf(u, x) /\ (u = <<>> => m.prev[l.tail] = l.head)
    BY <1>8, ListIs
  <2>2. u = <<>> => m2.prev[l.tail] = l.head
    BY <2>1, <1>2, NodesAre
  <2> QED BY <1>2, <1>4, <2>1, <2>2, ListIs
<1>9. Reaches(m, m2, l, ToSet(u) \cup {x})
  BY <1>2, <1>e DEF Reaches
<1>10. m2.next[l.head] = m.next[l.head]
  BY <1>2
<1> QED BY <1>2, <1>6, <1>7, <1>8, <1>9, <1>10 DEF PassedBack

LinkOp(j) == CASE j = 0 -> "set_prev" [] j = 1 -> "set_next" [] j = 2 -> "link_forward" [] j = 3 -> "link_back"

LEMMA LinkOpIs ==
  /\ LinkOp(0) = "set_prev" /\ LinkOp(1) = "set_next"
  /\ LinkOp(2) = "link_forward" /\ LinkOp(3) = "link_back"
BY DEF LinkOp

\* prev[tail] of a list is its last element.
LEMMA TailIs ==
  ASSUME NEW m, NEW l \in Lists, NEW u \in Seqs, NEW x, List(m, l, u, x)
  PROVE  m.prev[l.tail] = EndOf(l, u) /\ m.next[EndOf(l, u)] = x
BY ListIs DEF Inner, EndOf, StartOf

LEMMA LinkingIs ==
  ASSUME NEW m, NEW l, NEW u, NEW x, NEW c, NEW m2, NEW j \in 0 .. 2,
         Setting(m, l, u, x, c), Linking(m, l, u, x, c, j),
         m2 = Stored(m, In(LinkOp(j), l, c))
  PROVE  LinkedOn(m, m2, l, u, x, c, j)
<1> /\ m \in LinkType /\ l \in Lists /\ u \in Seqs /\ x \in Slots \cup {l.tail} /\ x \notin ToSet(u)
    /\ c \in Slots /\ c \notin ToSet(u) /\ c # x
  BY DEF Setting
<1>1. List(m, l, u, x) /\ (j > 0 => m.prev[c] = EndOf(l, u)) /\ (j > 1 => m.next[c] = l.tail)
  BY DEF Linking
<1>2. m.prev[l.tail] = EndOf(l, u) /\ m.next[l.head] = StartOf(u, x)
  BY <1>1, TailIs, ListIs
<1>3. \A n \in ToSet(u) \cup {x, l.head, l.tail} : n \in Nodes /\ n # c
  BY NodesOfList, NodesAre
<1>4. c \in Nodes /\ l.tail \in Nodes /\ l.tail # l.head /\ EndOf(l, u) \in Nodes /\ EndOf(l, u) # c
      /\ EndOf(l, u) \in ToSet(u) \cup {l.head} /\ EndOf(l, u) # l.tail /\ StartOf(u, x) \in Nodes
      /\ StartOf(u, x) # c /\ StartOf(u, x) # l.head
  BY <1>3, EndsAre, NodesAre
<1>8. LinkOp(0) = "set_prev" /\ LinkOp(1) = "set_next" /\ LinkOp(2) = "link_forward"
  BY LinkOpIs
<1>9. EndOf(l, u) \in Nodes \cup {NULL} /\ l.tail \in Nodes \cup {NULL}
  BY <1>4
<1>5. CASE j = 0
  <2>0. m2 = Stored(m, In("set_prev", l, c))
    BY <1>5, <1>8
  <2>a. m2 = SetPrev(m, c, m.prev[l.tail])
    BY <2>0, LinkStores
  <2>1. m2 = SetPrev(m, c, EndOf(l, u))
    BY <1>2, <2>a
  <2>2. m2 \in LinkType /\ m2.next = m.next /\ m2.prev[c] = EndOf(l, u)
        /\ \A n \in Nodes : n # c => m2.prev[n] = m.prev[n]
    BY <2>1, <1>4, <1>9 DEF SetPrev, LinkType
  <2>9. \A n \in ToSet(u) \cup {x, l.head, l.tail} : m2.next[n] = m.next[n] /\ m2.prev[n] = m.prev[n]
    BY <1>3, <2>2
  <2>10. SameInner(m, m2, l, u, x) /\ Inner(m, l, u, x)
    BY <1>1, <2>9, ListIs DEF SameInner
  <2>3. Inner(m2, l, u, x)
    BY <2>10, InnerKept
  <2>4. List(m2, l, u, x)
    BY <1>1, <1>3, <1>4, <2>2, <2>3, ListIs
  <2>5. Reaches(m, m2, l, ToSet(u) \cup {c})
    BY <2>2 DEF Reaches
  <2>6. Linking(m2, l, u, x, c, 1)
    BY <2>2, <2>4 DEF Linking
  <2> QED BY <1>5, <2>2, <2>5, <2>6 DEF LinkedOn
<1>6. CASE j = 1
  <2>0. m2 = Stored(m, In("set_next", l, c))
    BY <1>6, <1>8
  <2>1. m2 = SetNext(m, c, l.tail)
    BY <2>0, LinkStores
  <2>2. m2 \in LinkType /\ m2.prev = m.prev /\ m2.next[c] = l.tail
        /\ \A n \in Nodes : n # c => m2.next[n] = m.next[n]
    BY <2>1, <1>4, <1>9 DEF SetNext, LinkType
  <2>9. \A n \in ToSet(u) \cup {x, l.head, l.tail} : m2.next[n] = m.next[n] /\ m2.prev[n] = m.prev[n]
    BY <1>3, <2>2
  <2>10. SameInner(m, m2, l, u, x) /\ Inner(m, l, u, x)
    BY <1>1, <2>9, ListIs DEF SameInner
  <2>3. Inner(m2, l, u, x)
    BY <2>10, InnerKept
  <2>4. List(m2, l, u, x) /\ m2.next[l.head] = StartOf(u, x)
    BY <1>1, <1>2, <1>3, <1>4, <2>2, <2>3, ListIs
  <2>5. Reaches(m, m2, l, ToSet(u) \cup {c})
    BY <2>2 DEF Reaches
  <2>6. Linking(m2, l, u, x, c, 2)
    BY <1>1, <1>6, <2>2, <2>4 DEF Linking
  <2> QED BY <1>6, <2>2, <2>5, <2>6 DEF LinkedOn
<1>7. CASE j = 2
  <2>0. m2 = Stored(m, In("link_forward", l, c))
    BY <1>7, <1>8
  <2>1. m2 = SetNext(m, EndOf(l, u), c)
    BY <1>2, <2>0, LinkForward
  <2>2. m2 \in LinkType /\ m2.prev = m.prev /\ m2.next[EndOf(l, u)] = c
        /\ \A n \in Nodes : n # EndOf(l, u) => m2.next[n] = m.next[n]
    BY <2>1, <1>4 DEF SetNext, LinkType
  <2>3. m2.prev[c] = EndOf(l, u) /\ m2.next[c] = l.tail
    BY <1>1, <1>4, <1>7, <2>2
  <2>4. Inner(m2, l, u, c)
    <3>1. ASSUME NEW i \in 1 .. Len(u) - 1
          PROVE  m2.next[u[i]] = u[i + 1] /\ m2.prev[u[i + 1]] = u[i]
      <4>1. i \in 1 .. Len(u) /\ Len(u) \in 1 .. Len(u) /\ i # Len(u) /\ u # <<>>
        BY SeqIs
      <4>2. u[i] # EndOf(l, u) /\ u[i] \in Nodes
        BY <4>1, SeqIs, EndsAre, NodesAre
      <4> QED BY <1>1, <2>2, <4>2, ListIs DEF Inner
    <3>2. u # <<>> => m2.next[u[Len(u)]] = c /\ m2.prev[l.tail] = u[Len(u)]
      BY <1>2, <2>2, EndsAre
    <3>3. u # <<>> => m2.prev[c] = u[Len(u)]
      BY <2>3, EndsAre
    <3> QED BY <2>3, <3>1, <3>2, <3>3 DEF Inner
  <2>5. m2.next[l.head] = StartOf(u, c) /\ m2.prev[StartOf(u, c)] = l.head
    <3>1. CASE u = <<>>
      BY <2>2, <2>3, <3>1, EndsAre DEF StartOf
    <3>2. CASE u # <<>>
      <4>1. StartOf(u, c) = StartOf(u, x) /\ EndOf(l, u) # l.head
        BY <3>2, SeqIs, EndsAre, NodesAre DEF StartOf
      <4> QED BY <1>1, <2>2, <4>1, NodesAre, ListIs
    <3> QED BY <3>1, <3>2
  <2>6. List(m2, l, u, c)
    BY <1>1, <2>2, <2>4, <2>5, ListIs
  <2>7. Reaches(m, m2, l, ToSet(u) \cup {c})
    BY <1>4, <2>2 DEF Reaches
  <2>8. Linking(m2, l, u, x, c, 3)
    BY <2>3, <2>6 DEF Linking
  <2> QED BY <1>7, <2>2, <2>7, <2>8 DEF LinkedOn
<1> QED BY <1>5, <1>6, <1>7

-----------------------------------------------------------------------------
(* Lists as sequences.                                                     *)

LEMMA AppendIs ==
  ASSUME NEW u \in Seqs, NEW c \in Slots, c \notin ToSet(u)
  PROVE  /\ Append(u, c) \in Seqs /\ Append(u, c) # <<>> /\ Len(Append(u, c)) = Len(u) + 1
         /\ \A i \in 1 .. Len(u) : Append(u, c)[i] = u[i]
         /\ Append(u, c)[Len(u) + 1] = c
         /\ ToSet(Append(u, c)) = ToSet(u) \cup {c}
<1> DEFINE v == Append(u, c)
<1>1. v \in Seq(Slots) /\ Len(v) = Len(u) + 1 /\ Len(u) \in Nat
  BY SeqIs
<1>2. (\A i \in 1 .. Len(u) : v[i] = u[i]) /\ v[Len(u) + 1] = c
  BY SeqIs
<1>3. DOMAIN v = 1 .. Len(u) + 1
  BY <1>1
<1>4. \A i \in 1 .. Len(u) : u[i] # c
  BY SeqIs
<1> HIDE DEF v
<1>5. \A i, j \in 1 .. Len(u) + 1 : v[i] = v[j] => i = j
  <2> TAKE i, j \in 1 .. Len(u) + 1
  <2>1. i \in 1 .. Len(u) \/ i = Len(u) + 1
    BY <1>1
  <2>2. j \in 1 .. Len(u) \/ j = Len(u) + 1
    BY <1>1
  <2> QED BY <1>2, <1>4, <2>1, <2>2, SeqIs
<1>6. v \in Seqs
  BY <1>1, <1>3, <1>5 DEF Seqs, IsInjective
<1>7. ToSet(v) = ToSet(u) \cup {c}
  <2>1. ASSUME NEW n \in ToSet(v)
        PROVE  n \in ToSet(u) \cup {c}
    <3>1. PICK i \in 1 .. Len(u) + 1 : v[i] = n
      BY <1>3 DEF ToSet
    <3>2. i \in 1 .. Len(u) \/ i = Len(u) + 1
      BY <1>1
    <3> QED BY <1>2, <3>1, <3>2, SeqIs
  <2>2. ASSUME NEW n \in ToSet(u)
        PROVE  n \in ToSet(v)
    <3>1. PICK i \in 1 .. Len(u) : u[i] = n
      BY SeqIs
    <3>2. i \in 1 .. Len(u) + 1 /\ v[i] = n
      BY <1>1, <1>2, <3>1
    <3> QED BY <1>3, <3>2 DEF ToSet
  <2>3. Len(u) + 1 \in 1 .. Len(u) + 1
    BY <1>1
  <2>4. c \in ToSet(v)
    BY <1>2, <1>3, <2>3 DEF ToSet
  <2> QED BY <2>1, <2>2, <2>4
<1>8. v # <<>>
  BY <1>1 DEF v
<1> QED BY <1>1, <1>2, <1>6, <1>7, <1>8 DEF v

LEMMA ConsIs ==
  ASSUME NEW u \in Seqs, NEW c \in Slots, c \notin ToSet(u)
  PROVE  /\ <<c>> \o u \in Seqs /\ <<c>> \o u # <<>> /\ Len(<<c>> \o u) = Len(u) + 1
         /\ (<<c>> \o u)[1] = c /\ \A i \in 1 .. Len(u) : (<<c>> \o u)[i + 1] = u[i]
         /\ ToSet(<<c>> \o u) = ToSet(u) \cup {c}
<1> DEFINE v == <<c>> \o u
<1>1. v \in Seq(Slots) /\ Len(v) = Len(u) + 1 /\ Len(u) \in Nat
  BY SeqIs
<1>2. v[1] = c /\ (\A i \in 1 .. Len(u) : v[i + 1] = u[i])
  BY SeqIs
<1>3. DOMAIN v = 1 .. Len(u) + 1
  BY <1>1
<1>4. \A i \in 1 .. Len(u) : u[i] # c
  BY SeqIs
<1> HIDE DEF v
<1>a. \A i \in 1 .. Len(u) + 1 : i = 1 \/ (i - 1 \in 1 .. Len(u) /\ v[i] = u[i - 1])
  <2> TAKE i \in 1 .. Len(u) + 1
  <2> SUFFICES ASSUME i # 1
               PROVE  i - 1 \in 1 .. Len(u) /\ v[i] = u[i - 1]
    OBVIOUS
  <2>1. i - 1 \in 1 .. Len(u) /\ (i - 1) + 1 = i
    BY <1>1
  <2> QED BY <1>2, <2>1
<1>5. \A i, j \in 1 .. Len(u) + 1 : v[i] = v[j] => i = j
  <2> TAKE i, j \in 1 .. Len(u) + 1
  <2> SUFFICES ASSUME v[i] = v[j]
               PROVE  i = j
    OBVIOUS
  <2>1. CASE i = 1 \/ j = 1
    BY <1>2, <1>4, <1>a, <2>1
  <2>2. CASE i # 1 /\ j # 1
    <3>1. i - 1 \in 1 .. Len(u) /\ j - 1 \in 1 .. Len(u) /\ u[i - 1] = u[j - 1]
      BY <1>a, <2>2
    <3>2. i - 1 = j - 1
      BY <3>1, SeqIs
    <3> QED BY <3>2
  <2> QED BY <2>1, <2>2
<1>6. v \in Seqs
  BY <1>1, <1>3, <1>5 DEF Seqs, IsInjective
<1>7. ToSet(v) = ToSet(u) \cup {c}
  <2>1. ASSUME NEW n \in ToSet(v)
        PROVE  n \in ToSet(u) \cup {c}
    <3>1. PICK i \in 1 .. Len(u) + 1 : v[i] = n
      BY <1>3 DEF ToSet
    <3> QED BY <1>2, <1>a, <3>1, SeqIs
  <2>2. ASSUME NEW n \in ToSet(u)
        PROVE  n \in ToSet(v)
    <3>1. PICK i \in 1 .. Len(u) : u[i] = n
      BY SeqIs
    <3>2. i + 1 \in 1 .. Len(u) + 1 /\ v[i + 1] = n
      BY <1>1, <1>2, <3>1
    <3> QED BY <1>3, <3>2 DEF ToSet
  <2>3. 1 \in 1 .. Len(u) + 1
    BY <1>1
  <2>4. c \in ToSet(v)
    BY <1>2, <1>3, <2>3 DEF ToSet
  <2> QED BY <2>1, <2>2, <2>4
<1>8. v # <<>>
  BY <1>1 DEF v
<1> QED BY <1>1, <1>2, <1>6, <1>7, <1>8 DEF v

LEMMA TailOf ==
  ASSUME NEW v \in Seqs, v # <<>>
  PROVE  /\ Tail(v) \in Seqs /\ v[1] \in Slots /\ v[1] \notin ToSet(Tail(v))
         /\ ToSet(Tail(v)) = ToSet(v) \ {v[1]} /\ v[1] \in ToSet(v)
         /\ v = <<v[1]>> \o Tail(v)
<1> DEFINE t == Tail(v)
<1>1. v \in Seq(Slots) /\ Len(v) \in Nat /\ Len(v) > 0
  BY SeqIs
<1>2. t \in Seq(Slots) /\ Len(t) = Len(v) - 1
  BY <1>1
<1>3. \A i \in 1 .. Len(v) - 1 : t[i] = v[i + 1] /\ i + 1 \in 1 .. Len(v) /\ i + 1 # 1
  BY <1>1
<1>4. DOMAIN t = 1 .. Len(v) - 1
  BY <1>2
<1>5. 1 \in 1 .. Len(v)
  BY <1>1
<1>6. v = <<v[1]>> \o t
  <2>1. v[1] \in Slots
    BY <1>5, SeqIs
  <2>2. <<v[1]>> \o t \in Seq(Slots) /\ Len(<<v[1]>> \o t) = Len(v)
    BY <1>1, <1>2, <2>1
  <2>3. \A i \in 1 .. Len(v) : (<<v[1]>> \o t)[i] = v[i]
    BY <1>1, <1>2, <2>1
  <2> HIDE DEF t
  <2> DEFINE q == <<v[1]>> \o t
  <2>4. q \in Seq(Slots) /\ Len(q) = Len(v) /\ \A i \in 1 .. Len(v) : q[i] = v[i]
    BY <2>2, <2>3
  <2> HIDE DEF q
  <2>5. q = v
    BY <1>1, <2>4, SeqEqual
  <2> QED BY <2>5 DEF q
<1> HIDE DEF t
<1>7. \A i, j \in 1 .. Len(v) - 1 : t[i] = t[j] => i = j
  <2> TAKE i, j \in 1 .. Len(v) - 1
  <2>1. v[i + 1] = v[j + 1] => i + 1 = j + 1
    BY <1>3, SeqIs
  <2> QED BY <1>3, <2>1
<1>8. t \in Seqs
  BY <1>2, <1>4, <1>7 DEF Seqs, IsInjective
<1>9. v[1] \in Slots /\ v[1] \in ToSet(v)
  BY <1>5, SeqIs
<1>10. \A i \in 1 .. Len(v) - 1 : t[i] # v[1] /\ t[i] \in ToSet(v)
  BY <1>3, <1>5, SeqIs
<1>11. ToSet(t) = ToSet(v) \ {v[1]}
  <2>1. ASSUME NEW n \in ToSet(t)
        PROVE  n \in ToSet(v) \ {v[1]}
    BY <1>4, <1>10 DEF ToSet
  <2>2. ASSUME NEW n \in ToSet(v) \ {v[1]}
        PROVE  n \in ToSet(t)
    <3>1. PICK i \in 1 .. Len(v) : v[i] = n
      BY SeqIs
    <3>2. i - 1 \in 1 .. Len(v) - 1 /\ (i - 1) + 1 = i
      BY <1>1, <3>1
    <3>3. t[i - 1] = n
      BY <1>3, <3>1, <3>2
    <3> QED BY <1>4, <3>2, <3>3 DEF ToSet
  <2> QED BY <2>1, <2>2
<1> QED BY <1>6, <1>8, <1>9, <1>11 DEF t

\* The first element of a list and the rest.
LEMMA FirstOfList ==
  ASSUME NEW m, NEW l \in Lists, NEW u \in Seqs, NEW x \in Slots \cup {l.tail},
         NEW c \in Slots, c \notin ToSet(u)
  PROVE  /\ From(m, l, l.head, <<c>> \o u, x) => Fronts(m, l, c, u, x)
         /\ x = l.tail /\ Fronts(m, l, c, u, x) => List(m, l, <<c>> \o u, x)
<1> DEFINE v == <<c>> \o u
<1>1. v \in Seqs /\ v # <<>> /\ Len(v) = Len(u) + 1 /\ v[1] = c
      /\ \A i \in 1 .. Len(u) : v[i + 1] = u[i]
  BY ConsIs
<1> HIDE DEF v
<1>2. StartOf(v, x) = c
  BY <1>1 DEF StartOf
<1>3. Len(u) \in Nat
  BY SeqIs
<1>4. CASE u = <<>>
  <2>1. Len(u) = 0 /\ Len(v) = 1
    BY <1>1, <1>4, SeqIs
  <2>2. v[Len(v)] = c /\ StartOf(u, x) = x
    BY <1>1, <1>4, <2>1 DEF StartOf
  <2>3. Inner(m, l, v, x) <=> /\ m.next[c] = x /\ m.prev[l.tail] = c
                              /\ x # l.tail => m.next[x] = l.tail /\ m.prev[x] = c
    BY <1>1, <2>1, <2>2 DEF Inner
  <2>4. Inner(m, l, u, x) <=> (x # l.tail => m.next[x] = l.tail)
    BY <1>4, <2>1 DEF Inner
  <2>5. From(m, l, l.head, v, x) <=> Inner(m, l, v, x) /\ m.next[l.head] = c /\ m.prev[c] = l.head
    BY <1>2 DEF From
  <2>6. Fronts(m, l, c, u, x) <=>
          m.prev[c] = l.head /\ m.next[l.head] = c /\ Inner(m, l, u, x) /\ m.next[c] = x /\ m.prev[x] = c
    BY <2>2 DEF Fronts, From
  <2>7. CASE x = l.tail
    BY <1>1, <2>3, <2>4, <2>5, <2>6, <2>7 DEF v, List
  <2>8. CASE x # l.tail
    BY <2>3, <2>4, <2>5, <2>6, <2>8 DEF v
  <2> QED BY <2>7, <2>8
<1>5. CASE u # <<>>
  <2>1. Len(u) > 0 /\ StartOf(u, x) = u[1]
    BY <1>5, SeqIs DEF StartOf
  <2>2. v[Len(v)] = u[Len(u)] /\ v[2] = u[1]
    <3>1. Len(u) \in 1 .. Len(u) /\ 1 \in 1 .. Len(u) /\ 1 + 1 = 2
      BY <1>3, <2>1
    <3> QED BY <1>1, <3>1
  <2>3. Inner(m, l, v, x) <=> m.next[c] = u[1] /\ m.prev[u[1]] = c /\ Inner(m, l, u, x)
    <3>1. (\A i \in 1 .. Len(v) - 1 : m.next[v[i]] = v[i + 1] /\ m.prev[v[i + 1]] = v[i])
          <=> /\ m.next[c] = u[1] /\ m.prev[u[1]] = c
              /\ \A i \in 1 .. Len(u) - 1 : m.next[u[i]] = u[i + 1] /\ m.prev[u[i + 1]] = u[i]
      <4>1. ASSUME \A i \in 1 .. Len(v) - 1 : m.next[v[i]] = v[i + 1] /\ m.prev[v[i + 1]] = v[i]
            PROVE  /\ m.next[c] = u[1] /\ m.prev[u[1]] = c
                   /\ \A i \in 1 .. Len(u) - 1 : m.next[u[i]] = u[i + 1] /\ m.prev[u[i + 1]] = u[i]
        <5>1. 1 \in 1 .. Len(v) - 1 /\ 1 + 1 = 2
          BY <1>1, <1>3, <2>1
        <5>2. ASSUME NEW i \in 1 .. Len(u) - 1
              PROVE  m.next[u[i]] = u[i + 1] /\ m.prev[u[i + 1]] = u[i]
          <6>1. i + 1 \in 1 .. Len(v) - 1 /\ i \in 1 .. Len(u) /\ i + 1 \in 1 .. Len(u)
            BY <1>1, <1>3
          <6>2. v[i + 1] = u[i] /\ v[(i + 1) + 1] = u[i + 1]
            BY <1>1, <6>1
          <6> QED BY <4>1, <6>1, <6>2
        <5> QED BY <1>1, <2>2, <4>1, <5>1, <5>2
      <4>2. ASSUME m.next[c] = u[1], m.prev[u[1]] = c,
                   \A i \in 1 .. Len(u) - 1 : m.next[u[i]] = u[i + 1] /\ m.prev[u[i + 1]] = u[i],
                   NEW i \in 1 .. Len(v) - 1
            PROVE  m.next[v[i]] = v[i + 1] /\ m.prev[v[i + 1]] = v[i]
        <5>1. CASE i = 1
          BY <1>1, <2>2, <4>2, <5>1
        <5>2. CASE i # 1
          <6>1. i - 1 \in 1 .. Len(u) - 1 /\ i - 1 \in 1 .. Len(u) /\ i \in 1 .. Len(u) /\ (i - 1) + 1 = i
            BY <1>1, <1>3, <5>2
          <6>2. v[i] = u[i - 1] /\ v[i + 1] = u[i]
            BY <1>1, <6>1
          <6> QED BY <4>2, <6>1, <6>2
        <5> QED BY <5>1, <5>2
      <4> QED BY <4>1, <4>2
    <3> QED BY <1>1, <1>5, <2>2, <3>1 DEF Inner
  <2>4. From(m, l, l.head, v, x) <=> Fronts(m, l, c, u, x)
    BY <1>2, <2>1, <2>3 DEF Fronts, From
  <2> QED BY <1>1, <2>4 DEF v, List
<1> QED BY <1>4, <1>5

-----------------------------------------------------------------------------
(* The statements a process executes.                                      *)

LEMMA Tuple1 ==
  ASSUME NEW S, NEW a \in S, NEW s, s = <<a>>
  PROVE  s \in Seq(S) /\ Len(s) = 1 /\ s[1] = a
OBVIOUS

LEMMA Tuple2 ==
  ASSUME NEW S, NEW a \in S, NEW b \in S, NEW s, s = <<a, b>>
  PROVE  s \in Seq(S) /\ Len(s) = 2 /\ s[1] = a /\ s[2] = b
OBVIOUS

LEMMA Tuple4 ==
  ASSUME NEW S, NEW a \in S, NEW b \in S, NEW c \in S, NEW d \in S, NEW s, s = <<a, b, c, d>>
  PROVE  s \in Seq(S) /\ Len(s) = 4 /\ s[1] = a /\ s[2] = b /\ s[3] = c /\ s[4] = d
OBVIOUS

\* s is r with p after it.
Joined(s, r, p) == s = r \o p

JoinIs(S, s, r, p) ==
  /\ s \in Seq(S) /\ Len(s) = Len(r) + Len(p)
  /\ \A i \in 1 .. Len(r) : s[i] = r[i]
  /\ \A i \in 1 .. Len(p) : s[Len(r) + i] = p[i]

LEMMA Concat ==
  ASSUME NEW S, NEW r, NEW p, NEW s, r \in Seq(S), p \in Seq(S), Joined(s, r, p)
  PROVE  JoinIs(S, s, r, p)
<1>1. JoinIs(S, r \o p, r, p)
  <2>1. /\ r \o p \in Seq(S) /\ Len(r \o p) = Len(r) + Len(p)
        /\ \A i \in 1 .. Len(r) : (r \o p)[i] = r[i]
        /\ \A i \in 1 .. Len(p) : (r \o p)[Len(r) + i] = p[i]
    BY ConcatProperties
  <2> QED BY <2>1 DEF JoinIs
<1> QED BY <1>1 DEF Joined

\* All statements in which an element c and a list l can occur.
All(c) ==
  {On(op, c) : op \in {"pass_forward", "pass_back", "zombie", "unuse"}}
  \cup {In(op, r_list, c) : op \in {"set_prev", "set_next", "link_forward", "link_back"}}
  \cup {In(op, d_list, c) : op \in {"set_prev", "set_next", "link_forward", "link_back"}}
  \cup {Do(op) : op \in {"unlock", "pick", "switch"}}
  \cup {Created(f) : f \in Commands \cup {"kernel", "login"}}

LEMMA AllHas ==
  ASSUME NEW c
  PROVE  /\ On("pass_forward", c) \in All(c) /\ On("pass_back", c) \in All(c)
         /\ On("zombie", c) \in All(c) /\ On("unuse", c) \in All(c)
         /\ \A l \in Lists : /\ In("set_prev", l, c) \in All(c) /\ In("set_next", l, c) \in All(c)
                             /\ In("link_forward", l, c) \in All(c) /\ In("link_back", l, c) \in All(c)
         /\ Do("unlock") \in All(c) /\ Do("pick") \in All(c) /\ Do("switch") \in All(c)
         /\ Created("kernel") \in All(c) /\ Created("login") \in All(c)
         /\ \A f \in Commands : Created(f) \in All(c)
<1>1. \A l \in Lists : /\ In("set_prev", l, c) \in All(c) /\ In("set_next", l, c) \in All(c)
                        /\ In("link_forward", l, c) \in All(c) /\ In("link_back", l, c) \in All(c)
  <2>1. /\ In("set_prev", r_list, c) \in All(c) /\ In("set_next", r_list, c) \in All(c)
        /\ In("link_forward", r_list, c) \in All(c) /\ In("link_back", r_list, c) \in All(c)
    BY DEF All
  <2>2. /\ In("set_prev", d_list, c) \in All(c) /\ In("set_next", d_list, c) \in All(c)
        /\ In("link_forward", d_list, c) \in All(c) /\ In("link_back", d_list, c) \in All(c)
    BY DEF All
  <2> QED BY <2>1, <2>2 DEF Lists
<1>2. /\ On("pass_forward", c) \in All(c) /\ On("pass_back", c) \in All(c)
      /\ On("zombie", c) \in All(c) /\ On("unuse", c) \in All(c)
  BY DEF All
<1>3. Do("unlock") \in All(c) /\ Do("pick") \in All(c) /\ Do("switch") \in All(c)
  BY DEF All
<1>4. /\ Created("kernel") \in All(c) /\ Created("login") \in All(c)
      /\ \A f \in Commands : Created(f) \in All(c)
  BY DEF All
<1> QED BY <1>1, <1>2, <1>3, <1>4

LEMMA RemoveIs ==
  ASSUME NEW c, NEW s, s = list_remove(c)
  PROVE  /\ s \in Seq(All(c)) /\ Len(s) = 2
         /\ s[1] = On("pass_forward", c) /\ s[2] = On("pass_back", c)
<1> DEFINE a == On("pass_forward", c)
           b == On("pass_back", c)
<1>1. a \in All(c) /\ b \in All(c)
  BY AllHas
<1>2. s = <<a, b>>
  BY DEF list_remove
<1> HIDE DEF a, b
<1>3. s \in Seq(All(c)) /\ Len(s) = 2 /\ s[1] = a /\ s[2] = b
  BY <1>1, <1>2, Tuple2
<1> QED BY <1>3 DEF a, b

LEMMA LinkIs ==
  ASSUME NEW c, NEW l \in Lists, NEW s, s = <<In("set_prev", l, c), In("set_next", l, c), In("link_forward", l, c), In("link_back", l, c)>>
  PROVE  /\ s \in Seq(All(c)) /\ Len(s) = 4
         /\ s[1] = In("set_prev", l, c) /\ s[2] = In("set_next", l, c)
         /\ s[3] = In("link_forward", l, c) /\ s[4] = In("link_back", l, c)
<1> DEFINE a == In("set_prev", l, c)
           b == In("set_next", l, c)
           d == In("link_forward", l, c)
           e == In("link_back", l, c)
<1>1. a \in All(c) /\ b \in All(c) /\ d \in All(c) /\ e \in All(c)
  BY AllHas
<1>2. s = <<a, b, d, e>>
  OBVIOUS
<1> HIDE DEF a, b, d, e
<1>3. s \in Seq(All(c)) /\ Len(s) = 4 /\ s[1] = a /\ s[2] = b /\ s[3] = d /\ s[4] = e
  BY ONLY <1>1, <1>2, Tuple4
<1> QED BY <1>3 DEF a, b, d, e

LEMMA ZombieIs ==
  ASSUME NEW c, NEW s, s = <<On("zombie", c)>>
  PROVE  /\ s \in Seq(All(c)) /\ Len(s) = 1
         /\ s[1] = On("zombie", c)
<1> DEFINE a == On("zombie", c)
<1>1. a \in All(c)
  BY AllHas
<1>2. s = <<a>>
  OBVIOUS
<1> HIDE DEF a
<1>3. s \in Seq(All(c)) /\ Len(s) = 1 /\ s[1] = a
  BY <1>1, <1>2, Tuple1
<1> QED BY <1>3 DEF a

LEMMA UnuseIs ==
  ASSUME NEW c, NEW s, s = <<On("unuse", c)>>
  PROVE  /\ s \in Seq(All(c)) /\ Len(s) = 1
         /\ s[1] = On("unuse", c)
<1> DEFINE a == On("unuse", c)
<1>1. a \in All(c)
  BY AllHas
<1>2. s = <<a>>
  OBVIOUS
<1> HIDE DEF a
<1>3. s \in Seq(All(c)) /\ Len(s) = 1 /\ s[1] = a
  BY <1>1, <1>2, Tuple1
<1> QED BY <1>3 DEF a

LEMMA UnlockIs ==
  ASSUME NEW c, NEW s, s = <<Do("unlock")>>
  PROVE  /\ s \in Seq(All(c)) /\ Len(s) = 1
         /\ s[1] = Do("unlock")
<1> DEFINE a == Do("unlock")
<1>1. a \in All(c)
  BY AllHas
<1>2. s = <<a>>
  OBVIOUS
<1> HIDE DEF a
<1>3. s \in Seq(All(c)) /\ Len(s) = 1 /\ s[1] = a
  BY <1>1, <1>2, Tuple1
<1> QED BY <1>3 DEF a

LEMMA PickIs ==
  ASSUME NEW c, NEW s, s = <<Do("pick")>>
  PROVE  /\ s \in Seq(All(c)) /\ Len(s) = 1
         /\ s[1] = Do("pick")
<1> DEFINE a == Do("pick")
<1>1. a \in All(c)
  BY AllHas
<1>2. s = <<a>>
  OBVIOUS
<1> HIDE DEF a
<1>3. s \in Seq(All(c)) /\ Len(s) = 1 /\ s[1] = a
  BY <1>1, <1>2, Tuple1
<1> QED BY <1>3 DEF a

LEMMA SwitchIs ==
  ASSUME NEW c, NEW s, s = <<Do("switch")>>
  PROVE  /\ s \in Seq(All(c)) /\ Len(s) = 1
         /\ s[1] = Do("switch")
<1> DEFINE a == Do("switch")
<1>1. a \in All(c)
  BY AllHas
<1>2. s = <<a>>
  OBVIOUS
<1> HIDE DEF a
<1>3. s \in Seq(All(c)) /\ Len(s) = 1 /\ s[1] = a
  BY <1>1, <1>2, Tuple1
<1> QED BY <1>3 DEF a

LEMMA PushIs ==
  ASSUME NEW c, NEW l \in Lists, NEW s, s = list_push_back(l, c)
  PROVE  /\ s \in Seq(All(c)) /\ Len(s) = 6
         /\ s[1] = On("pass_forward", c) /\ s[2] = On("pass_back", c)
         /\ s[3] = In("set_prev", l, c) /\ s[4] = In("set_next", l, c)
         /\ s[5] = In("link_forward", l, c) /\ s[6] = In("link_back", l, c)
<1> DEFINE r == list_remove(c)
           p == <<In("set_prev", l, c), In("set_next", l, c), In("link_forward", l, c), In("link_back", l, c)>>
<1>1. /\ r \in Seq(All(c)) /\ Len(r) = 2
      /\ r[1] = On("pass_forward", c) /\ r[2] = On("pass_back", c)
  BY RemoveIs
<1>2. /\ p \in Seq(All(c)) /\ Len(p) = 4
      /\ p[1] = In("set_prev", l, c) /\ p[2] = In("set_next", l, c)
      /\ p[3] = In("link_forward", l, c) /\ p[4] = In("link_back", l, c)
  BY LinkIs
<1>3. Joined(s, r, p)
  BY DEF Joined, list_push_back
<1> HIDE DEF r, p
<1>4. /\ s \in Seq(All(c)) /\ Len(s) = 6
      /\ s[1] = r[1] /\ s[2] = r[2] /\ s[3] = p[1] /\ s[4] = p[2]
      /\ s[5] = p[3] /\ s[6] = p[4]
  <2>1. JoinIs(All(c), s, r, p)
    BY <1>1, <1>2, <1>3, Concat
  <2>2. /\ s \in Seq(All(c)) /\ Len(s) = 2 + 4
        /\ \A i \in 1 .. 2 : s[i] = r[i]
        /\ \A i \in 1 .. 4 : s[2 + i] = p[i]
    BY <1>1, <1>2, <2>1 DEF JoinIs
  <2>3. /\ s[1] = r[1] /\ s[2] = r[2]
    BY <2>2
  <2>4. /\ s[2 + 1] = p[1] /\ s[2 + 2] = p[2] /\ s[2 + 3] = p[3] /\ s[2 + 4] = p[4]
    BY <2>2
  <2> QED BY <2>2, <2>3, <2>4
<1> QED BY <1>1, <1>2, <1>4

\* list_push_back of an element that is still linked.
Move(l, c) == list_remove(c) \o list_push_back(l, c)

LEMMA MoveIs ==
  ASSUME NEW c, NEW l \in Lists, NEW s, s = Move(l, c)
  PROVE  /\ s \in Seq(All(c)) /\ Len(s) = 8
         /\ s[1] = On("pass_forward", c) /\ s[2] = On("pass_back", c)
         /\ s[3] = On("pass_forward", c) /\ s[4] = On("pass_back", c)
         /\ s[5] = In("set_prev", l, c) /\ s[6] = In("set_next", l, c)
         /\ s[7] = In("link_forward", l, c) /\ s[8] = In("link_back", l, c)
<1> DEFINE r == list_remove(c)
           p == list_push_back(l, c)
<1>1. /\ r \in Seq(All(c)) /\ Len(r) = 2
      /\ r[1] = On("pass_forward", c) /\ r[2] = On("pass_back", c)
  BY RemoveIs
<1>2. /\ p \in Seq(All(c)) /\ Len(p) = 6
      /\ p[1] = On("pass_forward", c) /\ p[2] = On("pass_back", c)
      /\ p[3] = In("set_prev", l, c) /\ p[4] = In("set_next", l, c)
      /\ p[5] = In("link_forward", l, c) /\ p[6] = In("link_back", l, c)
  BY PushIs
<1>3. Joined(s, r, p)
  BY DEF Joined, Move
<1> HIDE DEF r, p
<1>4. /\ s \in Seq(All(c)) /\ Len(s) = 8
      /\ s[1] = r[1] /\ s[2] = r[2] /\ s[3] = p[1] /\ s[4] = p[2]
      /\ s[5] = p[3] /\ s[6] = p[4] /\ s[7] = p[5] /\ s[8] = p[6]
  <2>1. JoinIs(All(c), s, r, p)
    BY <1>1, <1>2, <1>3, Concat
  <2>2. /\ s \in Seq(All(c)) /\ Len(s) = 2 + 6
        /\ \A i \in 1 .. 2 : s[i] = r[i]
        /\ \A i \in 1 .. 6 : s[2 + i] = p[i]
    BY <1>1, <1>2, <2>1 DEF JoinIs
  <2>3. /\ s[1] = r[1] /\ s[2] = r[2]
    BY <2>2
  <2>4. /\ s[2 + 1] = p[1] /\ s[2 + 2] = p[2] /\ s[2 + 3] = p[3] /\ s[2 + 4] = p[4]
        /\ s[2 + 5] = p[5] /\ s[2 + 6] = p[6]
    BY <2>2
  <2> QED BY <2>2, <2>3, <2>4
<1> QED BY <1>1, <1>2, <1>4

LEMMA AgainIs ==
  ASSUME NEW c, NEW s, s = Again(c)
  PROVE  /\ s \in Seq(All(c)) /\ Len(s) = 9
         /\ s[1] = On("pass_forward", c) /\ s[2] = On("pass_back", c)
         /\ s[3] = On("pass_forward", c) /\ s[4] = On("pass_back", c)
         /\ s[5] = In("set_prev", r_list, c) /\ s[6] = In("set_next", r_list, c)
         /\ s[7] = In("link_forward", r_list, c) /\ s[8] = In("link_back", r_list, c)
         /\ s[9] = Do("switch")
<1> DEFINE r == Move(r_list, c)
           p == <<Do("switch")>>
<1>1. /\ r \in Seq(All(c)) /\ Len(r) = 8
      /\ r[1] = On("pass_forward", c) /\ r[2] = On("pass_back", c)
      /\ r[3] = On("pass_forward", c) /\ r[4] = On("pass_back", c)
      /\ r[5] = In("set_prev", r_list, c) /\ r[6] = In("set_next", r_list, c)
      /\ r[7] = In("link_forward", r_list, c) /\ r[8] = In("link_back", r_list, c)
  BY MoveIs, ListsApart
<1>2. /\ p \in Seq(All(c)) /\ Len(p) = 1
      /\ p[1] = Do("switch")
  BY SwitchIs
<1>3. Joined(s, r, p)
  BY DEF Joined, Again, Move
<1> HIDE DEF r, p
<1>4. /\ s \in Seq(All(c)) /\ Len(s) = 9
      /\ s[1] = r[1] /\ s[2] = r[2] /\ s[3] = r[3] /\ s[4] = r[4]
      /\ s[5] = r[5] /\ s[6] = r[6] /\ s[7] = r[7] /\ s[8] = r[8]
      /\ s[9] = p[1]
  <2>1. JoinIs(All(c), s, r, p)
    BY <1>1, <1>2, <1>3, Concat
  <2>2. /\ s \in Seq(All(c)) /\ Len(s) = 8 + 1
        /\ \A i \in 1 .. 8 : s[i] = r[i]
        /\ \A i \in 1 .. 1 : s[8 + i] = p[i]
    BY <1>1, <1>2, <2>1 DEF JoinIs
  <2>3. /\ s[1] = r[1] /\ s[2] = r[2] /\ s[3] = r[3] /\ s[4] = r[4]
        /\ s[5] = r[5] /\ s[6] = r[6] /\ s[7] = r[7] /\ s[8] = r[8]
    BY <2>2
  <2>4. /\ s[8 + 1] = p[1]
    BY <2>2
  <2> QED BY <2>2, <2>3, <2>4
<1> QED BY <1>1, <1>2, <1>4

LEMMA ReapIs ==
  ASSUME NEW c, NEW s, s = Reap(c)
  PROVE  /\ s \in Seq(All(c)) /\ Len(s) = 3
         /\ s[1] = On("pass_forward", c) /\ s[2] = On("pass_back", c)
         /\ s[3] = On("unuse", c)
<1> DEFINE r == list_remove(c)
           p == <<On("unuse", c)>>
<1>1. /\ r \in Seq(All(c)) /\ Len(r) = 2
      /\ r[1] = On("pass_forward", c) /\ r[2] = On("pass_back", c)
  BY RemoveIs
<1>2. /\ p \in Seq(All(c)) /\ Len(p) = 1
      /\ p[1] = On("unuse", c)
  BY UnuseIs
<1>3. Joined(s, r, p)
  BY DEF Joined, Reap
<1> HIDE DEF r, p
<1>4. /\ s \in Seq(All(c)) /\ Len(s) = 3
      /\ s[1] = r[1] /\ s[2] = r[2] /\ s[3] = p[1]
  <2>1. JoinIs(All(c), s, r, p)
    BY <1>1, <1>2, <1>3, Concat
  <2>2. /\ s \in Seq(All(c)) /\ Len(s) = 2 + 1
        /\ \A i \in 1 .. 2 : s[i] = r[i]
        /\ \A i \in 1 .. 1 : s[2 + i] = p[i]
    BY <1>1, <1>2, <2>1 DEF JoinIs
  <2>3. /\ s[1] = r[1] /\ s[2] = r[2]
    BY <2>2
  <2>4. /\ s[2 + 1] = p[1]
    BY <2>2
  <2> QED BY <2>2, <2>3, <2>4
<1> QED BY <1>1, <1>2, <1>4

LEMMA FreeIs ==
  ASSUME NEW c, NEW s, s = Free(c)
  PROVE  /\ s \in Seq(All(c)) /\ Len(s) = 11
         /\ s[1] = Do("unlock") /\ s[2] = On("pass_forward", c)
         /\ s[3] = On("pass_back", c) /\ s[4] = On("zombie", c)
         /\ s[5] = On("pass_forward", c) /\ s[6] = On("pass_back", c)
         /\ s[7] = In("set_prev", d_list, c) /\ s[8] = In("set_next", d_list, c)
         /\ s[9] = In("link_forward", d_list, c) /\ s[10] = In("link_back", d_list, c)
         /\ s[11] = Do("pick")
<1> DEFINE a == <<Do("unlock")>>
           b == list_remove(c)
           z == <<On("zombie", c)>>
           p == list_push_back(d_list, c)
           q == <<Do("pick")>>
           ab == a \o b
           abz == ab \o z
           abzp == abz \o p
<1>1. /\ a \in Seq(All(c)) /\ Len(a) = 1
      /\ a[1] = Do("unlock")
  BY UnlockIs
<1>2. /\ b \in Seq(All(c)) /\ Len(b) = 2
      /\ b[1] = On("pass_forward", c) /\ b[2] = On("pass_back", c)
  BY RemoveIs
<1>3. /\ z \in Seq(All(c)) /\ Len(z) = 1
      /\ z[1] = On("zombie", c)
  BY ZombieIs
<1>4. /\ p \in Seq(All(c)) /\ Len(p) = 6
      /\ p[1] = On("pass_forward", c) /\ p[2] = On("pass_back", c)
      /\ p[3] = In("set_prev", d_list, c) /\ p[4] = In("set_next", d_list, c)
      /\ p[5] = In("link_forward", d_list, c) /\ p[6] = In("link_back", d_list, c)
  BY PushIs, ListsApart
<1>5. /\ q \in Seq(All(c)) /\ Len(q) = 1
      /\ q[1] = Do("pick")
  BY PickIs
<1>6. Joined(ab, a, b)
  BY DEF Joined
<1>7. Joined(abz, ab, z)
  BY DEF Joined
<1>8. Joined(abzp, abz, p)
  BY DEF Joined
<1>9. Joined(s, abzp, q)
  BY DEF Joined, Free, proc_free
<1> HIDE DEF a, b, z, p, q, ab, abz, abzp
<1>10. /\ ab \in Seq(All(c)) /\ Len(ab) = 3
      /\ ab[1] = a[1] /\ ab[2] = b[1] /\ ab[3] = b[2]
  <2>1. JoinIs(All(c), ab, a, b)
    BY <1>1, <1>2, <1>6, Concat
  <2>2. /\ ab \in Seq(All(c)) /\ Len(ab) = 1 + 2
        /\ \A i \in 1 .. 1 : ab[i] = a[i]
        /\ \A i \in 1 .. 2 : ab[1 + i] = b[i]
    BY <1>1, <1>2, <2>1 DEF JoinIs
  <2>3. /\ ab[1] = a[1]
    BY <2>2
  <2>4. /\ ab[1 + 1] = b[1] /\ ab[1 + 2] = b[2]
    BY <2>2
  <2> QED BY <2>2, <2>3, <2>4
<1>11. /\ abz \in Seq(All(c)) /\ Len(abz) = 4
      /\ abz[1] = ab[1] /\ abz[2] = ab[2] /\ abz[3] = ab[3] /\ abz[4] = z[1]
  <2>1. JoinIs(All(c), abz, ab, z)
    BY <1>10, <1>3, <1>7, Concat
  <2>2. /\ abz \in Seq(All(c)) /\ Len(abz) = 3 + 1
        /\ \A i \in 1 .. 3 : abz[i] = ab[i]
        /\ \A i \in 1 .. 1 : abz[3 + i] = z[i]
    BY <1>10, <1>3, <2>1 DEF JoinIs
  <2>3. /\ abz[1] = ab[1] /\ abz[2] = ab[2] /\ abz[3] = ab[3]
    BY <2>2
  <2>4. /\ abz[3 + 1] = z[1]
    BY <2>2
  <2> QED BY <2>2, <2>3, <2>4
<1>12. /\ abzp \in Seq(All(c)) /\ Len(abzp) = 10
      /\ abzp[1] = abz[1] /\ abzp[2] = abz[2] /\ abzp[3] = abz[3] /\ abzp[4] = abz[4]
      /\ abzp[5] = p[1] /\ abzp[6] = p[2] /\ abzp[7] = p[3] /\ abzp[8] = p[4]
      /\ abzp[9] = p[5] /\ abzp[10] = p[6]
  <2>1. JoinIs(All(c), abzp, abz, p)
    BY <1>11, <1>4, <1>8, Concat
  <2>2. /\ abzp \in Seq(All(c)) /\ Len(abzp) = 4 + 6
        /\ \A i \in 1 .. 4 : abzp[i] = abz[i]
        /\ \A i \in 1 .. 6 : abzp[4 + i] = p[i]
    BY <1>11, <1>4, <2>1 DEF JoinIs
  <2>3. /\ abzp[1] = abz[1] /\ abzp[2] = abz[2] /\ abzp[3] = abz[3] /\ abzp[4] = abz[4]
    BY <2>2
  <2>4. /\ abzp[4 + 1] = p[1] /\ abzp[4 + 2] = p[2] /\ abzp[4 + 3] = p[3] /\ abzp[4 + 4] = p[4]
        /\ abzp[4 + 5] = p[5] /\ abzp[4 + 6] = p[6]
    BY <2>2
  <2> QED BY <2>2, <2>3, <2>4
<1>13. /\ s \in Seq(All(c)) /\ Len(s) = 11
      /\ s[1] = abzp[1] /\ s[2] = abzp[2] /\ s[3] = abzp[3] /\ s[4] = abzp[4]
      /\ s[5] = abzp[5] /\ s[6] = abzp[6] /\ s[7] = abzp[7] /\ s[8] = abzp[8]
      /\ s[9] = abzp[9] /\ s[10] = abzp[10] /\ s[11] = q[1]
  <2>1. JoinIs(All(c), s, abzp, q)
    BY <1>12, <1>5, <1>9, Concat
  <2>2. /\ s \in Seq(All(c)) /\ Len(s) = 10 + 1
        /\ \A i \in 1 .. 10 : s[i] = abzp[i]
        /\ \A i \in 1 .. 1 : s[10 + i] = q[i]
    BY <1>12, <1>5, <2>1 DEF JoinIs
  <2>3. /\ s[1] = abzp[1] /\ s[2] = abzp[2] /\ s[3] = abzp[3] /\ s[4] = abzp[4]
        /\ s[5] = abzp[5] /\ s[6] = abzp[6] /\ s[7] = abzp[7] /\ s[8] = abzp[8]
        /\ s[9] = abzp[9] /\ s[10] = abzp[10]
    BY <2>2
  <2>4. /\ s[10 + 1] = q[1]
    BY <2>2
  <2> QED BY <2>2, <2>3, <2>4
<1> QED BY <1>1, <1>2, <1>3, <1>4, <1>5, <1>10, <1>11, <1>12, <1>13

LEMMA BootIs ==
  ASSUME NEW c, NEW s, s = Boot
  PROVE  /\ s \in Seq(All(c)) /\ Len(s) = 3
         /\ s[1] = Created("kernel") /\ s[2] = Created("kernel") /\ s[3] = Created("login")
<1>1. Created("kernel") \in All(c) /\ Created("login") \in All(c)
  BY AllHas
<1> QED BY <1>1 DEF Boot

\* What is left of a program.
LEMMA LeftIs ==
  ASSUME NEW S, NEW p \in Seq(S), NEW k \in 1 .. Len(p)
  PROVE  /\ Left(p, k) # <<>> /\ Head(Left(p, k)) = p[k] /\ Tail(Left(p, k)) = Left(p, k + 1)
         /\ Len(Left(p, k)) = Len(p) - k + 1
         /\ \A i \in 1 .. Len(p) - k + 1 : Left(p, k)[i] = p[k + i - 1]
<1> DEFINE q == Left(p, k)
           t == Left(p, k + 1)
<1>1. q \in Seq(S) /\ Len(q) = Len(p) - k + 1 /\ \A i \in 1 .. Len(p) - k + 1 : q[i] = p[k + i - 1]
  BY DEF Left
<1>2. t \in Seq(S) /\ Len(t) = Len(p) - k /\ \A i \in 1 .. Len(p) - k : t[i] = p[k + i]
  BY DEF Left
<1> HIDE DEF q, t
<1>3. q # <<>> /\ Head(q) = p[k]
  BY <1>1
<1>4. Tail(q) \in Seq(S) /\ Len(Tail(q)) = Len(t) /\ \A i \in 1 .. Len(t) : Tail(q)[i] = t[i]
  <2>1. Tail(q) \in Seq(S) /\ Len(Tail(q)) = Len(q) - 1 /\ \A i \in 1 .. Len(q) - 1 : Tail(q)[i] = q[i + 1]
    BY <1>1, <1>3, HeadTailProperties
  <2>2. Len(Tail(q)) = Len(t)
    BY <1>1, <1>2, <2>1
  <2>3. ASSUME NEW i \in 1 .. Len(t)
        PROVE  Tail(q)[i] = t[i]
    <3>1. i \in 1 .. Len(p) - k /\ i \in 1 .. Len(q) - 1 /\ i + 1 \in 1 .. Len(p) - k + 1
      BY <1>1, <1>2
    <3>2. Tail(q)[i] = q[i + 1] /\ q[i + 1] = p[k + (i + 1) - 1] /\ t[i] = p[k + i]
      BY <1>1, <1>2, <2>1, <3>1
    <3>3. k + (i + 1) - 1 = k + i
      BY <3>1
    <3> QED BY <3>2, <3>3
  <2> QED BY <2>1, <2>2, <2>3
<1>5. Tail(q) = t
  BY <1>2, <1>4, SeqEqual
<1> QED BY <1>1, <1>3, <1>5 DEF q, t

LEMMA AllLeft ==
  ASSUME NEW S, NEW p \in Seq(S)
  PROVE  Left(p, 1) = p /\ Left(p, Len(p) + 1) = <<>>
<1>1. Left(p, 1) \in Seq(S) /\ Len(Left(p, 1)) = Len(p) /\ \A i \in 1 .. Len(p) : Left(p, 1)[i] = p[i]
  BY DEF Left
<1>2. Left(p, 1) = p
  BY <1>1, SeqEqual
<1>3. Left(p, Len(p) + 1) = <<>>
  BY DEF Left
<1> QED BY <1>2, <1>3

-----------------------------------------------------------------------------
(* Whole operations.                                                       *)

LEMMA LinkBack ==
  ASSUME NEW m \in LinkType, NEW l \in Lists, NEW u \in Seqs, NEW x,
         NEW c \in Slots, c \notin ToSet(u), Linking(m, l, u, x, c, 3),
         NEW m2, m2 = Stored(m, In("link_back", l, c))
  PROVE  /\ m2 \in LinkType /\ List(m2, l, Append(u, c), l.tail)
         /\ Reaches(m, m2, l, {})
<1>1. List(m, l, u, c) /\ m.prev[c] = EndOf(l, u) /\ m.next[c] = l.tail
  BY ONLY Linking(m, l, u, x, c, 3) DEF Linking
<1>a. l.head \in Nodes /\ l.tail \in Nodes /\ l.tail # l.head /\ l.head \notin Slots /\ l.tail \notin Slots
  BY NodesAre
<1>b. \A n \in Slots : n \in Nodes /\ n # l.tail /\ n # l.head
  BY <1>a, NodesAre
<1>c. \A n \in ToSet(u) : n \in Slots
  BY SeqIs
<1>2. /\ l.head \in Nodes /\ l.tail \in Nodes /\ l.tail # l.head /\ c \in Nodes /\ c # l.head /\ c # l.tail
      /\ \A n \in ToSet(u) : n \in Nodes /\ n # l.tail
  BY <1>a, <1>b, <1>c
<1>3. m2 = SetPrev(m, l.tail, c)
  BY LinkStores
<1>4. /\ m2 \in LinkType /\ m2.next = m.next /\ m2.prev[l.tail] = c
      /\ \A n \in Nodes : n # l.tail => m2.prev[n] = m.prev[n]
  BY <1>2, <1>3, PrevIs
<1> DEFINE v == Append(u, c)
<1>5. v \in Seqs /\ v # <<>> /\ Len(v) = Len(u) + 1 /\ v[Len(v)] = c
      /\ \A i \in 1 .. Len(u) : v[i] = u[i]
  BY ONLY AppendIs, u \in Seqs, c \in Slots, c \notin ToSet(u)
<1>6. Len(u) \in Nat /\ (u # <<>> <=> Len(u) > 0) /\ \A i \in 1 .. Len(u) : u[i] \in ToSet(u)
  BY ONLY SeqIs, u \in Seqs
<1> HIDE DEF v
<1>7. StartOf(v, l.tail) = StartOf(u, c) /\ StartOf(u, c) \in Nodes /\ StartOf(u, c) # l.tail
  <2>1. CASE u = <<>>
    <3>1. Len(v) = 1
      BY ONLY <1>5, <1>6, <2>1
    <3>2. StartOf(v, l.tail) = v[1] /\ StartOf(u, c) = c
      BY <1>5, <2>1 DEF StartOf
    <3>3. v[1] = c
      BY <1>5, <3>1
    <3> QED BY <1>2, <3>2, <3>3
  <2>2. CASE u # <<>>
    <3>1. 1 \in 1 .. Len(u) /\ u[1] \in ToSet(u)
      BY ONLY <1>6, <2>2
    <3>2. StartOf(v, l.tail) = v[1] /\ StartOf(u, c) = u[1]
      BY <1>5, <2>2 DEF StartOf
    <3>3. v[1] = u[1]
      BY <1>5, <3>1
    <3> QED BY <1>2, <3>1, <3>2, <3>3
  <2> QED BY <2>1, <2>2
<1>8. ASSUME NEW i \in 1 .. Len(v) - 1
      PROVE  m2.next[v[i]] = v[i + 1] /\ m2.prev[v[i + 1]] = v[i]
  <2>0. Len(v) - 1 = Len(u)
    BY ONLY <1>5, <1>6
  <2>a. i \in 1 .. Len(u)
    BY <2>0
  <2>b. v[i] = u[i]
    BY <1>5, <2>a
  <2>c. u # <<>>
    BY ONLY <1>6, <2>a
  <2>1. i \in 1 .. Len(u) /\ v[i] = u[i] /\ u # <<>>
    BY <2>a, <2>b, <2>c
  <2>2. Inner(m, l, u, c)
    BY <1>1, ListIs
  <2>3. CASE i = Len(u)
    <3>1. v[i + 1] = c
      BY <1>5, <2>3
    <3>2. m.next[u[i]] = c /\ m.prev[c] = u[i]
      BY <1>2, <2>1, <2>2, <2>3 DEF Inner
    <3> QED BY <1>2, <1>4, <2>1, <3>1, <3>2
  <2>4. CASE i # Len(u)
    <3>1. i + 1 \in 1 .. Len(u) /\ i \in 1 .. Len(u) - 1
      BY ONLY <1>6, <2>a, <2>4
    <3>2. v[i + 1] = u[i + 1] /\ u[i + 1] \in Nodes /\ u[i + 1] # l.tail
      BY <1>2, <1>5, <3>1, SeqIs
    <3>3. m.next[u[i]] = u[i + 1] /\ m.prev[u[i + 1]] = u[i]
      BY <2>2, <3>1 DEF Inner
    <3> QED BY <1>4, <2>1, <3>2, <3>3
  <2> QED BY <2>3, <2>4
<1>9. Inner(m2, l, v, l.tail)
  BY <1>1, <1>4, <1>5, <1>8 DEF Inner
<1>10. List(m2, l, v, l.tail)
  <2>1. m.next[l.head] = StartOf(u, c) /\ m.prev[StartOf(u, c)] = l.head
    BY <1>1, ListIs
  <2> QED BY <1>4, <1>5, <1>7, <1>9, <2>1, ListIs
<1>11. Reaches(m, m2, l, {})
  BY <1>4 DEF Reaches
<1> QED BY <1>4, <1>10, <1>11 DEF v

LinkedBack(m, m2, l, u, c) ==
  /\ m2 \in LinkType /\ List(m2, l, Append(u, c), l.tail)
  /\ Reaches(m, m2, l, {})

LEMMA LinkBackIs ==
  ASSUME NEW m, NEW l, NEW u, NEW x, NEW c, NEW m2, Setting(m, l, u, l.tail, c),
         Linking(m, l, u, x, c, 3),
         m2 = Stored(m, In("link_back", l, c))
  PROVE  LinkedBack(m, m2, l, u, c)
<1>1. m \in LinkType /\ l \in Lists /\ u \in Seqs /\ c \in Slots /\ c \notin ToSet(u)
  BY DEF Setting
<1>2. m2 \in LinkType
  BY <1>1, LinkBack
<1>3. List(m2, l, Append(u, c), l.tail)
  BY <1>1, LinkBack
<1>4. Reaches(m, m2, l, {})
  BY <1>1, LinkBack
<1> QED BY <1>2, <1>3, <1>4 DEF LinkedBack

Unlinked(m, c) == Stored(Stored(m, On("pass_forward", c)), On("pass_back", c))

LinkedTo(m, l, c) ==
  Stored(Stored(Stored(Stored(m, In("set_prev", l, c)), In("set_next", l, c)),
                In("link_forward", l, c)), In("link_back", l, c))

IsUnlinked(m, m2, l, u, c) ==
  /\ m2 \in LinkType /\ Hangs(m2, l, c, u, l.tail) /\ List(m2, l, u, l.tail)
  /\ Reaches(m, m2, l, ToSet(u))

IsLinked(m, m2, l, u, c) ==
  /\ m2 \in LinkType /\ List(m2, l, Append(u, c), l.tail)
  /\ Reaches(m, m2, l, ToSet(u) \cup {c})

LEMMA UnlinkedIs ==
  ASSUME NEW m, NEW l, NEW u, NEW c, NEW m2, Setting(m, l, u, l.tail, c), Hangs(m, l, c, u, l.tail),
         m2 = Unlinked(m, c)
  PROVE  IsUnlinked(m, m2, l, u, c)
<1> DEFINE m1 == Stored(m, On("pass_forward", c))
<1>0. m2 = Stored(m1, On("pass_back", c))
  BY DEF Unlinked
<1>a. m1 = Stored(m, On("pass_forward", c))
  OBVIOUS
<1> HIDE DEF m1
<1>1. /\ m1 \in LinkType /\ Hangs(m1, l, c, u, l.tail) /\ Starts(m1, l, u, l.tail)
      /\ Reaches(m, m1, l, {})
  <2>1. PassedForward(m, m1, l, u, l.tail, c)
    BY <1>a, PassForwardIs
  <2> QED BY <2>1 DEF PassedForward
<1>2. Setting(m1, l, u, l.tail, c)
  BY <1>1 DEF Setting
<1>3. /\ m2 \in LinkType /\ Hangs(m2, l, c, u, l.tail) /\ List(m2, l, u, l.tail)
      /\ Reaches(m1, m2, l, ToSet(u) \cup {l.tail})
  <2>1. PassedBack(m1, m2, l, u, l.tail, c)
    BY <1>0, <1>1, <1>2, PassBackIs
  <2> QED BY <1>1, <2>1 DEF PassedBack
<1>4. Reaches(m, m2, l, ToSet(u))
  BY <1>1, <1>3 DEF Reaches
<1> QED BY <1>3, <1>4 DEF IsUnlinked

LEMMA LinkedToIs ==
  ASSUME NEW m, NEW l, NEW u, NEW x, NEW c, NEW m2, Setting(m, l, u, x, c), List(m, l, u, x),
         m2 = LinkedTo(m, l, c)
  PROVE  IsLinked(m, m2, l, u, c)
<1> DEFINE m4 == Stored(m, In("set_prev", l, c))
           m5 == Stored(m4, In("set_next", l, c))
           m6 == Stored(m5, In("link_forward", l, c))
           S == ToSet(u) \cup {c}
<1>1. Linking(m, l, u, x, c, 0)
  BY DEF Linking
<1>0. m4 = Stored(m, In(LinkOp(0), l, c)) /\ m5 = Stored(m4, In(LinkOp(1), l, c))
      /\ m6 = Stored(m5, In(LinkOp(2), l, c)) /\ m2 = Stored(m6, In("link_back", l, c))
  BY LinkOpIs DEF LinkedTo
<1> HIDE DEF m4, m5, m6
<1>2. m4 \in LinkType /\ Linking(m4, l, u, x, c, 1) /\ Reaches(m, m4, l, S) /\ Setting(m4, l, u, x, c)
  <2>1. 0 \in 0 .. 2 /\ 0 + 1 = 1
    OBVIOUS
  <2>a. LinkedOn(m, m4, l, u, x, c, 0)
    BY <1>0, <1>1, <2>1, LinkingIs
  <2>2. m4 \in LinkType /\ Linking(m4, l, u, x, c, 1) /\ Reaches(m, m4, l, S)
    BY <2>1, <2>a DEF LinkedOn
  <2> QED BY <2>2 DEF Setting
<1>3. m5 \in LinkType /\ Linking(m5, l, u, x, c, 2) /\ Reaches(m4, m5, l, S) /\ Setting(m5, l, u, x, c)
  <2>1. 1 \in 0 .. 2 /\ 1 + 1 = 2
    OBVIOUS
  <2>a. LinkedOn(m4, m5, l, u, x, c, 1)
    BY <1>0, <1>2, <2>1, LinkingIs
  <2>2. m5 \in LinkType /\ Linking(m5, l, u, x, c, 2) /\ Reaches(m4, m5, l, S)
    BY <2>1, <2>a DEF LinkedOn
  <2> QED BY <2>2 DEF Setting
<1>4. m6 \in LinkType /\ Linking(m6, l, u, x, c, 3) /\ Reaches(m5, m6, l, S) /\ Setting(m6, l, u, x, c)
  <2>1. 2 \in 0 .. 2 /\ 2 + 1 = 3
    OBVIOUS
  <2>a. LinkedOn(m5, m6, l, u, x, c, 2)
    BY <1>0, <1>3, <2>1, LinkingIs
  <2>2. m6 \in LinkType /\ Linking(m6, l, u, x, c, 3) /\ Reaches(m5, m6, l, S)
    BY <2>1, <2>a DEF LinkedOn
  <2> QED BY <2>2 DEF Setting
<1>5. m2 \in LinkType /\ List(m2, l, Append(u, c), l.tail) /\ Reaches(m6, m2, l, {})
  <2>1. Setting(m6, l, u, l.tail, c)
    BY <1>4, NodesAre, SeqIs DEF Setting
  <2>2. LinkedBack(m6, m2, l, u, c)
    BY <1>0, <1>4, <2>1, LinkBackIs
  <2> QED BY <2>2 DEF LinkedBack
<1>6. Reaches(m, m2, l, S)
  BY <1>2, <1>3, <1>4, <1>5 DEF Reaches
<1> QED BY <1>5, <1>6 DEF IsLinked

LEMMA WholeOperations ==
  ASSUME NEW m, NEW l \in Lists, NEW c
  PROVE  /\ Done(m, list_push_back(l, c)) = LinkedTo(Unlinked(m, c), l, c)
         /\ Done(m, list_remove(c) \o list_push_back(l, c)) = LinkedTo(Unlinked(Unlinked(m, c), c), l, c)
         /\ Done(m, <<>>) = m
<1> DEFINE Ops == All(c)
<1>1. Done(m, list_push_back(l, c)) = LinkedTo(Unlinked(m, c), l, c)
  <2> DEFINE s == list_push_back(l, c)
  <2>1. s \in Seq(Ops) /\ Len(s) = 6 /\ s[1] = On("pass_forward", c) /\ s[2] = On("pass_back", c)
        /\ s[3] = In("set_prev", l, c) /\ s[4] = In("set_next", l, c)
        /\ s[5] = In("link_forward", l, c) /\ s[6] = In("link_back", l, c)
    BY PushIs
  <2> HIDE DEF s, Ops
  <2>a. PICK f : Statements(f, m, s)
    BY <2>1, DoneIs
  <2>2. f[0] = m /\ (\A i \in 1 .. 6 : f[i] = Stored(f[i - 1], s[i])) /\ Done(m, s) = f[6]
    BY <2>1, <2>a DEF Statements
  <2>3. f[1] = Stored(f[0], s[1]) /\ f[2] = Stored(f[1], s[2]) /\ f[3] = Stored(f[2], s[3])
        /\ f[4] = Stored(f[3], s[4]) /\ f[5] = Stored(f[4], s[5]) /\ f[6] = Stored(f[5], s[6])
    BY <2>2
  <2>4. f[2] = Unlinked(m, c)
    BY <2>1, <2>2, <2>3 DEF Unlinked
  <2>5. f[6] = LinkedTo(f[2], l, c)
    BY <2>1, <2>3 DEF LinkedTo
  <2> QED BY <2>2, <2>4, <2>5 DEF s
<1>2. Done(m, list_remove(c) \o list_push_back(l, c)) = LinkedTo(Unlinked(Unlinked(m, c), c), l, c)
  <2> DEFINE s == list_remove(c) \o list_push_back(l, c)
  <2>1. s \in Seq(Ops) /\ Len(s) = 8 /\ s[1] = On("pass_forward", c) /\ s[2] = On("pass_back", c)
        /\ s[3] = On("pass_forward", c) /\ s[4] = On("pass_back", c)
        /\ s[5] = In("set_prev", l, c) /\ s[6] = In("set_next", l, c)
        /\ s[7] = In("link_forward", l, c) /\ s[8] = In("link_back", l, c)
    BY MoveIs DEF Move
  <2> HIDE DEF s, Ops
  <2>a. PICK f : Statements(f, m, s)
    BY <2>1, DoneIs
  <2>2. f[0] = m /\ (\A i \in 1 .. 8 : f[i] = Stored(f[i - 1], s[i])) /\ Done(m, s) = f[8]
    BY <2>1, <2>a DEF Statements
  <2>3. f[1] = Stored(f[0], s[1]) /\ f[2] = Stored(f[1], s[2]) /\ f[3] = Stored(f[2], s[3])
        /\ f[4] = Stored(f[3], s[4]) /\ f[5] = Stored(f[4], s[5]) /\ f[6] = Stored(f[5], s[6])
        /\ f[7] = Stored(f[6], s[7]) /\ f[8] = Stored(f[7], s[8])
    BY <2>2
  <2>4. f[2] = Unlinked(m, c) /\ f[4] = Unlinked(f[2], c)
    BY <2>1, <2>2, <2>3 DEF Unlinked
  <2>5. f[8] = LinkedTo(f[4], l, c)
    BY <2>1, <2>3 DEF LinkedTo
  <2> QED BY <2>2, <2>4, <2>5 DEF s
<1>3. Done(m, <<>>) = m
  <2>1. <<>> \in Seq(Ops) /\ Len(<<>>) = 0
    BY EmptySeq
  <2> HIDE DEF Ops
  <2>2. PICK f : Statements(f, m, <<>>)
    BY <2>1, DoneIs
  <2> QED BY <2>1, <2>2 DEF Statements
<1> QED BY <1>1, <1>2, <1>3

LEMMA PushedBack ==
  ASSUME NEW m, NEW l, NEW u, NEW x, NEW c, Setting(m, l, u, x, c), List(m, l, u, x),
         m.prev[c] = NULL, m.next[c] = NULL
  PROVE  IsLinked(m, Done(m, list_push_back(l, c)), l, u, c)
<1>1. Stored(m, On("pass_forward", c)) = m /\ Stored(m, On("pass_back", c)) = m
  BY PassNothing
<1>2. Unlinked(m, c) = m
  BY <1>1 DEF Unlinked
<1>3. l \in Lists
  BY DEF Setting
<1>4. Done(m, list_push_back(l, c)) = LinkedTo(m, l, c)
  <2>1. Done(m, list_push_back(l, c)) = LinkedTo(Unlinked(m, c), l, c)
    BY <1>3, WholeOperations
  <2> QED BY <1>2, <2>1
<1> QED BY <1>4, LinkedToIs

LEMMA MovedBack ==
  ASSUME NEW m, NEW l, NEW u, NEW c, Setting(m, l, u, l.tail, c), Hangs(m, l, c, u, l.tail)
  PROVE  IsLinked(m, Done(m, Move(l, c)), l, u, c)
<1> DEFINE m1 == Unlinked(m, c)
           m2 == Unlinked(m1, c)
           m3 == LinkedTo(m2, l, c)
<1>1. l \in Lists /\ l.tail \notin ToSet(u)
  BY DEF Setting
<1>2. Done(m, Move(l, c)) = m3
  BY <1>1, WholeOperations DEF Move
<1>3. IsUnlinked(m, m1, l, u, c)
  BY UnlinkedIs
<1> HIDE DEF m1
<1>4. Setting(m1, l, u, l.tail, c) /\ Hangs(m1, l, c, u, l.tail)
  BY <1>3 DEF IsUnlinked, Setting
<1>5. IsUnlinked(m1, m2, l, u, c)
  BY <1>4, UnlinkedIs
<1> HIDE DEF m2
<1>6. Setting(m2, l, u, l.tail, c) /\ List(m2, l, u, l.tail)
  BY <1>4, <1>5 DEF IsUnlinked, Setting
<1>7. IsLinked(m2, m3, l, u, c)
  BY <1>6, LinkedToIs
<1> HIDE DEF m3
<1>8. Reaches(m, m3, l, ToSet(u) \cup {c})
  BY <1>3, <1>5, <1>7 DEF IsUnlinked, IsLinked, Reaches
<1>9. IsLinked(m, m3, l, u, c)
  BY <1>7, <1>8 DEF IsLinked
<1> QED BY <1>2, <1>9

\* An element that goes from the front of l to the end of k.
LEMMA MovedOver ==
  ASSUME NEW m, NEW l, NEW u, NEW c, Setting(m, l, u, l.tail, c), Hangs(m, l, c, u, l.tail),
         NEW k, NEW w, NEW x, Setting(m, k, w, x, c), List(m, k, w, x),
         Aside(k, w, x, l, ToSet(u)), Aside(l, u, l.tail, k, ToSet(w) \cup {c})
  PROVE  LET m2 == Done(m, Move(k, c))
         IN m2 \in LinkType /\ List(m2, l, u, l.tail) /\ List(m2, k, Append(w, c), k.tail)
<1> DEFINE m1 == Unlinked(m, c)
           m2 == Unlinked(m1, c)
           m3 == LinkedTo(m2, k, c)
<1>1. k \in Lists
  BY DEF Setting
<1>2. Done(m, Move(k, c)) = m3
  BY <1>1, WholeOperations DEF Move
<1>3. IsUnlinked(m, m1, l, u, c)
  BY UnlinkedIs
<1> HIDE DEF m1
<1>4. Setting(m1, l, u, l.tail, c) /\ Hangs(m1, l, c, u, l.tail) /\ Reaches(m, m1, l, ToSet(u)) /\ m1 \in LinkType
  BY <1>3 DEF IsUnlinked, Setting
<1>5. IsUnlinked(m1, m2, l, u, c)
  BY <1>4, UnlinkedIs
<1> HIDE DEF m2
<1>6. List(m2, l, u, l.tail) /\ Reaches(m1, m2, l, ToSet(u)) /\ m2 \in LinkType
  BY <1>5 DEF IsUnlinked
<1>7. Kept(m, m1, k, w, x, ToSet(u))
  BY <1>4, ListKept
<1>8. Kept(m1, m2, k, w, x, ToSet(u))
  BY <1>6, ListKept
<1>9. List(m2, k, w, x)
  BY <1>7, <1>8 DEF Kept
<1>10. Setting(m2, k, w, x, c)
  BY <1>6 DEF Setting
<1>11. IsLinked(m2, m3, k, w, c)
  BY <1>9, <1>10, LinkedToIs
<1> HIDE DEF m3
<1>12. Reaches(m2, m3, k, ToSet(w) \cup {c}) /\ List(m3, k, Append(w, c), k.tail) /\ m3 \in LinkType
  BY <1>11 DEF IsLinked
<1>13. Kept(m2, m3, l, u, l.tail, ToSet(w) \cup {c})
  BY <1>12, ListKept
<1>14. List(m3, l, u, l.tail)
  BY <1>6, <1>13 DEF Kept
<1> QED BY <1>2, <1>12, <1>14

-----------------------------------------------------------------------------
(* The two lists and the processes.                                        *)

LEMMA Two ==
  ASSUME NEW m \in LinkType, NEW u \in Seqs, NEW w \in Seqs, NEW x \in Slots \cup {D}, NEW c \in Slots,
         ToSet(u) = Runnable \ {c}, Dead(w, x)
  PROVE  /\ c \notin ToSet(u) /\ x \notin ToSet(w) /\ x \notin ToSet(u) /\ ToSet(u) \cap ToSet(w) = {}
         /\ Setting(m, r_list, u, R, c)
         /\ \A e \in Slots : e \notin ToSet(w) /\ e # x => Setting(m, d_list, w, x, e)
<1>1. c \notin ToSet(u) /\ x \notin ToSet(u) /\ ToSet(u) \cap ToSet(w) = {}
  <2>1. \A s \in ToSet(u) : s \in Slots /\ state[s] = "RUN" /\ s # c
    BY DEF Runnable
  <2>2. D \notin Slots
    BY NodesAre, ListsApart DEF D
  <2>3. (\A s \in ToSet(w) : state[s] = "ZOMBIE") /\ (x \in Slots => state[x] = "ZOMBIE")
    BY DEF Dead
  <2> QED BY <2>1, <2>2, <2>3
<1>2. x \notin ToSet(w)
  <2>1. CASE x \in Slots
    BY <2>1 DEF Dead
  <2>2. CASE x \notin Slots
    BY <2>2, SeqIs
  <2> QED BY <2>1, <2>2
<1>3. Setting(m, r_list, u, R, c)
  <2>1. R \notin Slots /\ r_list \in Lists
    BY NodesAre, ListsApart DEF R
  <2>2. R \notin ToSet(u) /\ c # R /\ R \in Slots \cup {r_list.tail}
    BY <2>1, SeqIs DEF R
  <2> QED BY <1>1, <2>1, <2>2 DEF Setting
<1>4. \A e \in Slots : e \notin ToSet(w) /\ e # x => Setting(m, d_list, w, x, e)
  <2>1. d_list \in Lists /\ x \in Slots \cup {d_list.tail}
    BY ListsApart DEF D
  <2> QED BY <1>2, <2>1 DEF Setting
<1> QED BY <1>1, <1>2, <1>3, <1>4

LEMMA TwoAside ==
  ASSUME NEW u \in Seqs, NEW w \in Seqs, NEW x \in Slots \cup {D}, NEW c \in Slots,
         ToSet(u) = Runnable \ {c}, Dead(w, x)
  PROVE  /\ Aside(d_list, w, x, r_list, {}) /\ Aside(d_list, w, x, r_list, ToSet(u))
         /\ Aside(d_list, w, x, r_list, ToSet(u) \cup {R})
         /\ c \notin ToSet(w) /\ c # x => Aside(d_list, w, x, r_list, ToSet(u) \cup {c})
         /\ Aside(r_list, u, R, d_list, {}) /\ Aside(r_list, u, R, d_list, ToSet(w))
         /\ Aside(r_list, u, R, d_list, ToSet(w) \cup {x})
         /\ \A e \in Slots : e \notin ToSet(u) => Aside(r_list, u, R, d_list, ToSet(w) \cup {e})
<1>1. ToSet(u) \cap ToSet(w) = {} /\ x \notin ToSet(u) /\ x \notin ToSet(w) /\ c \notin ToSet(u)
  <2> DEFINE m == [prev |-> NoLinks, next |-> NoLinks]
  <2>1. m \in LinkType
    BY DEF LinkType, NoLinks
  <2> HIDE DEF m
  <2> QED BY <2>1, Two
<1>2. ToSet(u) \subseteq Slots /\ ToSet(w) \subseteq Slots
  BY SeqIs
<1>3. /\ r_list \in Lists /\ d_list \in Lists /\ r_list # d_list
      /\ d_list.head \notin Slots /\ D \notin Slots /\ r_list.head \notin Slots /\ R \notin Slots
      /\ R # d_list.head /\ R # D /\ D # r_list.head
  BY NodesAre, ListsApart DEF R, D
<1>4. \A S : S \subseteq ToSet(u) \cup {R, c} /\ (c \in S => c \notin ToSet(w) /\ c # x)
             => Aside(d_list, w, x, r_list, S)
  <2> TAKE S
  <2> SUFFICES ASSUME S \subseteq ToSet(u) \cup {R, c}, c \in S => c \notin ToSet(w) /\ c # x
               PROVE  Aside(d_list, w, x, r_list, S)
    OBVIOUS
  <2>1. S \cap {d_list.head, d_list.tail} = {}
    BY <1>2, <1>3 DEF D
  <2>2. S \cap (ToSet(w) \cup {x}) = {}
    BY <1>1, <1>2, <1>3
  <2> QED BY <1>1, <1>3, <2>1, <2>2 DEF Aside, D
<1>5. \A S : S \subseteq Slots \cup {D} /\ S \cap ToSet(u) = {} => Aside(r_list, u, R, d_list, S)
  <2> TAKE S
  <2> SUFFICES ASSUME S \subseteq Slots \cup {D}, S \cap ToSet(u) = {}
               PROVE  Aside(r_list, u, R, d_list, S)
    OBVIOUS
  <2>1. S \cap {r_list.head, r_list.tail} = {}
    BY <1>3 DEF R
  <2>2. S \cap (ToSet(u) \cup {R}) = {}
    BY <1>3
  <2>3. R \notin ToSet(u)
    BY <1>2, <1>3
  <2> QED BY <1>3, <2>1, <2>2, <2>3 DEF Aside, R
<1>6. /\ Aside(d_list, w, x, r_list, {}) /\ Aside(d_list, w, x, r_list, ToSet(u))
      /\ Aside(d_list, w, x, r_list, ToSet(u) \cup {R})
  <2>1. c \notin {} /\ c \notin ToSet(u) /\ c \notin ToSet(u) \cup {R}
    BY <1>1, <1>3
  <2> QED BY <1>4, <2>1
<1>7. c \notin ToSet(w) /\ c # x => Aside(d_list, w, x, r_list, ToSet(u) \cup {c})
  BY <1>4
<1>8. /\ Aside(r_list, u, R, d_list, {}) /\ Aside(r_list, u, R, d_list, ToSet(w))
      /\ Aside(r_list, u, R, d_list, ToSet(w) \cup {x})
  BY <1>1, <1>2, <1>5
<1>9. \A e \in Slots : e \notin ToSet(u) => Aside(r_list, u, R, d_list, ToSet(w) \cup {e})
  BY <1>1, <1>2, <1>5
<1> QED BY <1>6, <1>7, <1>8, <1>9

-----------------------------------------------------------------------------
(* Steps that leave most as it is.                                         *)

Others == UNCHANGED <<state, func, cuts, lately, cur_process>>

LEMMA StayStep ==
  ASSUME Types, Who, Others, link' \in LinkType, NEW q, code' = [code EXCEPT ![cur_process] = q],
         func[cur_process] = "login" /\ q # <<>> => \E s \in Slots : state[s] = "UNUSED"
  PROVE  Types' /\ Who' /\ Runnable' = Runnable /\ code'[cur_process] = q
         /\ \A s \in Slots \ {cur_process} : code'[s] = code[s]
<1>1. /\ state' = state /\ func' = func /\ cuts' = cuts /\ lately' = lately /\ cur_process' = cur_process
      /\ cur_process \in Slots
  BY DEF Others, Types
<1>2. code = [s \in Slots |-> code[s]]
  BY DEF Types
<1>3. code' = [s \in Slots |-> code'[s]] /\ code'[cur_process] = q
      /\ \A s \in Slots \ {cur_process} : code'[s] = code[s]
  BY <1>1, <1>2
<1>4. Types'
  BY <1>1, <1>3 DEF Types
<1>5. Runnable' = Runnable
  BY <1>1 DEF Runnable
<1>6. ASSUME NEW s \in Slots \ {cur_process}, state[s] = "RUN"
      PROVE  Waiting(s)'
  <2>1. Waiting(s)
    BY <1>6 DEF Who
  <2> QED BY <1>1, <1>3, <2>1 DEF Waiting
<1>7. \A s \in Slots : func[s] = "login" /\ code'[s] # <<>> => \E i \in Slots : state[i] = "UNUSED"
  <2> TAKE s \in Slots
  <2>1. CASE s = cur_process
    BY <1>3, <2>1
  <2>2. CASE s # cur_process
    BY <1>3, <2>2 DEF Who
  <2> QED BY <2>1, <2>2
<1>8. Who'
  BY <1>1, <1>6, <1>7 DEF Who
<1> QED BY <1>3, <1>4, <1>5, <1>8

HasStore(q) == \E i \in DOMAIN q : q[i].op \in StoreOps

LEMMA DeadStep ==
  ASSUME Types, NEW w, NEW x, Dead(w, x), state' = state, NEW c \in Slots, NEW q,
         code'[c] = q, \A s \in Slots \ {c} : code'[s] = code[s],
         c = x => HasStore(q),
         state[c] = "ZOMBIE" /\ ~HasStore(q) => c \in ToSet(w),
         c = IdleSlot => \A s \in Slots : On("unuse", s) \in ToSet(code[c]) => On("unuse", s) \in ToSet(q)
  PROVE  Dead(w, x)'
<1>1. \A s \in Slots \ {c} : Pending(s)' <=> Pending(s)
  BY DEF Pending
<1>2. Pending(c)' <=> HasStore(q)
  BY DEF Pending, HasStore
<1>3. \A s \in ToSet(w) : state'[s] = "ZOMBIE"
  BY DEF Dead
<1>4. x \in Slots => state'[x] = "ZOMBIE" /\ x \notin ToSet(w) /\ Pending(x)'
  BY <1>1, <1>2 DEF Dead
<1>5. ASSUME NEW s \in Slots, state[s] = "ZOMBIE", ~Pending(s)'
      PROVE  s \in ToSet(w) \/ On("unuse", s) \in ToSet(code'[IdleSlot])
  <2>1. CASE s = c
    BY <1>2, <1>5, <2>1
  <2>2. CASE s # c
    <3>1. s \in ToSet(w) \/ On("unuse", s) \in ToSet(code[IdleSlot])
      BY <1>1, <1>5, <2>2 DEF Dead
    <3>2. IdleSlot \in Slots
      BY SlotsAssumption DEF IdleSlot, Slots
    <3> QED BY <3>1, <3>2
  <2> QED BY <2>1, <2>2
<1> QED BY <1>3, <1>4, <1>5 DEF Dead

-----------------------------------------------------------------------------
(* The situation after a step.                                             *)

LEMMA Conclude ==
  ASSUME Types', Who', NEW u \in Seqs, NEW w \in Seqs, NEW x \in Slots \cup {D},
         ToSet(u) = Runnable' \ {cur_process'}, Situation(cur_process, u, w, x)'
  PROVE  IInv'
<1>1. ToSet(u) = (Runnable \ {cur_process})'
  OBVIOUS
<1> QED BY <1>1 DEF IInv

LEMMA OpsAre ==
  ASSUME NEW op, NEW l, NEW e
  PROVE  Do(op).op = op /\ On(op, e).op = op /\ In(op, l, e).op = op /\ Created(op).op = "create"
         /\ On(op, e).elem = e /\ Created(op).func = op
BY DEF Do, On, In, Created

\* The statement st is executed.
Does(st) ==
  \/ st.op \in StoreOps /\ Store
  \/ st.op = "unlock" /\ Unlock
  \/ st.op \in {"zombie", "unuse"} /\ SetState
  \/ st.op = "create" /\ proc_create
  \/ st.op = "pick" /\ Pick
  \/ st.op = "switch" /\ Switch

LEMMA StatementStep ==
  ASSUME code[cur_process] # <<>>, NEW st, Head(code[cur_process]) = st, Next
  PROVE  Does(st) \/ Tick
<1>1. ~Ready /\ Statement = st
  BY DEF Ready, Statement
<1>2. ~Go /\ ~UserInput
  BY <1>1 DEF Go, UserInput
<1>3. Store => st.op \in StoreOps
  BY <1>1 DEF Store
<1>4. Unlock => st.op = "unlock"
  BY <1>1 DEF Unlock, Next1
<1>5. SetState => st.op \in {"zombie", "unuse"}
  BY <1>1 DEF SetState, Next1
<1>6. proc_create => st.op = "create"
  BY <1>1 DEF proc_create, Next1
<1>7. Pick => st.op = "pick"
  BY <1>1 DEF Pick, Next1
<1>8. Switch => st.op = "switch"
  BY <1>1 DEF Switch, Next1
<1> QED BY <1>2, <1>3, <1>4, <1>5, <1>6, <1>7, <1>8 DEF Next, Does

\* Statement k of the program p is next, and is st.
At(p, k, st) == code[cur_process] = Left(p, k) /\ k \in 1 .. Len(p) /\ p[k] = st /\ \E S : p \in Seq(S)

LEMMA AtIs ==
  ASSUME NEW p, NEW k, NEW st, At(p, k, st)
  PROVE  /\ code[cur_process] # <<>> /\ Head(code[cur_process]) = st
         /\ Tail(code[cur_process]) = Left(p, k + 1)
<1>1. code[cur_process] = Left(p, k) /\ k \in 1 .. Len(p) /\ p[k] = st
  BY DEF At
<1>2. PICK S : p \in Seq(S)
  BY DEF At
<1> QED BY <1>1, <1>2, LeftIs

Executes(p, k, st) ==
  Others /\ link' = Stored(link, st) /\ code' = [code EXCEPT ![cur_process] = Left(p, k + 1)]

LEMMA Stores ==
  ASSUME NEW p, NEW k, NEW st, At(p, k, st), st.op \in StoreOps, Next
  PROVE  Executes(p, k, st) \/ Tick
<1>1. /\ code[cur_process] # <<>> /\ Head(code[cur_process]) = st
      /\ Tail(code[cur_process]) = Left(p, k + 1)
  BY AtIs
<1>2. Does(st) \/ Tick
  BY <1>1, StatementStep
<1>3. ASSUME Does(st)
      PROVE  Executes(p, k, st)
  <2>1. st.op \notin {"unlock", "zombie", "unuse", "create", "pick", "switch"}
    BY DEF StoreOps
  <2>2. Store
    BY <1>3, <2>1 DEF Does
  <2>3. link' = Stored(link, st) /\ code' = [code EXCEPT ![cur_process] = Tail(code[cur_process])]
    BY <1>1, <2>2 DEF Store, Statement, Rest
  <2>4. Others
    BY <2>2 DEF Store, Others
  <2> QED BY <1>1, <2>3, <2>4 DEF Executes
<1> QED BY <1>2, <1>3

\* After schedule(): the first of the run list runs.
LEMMA Switched ==
  ASSUME Types', Who', NEW v \in Seqs, v # <<>>, NEW w \in Seqs, NEW x \in Slots \cup {D},
         ToSet(v) = Runnable', cur_process' = v[1], Waiting(v[1])',
         List(link', r_list, v, R), List(link', d_list, w, x), Dead(w, x)'
  PROVE  IInv'
<1> DEFINE c == v[1]
           u == Tail(v)
<1>1. u \in Seqs /\ c \in Slots /\ c \notin ToSet(u) /\ ToSet(u) = ToSet(v) \ {c} /\ c \in ToSet(v)
  BY TailOf
<1>2. v = <<c>> \o u
  BY TailOf
<1>3. state'[c] = "RUN"
  BY <1>1 DEF Runnable
<1>a. cur_process' = c /\ Waiting(c)'
  OBVIOUS
<1>4. Fronts(link', r_list, c, u, R)
  <2>1. From(link', r_list, r_list.head, <<c>> \o u, R)
    BY <1>2 DEF List
  <2>2. r_list \in Lists /\ R \in Slots \cup {r_list.tail}
    BY ListsApart DEF R
  <2> HIDE DEF c, u
  <2> QED BY <1>1, <2>1, <2>2, FirstOfList
<1> HIDE DEF c, u
<1>5. ToSet(u) = Runnable' \ {cur_process'}
  BY <1>1, <1>a
<1>6. c \notin ToSet(w) /\ c # x
  BY <1>1, <1>3 DEF Dead
<1>7. func'[c] \in {"idle", "kernel", "login", "returns", "exits"}
  BY <1>1, <1>3 DEF Types, Who
<1>8. CASE StillCode(c)'
  <2>1. Still(c, u, w, x)'
    BY <1>3, <1>4, <1>8 DEF Still
  <2>2. Situation(cur_process, u, w, x)'
    BY <1>a, <2>1 DEF Situation
  <2> QED BY <1>1, <1>5, <2>2, Conclude
<1>9. CASE code'[c] = <<>> /\ func'[c] = "idle"
  <2>1. From(link', d_list, d_list.head, w, x)
    BY DEF List
  <2>2. Idling(c, u, w, x)'
    BY <1>4, <1>9, <2>1 DEF Idling
  <2>3. Situation(cur_process, u, w, x)'
    BY <1>a, <2>2 DEF Situation
  <2> QED BY <1>1, <1>5, <2>3, Conclude
<1>10. ASSUME func'[c] = "returns", cuts'[c] = 1, NEW k \in 3 .. 4, code'[c] = Left(Free(c), k)
       PROVE  IInv'
  <2>1. Hangs(link', r_list, c, u, R) /\ link'.next[r_list.head] = c
    BY <1>4 DEF Fronts, From, Hangs
  <2>2. Leaving(c, u, w, x, k)'
    BY <1>3, <1>6, <1>10, <2>1 DEF Leaving
  <2>3. k \in 3 .. 6
    OBVIOUS
  <2>4. Situation(cur_process, u, w, x)'
    BY <1>a, <2>2, <2>3 DEF Situation
  <2> QED BY <1>1, <1>5, <2>4, Conclude
<1>11. CASE code'[c] = <<>> /\ func'[c] # "idle"
  <2>1. StillCode(c)'
    BY <1>7, <1>11 DEF StillCode
  <2> QED BY <1>8, <2>1
<1>12. CASE func'[c] = "login" /\ \E f \in Commands : code'[c] = <<Created(f)>>
  <2>1. StillCode(c)'
    BY <1>12 DEF StillCode
  <2> QED BY <1>8, <2>1
<1>13. CASE func'[c] = "returns" /\ cuts'[c] = 1 /\ \E k \in 1 .. 4 : code'[c] = Left(Free(c), k)
  <2>1. PICK k \in 1 .. 4 : code'[c] = Left(Free(c), k)
    BY <1>13
  <2>2. CASE k \in 1 .. 2
    <3>1. StillCode(c)'
      BY <1>13, <2>1, <2>2 DEF StillCode
    <3> QED BY <1>8, <3>1
  <2>3. CASE k \in 3 .. 4
    BY <1>10, <1>13, <2>1, <2>3
  <2> QED BY <2>2, <2>3
<1> QED BY <1>a, <1>9, <1>11, <1>12, <1>13 DEF Waiting

-----------------------------------------------------------------------------
(* Steps of the current process.                                           *)

Now(u, w, x) ==
  /\ Calm /\ Types /\ Who
  /\ u \in Seqs /\ w \in Seqs /\ x \in Slots \cup {D}
  /\ ToSet(u) = Runnable \ {cur_process}

LEMMA HeadApart ==
  ASSUME NEW p, NEW k, NEW st, At(p, k, st), NEW z, z # st, z \in ToSet(Left(p, k))
  PROVE  z \in ToSet(Left(p, k + 1))
<1>1. k \in 1 .. Len(p) /\ p[k] = st
  BY DEF At
<1>2. PICK S : p \in Seq(S)
  BY DEF At
<1> DEFINE q == Left(p, k)
           t == Left(p, k + 1)
<1>3. q \in Seq(S) /\ q # <<>> /\ Head(q) = st /\ Tail(q) = t
  <2>1. q \in Seq(S)
    BY <1>1, <1>2 DEF Left
  <2> QED BY <1>1, <1>2, <2>1, LeftIs
<1> HIDE DEF q, t
<1>4. t \in Seq(S) /\ Len(t) = Len(q) - 1 /\ \A i \in 1 .. Len(q) - 1 : t[i] = q[i + 1]
  BY <1>3, HeadTailProperties
<1>5. Len(q) \in Nat /\ Len(q) > 0 /\ q[1] = st
  BY <1>3
<1>6. PICK i \in 1 .. Len(q) : q[i] = z
  <2>1. z \in ToSet(q) /\ DOMAIN q = 1 .. Len(q)
    BY <1>3 DEF q
  <2> QED BY <2>1 DEF ToSet
<1>7. i # 1
  BY <1>5, <1>6
<1>8. i - 1 \in 1 .. Len(q) - 1 /\ (i - 1) + 1 = i
  BY <1>5, <1>7
<1>9. t[i - 1] = z
  BY <1>4, <1>6, <1>8
<1>10. i - 1 \in DOMAIN t
  BY <1>4, <1>8
<1>11. z \in ToSet(t)
  BY <1>9, <1>10 DEF ToSet
<1> QED BY <1>11 DEF t

LEMMA LeftStores ==
  ASSUME NEW S, NEW p \in Seq(S), NEW k \in Nat \ {0}, NEW i \in k .. Len(p), p[i].op \in StoreOps
  PROVE  HasStore(Left(p, k))
<1>1. k \in 1 .. Len(p) /\ i - k + 1 \in 1 .. Len(p) - k + 1 /\ k + (i - k + 1) - 1 = i
  OBVIOUS
<1>2. Left(p, k)[i - k + 1] = p[i]
  BY <1>1, LeftIs
<1>3. i - k + 1 \in DOMAIN Left(p, k)
  BY <1>1 DEF Left
<1> QED BY <1>2, <1>3 DEF HasStore

\* A statement has been executed that leaves the processes as they are.
LEMMA Stayed ==
  ASSUME NEW u, NEW w, NEW x, Now(u, w, x), NEW q, Others, link' \in LinkType,
         code' = [code EXCEPT ![cur_process] = q],
         func[cur_process] = "login" /\ q # <<>> => \E s \in Slots : state[s] = "UNUSED",
         NEW w2 \in Seqs, NEW x2 \in Slots \cup {D}, Situation(cur_process, u, w2, x2)'
  PROVE  IInv'
<1>1. Types' /\ Who' /\ Runnable' = Runnable
  BY StayStep DEF Now
<1>2. cur_process' = cur_process
  BY DEF Others
<1>3. u \in Seqs /\ ToSet(u) = Runnable' \ {cur_process'}
  BY <1>1, <1>2 DEF Now
<1> QED BY <1>1, <1>3, Conclude

LEMMA DeadStays ==
  ASSUME NEW u, NEW w, NEW x, Now(u, w, x), Dead(w, x), Others,
         NEW p, NEW k, NEW st, At(p, k, st), st.op # "unuse",
         code' = [code EXCEPT ![cur_process] = Left(p, k + 1)],
         cur_process # x \/ HasStore(Left(p, k + 1)),
         state[cur_process] = "RUN" \/ cur_process \in ToSet(w) \/ HasStore(Left(p, k + 1))
  PROVE  Dead(w, x)'
<1> DEFINE c == cur_process
           q == Left(p, k + 1)
<1>1. Types /\ state' = state /\ c \in Slots
  BY DEF Now, Others, Types
<1>2. code'[c] = q /\ \A s \in Slots \ {c} : code'[s] = code[s]
  BY <1>1 DEF Types
<1>3. \A s \in Slots : On("unuse", s) \in ToSet(code[c]) => On("unuse", s) \in ToSet(q)
  <2> TAKE s \in Slots
  <2>1. code[c] = Left(p, k)
    BY DEF At
  <2> DEFINE z == On("unuse", s)
  <2>2. z # st
    BY OpsAre
  <2> HIDE DEF z
  <2>3. z \in ToSet(Left(p, k)) => z \in ToSet(q)
    BY <2>2, HeadApart
  <2> QED BY <2>1, <2>3 DEF z
<1>4. c = x => HasStore(q)
  OBVIOUS
<1>5. state[c] = "ZOMBIE" /\ ~HasStore(q) => c \in ToSet(w)
  OBVIOUS
<1> HIDE DEF q, c
<1> QED BY <1>1, <1>2, <1>3, <1>4, <1>5, DeadStep

\* A tick does not end the slice of the process c.
Shielded(c) ==
  \/ func[c] \in {"idle", "kernel"}
  \/ func[c] = "returns" /\ code[c] # <<>> /\ cuts[c] = 1
  \/ func[c] = "exited" /\ code[c] # <<>>

LEMMA Undisturbed ==
  ASSUME NEW u, NEW w, NEW x, Now(u, w, x), Shielded(cur_process)
  PROVE  ~Tick
<1>1. Commands \subseteq {"returns", "exits"} /\ MaxCuts <= 1 /\ Windows = {} /\ MaxCuts \in Nat
  BY CommandsAssumption, WindowsAssumption DEF Now, Calm
<1> QED BY <1>1 DEF Tick, Preemptible, Shielded

LEMMA StoresAre ==
  ASSUME NEW l, NEW e
  PROVE  /\ On("pass_forward", e).op \in StoreOps /\ On("pass_back", e).op \in StoreOps
         /\ In("set_prev", l, e).op \in StoreOps /\ In("set_next", l, e).op \in StoreOps
         /\ In("link_forward", l, e).op \in StoreOps /\ In("link_back", l, e).op \in StoreOps
         /\ On("zombie", e).op \notin StoreOps /\ On("unuse", e).op \notin StoreOps
         /\ Do("unlock").op \notin StoreOps /\ Do("pick").op \notin StoreOps /\ Do("switch").op \notin StoreOps
         /\ Created(e).op \notin StoreOps
BY DEF On, In, Do, Created, StoreOps

LEMMA DoesIs ==
  /\ Does(Do("unlock")) => Unlock
  /\ Does(Do("pick")) => Pick
  /\ Does(Do("switch")) => Switch
  /\ \A e : Does(On("zombie", e)) \/ Does(On("unuse", e)) => SetState
  /\ \A f : Does(Created(f)) => proc_create
<1>1. ASSUME NEW st, Does(st)
      PROVE  /\ st.op = "unlock" => Unlock
             /\ st.op = "pick" => Pick
             /\ st.op = "switch" => Switch
             /\ st.op = "zombie" \/ st.op = "unuse" => SetState
             /\ st.op = "create" => proc_create
  BY <1>1 DEF Does, StoreOps
<1>2. Do("unlock").op = "unlock" /\ Do("pick").op = "pick" /\ Do("switch").op = "switch"
  BY OpsAre
<1>3. \A e : On("zombie", e).op = "zombie" /\ On("unuse", e).op = "unuse" /\ Created(e).op = "create"
  BY OpsAre
<1>4. \A e : Does(On("zombie", e)) \/ Does(On("unuse", e)) => SetState
  <2> TAKE e
  <2> DEFINE a == On("zombie", e)
             b == On("unuse", e)
  <2>1. a.op = "zombie" /\ b.op = "unuse"
    BY <1>3
  <2> HIDE DEF a, b
  <2>2. Does(a) \/ Does(b) => SetState
    BY <1>1, <2>1
  <2> QED BY <2>2 DEF a, b
<1>5. \A f : Does(Created(f)) => proc_create
  BY <1>1, <1>3
<1>6. Does(Do("unlock")) => Unlock
  BY <1>1, <1>2
<1>7. Does(Do("pick")) => Pick
  BY <1>1, <1>2
<1>8. Does(Do("switch")) => Switch
  BY <1>1, <1>2
<1> QED BY <1>4, <1>5, <1>6, <1>7, <1>8

-----------------------------------------------------------------------------
(* schedule(): the process goes to the end of r_list.                      *)

\* The stores of the process on r_list, one of which has been executed.
LEMMA RunListStored ==
  ASSUME NEW u, NEW w, NEW x, Now(u, w, x), Dead(w, x), List(link, d_list, w, x),
         cur_process \notin ToSet(w), cur_process # x,
         NEW S, S = {} \/ S = ToSet(u) \cup {R} \/ S = ToSet(u) \cup {cur_process},
         Reaches(link, link', r_list, S)
  PROVE  List(link', d_list, w, x)
<1>1. u \in Seqs /\ w \in Seqs /\ x \in Slots \cup {D} /\ cur_process \in Slots
      /\ ToSet(u) = Runnable \ {cur_process}
  BY DEF Now, Types
<1>3. Aside(d_list, w, x, r_list, S)
  <2>1. /\ Aside(d_list, w, x, r_list, {}) /\ Aside(d_list, w, x, r_list, ToSet(u) \cup {R})
        /\ Aside(d_list, w, x, r_list, ToSet(u) \cup {cur_process})
    BY <1>1, TwoAside
  <2> QED BY <2>1
<1>4. Kept(link, link', d_list, w, x, S)
  BY <1>3, ListKept
<1> QED BY <1>4 DEF Kept

LEMMA LastLeft ==
  ASSUME NEW S, NEW p \in Seq(S), Len(p) \in 1 .. Len(p)
  PROVE  Left(p, Len(p)) = <<p[Len(p)]>>
<1>1. p[Len(p)] \in S /\ Len(p) \in Nat /\ Len(p) > 0
  OBVIOUS
<1>2. Left(p, Len(p)) \in Seq(S) /\ Len(Left(p, Len(p))) = 1
  BY <1>1 DEF Left
<1>3. Left(p, Len(p))[1] = p[Len(p)]
  BY <1>1 DEF Left
<1> DEFINE q == Left(p, Len(p))
           t == <<p[Len(p)]>>
<1>4. t \in Seq(S) /\ Len(t) = 1 /\ t[1] = p[Len(p)]
  BY <1>1
<1> HIDE DEF q, t
<1>5. q \in Seq(S) /\ Len(q) = 1 /\ q[1] = p[Len(p)]
  BY <1>2, <1>3 DEF q
<1>6. \A i \in 1 .. 1 : q[i] = t[i]
  BY <1>4, <1>5
<1>7. q = t
  BY <1>4, <1>5, <1>6, SeqEqual
<1> QED BY <1>7 DEF q, t

LEMMA FirstRuns ==
  ASSUME NEW m, NEW v \in Seqs, v # <<>>, ToSet(v) = Runnable, List(m, r_list, v, R)
  PROVE  FrontRunnable(m) = v[1] /\ v[1] \in Slots /\ state[v[1]] = "RUN"
<1>1. v[1] \in ToSet(v) /\ v[1] \in Slots
  BY TailOf
<1>2. m.next[r_list.head] = v[1]
  BY ListIs DEF StartOf
<1>3. state[v[1]] = "RUN"
  BY <1>1 DEF Runnable
<1> QED BY <1>1, <1>2, <1>3 DEF FrontRunnable, list_front

LEMMA SwitchEnds ==
  ASSUME Types, Who, Switch, NEW c, c = cur_process, code[c] = <<Do("switch")>>,
         NEW v \in Seqs, v # <<>>, ToSet(v) = Runnable, NEW w \in Seqs, NEW x \in Slots \cup {D},
         List(link, r_list, v, R), List(link, d_list, w, x), Dead(w, x)
  PROVE  IInv'
<1>1. FrontRunnable(link) = v[1] /\ v[1] \in Slots /\ state[v[1]] = "RUN"
  BY FirstRuns
<1>2. Tail(code[c]) = <<>>
  OBVIOUS
<1>3. /\ cur_process' = v[1] /\ code' = [code EXCEPT ![c] = <<>>]
      /\ UNCHANGED <<link, state, func, cuts, simple_lock, lately>>
  BY <1>1, <1>2 DEF Switch, Rest
<1>4. /\ state' = state /\ func' = func /\ cuts' = cuts /\ lately' = lately /\ link' = link
      /\ code' = [s \in Slots |-> code'[s]] /\ code'[c] = <<>> /\ \A s \in Slots \ {c} : code'[s] = code[s]
  <2>1. code = [s \in Slots |-> code[s]] /\ c \in Slots
    BY DEF Types
  <2> QED BY <1>3, <2>1
<1>5. Types'
  BY <1>1, <1>3, <1>4 DEF Types
<1>6. \A s \in Slots : state[s] = "RUN" => Waiting(s)'
  <2> TAKE s \in Slots
  <2>1. CASE s = c
    BY <1>4, <2>1 DEF Waiting
  <2>2. CASE s # c
    <3>1. state[s] = "RUN" => Waiting(s)
      BY <2>2 DEF Who
    <3> QED BY <1>4, <2>2, <3>1 DEF Waiting
  <2> QED BY <2>1, <2>2
<1>7. Who'
  <2>1. \A s \in Slots : func[s] = "login" /\ code'[s] # <<>> => \E i \in Slots : state[i] = "UNUSED"
    BY <1>4 DEF Who
  <2> QED BY <1>4, <1>6, <2>1 DEF Who
<1>8. ~Pending(c) /\ ~Pending(c)' /\ \A s : On("unuse", s) \notin ToSet(code[c])
  <2> DEFINE d == Do("switch")
  <2>1. d.op = "switch" /\ d.op \notin StoreOps
    BY OpsAre, StoresAre
  <2>2. \A s : d # On("unuse", s)
    <3> TAKE s
    <3> DEFINE z == On("unuse", s)
    <3>1. z.op = "unuse"
      BY OpsAre
    <3> HIDE DEF z, d
    <3>2. d # z
      BY <2>1, <3>1
    <3> QED BY <3>2 DEF z
  <2> HIDE DEF d
  <2>3. code[c] = <<d>>
    BY DEF d
  <2>4. ~Pending(c) /\ ToSet(code[c]) = {d}
    BY <2>1, <2>3 DEF Pending, ToSet
  <2>5. ~Pending(c)'
    BY <1>4 DEF Pending
  <2> QED BY <2>2, <2>4, <2>5
<1>9. Dead(w, x)'
  <2>1. \A s \in Slots : Pending(s)' <=> Pending(s)
    <3>1. \A s \in Slots \ {c} : Pending(s)' <=> Pending(s)
      BY <1>4 DEF Pending
    <3> QED BY <1>8, <3>1
  <2>2. \A s \in Slots : On("unuse", s) \in ToSet(code[IdleSlot]) => On("unuse", s) \in ToSet(code'[IdleSlot])
    <3>1. IdleSlot \in Slots
      BY SlotsAssumption DEF Slots, IdleSlot
    <3> QED BY <1>4, <1>8, <3>1
  <2> QED BY <1>4, <2>1, <2>2 DEF Dead
<1>10. Runnable' = Runnable
  BY <1>4 DEF Runnable
<1>11. Waiting(v[1])'
  BY <1>1, <1>6
<1>12. List(link', r_list, v, R) /\ List(link', d_list, w, x)
  BY <1>4
<1> QED BY <1>3, <1>5, <1>7, <1>9, <1>10, <1>11, <1>12, Switched

LEMMA RequeueingStep ==
  ASSUME NEW u, NEW w, NEW x, Now(u, w, x), Dead(w, x), NEW k \in 1 .. 9,
         NEW c, c = cur_process, Requeueing(c, u, w, x, k), Next
  PROVE  IInv'
<1> DEFINE p == Again(c)
<1>0. ~Tick
  <2>1. func[cur_process] \in {"idle", "kernel"}
    BY DEF Requeueing
  <2>2. Shielded(cur_process)
    BY <2>1 DEF Shielded
  <2> QED BY <2>2, Undisturbed
<1>1. /\ c \in Slots /\ link \in LinkType /\ func[c] \in {"idle", "kernel"} /\ state[c] = "RUN" /\ c # x /\ c \notin ToSet(w)
      /\ u \in Seqs /\ w \in Seqs /\ x \in Slots \cup {D} /\ ToSet(u) = Runnable \ {c}
  BY DEF Now, Types, Who, Requeueing, Dead
<1>2. Setting(link, r_list, u, R, c) /\ c \notin ToSet(u) /\ R = r_list.tail
  BY <1>1, Two DEF R
<1>3. code[c] = Left(p, k) /\ List(link, d_list, w, x)
  BY DEF Requeueing
<1>4. /\ p \in Seq(All(c)) /\ Len(p) = 9
      /\ p[1] = On("pass_forward", c) /\ p[2] = On("pass_back", c)
      /\ p[3] = On("pass_forward", c) /\ p[4] = On("pass_back", c)
      /\ p[5] = In("set_prev", r_list, c) /\ p[6] = In("set_next", r_list, c)
      /\ p[7] = In("link_forward", r_list, c) /\ p[8] = In("link_back", r_list, c)
      /\ p[9] = Do("switch")
  BY AgainIs
<1> HIDE DEF p
<1>5. At(p, k, p[k])
  BY <1>3, <1>4 DEF At
<1>6. CASE k \in 1 .. 8
  <2> DEFINE st == p[k]
  <2>1. st.op \in StoreOps /\ st.op # "unuse"
    <3>1. k = 1 \/ k = 2 \/ k = 3 \/ k = 4 \/ k = 5 \/ k = 6 \/ k = 7 \/ k = 8
      BY <1>6
    <3>2. st.op \in StoreOps
      <4>1. p[1].op \in StoreOps /\ p[2].op \in StoreOps /\ p[3].op \in StoreOps /\ p[4].op \in StoreOps
        BY <1>4, StoresAre
      <4>2. p[5].op \in StoreOps /\ p[6].op \in StoreOps /\ p[7].op \in StoreOps /\ p[8].op \in StoreOps
        BY <1>4, StoresAre
      <4> QED BY <3>1, <4>1, <4>2
    <3> QED BY <3>2 DEF StoreOps
  <2>2. Executes(p, k, st)
    BY <1>0, <1>5, <2>1, Stores
  <2>3. Others /\ link' = Stored(link, st) /\ code' = [code EXCEPT ![c] = Left(p, k + 1)]
    BY <2>2 DEF Executes
  <2>4. Dead(w, x)'
    BY <1>1, <1>5, <2>1, <2>3, DeadStays
  <2>5. func'[c] = func[c] /\ code'[c] = Left(p, k + 1) /\ cur_process' = c
    BY <1>1, <2>3 DEF Others, Now, Types
  <2>6. ASSUME link' \in LinkType, Requeueing(c, u, w, x, k + 1)'
        PROVE  IInv'
    <3>1. k + 1 \in 1 .. 9
      BY <1>6
    <3>2. Situation(cur_process, u, w, x)'
      BY <2>4, <2>5, <2>6, <3>1 DEF Situation
    <3> QED BY <1>1, <2>3, <2>6, <3>2, Stayed
  <2>7. ASSUME NEW S, S = {} \/ S = ToSet(u) \cup {R} \/ S = ToSet(u) \cup {c}, Reaches(link, link', r_list, S)
        PROVE  List(link', d_list, w, x)
    BY <1>1, <1>3, <2>7, RunListStored
  <2>8. CASE k \in {1, 3}
    <3>1. st = On("pass_forward", c)
      BY <1>4, <2>8
    <3>2. Hangs(link, r_list, c, u, r_list.tail)
      <4>1. k = 1 => Fronts(link, r_list, c, u, R)
        BY DEF Requeueing
      <4> QED BY <1>2, <2>8, <4>1 DEF Requeueing
    <3>3. PassedForward(link, link', r_list, u, r_list.tail, c)
      BY <1>2, <2>3, <3>1, <3>2, PassForwardIs
    <3>4. /\ link' \in LinkType /\ Hangs(link', r_list, c, u, R) /\ link'.next[r_list.head] = StartOf(u, R)
          /\ k = 3 => List(link', r_list, u, R)
          /\ List(link', d_list, w, x)
      BY <1>2, <2>7, <3>3 DEF PassedForward, Requeueing, Starts
    <3>5. Requeueing(c, u, w, x, k + 1)'
      BY <1>1, <2>5, <2>8, <3>4 DEF Requeueing, p
    <3> QED BY <2>6, <3>4, <3>5
  <2>9. CASE k \in {2, 4}
    <3>1. st = On("pass_back", c)
      BY <1>4, <2>9
    <3>2. Hangs(link, r_list, c, u, r_list.tail) /\ Starts(link, r_list, u, r_list.tail)
      BY <1>2, <2>9 DEF Requeueing, Starts
    <3>3. PassedBack(link, link', r_list, u, r_list.tail, c)
      BY <1>2, <2>3, <3>1, <3>2, PassBackIs
    <3>4. /\ link' \in LinkType /\ Hangs(link', r_list, c, u, R) /\ link'.next[r_list.head] = StartOf(u, R)
          /\ List(link', r_list, u, R) /\ List(link', d_list, w, x)
      BY <1>2, <2>7, <3>2, <3>3 DEF PassedBack, Starts
    <3>5. Linking(link', r_list, u, R, c, 0)
      BY <3>4 DEF Linking
    <3>6. Requeueing(c, u, w, x, k + 1)'
      BY <1>1, <2>5, <2>9, <3>4, <3>5 DEF Requeueing, p
    <3> QED BY <2>6, <3>4, <3>6
  <2>10. CASE k \in 5 .. 7
    <3>0. k - 5 \in 0 .. 2 /\ (k - 5) + 1 = (k + 1) - 5 /\ k > 4 /\ k < 9
      BY <2>10
    <3>1. st = In(LinkOp(k - 5), r_list, c)
      <4>1. k = 5 \/ k = 6 \/ k = 7
        BY <2>10
      <4>2. 5 - 5 = 0 /\ 6 - 5 = 1 /\ 7 - 5 = 2
        OBVIOUS
      <4> QED BY <1>4, <4>1, <4>2, LinkOpIs
    <3>2. Linking(link, r_list, u, R, c, k - 5)
      BY <3>0 DEF Requeueing
    <3>3. LinkedOn(link, link', r_list, u, R, c, k - 5)
      BY <1>2, <2>3, <3>0, <3>1, <3>2, LinkingIs
    <3>4. link' \in LinkType /\ Linking(link', r_list, u, R, c, (k + 1) - 5) /\ List(link', d_list, w, x)
      BY <2>7, <3>0, <3>3 DEF LinkedOn
    <3>5. Requeueing(c, u, w, x, k + 1)'
      BY <1>1, <2>5, <2>10, <3>4 DEF Requeueing, p
    <3> QED BY <2>6, <3>4, <3>5
  <2>11. CASE k = 8
    <3>1. st = In("link_back", r_list, c)
      BY <1>4, <2>11
    <3>2. Linking(link, r_list, u, R, c, 3)
      BY <2>11 DEF Requeueing
    <3>3. LinkedBack(link, link', r_list, u, c)
      BY <1>2, <2>3, <3>1, <3>2, LinkBackIs
    <3>4. link' \in LinkType /\ List(link', r_list, Append(u, c), R) /\ List(link', d_list, w, x)
      BY <1>2, <2>7, <3>3 DEF LinkedBack
    <3>5. Requeueing(c, u, w, x, k + 1)'
      BY <1>1, <2>5, <2>11, <3>4 DEF Requeueing, p
    <3> QED BY <2>6, <3>4, <3>5
  <2>12. k \in {1, 3} \/ k \in {2, 4} \/ k \in 5 .. 7 \/ k = 8
    BY <1>6
  <2> QED BY <2>8, <2>9, <2>10, <2>11, <2>12
<1>7. CASE k = 9
  <2>1. code[c] = <<Do("switch")>>
    <3>1. Left(p, Len(p)) = <<p[Len(p)]>>
      <4>1. Len(p) \in 1 .. Len(p)
        BY <1>5, <1>7, <1>4 DEF At
      <4> QED BY <1>4, <4>1, LastLeft
    <3> QED BY <1>3, <1>4, <1>7, <3>1
  <2>2. Switch
    <3>1. code[c] # <<>> /\ Head(code[c]) = Do("switch")
      BY <2>1
    <3>2. Does(Do("switch"))
      BY <1>0, <3>1, StatementStep
    <3> QED BY <3>2, DoesIs
  <2> DEFINE v == Append(u, c)
  <2>3. List(link, r_list, v, R)
    BY <1>7 DEF Requeueing
  <2>4. v \in Seqs /\ v # <<>> /\ ToSet(v) = Runnable
    <3>1. v \in Seqs /\ v # <<>> /\ ToSet(v) = ToSet(u) \cup {c}
      BY <1>1, <1>2, AppendIs
    <3> QED BY <1>1, <3>1 DEF Runnable
  <2>5. Types /\ Who
    BY DEF Now
  <2> HIDE DEF v
  <2> QED BY <1>1, <1>3, <2>1, <2>2, <2>3, <2>4, <2>5, SwitchEnds
<1> QED BY <1>6, <1>7

-----------------------------------------------------------------------------
(* idle(): a zombie is reaped.                                             *)

\* The stores of the process on d_list.
LEMMA DeadListStored ==
  ASSUME NEW u, NEW w, NEW x, Now(u, w, x), Dead(w, x),
         NEW S, S = {} \/ S = ToSet(w) \cup {x} \/ (\E e \in Slots \ ToSet(u) : S = ToSet(w) \cup {e}),
         Reaches(link, link', d_list, S)
  PROVE  Kept(link, link', r_list, u, R, S)
<1>1. u \in Seqs /\ w \in Seqs /\ x \in Slots \cup {D} /\ cur_process \in Slots
      /\ ToSet(u) = Runnable \ {cur_process}
  BY DEF Now, Types
<1>2. /\ Aside(r_list, u, R, d_list, {})
      /\ Aside(r_list, u, R, d_list, ToSet(w) \cup {x})
      /\ \A e \in Slots : e \notin ToSet(u) => Aside(r_list, u, R, d_list, ToSet(w) \cup {e})
  BY <1>1, TwoAside
<1>3. Aside(r_list, u, R, d_list, S)
  BY <1>2
<1> QED BY <1>3, ListKept

LEMMA IdlingStep ==
  ASSUME NEW u, NEW w, NEW x, Now(u, w, x), Dead(w, x),
         NEW c, c = cur_process, Idling(c, u, w, x), Next
  PROVE  IInv'
<1>0. ~Tick
  <2>1. Shielded(cur_process)
    BY DEF Idling, Shielded
  <2> QED BY <2>1, Undisturbed
<1>1. /\ c \in Slots /\ link \in LinkType /\ func[c] = "idle" /\ state[c] = "RUN" /\ c # x /\ c = IdleSlot
      /\ u \in Seqs /\ w \in Seqs /\ x \in Slots \cup {D} /\ ToSet(u) = Runnable \ {c} /\ code[c] = <<>>
  BY DEF Now, Types, Who, Idling, Dead
<1>2. IdleLoop
  <2>1. Ready /\ ~ShellCommand
    BY <1>1 DEF Ready, ShellCommand
  <2>2. ~Store /\ ~Unlock /\ ~SetState /\ ~proc_create /\ ~Pick /\ ~Switch
    BY <2>1 DEF Store, Unlock, SetState, proc_create, Pick, Switch, Next1
  <2> QED BY <1>0, <1>1, <2>1, <2>2 DEF Next, Go, UserInput, KernelLoop, CommandReturns, CommandExits
<1>3. /\ Fronts(link, r_list, c, u, R) /\ From(link, d_list, d_list.head, w, x)
      /\ link.next[d_list.head] = StartOf(w, x) /\ link.prev[StartOf(w, x)] = d_list.head
      /\ Inner(link, d_list, w, x)
  BY DEF Idling, From
<1>4. D \notin Slots /\ D = d_list.tail /\ d_list \in Lists
  BY NodesAre, ListsApart DEF D
<1>5. x \notin ToSet(w)
  BY <1>4, SeqIs, <1>1 DEF Dead
<1>6. \A s \in Slots : On("unuse", s) \notin ToSet(code[c])
  BY <1>1 DEF ToSet
<1>a. ASSUME NEW q, Continue(q)
      PROVE  Others /\ link' = link /\ link' \in LinkType /\ code' = [code EXCEPT ![cur_process] = q]
             /\ code'[c] = q /\ func' = func /\ state' = state /\ cur_process' = c
             /\ \A s \in Slots \ {c} : code'[s] = code[s]
  BY <1>1, <1>a DEF Continue, Others, Now, Types
<1>7. CASE list_empty(link, d_list)
  <2> DEFINE q == <<Do("pick")>>
  <2>1. Continue(q)
    BY <1>2, <1>7 DEF IdleLoop
  <2>2. StartOf(w, x) = D
    BY <1>3, <1>4, <1>7 DEF list_empty
  <2>3. w = <<>> /\ x = D
    <3>1. CASE w # <<>>
      <4>1. w[1] \in Slots
        BY <1>1, <3>1, TailOf
      <4> QED BY <1>4, <2>2, <3>1, <4>1 DEF StartOf
    <3> QED BY <2>2, <3>1 DEF StartOf
  <2>4. List(link, d_list, w, x)
    BY <1>3, <1>4, <2>2, <2>3 DEF List
  <2>5. StillCode(c)'
    BY <1>1, <1>a, <2>1 DEF StillCode
  <2>6. Still(c, u, w, x)'
    BY <1>1, <1>3, <1>a, <2>1, <2>4, <2>5 DEF Still
  <2>7. Dead(w, x)'
    <3> HIDE DEF q
    <3>1. Types
      BY DEF Now
    <3> QED BY <1>1, <1>6, <1>a, <2>1, <3>1, DeadStep
  <2>8. Situation(cur_process, u, w, x)'
    BY <1>a, <2>1, <2>6, <2>7 DEF Situation
  <2> HIDE DEF q
  <2>9. Others /\ link' \in LinkType /\ code' = [code EXCEPT ![cur_process] = q]
    BY <1>a, <2>1
  <2> QED BY <1>1, <2>8, <2>9, Stayed
<1>8. CASE ~list_empty(link, d_list)
  <2> DEFINE e == StartOf(w, x)
             q == Reap(e)
  <2>1. Continue(q)
    BY <1>2, <1>3, <1>8 DEF IdleLoop, Reap, list_front
  <2>2. e # D /\ e \in ToSet(w) \cup {x}
    <3>1. e # D
      BY <1>3, <1>4, <1>8 DEF list_empty
    <3> QED BY <1>1, <1>4, <3>1, EndsAre
  <2>3. e \in Slots /\ state[e] = "ZOMBIE"
    <3>1. CASE e \in ToSet(w)
      BY <1>1, <3>1, SeqIs DEF Dead
    <3>2. CASE e \notin ToSet(w)
      BY <1>1, <2>2, <3>2 DEF Dead
    <3> QED BY <3>1, <3>2
  <2>4. /\ q = Left(q, 1) /\ q \in Seq(All(e)) /\ Len(q) = 3 /\ q[3] = On("unuse", e)
    BY ReapIs, AllLeft
  <2>5. On("unuse", e) \in ToSet(q)
    <3>1. 3 \in DOMAIN q
      BY <2>4
    <3> QED BY <2>4, <3>1 DEF ToSet
  <2>6. Others /\ link' = link /\ link' \in LinkType /\ code' = [code EXCEPT ![cur_process] = q]
        /\ code'[c] = q /\ func' = func /\ state' = state /\ cur_process' = c
        /\ \A s \in Slots \ {c} : code'[s] = code[s]
    <3> HIDE DEF q
    <3> QED BY <1>a, <2>1
  <2>7. ASSUME NEW w2 \in Seqs, NEW x2 \in Slots \cup {D}, e \notin ToSet(w2), e # x2,
               Hangs(link, d_list, e, w2, x2), ToSet(w) \subseteq ToSet(w2) \cup {e},
               ToSet(w2) \subseteq ToSet(w), x2 = x \/ (x2 = D /\ x = e)
        PROVE  IInv'
    <3> HIDE DEF e
    <3>1. Reaping(c, u, w2, x2, e, 1)'
      BY <1>1, <1>3, <2>3, <2>4, <2>6, <2>7 DEF Reaping
    <3>2. Dead(w2, x2)'
      <4>1. \A s \in Slots \ {c} : Pending(s)' <=> Pending(s)
        BY <2>6 DEF Pending
      <4>2. \A s \in ToSet(w2) : state'[s] = "ZOMBIE"
        BY <2>6, <2>7 DEF Dead
      <4>3. x2 \in Slots => state'[x2] = "ZOMBIE" /\ x2 \notin ToSet(w2) /\ Pending(x2)'
        BY <1>1, <1>4, <1>5, <2>6, <2>7, <4>1 DEF Dead
      <4>4. ASSUME NEW s \in Slots, state[s] = "ZOMBIE", ~Pending(s)'
            PROVE  s \in ToSet(w2) \/ On("unuse", s) \in ToSet(q)
        <5>1. s # c
          BY <1>1, <4>4
        <5>2. s \in ToSet(w)
          BY <1>1, <1>6, <4>1, <4>4, <5>1 DEF Dead
        <5> QED BY <2>5, <2>7, <5>2
      <4> HIDE DEF q
      <4> QED BY <1>1, <2>6, <4>2, <4>3, <4>4 DEF Dead
    <3>3. Situation(cur_process, u, w2, x2)'
      <4>1. 1 \in 1 .. 3
        OBVIOUS
      <4> HIDE DEF q
      <4> QED BY <2>3, <2>6, <3>1, <3>2, <4>1 DEF Situation
    <3> HIDE DEF q
    <3> QED BY <1>1, <2>6, <2>7, <3>3, Stayed
  <2>8. CASE w # <<>>
    <3>1. e = w[1]
      BY <2>8 DEF StartOf
    <3> DEFINE t == Tail(w)
    <3>2. /\ t \in Seqs /\ e \notin ToSet(t) /\ ToSet(t) = ToSet(w) \ {e} /\ e \in ToSet(w)
          /\ w = <<e>> \o t
      BY <1>1, <2>8, <3>1, TailOf
    <3> HIDE DEF e, t
    <3>3. From(link, d_list, d_list.head, <<e>> \o t, x)
      BY <1>3, <3>2
    <3>4. Fronts(link, d_list, e, t, x)
      BY <1>1, <1>4, <2>3, <3>2, <3>3, FirstOfList
    <3>5. Hangs(link, d_list, e, t, x)
      BY <3>4 DEF Fronts, From, Hangs
    <3>6. e # x
      BY <1>5, <3>2
    <3> QED BY <1>1, <2>7, <3>2, <3>5, <3>6
  <2>9. CASE w = <<>>
    <3>1. e = x
      BY <2>9 DEF StartOf
    <3>2. Hangs(link, d_list, e, <<>>, D)
      <4>1. link.prev[x] = d_list.head /\ link.next[x] = D
        BY <1>3, <1>4, <2>2, <2>9, <3>1 DEF Inner
      <4>2. Inner(link, d_list, <<>>, D)
        BY <1>4 DEF Inner
      <4> QED BY <3>1, <4>1, <4>2 DEF Hangs, StartOf
    <3>3. <<>> \in Seqs /\ ToSet(<<>>) = {}
      BY EmptySeq DEF Seqs, IsInjective, ToSet
    <3> HIDE DEF e
    <3> QED BY <1>4, <2>3, <2>7, <2>9, <3>1, <3>2, <3>3
  <2> QED BY <2>8, <2>9
<1> QED BY <1>7, <1>8

LEMMA ReapingStep ==
  ASSUME NEW u, NEW w, NEW x, Now(u, w, x), Dead(w, x), NEW e \in Slots, NEW k \in 1 .. 3,
         NEW c, c = cur_process, Reaping(c, u, w, x, e, k), Next
  PROVE  IInv'
<1> DEFINE p == Reap(e)
<1>0. ~Tick
  <2>1. Shielded(cur_process)
    BY DEF Reaping, Shielded
  <2> QED BY <2>1, Undisturbed
<1>1. /\ c \in Slots /\ link \in LinkType /\ func[c] = "idle" /\ state[c] = "RUN" /\ c # x /\ c = IdleSlot
      /\ u \in Seqs /\ w \in Seqs /\ x \in Slots \cup {D} /\ ToSet(u) = Runnable \ {c}
  BY DEF Now, Types, Who, Reaping, Dead
<1>2. Setting(link, d_list, w, x, e) /\ D = d_list.tail /\ c \notin ToSet(w)
  <2>1. e \notin ToSet(w) /\ e # x
    BY DEF Reaping
  <2>2. Setting(link, d_list, w, x, e)
    BY <1>1, <2>1, Two
  <2>3. c \notin ToSet(w)
    BY <1>1 DEF Dead
  <2> QED BY <2>2, <2>3 DEF D
<1>3. code[c] = Left(p, k) /\ Fronts(link, r_list, c, u, R) /\ state[e] = "ZOMBIE"
  BY DEF Reaping
<1>4. /\ p \in Seq(All(e)) /\ Len(p) = 3
      /\ p[1] = On("pass_forward", e) /\ p[2] = On("pass_back", e) /\ p[3] = On("unuse", e)
  BY ReapIs
<1> HIDE DEF p
<1>5. At(p, k, p[k])
  BY <1>3, <1>4 DEF At
<1>6. CASE k \in 1 .. 2
  <2> DEFINE st == p[k]
  <2>1. st.op \in StoreOps /\ st.op # "unuse"
    <3>1. k = 1 \/ k = 2
      BY <1>6
    <3>2. st.op \in StoreOps
      BY <1>4, <3>1, StoresAre
    <3> QED BY <3>2 DEF StoreOps
  <2>2. Executes(p, k, st)
    BY <1>0, <1>5, <2>1, Stores
  <2>3. Others /\ link' = Stored(link, st) /\ code' = [code EXCEPT ![c] = Left(p, k + 1)]
    BY <2>2 DEF Executes
  <2>4. Dead(w, x)'
    BY <1>1, <1>5, <2>1, <2>3, DeadStays
  <2>5. func'[c] = func[c] /\ code'[c] = Left(p, k + 1) /\ cur_process' = c /\ state' = state
    BY <1>1, <2>3 DEF Others, Now, Types
  <2>6. ASSUME link' \in LinkType, Reaping(c, u, w, x, e, k + 1)'
        PROVE  IInv'
    <3>1. k + 1 \in 1 .. 3
      BY <1>6
    <3>2. Situation(cur_process, u, w, x)'
      BY <2>4, <2>5, <2>6, <3>1 DEF Situation
    <3> QED BY <1>1, <2>3, <2>6, <3>2, Stayed
  <2>7. ASSUME NEW S, S = {} \/ S = ToSet(w) \cup {x}, Reaches(link, link', d_list, S)
        PROVE  Fronts(link', r_list, c, u, R)
    <3>1. Kept(link, link', r_list, u, R, S)
      BY <2>7, DeadListStored
    <3>2. c \notin S
      BY <1>1, <1>2, <2>7
    <3> QED BY <1>1, <1>3, <3>1, <3>2 DEF Kept
  <2>8. Hangs(link, d_list, e, w, x)
    BY <1>6 DEF Reaping
  <2>9. CASE k = 1
    <3>1. st = On("pass_forward", e)
      BY <1>4, <2>9
    <3>2. PassedForward(link, link', d_list, w, x, e)
      BY <1>2, <2>3, <2>8, <3>1, PassForwardIs
    <3>3. /\ link' \in LinkType /\ Hangs(link', d_list, e, w, x) /\ link'.next[d_list.head] = StartOf(w, x)
          /\ Fronts(link', r_list, c, u, R)
      BY <2>7, <3>2 DEF PassedForward, Starts
    <3>4. Reaping(c, u, w, x, e, k + 1)'
      BY <1>1, <2>5, <2>9, <3>3 DEF Reaping, p
    <3> QED BY <2>6, <3>3, <3>4
  <2>10. CASE k = 2
    <3>1. st = On("pass_back", e)
      BY <1>4, <2>10
    <3>2. Starts(link, d_list, w, x)
      BY <2>10 DEF Reaping, Starts
    <3>3. PassedBack(link, link', d_list, w, x, e)
      BY <1>2, <2>3, <2>8, <3>1, PassBackIs
    <3>4. /\ link' \in LinkType /\ From(link', d_list, d_list.head, w, x)
          /\ link'.next[d_list.head] = StartOf(w, x) /\ Fronts(link', r_list, c, u, R)
      BY <2>7, <3>2, <3>3 DEF PassedBack, Starts
    <3>5. Reaping(c, u, w, x, e, k + 1)'
      BY <1>1, <2>5, <2>10, <3>4 DEF Reaping, p
    <3> QED BY <2>6, <3>4, <3>5
  <2> QED BY <1>6, <2>9, <2>10
<1>7. CASE k = 3
  <2>1. code[c] = Left(p, 3) /\ code[c] # <<>> /\ Head(code[c]) = On("unuse", e) /\ Tail(code[c]) = <<>>
    <3>1. At(p, 3, p[3])
      BY <1>5, <1>7
    <3>2. code[c] # <<>> /\ Head(code[c]) = p[3] /\ Tail(code[c]) = Left(p, 3 + 1)
      BY <3>1, AtIs
    <3>3. Left(p, Len(p) + 1) = <<>>
      BY <1>4, AllLeft
    <3> QED BY <1>3, <1>4, <1>7, <3>2, <3>3
  <2>2. SetState
    <3>1. Does(On("unuse", e))
      BY <1>0, <2>1, StatementStep
    <3> QED BY <3>1, DoesIs
  <2>3. /\ state' = [state EXCEPT ![e] = "UNUSED"] /\ code' = [code EXCEPT ![c] = <<>>]
        /\ UNCHANGED <<link, func, cuts, simple_lock, lately, cur_process>>
    <3>1. On("unuse", e).op = "unuse" /\ On("unuse", e).elem = e
      BY OpsAre
    <3> QED BY <2>1, <2>2, <3>1 DEF SetState, Statement, Rest
  <2>4. /\ func' = func /\ cuts' = cuts /\ lately' = lately /\ link' = link /\ cur_process' = c
        /\ code' = [s \in Slots |-> code'[s]] /\ code'[c] = <<>> /\ \A s \in Slots \ {c} : code'[s] = code[s]
    <3>1. code = [s \in Slots |-> code[s]]
      BY DEF Now, Types
    <3> QED BY <1>1, <2>3, <3>1
  <2>5. /\ state' \in [Slots -> {"RUN", "ZOMBIE", "UNUSED"}] /\ state'[e] = "UNUSED"
        /\ \A s \in Slots \ {e} : state'[s] = state[s]
    BY <2>3 DEF Now, Types
  <2>6. Types'
    BY <2>4, <2>5 DEF Now, Types
  <2>7. Runnable' = Runnable /\ e # c
    BY <1>1, <1>3, <2>5 DEF Runnable
  <2>8. Who'
    <3>1. ASSUME NEW s \in Slots \ {cur_process}, state'[s] = "RUN"
          PROVE  Waiting(s)'
      <4>1. state[s] = "RUN"
        BY <2>5, <3>1
      <4>2. Waiting(s)
        BY <4>1 DEF Now, Who
      <4> QED BY <2>4, <4>2 DEF Waiting
    <3>2. ASSUME NEW s \in Slots, func[s] = "login", code'[s] # <<>>
          PROVE  \E i \in Slots : state'[i] = "UNUSED"
      BY <2>5
    <3>3. \A s \in Slots : func[s] \in {"idle", "kernel", "login", "exits"} => state'[s] = "RUN"
      BY <1>3, <2>5 DEF Now, Who
    <3>4. \A s \in Slots : /\ func[s] = "exited" => state'[s] # "RUN"
                           /\ func[s] = "none" => state'[s] = "UNUSED"
      BY <1>3, <2>5 DEF Now, Who
    <3> QED BY <2>4, <3>1, <3>2, <3>3, <3>4 DEF Now, Who
  <2>9. Dead(w, x)'
    <3>0. e \notin ToSet(w) /\ e # x
      BY DEF Reaping
    <3>1. \A s \in Slots \ {c} : Pending(s)' <=> Pending(s)
      BY <2>4 DEF Pending
    <3>2. \A s \in ToSet(w) : state'[s] = "ZOMBIE"
      BY <1>1, <2>5, <3>0, SeqIs DEF Dead
    <3>3. x \in Slots => state'[x] = "ZOMBIE" /\ x \notin ToSet(w) /\ Pending(x)'
      BY <1>1, <2>5, <3>0, <3>1 DEF Dead
    <3>4. ASSUME NEW s \in Slots, state'[s] = "ZOMBIE", ~Pending(s)'
          PROVE  s \in ToSet(w)
      <4>1. s # e /\ s # c /\ state[s] = "ZOMBIE" /\ ~Pending(s)
        BY <1>1, <2>5, <2>7, <3>1, <3>4
      <4>2. On("unuse", s) \notin ToSet(Left(p, 3))
        <5>0. Len(p) = 3 /\ p \in Seq(All(e)) /\ p[3] = On("unuse", e)
          BY <1>4
        <5> DEFINE A == All(e)
                   z == On("unuse", e)
        <5> HIDE DEF A, z
        <5>1. Len(Left(p, 3)) = 1 /\ Left(p, 3)[1] = z
          <6>1. Len(p) = 3 /\ p \in Seq(A) /\ p[3] = z
            BY <5>0 DEF A, z
          <6>2. 3 \in 1 .. Len(p) /\ Len(p) - 3 + 1 = 1 /\ 1 \in 1 .. 1 /\ 3 + 1 - 1 = 3
            BY ONLY <6>1
          <6>3. Len(Left(p, 3)) = Len(p) - 3 + 1 /\ \A i \in 1 .. Len(p) - 3 + 1 : Left(p, 3)[i] = p[3 + i - 1]
            BY ONLY <6>1, <6>2, LeftIs
          <6> QED BY ONLY <6>1, <6>2, <6>3
        <5>2. DOMAIN Left(p, 3) = 1 .. 1
          <6>1. Len(p) = 3 /\ p \in Seq(A)
            BY <5>0 DEF A
          <6> QED BY ONLY <6>1 DEF Left
        <5> USE DEF z
        <5>3. On("unuse", s) # On("unuse", e)
          BY <4>1 DEF On
        <5> QED BY <5>1, <5>2, <5>3 DEF ToSet
      <4> QED BY <1>1, <2>1, <4>1, <4>2 DEF Dead
    <3> QED BY <3>2, <3>3, <3>4 DEF Dead
  <2>10. Idling(c, u, w, x)'
    BY <1>1, <1>3, <1>7, <2>4 DEF Reaping, Idling
  <2>11. Situation(cur_process, u, w, x)'
    BY <2>4, <2>9, <2>10 DEF Situation
  <2>12. ToSet(u) = Runnable' \ {cur_process'}
    BY <1>1, <2>4, <2>7
  <2> QED BY <1>1, <2>6, <2>8, <2>11, <2>12, Conclude
<1> QED BY <1>6, <1>7

-----------------------------------------------------------------------------
(* The timer.                                                              *)

LEMMA TickEnds ==
  ASSUME Types, Who, Calm, Tick, NEW c, c = cur_process, state[c] = "RUN" => Waiting(c)', link' \in LinkType,
         NEW v \in Seqs, v # <<>>, ToSet(v) = Runnable, NEW w \in Seqs, NEW x \in Slots \cup {D},
         List(link', r_list, v, R), List(link', d_list, w, x), Dead(w, x)
  PROVE  IInv'
<1>1. FrontRunnable(link') = v[1] /\ v[1] \in Slots /\ state[v[1]] = "RUN"
  BY FirstRuns
<1>2. /\ cur_process' = v[1] /\ UNCHANGED <<state, func, code, lately>>
      /\ cuts' = IF func[c] = "login" \/ code[c] = <<>> THEN cuts ELSE [cuts EXCEPT ![c] = cuts[c] + 1]
  BY <1>1 DEF Tick
<1>3. cuts' \in [Slots -> 0 .. MaxCuts] /\ \A s \in Slots \ {c} : cuts'[s] = cuts[s]
  <2>1. CASE func[c] = "login" \/ code[c] = <<>>
    BY <1>2, <2>1 DEF Types
  <2>2. CASE ~(func[c] = "login" \/ code[c] = <<>>)
    <3>1. cuts[c] < MaxCuts /\ c \in Slots /\ cuts \in [Slots -> 0 .. MaxCuts] /\ MaxCuts \in Nat
      BY <2>2, WindowsAssumption DEF Tick, Preemptible, Types
    <3> QED BY <1>2, <2>2, <3>1
  <2> QED BY <2>1, <2>2
<1>4. Types'
  BY <1>1, <1>2, <1>3 DEF Types
<1>5. \A s \in Slots : state[s] = "RUN" => Waiting(s)'
  <2> TAKE s \in Slots
  <2>1. CASE s = c
    BY <2>1
  <2>2. CASE s # c
    <3>1. state[s] = "RUN" => Waiting(s)
      BY <2>2 DEF Who
    <3> QED BY <1>2, <1>3, <2>2, <3>1 DEF Waiting
  <2> QED BY <2>1, <2>2
<1>6. Who'
  BY <1>2, <1>5 DEF Who
<1>7. Dead(w, x)'
  BY <1>2 DEF Dead, Pending
<1>8. Runnable' = Runnable
  BY <1>2 DEF Runnable
<1>9. Waiting(v[1])'
  BY <1>1, <1>5
<1> QED BY <1>2, <1>4, <1>6, <1>7, <1>8, <1>9, Switched

\* A process that runs is preempted before its statement k, or before it looks again.
LEMMA TickRuns ==
  ASSUME NEW u, NEW w, NEW x, Now(u, w, x), Dead(w, x), Tick, NEW c, c = cur_process, state[c] = "RUN",
         Waiting(c)', Hangs(link, r_list, c, u, R), List(link, d_list, w, x)
  PROVE  IInv'
<1>1. /\ c \in Slots /\ link \in LinkType /\ Types /\ Who /\ Calm
      /\ u \in Seqs /\ w \in Seqs /\ x \in Slots \cup {D} /\ ToSet(u) = Runnable \ {c}
  BY DEF Now, Types
<1>2. Setting(link, r_list, u, R, c) /\ c \notin ToSet(u) /\ R = r_list.tail
  BY <1>1, Two DEF R
<1>3. link' = Done(link, Move(r_list, c))
  BY DEF Tick, Requeue, Move
<1>4. IsLinked(link, link', r_list, u, c)
  BY <1>2, <1>3, MovedBack
<1>5. link' \in LinkType /\ List(link', r_list, Append(u, c), R) /\ Reaches(link, link', r_list, ToSet(u) \cup {c})
  BY <1>2, <1>4 DEF IsLinked
<1>6. List(link', d_list, w, x)
  <2>1. c \notin ToSet(w) /\ c # x
    BY <1>1 DEF Dead
  <2> QED BY <1>5, <2>1, RunListStored
<1> DEFINE v == Append(u, c)
<1>7. v \in Seqs /\ v # <<>> /\ ToSet(v) = Runnable
  <2>1. v \in Seqs /\ v # <<>> /\ ToSet(v) = ToSet(u) \cup {c}
    BY <1>1, <1>2, AppendIs
  <2> QED BY <1>1, <2>1 DEF Runnable
<1>8. List(link', r_list, v, R)
  BY <1>5
<1> HIDE DEF v
<1> QED BY <1>1, <1>5, <1>6, <1>7, <1>8, TickEnds

\* The idle process can run.
LEMMA SomeoneRuns ==
  ASSUME NEW u, NEW w, NEW x, Now(u, w, x), state[cur_process] # "RUN"
  PROVE  u # <<>> /\ ToSet(u) = Runnable
<1>1. IdleSlot \in Slots
  BY SlotsAssumption DEF Slots, IdleSlot
<1>2. state[IdleSlot] = "RUN"
  BY <1>1 DEF Now, Who
<1>3. IdleSlot \in ToSet(u) /\ ToSet(u) = Runnable
  BY <1>1, <1>2 DEF Now, Runnable
<1> QED BY <1>3 DEF ToSet

\* A process that has left r_list is preempted.
LEMMA TickLeft ==
  ASSUME NEW u, NEW w, NEW x, Now(u, w, x), Tick, NEW c, c = cur_process, state[c] = "ZOMBIE",
         List(link, r_list, u, R),
         NEW w2 \in Seqs, NEW x2 \in Slots \cup {D}, Dead(w2, x2), List(link, d_list, w2, x2)
  PROVE  IInv'
<1>1. /\ link \in LinkType /\ Types /\ Who /\ Calm /\ u \in Seqs
  BY DEF Now, Types
<1>2. link' = link
  <2>1. link' = Done(link, <<>>)
    BY DEF Tick, Requeue
  <2>2. r_list \in Lists
    BY ListsApart
  <2> QED BY <2>1, <2>2, WholeOperations
<1>3. u # <<>> /\ ToSet(u) = Runnable
  BY SomeoneRuns
<1>4. List(link', r_list, u, R) /\ List(link', d_list, w2, x2) /\ link' \in LinkType
  BY <1>1, <1>2
<1> QED BY <1>1, <1>3, <1>4, TickEnds

-----------------------------------------------------------------------------
(* proc_free(): a command leaves r_list ...                                *)

\* A process in its proc_free() that a tick has cut into will go on there.
LEMMA CutNow ==
  ASSUME NEW u, NEW w, NEW x, Now(u, w, x), Tick, NEW c, c = cur_process,
         func[c] = "returns", NEW k \in 1 .. 4, code[c] = Left(Free(c), k)
  PROVE  Waiting(c)'
<1>1. code[c] # <<>>
  <2> DEFINE p == Free(c)
             S == All(c)
  <2>1. p \in Seq(S) /\ Len(p) = 11
    BY FreeIs
  <2> HIDE DEF p, S
  <2>2. k \in 1 .. Len(p)
    BY <2>1
  <2>3. Left(p, k) # <<>>
    BY <2>1, <2>2, LeftIs
  <2> QED BY <2>3 DEF p
<1>2. cuts \in [Slots -> 0 .. MaxCuts] /\ MaxCuts \in Nat /\ MaxCuts <= 1 /\ c \in Slots
  BY WindowsAssumption DEF Now, Types, Calm
<1>3. cuts[c] < MaxCuts
  BY <1>1 DEF Tick, Preemptible
<1>4. cuts[c] = 0
  BY <1>2, <1>3
<1>5. cuts' = [cuts EXCEPT ![c] = 1] /\ func' = func /\ code' = code
  BY <1>1, <1>4 DEF Tick
<1>6. cuts'[c] = 1
  BY <1>2, <1>5
<1> QED BY <1>5, <1>6 DEF Waiting

FreeAt(p, c) ==
  /\ p \in Seq(All(c)) /\ Len(p) = 11
  /\ p[1] = Do("unlock") /\ p[2] = On("pass_forward", c)
  /\ p[3] = On("pass_back", c) /\ p[4] = On("zombie", c)
  /\ p[5] = On("pass_forward", c) /\ p[6] = On("pass_back", c)
  /\ p[7] = In("set_prev", d_list, c) /\ p[8] = In("set_next", d_list, c)
  /\ p[9] = In("link_forward", d_list, c) /\ p[10] = In("link_back", d_list, c)
  /\ p[11] = Do("pick")

LEMMA FreeStores ==
  ASSUME NEW p, NEW c, FreeAt(p, c)
  PROVE  p[7].op \in StoreOps /\ p[8].op \in StoreOps /\ p[9].op \in StoreOps /\ p[10].op \in StoreOps
<1>1. /\ p[7] = In("set_prev", d_list, c) /\ p[8] = In("set_next", d_list, c)
      /\ p[9] = In("link_forward", d_list, c) /\ p[10] = In("link_back", d_list, c)
  BY DEF FreeAt
<1> QED BY <1>1, StoresAre

LEMMA FreePending ==
  ASSUME NEW p, NEW c, FreeAt(p, c), NEW k \in 1 .. 10
  PROVE  HasStore(Left(p, k))
<1>1. p \in Seq(All(c)) /\ Len(p) = 11 /\ p[10] = In("link_back", d_list, c)
  BY DEF FreeAt
<1>2. p[10].op \in StoreOps
  BY <1>1, StoresAre
<1> DEFINE S == All(c)
<1>3. p \in Seq(S)
  BY <1>1
<1>4. Len(p) = 11
  BY <1>1
<1> HIDE DEF S
<1>5. k \in Nat \ {0} /\ 10 \in k .. Len(p)
  BY <1>4
<1> QED BY <1>2, <1>3, <1>5, LeftStores

LEMMA LeavingStep ==
  ASSUME NEW u, NEW w, NEW x, Now(u, w, x), Dead(w, x), NEW k \in 3 .. 6,
         NEW c, c = cur_process, Leaving(c, u, w, x, k), Next
  PROVE  IInv'
<1> DEFINE p == Free(c)
<1>1. /\ c \in Slots /\ link \in LinkType /\ func[c] = "returns" /\ cuts[c] \in 0 .. 1 /\ c # x /\ c \notin ToSet(w)
      /\ u \in Seqs /\ w \in Seqs /\ x \in Slots \cup {D} /\ ToSet(u) = Runnable \ {c}
  <2>1. MaxCuts <= 1 /\ MaxCuts \in Nat /\ cuts \in [Slots -> 0 .. MaxCuts] /\ c \in Slots
    BY WindowsAssumption DEF Now, Calm, Types
  <2> QED BY <2>1 DEF Now, Types, Leaving
<1>2. Setting(link, r_list, u, R, c) /\ c \notin ToSet(u) /\ R = r_list.tail
  BY <1>1, Two DEF R
<1>3. code[c] = Left(p, k) /\ List(link, d_list, w, x) /\ state[c] = (IF k < 5 THEN "RUN" ELSE "ZOMBIE")
  BY DEF Leaving
<1>4. FreeAt(p, c)
  BY FreeIs DEF FreeAt
<1>a. /\ Hangs(link, r_list, c, u, R) /\ link.next[r_list.head] \in {c, StartOf(u, R)}
      /\ cuts[c] = 0 \/ k = 6 => link.next[r_list.head] = StartOf(u, R)
      /\ k \in 4 .. 6 /\ cuts[c] = 0 => List(link, r_list, u, R)
  BY DEF Leaving
<1>b. ASSUME Tick
      PROVE  IInv'
  <2>1. CASE k \in 3 .. 4
    <3>1. Waiting(c)'
      <4>1. k \in 1 .. 4
        BY <2>1
      <4> QED BY <1>1, <1>3, <1>b, <4>1, CutNow
    <3>2. state[c] = "RUN"
      BY <1>3, <2>1
    <3> QED BY <1>3, <1>a, <1>b, <3>1, <3>2, TickRuns
  <2>2. CASE k \in 5 .. 6
    <3>0. code[c] # <<>>
      <4>1. Len(p) = 11 /\ p \in Seq(All(c))
        BY <1>4 DEF FreeAt
      <4> DEFINE S == All(c)
      <4> HIDE DEF S, p
      <4>2. Len(p) = 11 /\ p \in Seq(S)
        BY <4>1 DEF S
      <4>3. k \in 1 .. Len(p)
        BY <2>2, <4>2
      <4> QED BY <1>3, <4>2, <4>3, LeftIs
    <3>1. cuts[c] = 0
      <4>1. CASE cuts[c] = 1
        <5>1. Shielded(cur_process)
          BY <1>1, <3>0, <4>1 DEF Shielded
        <5> QED BY <1>b, <5>1, Undisturbed
      <4> QED BY <1>1, <4>1
    <3>2. state[c] = "ZOMBIE" /\ List(link, r_list, u, R)
      BY <1>3, <1>a, <2>2, <3>1
    <3> QED BY <1>1, <1>3, <1>b, <3>2, TickLeft
  <2> QED BY <2>1, <2>2
<1> HIDE DEF p
<1>5. At(p, k, p[k])
  <2>1. Len(p) = 11
    BY <1>4 DEF FreeAt
  <2>2. k \in 1 .. Len(p)
    BY <2>1
  <2>3. \E S : p \in Seq(S)
    BY <1>4 DEF FreeAt
  <2> QED BY <1>3, <2>2, <2>3 DEF At
<1>c. HasStore(Left(p, k + 1))
  <2>1. k + 1 \in 1 .. 10
    OBVIOUS
  <2> QED BY <1>4, <2>1, FreePending
<1>6. CASE k # 4
  <2> DEFINE st == p[k]
  <2>1. st.op \in StoreOps /\ st.op # "unuse"
    <3>1. k = 3 \/ k = 5 \/ k = 6
      BY <1>6
    <3>2. st.op \in StoreOps
      BY <1>4, <3>1, StoresAre DEF FreeAt
    <3> QED BY <3>2 DEF StoreOps
  <2>2. Executes(p, k, st) \/ Tick
    BY <1>5, <2>1, Stores
  <2> SUFFICES ASSUME Executes(p, k, st)
               PROVE  IInv'
    BY <1>b, <2>2
  <2>3. Others /\ link' = Stored(link, st) /\ code' = [code EXCEPT ![c] = Left(p, k + 1)]
    BY DEF Executes
  <2>4. Dead(w, x)'
    BY <1>1, <1>5, <1>c, <2>1, <2>3, DeadStays
  <2>5. func'[c] = func[c] /\ code'[c] = Left(p, k + 1) /\ cur_process' = c /\ state' = state /\ cuts' = cuts
    BY <1>1, <2>3 DEF Others, Now, Types
  <2>6. ASSUME link' \in LinkType, k # 6, Leaving(c, u, w, x, k + 1)'
        PROVE  IInv'
    <3>1. k + 1 \in 3 .. 6
      BY <2>6
    <3>2. Situation(cur_process, u, w, x)'
      BY <2>4, <2>5, <2>6, <3>1 DEF Situation
    <3> QED BY <1>1, <2>3, <2>6, <3>2, Stayed
  <2>7. ASSUME NEW S, S = {} \/ S = ToSet(u) \cup {R}, Reaches(link, link', r_list, S)
        PROVE  List(link', d_list, w, x)
    BY <1>1, <1>3, <2>7, RunListStored
  <2>8. Hangs(link, r_list, c, u, r_list.tail)
    BY <1>2, <1>a
  <2>9. CASE k = 3
    <3>1. st = On("pass_back", c)
      BY <1>4, <2>9 DEF FreeAt
    <3>2. PassedBack(link, link', r_list, u, r_list.tail, c)
      BY <1>2, <2>3, <2>8, <3>1, PassBackIs
    <3>3. /\ link' \in LinkType /\ Hangs(link', r_list, c, u, R) /\ List(link', d_list, w, x)
          /\ link'.next[r_list.head] = link.next[r_list.head]
      BY <1>2, <2>7, <3>2 DEF PassedBack
    <3>4. cuts[c] = 0 => List(link', r_list, u, R)
      BY <1>2, <1>a, <3>2 DEF PassedBack, Starts
    <3>5. Leaving(c, u, w, x, k + 1)'
      BY <1>1, <1>3, <1>a, <2>5, <2>9, <3>3, <3>4 DEF Leaving, p
    <3> QED BY <2>6, <2>9, <3>3, <3>5
  <2>10. CASE k = 5
    <3>1. st = On("pass_forward", c)
      BY <1>4, <2>10 DEF FreeAt
    <3>2. PassedForward(link, link', r_list, u, r_list.tail, c)
      BY <1>2, <2>3, <2>8, <3>1, PassForwardIs
    <3>3. /\ link' \in LinkType /\ Hangs(link', r_list, c, u, R) /\ List(link', d_list, w, x)
          /\ link'.next[r_list.head] = StartOf(u, R)
          /\ cuts[c] = 0 => List(link', r_list, u, R)
      BY <1>2, <1>a, <2>7, <2>10, <3>2 DEF PassedForward, Starts
    <3>5. Leaving(c, u, w, x, k + 1)'
      BY <1>1, <1>3, <2>5, <2>10, <3>3 DEF Leaving, p
    <3> QED BY <2>6, <2>10, <3>3, <3>5
  <2>11. CASE k = 6
    <3>1. st = On("pass_back", c)
      BY <1>4, <2>11 DEF FreeAt
    <3>2. PassedBack(link, link', r_list, u, r_list.tail, c)
      BY <1>2, <2>3, <2>8, <3>1, PassBackIs
    <3>3. link' \in LinkType /\ List(link', r_list, u, R) /\ List(link', d_list, w, x)
      BY <1>2, <1>a, <2>7, <2>11, <3>2 DEF PassedBack, Starts
    <3>4. Linking(link', d_list, w, x, c, 7 - 7)
      BY <3>3 DEF Linking
    <3>5. Burying(c, u, w, x, 7)'
      BY <1>1, <1>3, <2>5, <2>11, <3>3, <3>4 DEF Burying, p
    <3>6. Situation(cur_process, u, w, x)'
      <4>1. 7 \in 7 .. 10
        OBVIOUS
      <4> QED BY <2>4, <2>5, <3>5, <4>1 DEF Situation
    <3> QED BY <1>1, <2>3, <3>3, <3>6, Stayed
  <2> QED BY <1>6, <2>9, <2>10, <2>11
<1>7. CASE k = 4
  <2>1. code[c] # <<>> /\ Head(code[c]) = On("zombie", c) /\ Tail(code[c]) = Left(p, k + 1)
    <3>1. p[k] = On("zombie", c)
      BY <1>4, <1>7 DEF FreeAt
    <3> QED BY <1>5, <3>1, AtIs
  <2>2. SetState \/ Tick
    <3>1. Does(On("zombie", c)) \/ Tick
      BY <2>1, StatementStep
    <3> QED BY <3>1, DoesIs
  <2> SUFFICES ASSUME SetState
               PROVE  IInv'
    BY <1>b, <2>2
  <2>3. /\ state' = [state EXCEPT ![c] = "ZOMBIE"] /\ code' = [code EXCEPT ![c] = Left(p, k + 1)]
        /\ UNCHANGED <<link, func, cuts, simple_lock, lately, cur_process>>
    <3>1. On("zombie", c).op = "zombie" /\ On("zombie", c).elem = c
      BY OpsAre
    <3> QED BY <2>1, <3>1 DEF SetState, Statement, Rest
  <2>4. /\ func' = func /\ cuts' = cuts /\ lately' = lately /\ link' = link /\ cur_process' = c
        /\ code' = [s \in Slots |-> code'[s]] /\ code'[c] = Left(p, k + 1)
        /\ \A s \in Slots \ {c} : code'[s] = code[s]
    <3>1. code = [s \in Slots |-> code[s]]
      BY DEF Now, Types
    <3> QED BY <1>1, <2>3, <3>1
  <2>5. /\ state' \in [Slots -> {"RUN", "ZOMBIE", "UNUSED"}] /\ state'[c] = "ZOMBIE"
        /\ \A s \in Slots \ {c} : state'[s] = state[s]
    BY <1>1, <2>3 DEF Now, Types
  <2>6. Types'
    BY <2>4, <2>5 DEF Now, Types
  <2>7. ToSet(u) = Runnable' \ {cur_process'}
    BY <1>1, <2>4, <2>5 DEF Runnable
  <2>8. Who'
    <3>1. ASSUME NEW s \in Slots \ {c}, state'[s] = "RUN"
          PROVE  Waiting(s)'
      <4>1. state[s] = "RUN"
        BY <2>5, <3>1
      <4>2. Waiting(s)
        BY <4>1 DEF Now, Who
      <4> QED BY <2>4, <4>2 DEF Waiting
    <3>2. ASSUME NEW s \in Slots, func[s] = "login", code'[s] # <<>>
          PROVE  \E i \in Slots : state'[i] = "UNUSED"
      <4>1. s # c /\ code[s] # <<>>
        BY <1>1, <2>4, <3>2
      <4>2. PICK i \in Slots : state[i] = "UNUSED"
        BY <3>2, <4>1 DEF Now, Who
      <4>3. i # c
        BY <1>3, <1>7, <4>2
      <4> QED BY <2>5, <4>2, <4>3
    <3>3. \A s \in Slots : func[s] \in {"idle", "kernel", "login", "exits"} => state'[s] = "RUN"
      BY <1>1, <2>5 DEF Now, Who
    <3>4. \A s \in Slots : /\ func[s] = "exited" => state'[s] # "RUN"
                           /\ func[s] = "none" => state'[s] = "UNUSED"
      BY <1>1, <2>5 DEF Now, Who
    <3> QED BY <2>4, <3>1, <3>2, <3>3, <3>4 DEF Now, Who
  <2>9. Dead(w, x)'
    <3>1. Pending(c)' /\ \A s \in Slots \ {c} : Pending(s)' <=> Pending(s)
      <4>1. Pending(c)'
        BY <1>c, <2>4 DEF Pending, HasStore
      <4>2. \A s \in Slots \ {c} : Pending(s)' <=> Pending(s)
        BY <2>4 DEF Pending
      <4> QED BY <4>1, <4>2
    <3>2. \A s \in ToSet(w) : state'[s] = "ZOMBIE"
      BY <1>1, <2>5, SeqIs DEF Dead
    <3>3. x \in Slots => state'[x] = "ZOMBIE" /\ x \notin ToSet(w) /\ Pending(x)'
      BY <1>1, <2>5, <3>1 DEF Dead
    <3>4. ASSUME NEW s \in Slots, state'[s] = "ZOMBIE", ~Pending(s)'
          PROVE  s \in ToSet(w) \/ On("unuse", s) \in ToSet(code'[IdleSlot])
      <4>1. s # c /\ state[s] = "ZOMBIE" /\ ~Pending(s)
        BY <2>5, <3>1, <3>4
      <4>2. IdleSlot \in Slots /\ IdleSlot # c
        BY <1>1, SlotsAssumption DEF Now, Who, IdleSlot, Slots
      <4> QED BY <2>4, <4>1, <4>2 DEF Dead
    <3> QED BY <3>2, <3>3, <3>4 DEF Dead
  <2>10. Leaving(c, u, w, x, 5)'
    BY <1>1, <1>3, <1>a, <1>7, <2>4, <2>5 DEF Leaving, p
  <2>11. Situation(cur_process, u, w, x)'
    <3>1. 5 \in 3 .. 6
      OBVIOUS
    <3> QED BY <2>4, <2>9, <2>10, <3>1 DEF Situation
  <2> QED BY <1>1, <2>6, <2>7, <2>8, <2>11, Conclude
<1> QED BY <1>6, <1>7

-----------------------------------------------------------------------------
(* ... goes to the end of d_list, and calls schedule().                    *)

LEMMA LastPick ==
  ASSUME NEW c, NEW p, FreeAt(p, c)
  PROVE  Left(p, 11) = <<Do("pick")>>
<1>1. p \in Seq(All(c)) /\ Len(p) = 11 /\ p[11] = Do("pick")
  BY DEF FreeAt
<1>2. Len(p) = 11
  BY <1>1
<1>3. Len(p) \in 1 .. Len(p)
  BY <1>2
<1>4. Left(p, Len(p)) = <<p[Len(p)]>>
  BY <1>1, <1>3, LastLeft
<1> QED BY <1>1, <1>4

LEMMA FreeAtIs ==
  ASSUME NEW c, NEW p, FreeAt(p, c), NEW k \in 1 .. 11, code[cur_process] = Left(p, k)
  PROVE  At(p, k, p[k]) /\ code[cur_process] # <<>>
<1>1. p \in Seq(All(c)) /\ Len(p) = 11
  BY DEF FreeAt
<1>2. Len(p) = 11
  BY <1>1
<1>3. k \in 1 .. Len(p)
  BY <1>2
<1>4. \E S : p \in Seq(S)
  BY <1>1
<1>5. At(p, k, p[k])
  BY <1>3, <1>4 DEF At
<1> QED BY <1>5, AtIs

LEMMA BuryingStep ==
  ASSUME NEW u, NEW w, NEW x, Now(u, w, x), Dead(w, x), NEW k \in 7 .. 10,
         NEW c, c = cur_process, Burying(c, u, w, x, k), Next
  PROVE  IInv'
<1> DEFINE p == Free(c)
<1>1. /\ c \in Slots /\ link \in LinkType /\ func[c] \in {"returns", "exited"} /\ state[c] = "ZOMBIE"
      /\ c \notin ToSet(w) /\ (c # x \/ k = 10) /\ (k = 10 => x = c)
      /\ u \in Seqs /\ w \in Seqs /\ x \in Slots \cup {D} /\ ToSet(u) = Runnable \ {c}
  BY DEF Now, Types, Burying
<1>2. c \notin ToSet(u) /\ D = d_list.tail /\ d_list \in Lists /\ x \notin ToSet(w) /\ D \notin Slots
  BY <1>1, Two, NodesAre, ListsApart DEF D
<1>3. code[c] = Left(p, k) /\ List(link, r_list, u, R) /\ Linking(link, d_list, w, x, c, k - 7)
  BY DEF Burying
<1>4. FreeAt(p, c)
  BY FreeIs DEF FreeAt
<1> HIDE DEF p
<1>5. At(p, k, p[k]) /\ code[c] # <<>>
  <2>1. k \in 1 .. 11
    OBVIOUS
  <2> QED BY <1>3, <1>4, <2>1, FreeAtIs
<1>6. ASSUME Tick
      PROVE  IInv'
  <2>1. List(link, d_list, w, x)
    <3>1. CASE k < 10
      <4>1. k - 7 < 3
        BY <3>1
      <4> QED BY <1>3, <4>1 DEF Linking
    <3>2. CASE k = 10
      <4>1. ~(k - 7 < 3)
        BY <3>2
      <4> QED BY <1>1, <1>3, <3>2, <4>1 DEF Linking
    <3> QED BY <3>1, <3>2
  <2> QED BY <1>1, <1>3, <1>6, <2>1, TickLeft
<1> DEFINE st == p[k]
<1>7. st.op \in StoreOps /\ st.op # "unuse"
  <2>1. k = 7 \/ k = 8 \/ k = 9 \/ k = 10
    OBVIOUS
  <2>2. st.op \in StoreOps
    BY <1>4, <2>1, FreeStores
  <2> QED BY <2>2 DEF StoreOps
<1>8. Executes(p, k, st) \/ Tick
  BY <1>5, <1>7, Stores
<1> SUFFICES ASSUME Executes(p, k, st)
             PROVE  IInv'
  BY <1>6, <1>8
<1>9. Others /\ link' = Stored(link, st) /\ code' = [code EXCEPT ![c] = Left(p, k + 1)]
  BY DEF Executes
<1>10. /\ func'[c] = func[c] /\ code'[c] = Left(p, k + 1) /\ cur_process' = c /\ state' = state
       /\ \A s \in Slots \ {c} : code'[s] = code[s]
  BY <1>1, <1>9 DEF Others, Now, Types
<1>11. ASSUME Reaches(link, link', d_list, ToSet(w) \cup {c}) \/ Reaches(link, link', d_list, {})
       PROVE  List(link', r_list, u, R)
  <2>1. CASE Reaches(link, link', d_list, ToSet(w) \cup {c})
    <3> DEFINE S == ToSet(w) \cup {c}
    <3>1. Kept(link, link', r_list, u, R, S)
      <4>1. \E e \in Slots \ ToSet(u) : S = ToSet(w) \cup {e}
        BY <1>1, <1>2
      <4>2. Reaches(link, link', d_list, S)
        BY <2>1
      <4> HIDE DEF S
      <4> QED BY <4>1, <4>2, DeadListStored
    <3> QED BY <1>3, <3>1 DEF Kept
  <2>2. CASE Reaches(link, link', d_list, {})
    <3>1. Kept(link, link', r_list, u, R, {})
      BY <2>2, DeadListStored
    <3> QED BY <1>3, <3>1 DEF Kept
  <2> QED BY <1>11, <2>1, <2>2
<1>12. CASE k \in 7 .. 9
  <2>1. HasStore(Left(p, k + 1))
    <3>1. k + 1 \in 1 .. 10
      BY <1>12
    <3> QED BY <1>4, <3>1, FreePending
  <2>2. Dead(w, x)'
    BY <1>1, <1>5, <1>7, <1>9, <2>1, DeadStays
  <2>3. Setting(link, d_list, w, x, c)
    <3>1. c # x
      BY <1>1, <1>12
    <3> QED BY <1>1, <3>1, Two
  <2>4. k - 7 \in 0 .. 2 /\ (k - 7) + 1 = (k + 1) - 7 /\ k + 1 \in 7 .. 10
    BY <1>12
  <2>5. st = In(LinkOp(k - 7), d_list, c)
    <3>1. k = 7 \/ k = 8 \/ k = 9
      BY <1>12
    <3>2. 7 - 7 = 0 /\ 8 - 7 = 1 /\ 9 - 7 = 2
      OBVIOUS
    <3> QED BY <1>4, <3>1, <3>2, LinkOpIs DEF FreeAt
  <2>6. LinkedOn(link, link', d_list, w, x, c, k - 7)
    BY <1>3, <1>9, <2>3, <2>4, <2>5, LinkingIs
  <2>7. link' \in LinkType /\ Linking(link', d_list, w, x, c, (k + 1) - 7) /\ List(link', r_list, u, R)
    BY <1>11, <2>4, <2>6 DEF LinkedOn
  <2>8. CASE k < 9
    <3>1. Burying(c, u, w, x, k + 1)'
      <4>1. c # x /\ k + 1 # 10
        BY <1>1, <2>8
      <4> QED BY <1>1, <1>10, <2>7, <4>1 DEF Burying, p
    <3>2. Situation(cur_process, u, w, x)'
      BY <1>10, <2>2, <2>4, <3>1 DEF Situation
    <3> QED BY <1>1, <1>9, <2>7, <3>2, Stayed
  <2>9. CASE k = 9
    <3>1. Linking(link', d_list, w, c, c, 10 - 7)
      BY <2>7, <2>9 DEF Linking
    <3>2. Burying(c, u, w, c, 10)'
      BY <1>1, <1>10, <2>7, <2>9, <3>1 DEF Burying, p
    <3>3. Dead(w, c)'
      <4>1. Pending(c)'
        BY <1>10, <2>1 DEF Pending, HasStore
      <4> QED BY <1>1, <1>10, <2>2, <4>1 DEF Dead
    <3>4. Situation(cur_process, u, w, c)'
      <4>1. 10 \in 7 .. 10
        OBVIOUS
      <4> QED BY <1>10, <3>2, <3>3, <4>1 DEF Situation
    <3> QED BY <1>1, <1>9, <2>7, <3>4, Stayed
  <2> QED BY <1>12, <2>8, <2>9
<1>13. CASE k = 10
  <2>1. st = In("link_back", d_list, c)
    BY <1>4, <1>13 DEF FreeAt
  <2>2. Linking(link, d_list, w, x, c, 3)
    BY <1>3, <1>13
  <2>3. Setting(link, d_list, w, d_list.tail, c)
    <3>1. D # c /\ D \notin ToSet(w) /\ D \in Slots \cup {d_list.tail}
      BY <1>1, <1>2, SeqIs
    <3> QED BY <1>1, <1>2, <3>1 DEF Setting
  <2>4. LinkedBack(link, link', d_list, w, c)
    BY <1>9, <2>1, <2>2, <2>3, LinkBackIs
  <2> DEFINE v == Append(w, c)
  <2>5. link' \in LinkType /\ List(link', d_list, v, D) /\ List(link', r_list, u, R)
    BY <1>2, <1>11, <2>4 DEF LinkedBack
  <2>6. v \in Seqs /\ ToSet(v) = ToSet(w) \cup {c}
    BY <1>1, AppendIs
  <2> HIDE DEF v
  <2>7. code'[c] = <<Do("pick")>>
    <3>1. Left(p, k + 1) = Left(p, 11)
      BY <1>13
    <3> QED BY <1>4, <1>10, <3>1, LastPick
  <2>8. Gone(c, u, v, D)'
    BY <1>1, <1>10, <2>5, <2>7 DEF Gone
  <2>9. Dead(v, D)'
    <3>1. \A s \in Slots \ {c} : Pending(s)' <=> Pending(s)
      BY <1>10 DEF Pending
    <3>2. \A s \in ToSet(v) : state'[s] = "ZOMBIE"
      BY <1>1, <1>10, <2>6 DEF Dead
    <3>3. ASSUME NEW s \in Slots, state'[s] = "ZOMBIE", ~Pending(s)'
          PROVE  s \in ToSet(v) \/ On("unuse", s) \in ToSet(code'[IdleSlot])
      <4>1. CASE s = c
        BY <2>6, <4>1
      <4>2. CASE s # c
        <5>1. state[s] = "ZOMBIE" /\ ~Pending(s)
          BY <1>10, <3>1, <3>3, <4>2
        <5>2. IdleSlot \in Slots /\ IdleSlot # c
          BY <1>1, SlotsAssumption DEF Now, Who, IdleSlot, Slots
        <5> QED BY <1>10, <2>6, <5>1, <5>2 DEF Dead
      <4> QED BY <4>1, <4>2
    <3> QED BY <1>2, <3>2, <3>3 DEF Dead
  <2>10. Situation(cur_process, u, v, D)'
    BY <1>10, <2>8, <2>9 DEF Situation
  <2> QED BY <1>1, <1>9, <2>5, <2>6, <2>10, Stayed
<1> QED BY <1>12, <1>13

LEMMA GoneStep ==
  ASSUME NEW u, NEW w, NEW x, Now(u, w, x), Dead(w, x), NEW c, c = cur_process, Gone(c, u, w, x), Next
  PROVE  IInv'
<1>1. /\ c \in Slots /\ link \in LinkType /\ func[c] \in {"returns", "exited"} /\ state[c] = "ZOMBIE"
      /\ u \in Seqs /\ w \in Seqs /\ x \in Slots \cup {D} /\ ToSet(u) = Runnable \ {c} /\ Types /\ Who
      /\ List(link, r_list, u, R) /\ List(link, d_list, w, x)
  BY DEF Now, Types, Gone
<1>2. ASSUME Tick
      PROVE  IInv'
  BY <1>1, <1>2, TickLeft
<1>3. CASE code[c] = <<Do("pick")>>
  <2>1. Pick \/ Tick
    <3>1. code[c] # <<>> /\ Head(code[c]) = Do("pick")
      BY <1>3
    <3>2. Does(Do("pick")) \/ Tick
      BY <3>1, StatementStep
    <3> QED BY <3>2, DoesIs
  <2> SUFFICES ASSUME Pick
               PROVE  IInv'
    BY <1>2, <2>1
  <2> DEFINE q == <<Do("switch")>>
  <2>2. code' = [code EXCEPT ![c] = q] /\ Others /\ link' = link
    <3>1. Requeue(c) = <<>> /\ Tail(code[c]) = <<>>
      BY <1>1, <1>3 DEF Requeue
    <3>2. <<>> \o q \o <<>> = q
      OBVIOUS
    <3>3. code' = [code EXCEPT ![c] = <<>> \o q \o <<>>]
      BY <3>1 DEF Pick
    <3>4. Others /\ link' = link
      BY DEF Pick, Others
    <3> QED BY <3>2, <3>3, <3>4
  <2>3. code'[c] = q /\ cur_process' = c /\ state' = state /\ func' = func /\ \A s \in Slots \ {c} : code'[s] = code[s]
    BY <1>1, <2>2 DEF Others, Types
  <2>4. Gone(c, u, w, x)'
    BY <1>1, <2>2, <2>3 DEF Gone
  <2>5. ~Pending(c) /\ ~HasStore(q)
    <3> DEFINE a == Do("pick")
               b == Do("switch")
    <3>1. a.op \notin StoreOps /\ b.op \notin StoreOps
      BY StoresAre
    <3> HIDE DEF a, b
    <3>2. code[c] = <<a>> /\ q = <<b>>
      BY <1>3 DEF a, b
    <3> HIDE DEF q
    <3> QED BY <3>1, <3>2 DEF Pending, HasStore
  <2> HIDE DEF q
  <2>6. Dead(w, x)'
    <3>1. c # x
      BY <1>1, <2>5 DEF Dead
    <3>2. IdleSlot \in Slots /\ IdleSlot # c
      BY <1>1, SlotsAssumption DEF Who, IdleSlot, Slots
    <3>3. \A s \in Slots : Pending(s)' <=> Pending(s)
      <4>1. \A s \in Slots \ {c} : Pending(s)' <=> Pending(s)
        BY <2>3 DEF Pending
      <4>2. ~Pending(c)'
        BY <2>3, <2>5 DEF Pending, HasStore
      <4> QED BY <2>5, <4>1, <4>2
    <3> QED BY <2>3, <3>2, <3>3 DEF Dead
  <2>7. Situation(cur_process, u, w, x)'
    BY <2>3, <2>4, <2>6 DEF Situation
  <2> QED BY <1>1, <2>2, <2>7, Stayed
<1>4. CASE code[c] = <<Do("switch")>>
  <2>1. Switch \/ Tick
    <3>1. code[c] # <<>> /\ Head(code[c]) = Do("switch")
      BY <1>4
    <3>2. Does(Do("switch")) \/ Tick
      BY <3>1, StatementStep
    <3> QED BY <3>2, DoesIs
  <2>2. u # <<>> /\ ToSet(u) = Runnable
    BY <1>1, SomeoneRuns
  <2>3. Switch => IInv'
    BY <1>1, <1>4, <2>2, SwitchEnds
  <2> QED BY <1>2, <2>1, <2>3
<1> QED BY <1>3, <1>4 DEF Gone

-----------------------------------------------------------------------------
(* proc_free() again, by a process that exit() has put on d_list.          *)

Dropping(m, m2, l, w, c) ==
  /\ m2 \in LinkType /\ m2.prev[c] = EndOf(l, w) /\ m2.next[c] = l.tail
  /\ List(SetPrev(m2, l.tail, EndOf(l, w)), l, w, l.tail)
  /\ Reaches(m, m2, l, ToSet(w))

LEMMA LastOf ==
  ASSUME NEW m \in LinkType, NEW l \in Lists, NEW w \in Seqs, NEW c \in Slots, c \notin ToSet(w),
         List(m, l, Append(w, c), l.tail)
  PROVE  /\ m.next[c] = l.tail /\ m.prev[c] = EndOf(l, w)
         /\ \A i \in 1 .. Len(w) - 1 : m.next[w[i]] = w[i + 1] /\ m.prev[w[i + 1]] = w[i]
         /\ w # <<>> => m.next[l.head] = w[1] /\ m.prev[w[1]] = l.head
<1> DEFINE v == Append(w, c)
<1>1. v \in Seqs /\ v # <<>> /\ Len(v) = Len(w) + 1 /\ v[Len(w) + 1] = c
      /\ \A i \in 1 .. Len(w) : v[i] = w[i]
  BY AppendIs
<1>2. Len(w) \in Nat /\ (w # <<>> <=> Len(w) > 0)
  BY ONLY SeqIs, w \in Seqs
<1>a. List(m, l, v, l.tail)
  OBVIOUS
<1> HIDE DEF v
<1>3. /\ Inner(m, l, v, l.tail) /\ m.next[l.head] = StartOf(v, l.tail) /\ m.prev[StartOf(v, l.tail)] = l.head
  BY <1>a, ListIs
<1>4. StartOf(v, l.tail) = v[1]
  BY <1>1 DEF StartOf
<1>5. m.next[c] = l.tail
  BY <1>1, <1>3 DEF Inner
<1>6. \A i \in 1 .. Len(w) : m.next[v[i]] = v[i + 1] /\ m.prev[v[i + 1]] = v[i]
  <2>1. Len(v) - 1 = Len(w)
    BY ONLY <1>1, <1>2
  <2> QED BY <1>3, <2>1 DEF Inner
<1>7. m.prev[c] = EndOf(l, w)
  <2>1. CASE w = <<>>
    <3>1. v[1] = c
      <4>1. Len(w) + 1 = 1
        BY ONLY <1>2, <2>1
      <4> QED BY <1>1, <4>1
    <3> QED BY <1>3, <1>4, <2>1, <3>1 DEF EndOf
  <2>2. CASE w # <<>>
    <3>1. Len(w) \in 1 .. Len(w)
      BY ONLY <1>2, <2>2
    <3>2. m.prev[v[Len(w) + 1]] = v[Len(w)] /\ v[Len(w)] = w[Len(w)]
      BY <1>1, <1>6, <3>1
    <3> QED BY <1>1, <2>2, <3>2 DEF EndOf
  <2> QED BY <2>1, <2>2
<1>8. ASSUME NEW i \in 1 .. Len(w) - 1
      PROVE  m.next[w[i]] = w[i + 1] /\ m.prev[w[i + 1]] = w[i]
  <2>1. i \in 1 .. Len(w) /\ i + 1 \in 1 .. Len(w)
    BY ONLY <1>2, i \in 1 .. Len(w) - 1
  <2>2. v[i] = w[i] /\ v[i + 1] = w[i + 1]
    BY <1>1, <2>1
  <2> QED BY <1>6, <2>1, <2>2
<1>9. ASSUME w # <<>>
      PROVE  m.next[l.head] = w[1] /\ m.prev[w[1]] = l.head
  <2>1. 1 \in 1 .. Len(w)
    BY ONLY <1>2, <1>9
  <2>2. v[1] = w[1]
    BY <1>1, <2>1
  <2> QED BY <1>3, <1>4, <2>2
<1> QED BY <1>5, <1>7, <1>8, <1>9

LEMMA DropLast ==
  ASSUME NEW m \in LinkType, NEW l \in Lists, NEW w \in Seqs, NEW c \in Slots, c \notin ToSet(w),
         List(m, l, Append(w, c), l.tail),
         NEW m2, m2 = Stored(m, On("pass_forward", c))
  PROVE  Dropping(m, m2, l, w, c)
<1> DEFINE a == EndOf(l, w)
           m3 == SetPrev(m2, l.tail, a)
<1>1. /\ m.next[c] = l.tail /\ m.prev[c] = a
      /\ \A i \in 1 .. Len(w) - 1 : m.next[w[i]] = w[i + 1] /\ m.prev[w[i + 1]] = w[i]
      /\ w # <<>> => m.next[l.head] = w[1] /\ m.prev[w[1]] = l.head
  BY LastOf
<1>2. /\ a \in Nodes /\ a # l.tail /\ a # NULL /\ a \in ToSet(w) \cup {l.head}
      /\ w # <<>> => a = w[Len(w)]
      /\ w = <<>> => a = l.head
  <2>1. l.tail \in Slots \cup {l.tail}
    OBVIOUS
  <2> QED BY <2>1, EndsAre
<1>3. /\ l.head \in Nodes /\ l.tail \in Nodes /\ l.tail # l.head /\ l.head \notin Slots /\ l.tail \notin Slots
      /\ c \in Nodes /\ c # l.tail /\ c # a
  BY <1>2, NodesAre
<1> HIDE DEF a
<1>b. m.prev[c] = a /\ m.next[c] = l.tail /\ a \in Nodes
  BY <1>1, <1>2
<1>4. m2 = SetNext(m, a, l.tail)
  <2>1. Stored(m, On("pass_forward", c)) = SetNext(m, a, m.next[c])
    BY <1>b, PassForward
  <2> QED BY <1>b, <2>1
<1>5. /\ m2 \in LinkType /\ m2.prev = m.prev /\ m2.next[a] = l.tail
      /\ \A n \in Nodes : n # a => m2.next[n] = m.next[n]
  BY <1>2, <1>3, <1>4, NextIs
<1>6. /\ m3 \in LinkType /\ m3.next = m2.next /\ m3.prev[l.tail] = a
      /\ \A n \in Nodes : n # l.tail => m3.prev[n] = m2.prev[n]
  BY <1>2, <1>3, <1>5, PrevIs
<1> HIDE DEF m3
<1>7. Len(w) \in Nat /\ (w # <<>> <=> Len(w) > 0)
  BY ONLY SeqIs, w \in Seqs
<1>8. \A n \in ToSet(w) : n \in Nodes /\ n # l.tail /\ n # l.head
  <2>1. \A n \in ToSet(w) : n \in Slots
    BY SeqIs
  <2> QED BY <1>3, <2>1, NodesAre
<1>9. ASSUME NEW i \in 1 .. Len(w) - 1
      PROVE  m3.next[w[i]] = w[i + 1] /\ m3.prev[w[i + 1]] = w[i]
  <2>1. i \in 1 .. Len(w) /\ i + 1 \in 1 .. Len(w) /\ Len(w) \in 1 .. Len(w) /\ i # Len(w) /\ Len(w) > 0
    BY ONLY <1>7, i \in 1 .. Len(w) - 1
  <2>2. w[i] \in ToSet(w) /\ w[i + 1] \in ToSet(w) /\ w[i] # w[Len(w)]
    BY <2>1, SeqIs
  <2>3. w[i] # a
    BY <1>2, <1>7, <2>1, <2>2
  <2>4. m3.next[w[i]] = m.next[w[i]]
    BY <1>5, <1>6, <1>8, <2>2, <2>3
  <2>5. m3.prev[w[i + 1]] = m.prev[w[i + 1]]
    BY <1>5, <1>6, <1>8, <2>2
  <2> QED BY <1>1, <2>4, <2>5
<1>10. Inner(m3, l, w, l.tail)
  <2>1. w # <<>> => m3.next[w[Len(w)]] = l.tail /\ m3.prev[l.tail] = w[Len(w)]
    BY <1>2, <1>5, <1>6
  <2> QED BY <1>9, <2>1 DEF Inner
<1>11. List(m3, l, w, l.tail)
  <2>1. CASE w = <<>>
    <3>1. m3.next[l.head] = l.tail /\ m3.prev[l.tail] = l.head
      BY <1>2, <1>5, <1>6, <2>1
    <3> QED BY <1>10, <2>1, <3>1, ListIs DEF StartOf
  <2>2. CASE w # <<>>
    <3>1. 1 \in 1 .. Len(w) /\ Len(w) \in 1 .. Len(w)
      BY ONLY <1>7, <2>2
    <3>2. w[1] \in ToSet(w) /\ w[Len(w)] \in ToSet(w)
      BY <3>1, SeqIs
    <3>3. l.head # a
      BY <1>2, <1>8, <2>2, <3>2
    <3>5. m3.next[l.head] = w[1]
      <4>1. m3.next[l.head] = m.next[l.head]
        BY <1>3, <1>5, <1>6, <3>3
      <4> QED BY <1>1, <2>2, <4>1
    <3>6. m3.prev[w[1]] = l.head
      <4>1. m3.prev[w[1]] = m.prev[w[1]]
        BY <1>5, <1>6, <1>8, <3>2
      <4> QED BY <1>1, <2>2, <4>1
    <3>4. m3.next[l.head] = w[1] /\ m3.prev[w[1]] = l.head
      BY <3>5, <3>6
    <3> QED BY <1>10, <2>2, <3>4, ListIs DEF StartOf
  <2> QED BY <2>1, <2>2
<1>12. Reaches(m, m2, l, ToSet(w))
  BY <1>2, <1>5 DEF Reaches
<1>13. m2.prev[c] = a /\ m2.next[c] = l.tail
  BY <1>1, <1>3, <1>5
<1> QED BY <1>5, <1>11, <1>12, <1>13 DEF Dropping, m3, a

\* Unlinking once more an element whose neighbours have forgotten it changes nothing.
LEMMA Forgotten ==
  ASSUME NEW m \in LinkType, NEW l \in Lists, NEW w \in Seqs, NEW c \in Slots,
         List(m, l, w, l.tail), m.prev[c] = EndOf(l, w), m.next[c] = l.tail
  PROVE  Stored(m, On("pass_forward", c)) = m /\ Stored(m, On("pass_back", c)) = m
<1> DEFINE a == EndOf(l, w)
<1>1. a \in Nodes /\ a # NULL /\ l.tail \in Nodes
  <2>1. l.tail \in Slots \cup {l.tail}
    OBVIOUS
  <2> QED BY <2>1, EndsAre, NodesAre
<1>2. m.prev[l.tail] = a /\ m.next[a] = l.tail
  BY TailIs
<1> HIDE DEF a
<1>3. m.prev[c] = a
  BY DEF a
<1>4. Stored(m, On("pass_forward", c)) = SetNext(m, a, m.next[a])
  <2>1. Stored(m, On("pass_forward", c)) = SetNext(m, a, m.next[c])
    BY <1>1, <1>3, PassForward
  <2> QED BY <1>2, <2>1
<1>5. Stored(m, On("pass_back", c)) = SetPrev(m, l.tail, m.prev[l.tail])
  <2>1. Stored(m, On("pass_back", c)) = SetPrev(m, l.tail, m.prev[c])
    BY <1>1, PassBack
  <2> QED BY <1>2, <1>3, <2>1
<1>6. SetNext(m, a, m.next[a]) = m /\ SetPrev(m, l.tail, m.prev[l.tail]) = m
  BY <1>1 DEF SetNext, SetPrev, LinkType
<1> QED BY <1>4, <1>5, <1>6

LEMMA ExitedFrees ==
  ASSUME NEW u, NEW w, NEW x, Now(u, w, x), NEW c, c = cur_process, Exited(c, u, w, x, 0),
         Dead(Append(w, c), x), Next
  PROVE  IInv'
<1>1. /\ c \in Slots /\ link \in LinkType /\ func[c] = "exited" /\ state[c] = "ZOMBIE" /\ code[c] = <<>>
      /\ c \notin ToSet(w) /\ x = D /\ c # D /\ D \notin Slots /\ IdleSlot \in Slots /\ c # IdleSlot
      /\ u \in Seqs /\ w \in Seqs /\ x \in Slots \cup {D} /\ ToSet(u) = Runnable \ {c} /\ Types /\ Who
      /\ List(link, r_list, u, R) /\ List(link, d_list, Append(w, c), D)
  <2>1. D \notin Slots /\ IdleSlot \in Slots
    BY SlotsAssumption, NodesAre, ListsApart DEF D, Slots, IdleSlot
  <2>2. /\ c \in Slots /\ link \in LinkType /\ func[c] = "exited" /\ state[c] = "ZOMBIE"
        /\ c \notin ToSet(w) /\ x = D /\ List(link, r_list, u, R) /\ List(link, d_list, Append(w, c), D)
        /\ code[c] = <<>>
    BY DEF Now, Types, Exited
  <2> QED BY <2>1, <2>2 DEF Now, Who
<1> DEFINE v == Append(w, c)
<1>2. v \in Seqs /\ ToSet(v) = ToSet(w) \cup {c}
  BY <1>1, AppendIs
<1>3. List(link, d_list, v, D) /\ Dead(v, x)
  BY <1>1
<1> HIDE DEF v
<1>4. Tick => IInv'
  BY <1>1, <1>2, <1>3, TickLeft
<1>5. CommandReturns \/ Tick
  <2>1. Ready /\ ~ShellCommand
    BY <1>1 DEF Ready, ShellCommand
  <2>2. ~Store /\ ~Unlock /\ ~SetState /\ ~proc_create /\ ~Pick /\ ~Switch
    BY <2>1 DEF Store, Unlock, SetState, proc_create, Pick, Switch, Next1
  <2> QED BY <1>1, <2>1, <2>2 DEF Next, Go, UserInput, IdleLoop, KernelLoop, CommandExits
<1> SUFFICES ASSUME CommandReturns
             PROVE  IInv'
  BY <1>4, <1>5
<1> DEFINE p == Free(c)
<1>6. Continue(p)
  BY DEF CommandReturns, Free
<1>7. FreeAt(p, c)
  BY FreeIs DEF FreeAt
<1> HIDE DEF p
<1>8. p = Left(p, 1) /\ HasStore(p)
  <2>1. p \in Seq(All(c))
    BY <1>7 DEF FreeAt
  <2>2. Left(p, 1) = p
    BY <2>1, AllLeft
  <2>3. HasStore(Left(p, 1))
    <3>1. 1 \in 1 .. 10
      OBVIOUS
    <3> QED BY <1>7, <3>1, FreePending
  <2> QED BY <2>2, <2>3
<1>9. /\ Others /\ link' = link /\ code' = [code EXCEPT ![c] = p]
      /\ code'[c] = p /\ func' = func /\ state' = state /\ cur_process' = c
      /\ \A s \in Slots \ {c} : code'[s] = code[s]
  BY <1>1, <1>6 DEF Continue, Others, Types
<1>10. Exited(c, u, w, x, 1)'
  BY <1>1, <1>8, <1>9 DEF Exited, p
<1>11. Dead(w, x)'
  <2>1. Pending(c)' /\ \A s \in Slots \ {c} : Pending(s)' <=> Pending(s)
    BY <1>8, <1>9 DEF Pending, HasStore
  <2>2. \A s \in ToSet(w) : state'[s] = "ZOMBIE"
    BY <1>2, <1>3, <1>9 DEF Dead
  <2>3. ASSUME NEW s \in Slots, state'[s] = "ZOMBIE", ~Pending(s)'
        PROVE  s \in ToSet(w) \/ On("unuse", s) \in ToSet(code'[IdleSlot])
    <3>1. s # c /\ state[s] = "ZOMBIE" /\ ~Pending(s)
      BY <1>9, <2>1, <2>3
    <3> QED BY <1>1, <1>2, <1>3, <1>9, <3>1 DEF Dead
  <2> QED BY <1>1, <2>2, <2>3 DEF Dead
<1>12. Situation(cur_process, u, w, x)'
  <2>1. 1 \in 0 .. 6 /\ 1 # 0
    OBVIOUS
  <2> QED BY <1>9, <1>10, <1>11, <2>1 DEF Situation
<1> QED BY <1>1, <1>9, <1>12, Stayed

LEMMA ExitedStep ==
  ASSUME NEW u, NEW w, NEW x, Now(u, w, x), Dead(w, x), NEW k \in 1 .. 6,
         NEW c, c = cur_process, Exited(c, u, w, x, k), Next
  PROVE  IInv'
<1> DEFINE p == Free(c)
<1>1. /\ c \in Slots /\ link \in LinkType /\ func[c] = "exited" /\ state[c] = "ZOMBIE" /\ code[c] = Left(p, k)
      /\ c \notin ToSet(w) /\ x = D /\ c # D /\ D \notin Slots /\ D = d_list.tail /\ d_list \in Lists
      /\ u \in Seqs /\ w \in Seqs /\ x \in Slots \cup {D} /\ ToSet(u) = Runnable \ {c} /\ Types /\ Who
      /\ List(link, r_list, u, R)
  <2>1. D \notin Slots /\ d_list \in Lists /\ D = d_list.tail
    BY NodesAre, ListsApart DEF D
  <2>2. /\ c \in Slots /\ link \in LinkType /\ func[c] = "exited" /\ state[c] = "ZOMBIE"
        /\ c \notin ToSet(w) /\ x = D /\ List(link, r_list, u, R)
        /\ code[c] = Left(p, k)
    BY DEF Now, Types, Exited
  <2> QED BY <2>1, <2>2 DEF Now
<1>2. /\ k < 3 => List(link, d_list, Append(w, c), D)
      /\ k > 2 => link.prev[c] = EndOf(d_list, w) /\ link.next[c] = D
      /\ k = 3 => List(SetPrev(link, D, EndOf(d_list, w)), d_list, w, D)
      /\ k > 3 => List(link, d_list, w, D)
  BY DEF Exited, SetPrev
<1>4. FreeAt(p, c)
  BY FreeIs DEF FreeAt
<1> HIDE DEF p
<1>5. At(p, k, p[k]) /\ code[c] # <<>>
  <2>1. k \in 1 .. 11
    OBVIOUS
  <2> QED BY <1>1, <1>4, <2>1, FreeAtIs
<1>6. ~Tick
  <2>1. Shielded(cur_process)
    BY <1>1, <1>5 DEF Shielded
  <2> QED BY <2>1, Undisturbed
<1>7. HasStore(Left(p, k + 1))
  <2>1. k + 1 \in 1 .. 10
    OBVIOUS
  <2> QED BY <1>4, <2>1, FreePending
<1>8. ASSUME Others, link' \in LinkType, code' = [code EXCEPT ![c] = Left(p, k + 1)], p[k].op # "unuse"
      PROVE  /\ Dead(w, x)' /\ cur_process' = c /\ code'[c] = Left(p, k + 1) /\ state' = state /\ func' = func
             /\ k # 6 /\ Exited(c, u, w, x, k + 1)' => IInv'
             /\ k = 6 /\ Burying(c, u, w, x, 7)' => IInv'
  <2>1. Dead(w, x)'
    BY <1>1, <1>5, <1>7, <1>8, DeadStays
  <2>2. cur_process' = c /\ code'[c] = Left(p, k + 1) /\ state' = state /\ func' = func
    BY <1>1, <1>8 DEF Others, Types
  <2>3. ASSUME k # 6, Exited(c, u, w, x, k + 1)'
        PROVE  IInv'
    <3>1. k + 1 \in 0 .. 6 /\ k + 1 # 0
      BY <2>3
    <3>2. Situation(cur_process, u, w, x)'
      BY <2>1, <2>2, <2>3, <3>1 DEF Situation
    <3> QED BY <1>1, <1>8, <3>2, Stayed
  <2>4. ASSUME k = 6, Burying(c, u, w, x, 7)'
        PROVE  IInv'
    <3>1. 7 \in 7 .. 10
      OBVIOUS
    <3>2. Situation(cur_process, u, w, x)'
      BY <2>1, <2>2, <2>4, <3>1 DEF Situation
    <3> QED BY <1>1, <1>8, <3>2, Stayed
  <2> QED BY <2>1, <2>2, <2>3, <2>4
<1>9. CASE k \in {2, 3, 5, 6}
  <2> DEFINE st == p[k]
  <2>1. st = On("pass_forward", c) \/ st = On("pass_back", c)
    BY <1>4, <1>9 DEF FreeAt
  <2>2. st.op \in StoreOps
    BY <2>1, StoresAre
  <2>3. st.op # "unuse"
    BY <2>2 DEF StoreOps
  <2>4. Executes(p, k, st)
    BY <1>5, <1>6, <2>2, Stores
  <2>5. Others /\ link' = Stored(link, st) /\ code' = [code EXCEPT ![c] = Left(p, k + 1)]
    BY <1>1, <2>4 DEF Executes
  <2>6. ASSUME link' \in LinkType
        PROVE  /\ cur_process' = c /\ code'[c] = Left(p, k + 1) /\ state' = state /\ func' = func
               /\ k # 6 /\ Exited(c, u, w, x, k + 1)' => IInv'
               /\ k = 6 /\ Burying(c, u, w, x, 7)' => IInv'
    BY <1>8, <2>3, <2>5, <2>6
  <2>7. ASSUME Reaches(link, link', d_list, ToSet(w))
        PROVE  List(link', r_list, u, R)
    <3> DEFINE S == ToSet(w) \cup {x}
    <3>1. Reaches(link, link', d_list, S)
      BY <2>7 DEF Reaches
    <3>2. S = ToSet(w) \cup {x}
      OBVIOUS
    <3> HIDE DEF S
    <3>3. Kept(link, link', r_list, u, R, S)
      BY <3>1, <3>2, DeadListStored
    <3> QED BY <1>1, <3>3 DEF Kept
  <2>8. CASE k = 2
    <3>1. st = On("pass_forward", c)
      BY <1>4, <2>8 DEF FreeAt
    <3>2. List(link, d_list, Append(w, c), d_list.tail)
      BY <1>1, <1>2, <2>8
    <3>3. Dropping(link, link', d_list, w, c)
      BY <1>1, <2>5, <3>1, <3>2, DropLast
    <3>4. /\ link' \in LinkType /\ link'.prev[c] = EndOf(d_list, w) /\ link'.next[c] = D
          /\ List(SetPrev(link', D, EndOf(d_list, w)), d_list, w, D) /\ List(link', r_list, u, R)
      BY <1>1, <2>7, <3>3 DEF Dropping
    <3>5. Exited(c, u, w, x, k + 1)'
      BY <1>1, <2>6, <2>8, <3>4 DEF Exited, p, SetPrev
    <3> QED BY <2>6, <2>8, <3>4, <3>5
  <2>9. CASE k = 3
    <3>1. st = On("pass_back", c)
      BY <1>4, <2>9 DEF FreeAt
    <3>2. link.prev[c] = EndOf(d_list, w) /\ link.next[c] = D /\ D \in Nodes /\ EndOf(d_list, w) \in Nodes
      <4>1. D \in Nodes /\ EndOf(d_list, w) \in Nodes
        BY <1>1, NodesAre, EndsAre
      <4> QED BY <1>2, <2>9, <4>1
    <3>3. link' = SetPrev(link, D, EndOf(d_list, w))
      <4>1. Stored(link, On("pass_back", c)) = SetPrev(link, D, link.prev[c])
        BY <3>2, PassBack
      <4> QED BY <2>5, <3>1, <3>2, <4>1
    <3>4. /\ link' \in LinkType /\ link'.next = link.next
          /\ \A n \in Nodes : n # D => link'.prev[n] = link.prev[n]
      BY <1>1, <3>2, <3>3 DEF SetPrev, LinkType
    <3>5. List(link', d_list, w, D)
      BY <1>2, <2>9, <3>3
    <3>6. Reaches(link, link', d_list, ToSet(w))
      BY <1>1, <3>4 DEF Reaches
    <3>7. link'.prev[c] = EndOf(d_list, w) /\ link'.next[c] = D
      BY <1>1, <3>2, <3>4, NodesAre
    <3>8. Exited(c, u, w, x, k + 1)'
      BY <1>1, <2>6, <2>7, <2>9, <3>4, <3>5, <3>6, <3>7 DEF Exited, p
    <3> QED BY <2>6, <2>9, <3>4, <3>8
  <2>10. CASE k \in {5, 6}
    <3>1. link' = link
      <4>1. List(link, d_list, w, d_list.tail) /\ link.prev[c] = EndOf(d_list, w) /\ link.next[c] = d_list.tail
        BY <1>1, <1>2, <2>10
      <4>2. Stored(link, On("pass_forward", c)) = link /\ Stored(link, On("pass_back", c)) = link
        BY <1>1, <4>1, Forgotten
      <4> QED BY <2>1, <2>5, <4>2
    <3>2. link' \in LinkType /\ List(link', r_list, u, R) /\ List(link', d_list, w, D)
          /\ link'.prev[c] = EndOf(d_list, w) /\ link'.next[c] = D
      BY <1>1, <1>2, <2>10, <3>1
    <3>3. CASE k = 5
      <4>1. Exited(c, u, w, x, k + 1)'
        BY <1>1, <2>6, <3>2, <3>3 DEF Exited, p
      <4> QED BY <2>6, <3>2, <3>3, <4>1
    <3>4. CASE k = 6
      <4>1. Linking(link', d_list, w, x, c, 7 - 7)
        BY <1>1, <3>2 DEF Linking
      <4>2. code'[c] = Left(p, 7) /\ 7 # 10
        BY <2>6, <3>2, <3>4
      <4>3. Burying(c, u, w, x, 7)'
        BY <1>1, <2>6, <3>2, <4>1, <4>2 DEF Burying, p
      <4> QED BY <2>6, <3>2, <3>4, <4>3
    <3> QED BY <2>10, <3>3, <3>4
  <2> QED BY <1>9, <2>8, <2>9, <2>10
<1>10. CASE k \in {1, 4}
  <2>1. code[c] # <<>> /\ Head(code[c]) = p[k] /\ Tail(code[c]) = Left(p, k + 1)
    BY <1>1, <1>5, AtIs
  <2>2. Does(p[k])
    BY <1>1, <1>6, <2>1, StatementStep
  <2>3. p[k] = Do("unlock") \/ (k = 4 /\ p[k] = On("zombie", c))
    BY <1>4, <1>10 DEF FreeAt
  <2>4. Unlock \/ (k = 4 /\ SetState /\ p[k] = On("zombie", c))
    BY <2>2, <2>3, DoesIs
  <2>5. p[k].op # "unuse"
    BY <2>3, OpsAre
  <2>6. Others /\ link' = link /\ code' = [code EXCEPT ![c] = Left(p, k + 1)]
    <3>1. CASE Unlock
      BY <1>1, <2>1, <3>1 DEF Unlock, Rest, Others
    <3>2. CASE k = 4 /\ SetState /\ p[k] = On("zombie", c)
      <4>1. On("zombie", c).op = "zombie" /\ On("zombie", c).elem = c
        BY OpsAre
      <4>2. state' = [state EXCEPT ![c] = "ZOMBIE"]
        BY <1>1, <2>1, <3>2, <4>1 DEF SetState, Statement
      <4>3. state' = state
        BY <1>1, <4>2 DEF Types
      <4> QED BY <1>1, <2>1, <3>2, <4>3 DEF SetState, Rest, Others
    <3> QED BY <2>4, <3>1, <3>2
  <2>7. /\ link' \in LinkType /\ cur_process' = c /\ code'[c] = Left(p, k + 1) /\ state' = state /\ func' = func
        /\ k # 6 /\ Exited(c, u, w, x, k + 1)' => IInv'
    BY <1>1, <1>8, <2>5, <2>6
  <2>8. Exited(c, u, w, x, k + 1)'
    BY <1>1, <1>2, <1>10, <2>6, <2>7 DEF Exited, p
  <2> QED BY <1>10, <2>7, <2>8
<1> QED BY <1>9, <1>10

-----------------------------------------------------------------------------
(* Steps of a process that stands at the front of r_list.                  *)

LEMMA StillIs ==
  ASSUME NEW u, NEW w, NEW x, Now(u, w, x), Dead(w, x), NEW c, c = cur_process, Still(c, u, w, x)
  PROVE  /\ c \in Slots /\ link \in LinkType /\ state[c] = "RUN" /\ StillCode(c) /\ c # x /\ c \notin ToSet(w)
         /\ u \in Seqs /\ w \in Seqs /\ x \in Slots \cup {D} /\ ToSet(u) = Runnable \ {c} /\ Types /\ Who
         /\ Fronts(link, r_list, c, u, R) /\ Hangs(link, r_list, c, u, R) /\ List(link, d_list, w, x)
         /\ link.next[r_list.head] = c /\ Setting(link, r_list, u, R, c) /\ c \notin ToSet(u)
<1>1. /\ c \in Slots /\ link \in LinkType /\ state[c] = "RUN" /\ StillCode(c)
      /\ u \in Seqs /\ w \in Seqs /\ x \in Slots \cup {D} /\ ToSet(u) = Runnable \ {c} /\ Types /\ Who
      /\ Fronts(link, r_list, c, u, R) /\ List(link, d_list, w, x)
  BY DEF Now, Types, Still
<1>2. c # x /\ c \notin ToSet(w)
  BY <1>1 DEF Dead
<1>3. Hangs(link, r_list, c, u, R) /\ link.next[r_list.head] = c
  BY <1>1 DEF Fronts, From, Hangs
<1>4. Setting(link, r_list, u, R, c) /\ c \notin ToSet(u)
  BY <1>1, Two
<1> QED BY <1>1, <1>2, <1>3, <1>4

LEMMA StillTick ==
  ASSUME NEW u, NEW w, NEW x, Now(u, w, x), Dead(w, x), NEW c, c = cur_process, Still(c, u, w, x), Tick
  PROVE  IInv'
<1>1. /\ c \in Slots /\ state[c] = "RUN" /\ StillCode(c)
      /\ Hangs(link, r_list, c, u, R) /\ List(link, d_list, w, x)
  BY StillIs
<1>2. func' = func /\ code' = code
  BY DEF Tick
<1>3. Waiting(c)'
  <2>1. CASE func[c] \in {"idle", "kernel"}
    <3>1. Shielded(cur_process)
      BY <2>1 DEF Shielded
    <3> QED BY <3>1, Undisturbed
  <2>2. CASE func[c] = "returns" /\ \E k \in 1 .. 2 : code[c] = Left(Free(c), k)
    <3>1. PICK k \in 1 .. 2 : code[c] = Left(Free(c), k)
      BY <2>2
    <3>2. k \in 1 .. 4
      OBVIOUS
    <3> QED BY <2>2, <3>1, <3>2, CutNow
  <2>3. CASE code[c] = <<>>
    BY <1>2, <2>3 DEF Waiting
  <2>4. CASE func[c] = "login" /\ \E f \in Commands : code[c] = <<Created(f)>>
    BY <1>2, <2>4 DEF Waiting
  <2> QED BY <1>1, <2>1, <2>2, <2>3, <2>4 DEF StillCode
<1> QED BY <1>1, <1>3, TickRuns

\* New statements for a process that goes on.
LEMMA Continues ==
  ASSUME NEW u, NEW w, NEW x, Now(u, w, x), Dead(w, x), NEW c, c = cur_process, state[c] = "RUN", NEW q,
         Others, link' = link, code' = [code EXCEPT ![c] = q],
         \A s \in Slots : On("unuse", s) \notin ToSet(code[c])
  PROVE  /\ Dead(w, x)' /\ link' \in LinkType /\ code'[c] = q /\ func' = func /\ state' = state /\ cur_process' = c
         /\ cuts' = cuts
<1>1. Types /\ c \in Slots /\ link \in LinkType
  BY DEF Now, Types
<1>2. /\ code'[c] = q /\ func' = func /\ state' = state /\ cur_process' = c /\ link' \in LinkType /\ cuts' = cuts
      /\ \A s \in Slots \ {c} : code'[s] = code[s]
  BY <1>1 DEF Others, Types
<1>3. c # x
  BY <1>1 DEF Dead
<1>4. Dead(w, x)'
  BY <1>1, <1>2, <1>3, DeadStep
<1> QED BY <1>2, <1>4

LEMMA StillPicks ==
  ASSUME NEW u, NEW w, NEW x, Now(u, w, x), Dead(w, x), NEW c, c = cur_process, Still(c, u, w, x),
         code[c] = <<Do("pick")>>, func[c] \in {"idle", "kernel"}, Next
  PROVE  IInv'
<1>1. /\ c \in Slots /\ state[c] = "RUN" /\ u \in Seqs /\ w \in Seqs /\ x \in Slots \cup {D}
      /\ Fronts(link, r_list, c, u, R) /\ Hangs(link, r_list, c, u, R) /\ List(link, d_list, w, x)
  BY StillIs
<1>2. Pick
  <2>1. code[c] # <<>> /\ Head(code[c]) = Do("pick")
    OBVIOUS
  <2>2. Shielded(cur_process)
    BY DEF Shielded
  <2>3. Does(Do("pick"))
    BY <2>1, <2>2, StatementStep, Undisturbed
  <2> QED BY <2>3, DoesIs
<1> DEFINE q == Again(c)
<1>3. q \in Seq(All(c)) /\ Len(q) = 9
  BY AgainIs
<1>4. code' = [code EXCEPT ![c] = q] /\ Others /\ link' = link
  <2>1. Requeue(c) \o <<Do("switch")>> = q /\ Tail(code[c]) = <<>>
    BY <1>1 DEF Requeue, Again
  <2>2. q \o <<>> = q
    <3> DEFINE A == All(c)
    <3>1. q \in Seq(A)
      BY <1>3
    <3> HIDE DEF q, A
    <3> QED BY <3>1, ConcatEmptySeq
  <2>3. code' = [code EXCEPT ![c] = Requeue(c) \o <<Do("switch")>> \o <<>>]
    BY <1>2, <2>1 DEF Pick
  <2> HIDE DEF q
  <2>4. Others /\ link' = link
    BY <1>2 DEF Pick, Others
  <2> QED BY <2>1, <2>2, <2>3, <2>4
<1>5. q = Left(q, 1)
  BY <1>3, AllLeft
<1>6. \A s \in Slots : On("unuse", s) \notin ToSet(code[c])
  <2> DEFINE d == Do("pick")
  <2> TAKE s \in Slots
  <2> DEFINE z == On("unuse", s)
  <2>1. d.op = "pick" /\ z.op = "unuse"
    BY OpsAre
  <2> HIDE DEF d, z
  <2>2. code[c] = <<d>>
    BY DEF d
  <2>3. z \notin ToSet(code[c])
    BY <2>1, <2>2 DEF ToSet
  <2> QED BY <2>3 DEF z
<1> HIDE DEF q
<1>7. Dead(w, x)' /\ link' \in LinkType /\ code'[c] = q /\ func' = func /\ state' = state /\ cur_process' = c
  BY <1>1, <1>4, <1>6, Continues
<1>8. Requeueing(c, u, w, x, 1)'
  BY <1>1, <1>4, <1>5, <1>7 DEF Requeueing, q
<1>9. Situation(cur_process, u, w, x)'
  <2>1. 1 \in 1 .. 9
    OBVIOUS
  <2> QED BY <1>7, <1>8, <2>1 DEF Situation
<1> QED BY <1>1, <1>4, <1>7, <1>9, Stayed

\* A process that looks again: the kernel process, a command, the login process.
LEMMA StillLooks ==
  ASSUME NEW u, NEW w, NEW x, Now(u, w, x), Dead(w, x), NEW c, c = cur_process, Still(c, u, w, x),
         code[c] = <<>>, func[c] # "exits", Next
  PROVE  IInv'
<1>1. /\ c \in Slots /\ state[c] = "RUN" /\ StillCode(c) /\ u \in Seqs /\ w \in Seqs /\ x \in Slots \cup {D}
      /\ Fronts(link, r_list, c, u, R) /\ List(link, d_list, w, x) /\ Types /\ Who
  BY StillIs
<1>2. func[c] # "idle"
  <2>1. <<Do("pick")>> # <<>>
    OBVIOUS
  <2>2. \A k \in 1 .. 3 : Left(Boot, k) # <<>>
    <3> TAKE k \in 1 .. 3
    <3> DEFINE p == Boot
               S == All(c)
    <3>1. p \in Seq(S) /\ Len(p) = 3
      BY BootIs
    <3> HIDE DEF p, S
    <3>2. Left(p, k) # <<>>
      BY <3>1, LeftIs
    <3> QED BY <3>2 DEF p
  <2> QED BY <1>1, <2>1, <2>2 DEF StillCode, BootCode
<1>3. \A s \in Slots : On("unuse", s) \notin ToSet(code[c])
  BY DEF ToSet
<1>4. KernelLoop \/ CommandReturns \/ ShellCommand \/ Tick
  <2>1. Ready
    BY DEF Ready
  <2>2. ~Store /\ ~Unlock /\ ~SetState /\ ~proc_create /\ ~Pick /\ ~Switch
    BY <2>1 DEF Store, Unlock, SetState, proc_create, Pick, Switch, Next1
  <2> QED BY <1>2, <2>1, <2>2 DEF Next, Go, UserInput, IdleLoop, CommandExits
<1>5. Tick => IInv'
  BY StillTick
<1>6. ASSUME NEW q, Others, link' = link, code' = [code EXCEPT ![c] = q],
             code'[c] = q /\ func' = func => StillCode(c)',
             func[c] = "login" /\ q # <<>> => \E s \in Slots : state[s] = "UNUSED"
      PROVE  IInv'
  <2>1. Dead(w, x)' /\ link' \in LinkType /\ code'[c] = q /\ func' = func /\ state' = state /\ cur_process' = c
    BY <1>1, <1>3, <1>6, Continues
  <2>2. Still(c, u, w, x)'
    BY <1>1, <1>6, <2>1 DEF Still
  <2>3. Situation(cur_process, u, w, x)'
    BY <2>1, <2>2 DEF Situation
  <2> QED BY <1>1, <1>6, <2>1, <2>3, Stayed
<1>7. ASSUME KernelLoop
      PROVE  IInv'
  <2> DEFINE q == <<Do("pick")>>
  <2>1. Others /\ link' = link /\ code' = [code EXCEPT ![c] = q] /\ func[c] = "kernel"
    BY <1>7 DEF KernelLoop, Continue, Others
  <2>2. code'[c] = q /\ func' = func => StillCode(c)'
    BY <2>1 DEF StillCode
  <2> HIDE DEF q
  <2>3. func[c] # "login"
    BY <2>1
  <2> QED BY <1>6, <2>1, <2>2, <2>3
<1>8. ASSUME CommandReturns
      PROVE  IInv'
  <2> DEFINE q == Free(c)
  <2>1. func[c] = "returns"
    BY <1>1, <1>8 DEF CommandReturns, Who
  <2>2. Others /\ link' = link /\ code' = [code EXCEPT ![c] = q]
    BY <1>8 DEF CommandReturns, Continue, Others, Free
  <2>3. q = Left(q, 1)
    <3>1. q \in Seq(All(c))
      BY FreeIs
    <3> QED BY <3>1, AllLeft
  <2>4. code'[c] = q /\ func' = func => StillCode(c)'
    <3>1. 1 \in 1 .. 2
      OBVIOUS
    <3>2. code'[c] = q => \E k \in 1 .. 2 : code'[c] = Left(Free(c), k)
      BY <2>3, <3>1
    <3> HIDE DEF q
    <3> QED BY <2>1, <3>2 DEF StillCode
  <2> HIDE DEF q
  <2> QED BY <1>6, <2>1, <2>2, <2>4
<1>9. ASSUME ShellCommand
      PROVE  IInv'
  <2>1. PICK f \in Commands : code' = [code EXCEPT ![c] = <<Created(f)>>]
    BY <1>9 DEF ShellCommand
  <2> DEFINE q == <<Created(f)>>
  <2>2. Others /\ link' = link /\ func[c] = "login" /\ \E s \in Slots : state[s] = "UNUSED"
    BY <1>9 DEF ShellCommand, Others
  <2>3. code'[c] = q /\ func' = func => StillCode(c)'
    BY <2>2 DEF StillCode
  <2>4. code' = [code EXCEPT ![c] = q]
    BY <2>1
  <2> HIDE DEF q
  <2> QED BY <1>6, <2>2, <2>3, <2>4
<1> QED BY <1>4, <1>5, <1>7, <1>8, <1>9

LEMMA StillFrees ==
  ASSUME NEW u, NEW w, NEW x, Now(u, w, x), Dead(w, x), NEW c, c = cur_process, Still(c, u, w, x),
         func[c] = "returns", NEW k \in 1 .. 2, code[c] = Left(Free(c), k), Next
  PROVE  IInv'
<1> DEFINE p == Free(c)
<1>1. /\ c \in Slots /\ state[c] = "RUN" /\ u \in Seqs /\ w \in Seqs /\ x \in Slots \cup {D} /\ Types
      /\ link \in LinkType /\ c # x /\ c \notin ToSet(w)
      /\ Fronts(link, r_list, c, u, R) /\ Hangs(link, r_list, c, u, R) /\ List(link, d_list, w, x)
      /\ Setting(link, r_list, u, R, c) /\ R = r_list.tail
  BY StillIs DEF R
<1>2. FreeAt(p, c) /\ code[c] = Left(p, k)
  BY FreeIs DEF FreeAt
<1> HIDE DEF p
<1>3. At(p, k, p[k]) /\ code[c] # <<>>
  <2>1. k \in 1 .. 11
    OBVIOUS
  <2> QED BY <1>2, <2>1, FreeAtIs
<1>4. Tick => IInv'
  BY StillTick
<1>5. HasStore(Left(p, k + 1))
  <2>1. k + 1 \in 1 .. 10
    OBVIOUS
  <2> QED BY <1>2, <2>1, FreePending
<1>6. CASE k = 1
  <2>1. p[k] = Do("unlock")
    BY <1>2, <1>6 DEF FreeAt
  <2>2. code[c] # <<>> /\ Head(code[c]) = Do("unlock") /\ Tail(code[c]) = Left(p, k + 1)
    BY <1>3, <2>1, AtIs
  <2>3. Does(Do("unlock")) \/ Tick
    BY <2>2, StatementStep
  <2> SUFFICES ASSUME Unlock
               PROVE  IInv'
    BY <1>4, <2>3, DoesIs
  <2>4. Others /\ link' = link /\ code' = [code EXCEPT ![c] = Left(p, k + 1)]
    BY <2>2 DEF Unlock, Rest, Others
  <2>5. p[k].op # "unuse"
    BY <2>1, OpsAre
  <2>6. Dead(w, x)'
    BY <1>1, <1>3, <1>5, <2>4, <2>5, DeadStays
  <2>7. code'[c] = Left(p, 2) /\ func' = func /\ state' = state /\ cur_process' = c /\ link' \in LinkType
    BY <1>1, <1>6, <2>4 DEF Others, Types
  <2>8. StillCode(c)'
    <3>1. 2 \in 1 .. 2
      OBVIOUS
    <3> QED BY <2>7, <3>1 DEF StillCode, p
  <2>9. Still(c, u, w, x)'
    BY <1>1, <2>4, <2>7, <2>8 DEF Still
  <2>10. Situation(cur_process, u, w, x)'
    BY <2>6, <2>7, <2>9 DEF Situation
  <2> QED BY <1>1, <2>4, <2>7, <2>10, Stayed
<1>7. CASE k = 2
  <2> DEFINE st == p[k]
  <2>1. st = On("pass_forward", c)
    BY <1>2, <1>7 DEF FreeAt
  <2>2. st.op \in StoreOps
    BY <2>1, StoresAre
  <2>3. st.op # "unuse"
    BY <2>2 DEF StoreOps
  <2>4. Executes(p, k, st) \/ Tick
    BY <1>3, <2>2, Stores
  <2> SUFFICES ASSUME Executes(p, k, st)
               PROVE  IInv'
    BY <1>4, <2>4
  <2>5. Others /\ link' = Stored(link, st) /\ code' = [code EXCEPT ![c] = Left(p, k + 1)]
    BY DEF Executes
  <2>6. Dead(w, x)'
    BY <1>1, <1>3, <1>5, <2>3, <2>5, DeadStays
  <2>7. /\ code'[c] = Left(p, 3) /\ func' = func /\ state' = state /\ cur_process' = c /\ cuts' = cuts
    BY <1>1, <1>7, <2>5 DEF Others, Types
  <2>8. PassedForward(link, link', r_list, u, r_list.tail, c)
    BY <1>1, <2>1, <2>5, PassForwardIs
  <2>9. /\ link' \in LinkType /\ Hangs(link', r_list, c, u, R) /\ link'.next[r_list.head] = StartOf(u, R)
        /\ List(link', d_list, w, x)
    <3>1. Reaches(link, link', r_list, {})
      BY <2>8 DEF PassedForward
    <3>2. List(link', d_list, w, x)
      BY <1>1, <3>1, RunListStored
    <3> QED BY <1>1, <2>8, <3>2 DEF PassedForward, Starts
  <2>10. Leaving(c, u, w, x, 3)'
    BY <1>1, <2>7, <2>9 DEF Leaving, p
  <2>11. Situation(cur_process, u, w, x)'
    <3>1. 3 \in 3 .. 6
      OBVIOUS
    <3> QED BY <2>6, <2>7, <2>10, <3>1 DEF Situation
  <2> QED BY <1>1, <2>5, <2>9, <2>11, Stayed
<1> QED BY <1>6, <1>7

LEMMA StillExits ==
  ASSUME NEW u, NEW w, NEW x, Now(u, w, x), Dead(w, x), NEW c, c = cur_process, Still(c, u, w, x),
         func[c] = "exits", code[c] = <<>>, Next
  PROVE  IInv'
<1>1. /\ c \in Slots /\ state[c] = "RUN" /\ u \in Seqs /\ w \in Seqs /\ x \in Slots \cup {D} /\ Types /\ Who
      /\ link \in LinkType /\ c # x /\ c \notin ToSet(w) /\ c \notin ToSet(u) /\ ToSet(u) = Runnable \ {c}
      /\ Hangs(link, r_list, c, u, R) /\ List(link, d_list, w, x)
      /\ Setting(link, r_list, u, R, c) /\ R = r_list.tail /\ D = d_list.tail
  BY StillIs DEF R, D
<1>2. Tick => IInv'
  BY StillTick
<1>3. CommandExits \/ Tick
  <2>1. Ready
    BY DEF Ready
  <2>2. ~Store /\ ~Unlock /\ ~SetState /\ ~proc_create /\ ~Pick /\ ~Switch
    BY <2>1 DEF Store, Unlock, SetState, proc_create, Pick, Switch, Next1
  <2> QED BY <2>1, <2>2 DEF Next, Go, UserInput, IdleLoop, KernelLoop, CommandReturns, ShellCommand
<1> SUFFICES ASSUME CommandExits
             PROVE  IInv'
  BY <1>2, <1>3
<1>4. /\ link' = Done(link, Move(d_list, c)) /\ state' = [state EXCEPT ![c] = "ZOMBIE"]
      /\ func' = [func EXCEPT ![c] = "exited"] /\ UNCHANGED <<code, cuts, lately, cur_process>>
  BY DEF CommandExits, Move
<1> DEFINE v == Append(w, c)
<1>5. link' \in LinkType /\ List(link', r_list, u, R) /\ List(link', d_list, Append(w, c), D)
  <2>1. Setting(link, d_list, w, x, c)
    BY <1>1, Two
  <2>2. Aside(d_list, w, x, r_list, ToSet(u)) /\ Aside(r_list, u, R, d_list, ToSet(w) \cup {c})
    BY <1>1, TwoAside
  <2> DEFINE m2 == Done(link, Move(d_list, c))
  <2>3. m2 \in LinkType /\ List(m2, r_list, u, r_list.tail) /\ List(m2, d_list, Append(w, c), d_list.tail)
    BY <1>1, <2>1, <2>2, MovedOver
  <2> QED BY <1>1, <1>4, <2>3
<1>6. /\ state' \in [Slots -> {"RUN", "ZOMBIE", "UNUSED"}] /\ state'[c] = "ZOMBIE"
      /\ func' \in [Slots -> {"none", "idle", "kernel", "login", "returns", "exits", "exited"}] /\ func'[c] = "exited"
      /\ \A s \in Slots \ {c} : state'[s] = state[s] /\ func'[s] = func[s]
      /\ code' = code /\ cuts' = cuts /\ lately' = lately /\ cur_process' = c
  BY <1>1, <1>4 DEF Types
<1>7. Types'
  BY <1>1, <1>5, <1>6 DEF Types
<1>8. Who'
  <2>1. ASSUME NEW s \in Slots \ {c}, state'[s] = "RUN"
        PROVE  Waiting(s)'
    <3>1. Waiting(s)
      BY <1>1, <1>6, <2>1 DEF Who
    <3> QED BY <1>6, <3>1 DEF Waiting
  <2>2. ASSUME NEW s \in Slots, func'[s] = "login", code'[s] # <<>>
        PROVE  \E i \in Slots : state'[i] = "UNUSED"
    <3>1. s # c /\ func[s] = "login" /\ code[s] # <<>>
      BY <1>6, <2>2
    <3>2. PICK i \in Slots : state[i] = "UNUSED"
      BY <1>1, <3>1 DEF Who
    <3>3. i # c
      BY <1>1, <3>2
    <3> QED BY <1>6, <3>2, <3>3
  <2>3. \A s \in Slots : /\ func'[s] = "idle" <=> s = IdleSlot
                         /\ func'[s] = "login" => s = 3
                         /\ func'[s] \in {"idle", "kernel", "login", "exits"} => state'[s] = "RUN"
                         /\ func'[s] = "exited" => state'[s] # "RUN"
                         /\ func'[s] = "none" => state'[s] = "UNUSED"
    <3> TAKE s \in Slots
    <3>1. CASE s = c
      <4>1. c # IdleSlot
        BY <1>1 DEF Who
      <4> QED BY <1>6, <3>1, <4>1
    <3>2. CASE s # c
      BY <1>1, <1>6, <3>2 DEF Who
    <3> QED BY <3>1, <3>2
  <2> QED BY <1>6, <2>1, <2>2, <2>3 DEF Who
<1>9. v \in Seqs /\ ToSet(v) = ToSet(w) \cup {c}
  BY <1>1, AppendIs
<1>10. Dead(v, D)'
  <2> HIDE DEF v
  <2>a. code' = code
    BY <1>6
  <2>1. \A s \in Slots : Pending(s)' <=> Pending(s)
    BY <2>a DEF Pending
  <2>2. \A s \in ToSet(v) : state'[s] = "ZOMBIE"
    <3>1. \A s \in ToSet(w) : s \in Slots \ {c} /\ state[s] = "ZOMBIE"
      <4>1. \A s \in ToSet(w) : s \in Slots
        BY <1>1, SeqIs
      <4>2. \A s \in ToSet(w) : state[s] = "ZOMBIE"
        BY DEF Dead
      <4> QED BY <1>1, <4>1, <4>2
    <3>2. \A s \in ToSet(w) : state'[s] = "ZOMBIE"
      BY <1>6, <3>1
    <3> QED BY <1>6, <1>9, <3>2
  <2>3. ASSUME NEW s \in Slots, state'[s] = "ZOMBIE", ~Pending(s)'
        PROVE  s \in ToSet(v) \/ On("unuse", s) \in ToSet(code'[IdleSlot])
    <3>1. CASE s = c
      BY <1>9, <3>1
    <3>2. CASE s # c
      BY <1>6, <1>9, <2>1, <2>3, <3>2 DEF Dead
    <3> QED BY <3>1, <3>2
  <2>4. D \notin Slots
    BY NodesAre, ListsApart DEF D
  <2> QED BY <2>2, <2>3, <2>4 DEF Dead
<1>11. Exited(c, u, w, D, 0)'
  BY <1>1, <1>5, <1>6 DEF Exited
<1>12. Situation(cur_process, u, w, D)'
  <2>1. 0 \in 0 .. 6
    OBVIOUS
  <2> HIDE DEF v
  <2>2. \E k \in 0 .. 6 : Exited(c, u, w, D, k)' /\ (Dead(IF k = 0 THEN Append(w, c) ELSE w, D))'
    <3>1. (Dead(IF 0 = 0 THEN Append(w, c) ELSE w, D))'
      BY <1>10 DEF v
    <3> QED BY <1>11, <2>1, <3>1
  <2> QED BY <1>6, <2>2 DEF Situation
<1>13. ToSet(u) = Runnable' \ {cur_process'}
  BY <1>1, <1>6 DEF Runnable
<1> QED BY <1>1, <1>7, <1>8, <1>12, <1>13, Conclude

-----------------------------------------------------------------------------
(* proc_create(): the slot.                                                *)

Wrapped(n, N) == n % N = IF n < N THEN n ELSE n - N

LEMMA Wraps ==
  ASSUME NEW N \in Nat \ {0}, NEW n \in Nat, n < 2 * N
  PROVE  Wrapped(n, N)
<1> SUFFICES n % N = IF n < N THEN n ELSE n - N
  BY DEF Wrapped
<1> DEFINE q == n \div N
           r == n % N
<1>1. q \in Nat /\ r \in 0 .. N - 1 /\ n = N * q + r
  OBVIOUS
<1> HIDE DEF q, r
<1>2. CASE q = 0
  BY <1>1, <1>2 DEF r
<1>3. CASE q = 1
  BY <1>1, <1>3 DEF r
<1>4. CASE q > 1
  <2>1. PICK d \in Nat : q = 2 + d
    <3>1. q - 2 \in Nat /\ q = 2 + (q - 2)
      BY <1>1, <1>4
    <3> QED BY <3>1
  <2>2. N * q = 2 * N + N * d /\ N * d \in Nat
    BY <2>1
  <2> QED BY <1>1, <2>2
<1> QED BY <1>1, <1>2, <1>3, <1>4

\* The slots in the order in which proc_create() looks at them.
Looked(i) == (lately + 1 + i) % PROC_NUM_MAX

LEMMA LookedAt ==
  ASSUME lately \in Slots, NEW i \in Slots, NEW n, n = lately + 1 + i
  PROVE  n \in Nat /\ Looked(i) = IF n < PROC_NUM_MAX THEN n ELSE n - PROC_NUM_MAX
<1>1. n \in Nat /\ n < 2 * PROC_NUM_MAX /\ PROC_NUM_MAX \in Nat \ {0}
  BY SlotsAssumption DEF Slots
<1>2. Wrapped(n, PROC_NUM_MAX)
  BY <1>1, Wraps
<1>3. Looked(i) = n % PROC_NUM_MAX
  BY DEF Looked
<1> QED BY <1>1, <1>2, <1>3 DEF Wrapped

LEMMA LookedIs ==
  ASSUME lately \in Slots
  PROVE  /\ \A i \in Slots : Looked(i) \in Slots
         /\ \A s \in Slots : \E i \in Slots : Looked(i) = s
         /\ lately + 1 \in Slots => Looked(0) = lately + 1
<1> DEFINE N == PROC_NUM_MAX
<1>1. N \in Nat \ {0} /\ Slots = 0 .. N - 1
  BY SlotsAssumption DEF Slots
<1> HIDE DEF N
<1>2. \A i \in Slots : Looked(i) = IF lately + 1 + i < N THEN lately + 1 + i ELSE lately + 1 + i - N
  <2> TAKE i \in Slots
  <2> DEFINE n == lately + 1 + i
  <2>1. n = lately + 1 + i
    OBVIOUS
  <2> HIDE DEF n
  <2>2. Looked(i) = IF n < N THEN n ELSE n - N
    BY <2>1, LookedAt DEF N
  <2>3. lately \in Nat /\ i \in Nat /\ N \in Nat /\ n \in Nat
    BY <1>1, <2>1
  <2> QED BY <2>1, <2>2, <2>3
<1>3. \A i \in Slots : Looked(i) \in Slots
  BY <1>1, <1>2
<1>4. ASSUME NEW s \in Slots
      PROVE  \E i \in Slots : Looked(i) = s
  <2>1. CASE s > lately
    <3>1. s - lately - 1 \in Slots /\ lately + 1 + (s - lately - 1) = s
      BY <1>1, <2>1
    <3>2. Looked(s - lately - 1) = s
      BY <1>1, <1>2, <3>1
    <3> QED BY <3>1, <3>2
  <2>2. CASE ~(s > lately)
    <3>1. s - lately - 1 + N \in Slots /\ lately + 1 + (s - lately - 1 + N) = s + N
      BY <1>1, <2>2
    <3>2. Looked(s - lately - 1 + N) = s
      BY <1>1, <1>2, <3>1
    <3> QED BY <3>1, <3>2
  <2> QED BY <2>1, <2>2
<1>5. lately + 1 \in Slots => Looked(0) = lately + 1
  <2>1. 0 \in Slots /\ lately + 1 + 0 = lately + 1
    BY <1>1
  <2> QED BY <1>1, <1>2, <2>1
<1> QED BY <1>3, <1>4, <1>5

LEMMA UnusedFound ==
  ASSUME lately \in Slots, \E s \in Slots : state[s] = "UNUSED"
  PROVE  /\ FirstUnused \in Slots /\ state[FirstUnused] = "UNUSED"
         /\ lately + 1 \in Slots /\ state[lately + 1] = "UNUSED" => FirstUnused = lately + 1
<1> DEFINE I == {i \in Slots : state[Looked(i)] = "UNUSED"}
           n == CHOOSE i \in I : \A j \in I : i <= j
<1>1. FirstUnused = Looked(n)
  BY DEF FirstUnused, Looked
<1>2. n \in I /\ \A j \in I : n <= j
  <2>1. I # {}
    BY LookedIs
  <2>2. I \in SUBSET Nat
    BY DEF Slots
  <2> HIDE DEF I
  <2>3. \E i \in I : \A j \in I : i <= j
    BY <2>1, <2>2, LeastExists
  <2> QED BY <2>3
<1>3. ASSUME lately + 1 \in Slots, state[lately + 1] = "UNUSED"
      PROVE  FirstUnused = lately + 1
  <2>1. 0 \in Slots /\ Looked(0) = lately + 1
    BY <1>3, LookedIs, SlotsAssumption DEF Slots
  <2>2. 0 \in I
    BY <1>3, <2>1
  <2>3. n \in Nat
    BY <1>2 DEF Slots
  <2> HIDE DEF n, I
  <2>4. n = 0
    BY <1>2, <2>2, <2>3
  <2> QED BY <1>1, <2>1, <2>4
<1> HIDE DEF n
<1> QED BY <1>1, <1>2, <1>3, LookedIs

-----------------------------------------------------------------------------
(* proc_create(): the lists.                                               *)

LEMMA ConsAppend ==
  ASSUME NEW u \in Seqs, NEW c \in Slots, NEW s \in Slots
  PROVE  Append(<<c>> \o u, s) = <<c>> \o Append(u, s)
<1> DEFINE a == Append(<<c>> \o u, s)
           b == <<c>> \o Append(u, s)
<1>1. u \in Seq(Slots) /\ Len(u) \in Nat
  BY SeqIs
<1>2. a \in Seq(Slots) /\ b \in Seq(Slots) /\ Len(a) = Len(u) + 2 /\ Len(b) = Len(u) + 2
  BY <1>1
<1>3. \A i \in 1 .. Len(u) + 2 : a[i] = b[i]
  BY <1>1
<1> HIDE DEF a, b
<1>4. a = b
  BY <1>2, <1>3, SeqEqual
<1> QED BY <1>4 DEF a, b

LEMMA ClearedIs ==
  ASSUME NEW m \in LinkType, NEW s \in Slots, NEW m2, m2 = Cleared(m, s)
  PROVE  /\ m2 \in LinkType /\ m2.prev[s] = NULL /\ m2.next[s] = NULL
         /\ \A l \in Lists : Reaches(m, m2, l, {s})
<1>1. s \in Nodes
  BY NodesAre
<1>2. /\ m2 \in LinkType /\ m2.prev[s] = NULL /\ m2.next[s] = NULL
      /\ \A n \in Nodes : n # s => m2.next[n] = m.next[n] /\ m2.prev[n] = m.prev[n]
  BY <1>1 DEF Cleared, LinkType
<1> QED BY <1>2 DEF Reaches

Entered(m, u, w, x, c, s) ==
  m \in LinkType /\ Fronts(m, r_list, c, Append(u, s), R) /\ List(m, d_list, w, x)

LEMMA CreatedLinks ==
  ASSUME NEW u, NEW w, NEW x, Now(u, w, x), Dead(w, x), NEW c, c = cur_process, Still(c, u, w, x),
         NEW s \in Slots, state[s] = "UNUSED",
         link' = Done(Cleared(link, s), list_push_back(r_list, s))
  PROVE  Entered(link', u, w, x, c, s)
<1>1. /\ c \in Slots /\ link \in LinkType /\ u \in Seqs /\ w \in Seqs /\ x \in Slots \cup {D} /\ Types /\ Who
      /\ Fronts(link, r_list, c, u, R) /\ List(link, d_list, w, x) /\ c \notin ToSet(u)
      /\ ToSet(u) = Runnable \ {c} /\ state[c] = "RUN" /\ c # x /\ c \notin ToSet(w)
  BY StillIs
<1>2. /\ s # c /\ s \notin ToSet(u) /\ s \notin ToSet(w) /\ s # x
  BY <1>1 DEF Runnable, Dead
<1>3. /\ r_list \in Lists /\ d_list \in Lists /\ r_list # d_list /\ R = r_list.tail /\ D = d_list.tail
      /\ R \notin Slots /\ r_list.head \notin Slots /\ D \notin Slots /\ d_list.head \notin Slots
  BY NodesAre, ListsApart DEF R, D
<1> DEFINE v == <<c>> \o u
           m == Cleared(link, s)
           S == ToSet(v) \cup {s}
<1>4. v \in Seqs /\ ToSet(v) = ToSet(u) \cup {c}
  BY <1>1, ConsIs
<1>5. List(link, r_list, v, R)
  BY <1>1, <1>3, FirstOfList
<1>6. /\ m \in LinkType /\ m.prev[s] = NULL /\ m.next[s] = NULL
      /\ Reaches(link, m, r_list, {s}) /\ Reaches(link, m, d_list, {s})
  BY <1>1, <1>3, ClearedIs
<1>7. link' = Done(m, list_push_back(r_list, s))
  OBVIOUS
<1>8. v = <<c>> \o u
  OBVIOUS
<1> HIDE DEF v, m
<1>9. ToSet(v) \subseteq Slots /\ R \notin ToSet(v) /\ s \notin ToSet(v)
  BY <1>1, <1>2, <1>3, <1>4, SeqIs
<1>10. Aside(r_list, v, R, d_list, {s})
  BY <1>2, <1>3, <1>4, <1>9 DEF Aside
<1>11. x \notin ToSet(w) /\ ToSet(u) \cap ToSet(w) = {} /\ x \notin ToSet(u)
  BY <1>1, Two
<1>12. Aside(d_list, w, x, r_list, {s})
  BY <1>1, <1>2, <1>3, <1>11 DEF Aside
<1>13. S \subseteq Slots /\ S \cap (ToSet(w) \cup {x}) = {}
  BY <1>1, <1>2, <1>4, <1>9, <1>11
<1> HIDE DEF S
<1>14. Aside(d_list, w, x, r_list, S)
  BY <1>1, <1>3, <1>11, <1>13 DEF Aside
<1>15. List(m, r_list, v, R) /\ List(m, d_list, w, x)
  <2>1. Kept(link, m, r_list, v, R, {s})
    BY <1>6, <1>10, ListKept
  <2>2. Kept(link, m, d_list, w, x, {s})
    BY <1>6, <1>12, ListKept
  <2> QED BY <1>1, <1>5, <2>1, <2>2 DEF Kept
<1>16. Setting(m, r_list, v, R, s)
  BY <1>3, <1>4, <1>6, <1>9 DEF Setting
<1>17. IsLinked(m, link', r_list, v, s)
  BY <1>6, <1>7, <1>15, <1>16, PushedBack
<1>18. link' \in LinkType /\ List(link', r_list, Append(v, s), R) /\ Reaches(m, link', r_list, S)
  BY <1>3, <1>17 DEF IsLinked, S
<1>19. List(link', d_list, w, x)
  <2>1. Kept(m, link', d_list, w, x, S)
    BY <1>14, <1>18, ListKept
  <2> QED BY <1>15, <2>1 DEF Kept
<1> DEFINE t == Append(u, s)
<1>20. t \in Seqs /\ c \notin ToSet(t)
  <2>1. t \in Seqs /\ ToSet(t) = ToSet(u) \cup {s}
    BY <1>1, <1>2, AppendIs
  <2> QED BY <1>1, <1>2, <2>1
<1>21. List(link', r_list, <<c>> \o t, R)
  <2>1. Append(v, s) = <<c>> \o t
    BY <1>1, <1>8, ConsAppend
  <2> QED BY <1>18, <2>1
<1> HIDE DEF t
<1>22. Fronts(link', r_list, c, t, R)
  <2>1. From(link', r_list, r_list.head, <<c>> \o t, R)
    BY <1>21 DEF List
  <2>2. R \in Slots \cup {r_list.tail}
    BY <1>3
  <2> QED BY <1>1, <1>3, <1>20, <2>1, <2>2, FirstOfList
<1> QED BY <1>18, <1>19, <1>22 DEF Entered, t

-----------------------------------------------------------------------------
(* proc_create(): the processes.                                           *)

CreatedOne(u, w, x, c, s, q) ==
  /\ Types' /\ Who' /\ Dead(w, x)' /\ Entered(link', u, w, x, c, s)
  /\ Append(u, s) \in Seqs /\ ToSet(Append(u, s)) = Runnable' \ {c}
  /\ cur_process' = c /\ state'[c] = "RUN" /\ func'[c] = func[c] /\ code'[c] = q
  /\ lately' = (lately + 1) % PROC_NUM_MAX /\ \A i \in Slots \ {s} : state'[i] = state[i]

LEMMA CreateStep ==
  ASSUME NEW u, NEW w, NEW x, Now(u, w, x), Dead(w, x), NEW c, c = cur_process, Still(c, u, w, x),
         NEW p, NEW k, NEW f, At(p, k, Created(f)), f \in {"kernel", "login", "returns", "exits"}, proc_create,
         NEW s, s = FirstUnused, s \in Slots, state[s] = "UNUSED",
         f = "login" => s = 3,
         \A i \in Slots : func[i] = "login" => i = c /\ Left(p, k + 1) = <<>>
  PROVE  CreatedOne(u, w, x, c, s, Left(p, k + 1))
<1> DEFINE q == Left(p, k + 1)
           st == Created(f)
<1>1. /\ c \in Slots /\ link \in LinkType /\ u \in Seqs /\ w \in Seqs /\ x \in Slots \cup {D} /\ Types /\ Who
      /\ c \notin ToSet(u) /\ ToSet(u) = Runnable \ {c} /\ state[c] = "RUN" /\ c # x /\ c \notin ToSet(w)
  BY StillIs
<1>2. s # c /\ s \notin ToSet(u)
  BY <1>1 DEF Runnable
<1>3. Statement = st /\ Tail(code[c]) = q
  BY AtIs DEF Statement
<1>4. st.func = f
  BY OpsAre
<1>a. \A i \in Slots : func[i] = "login" => i = c /\ q = <<>>
  OBVIOUS
<1>b. \A z : z # st /\ z \in ToSet(code[c]) => z \in ToSet(q)
  <2>1. code[c] = Left(p, k)
    BY DEF At
  <2>2. \A z : z # st /\ z \in ToSet(Left(p, k)) => z \in ToSet(Left(p, k + 1))
    BY HeadApart
  <2> QED BY <2>1, <2>2
<1>c. \A e : On("unuse", e) # st
  <2> TAKE e
  <2> DEFINE z == On("unuse", e)
  <2>1. z.op = "unuse" /\ st.op = "create"
    BY OpsAre
  <2> HIDE DEF z, st
  <2>2. z # st
    BY <2>1
  <2> QED BY <2>2 DEF z
<1> HIDE DEF q, st
<1>5. /\ link' = Done(Cleared(link, s), list_push_back(r_list, s))
      /\ state' = [state EXCEPT ![s] = "RUN"] /\ func' = [func EXCEPT ![s] = f]
      /\ code' = [code EXCEPT ![s] = <<>>, ![c] = q] /\ cuts' = [cuts EXCEPT ![s] = 0]
      /\ lately' = (lately + 1) % PROC_NUM_MAX /\ cur_process' = c
  BY <1>1, <1>2, <1>3, <1>4 DEF proc_create, Types
<1>6. Entered(link', u, w, x, c, s)
  BY <1>5, CreatedLinks
<1>7. /\ state' \in [Slots -> {"RUN", "ZOMBIE", "UNUSED"}] /\ state'[s] = "RUN" /\ state'[c] = "RUN"
      /\ \A i \in Slots \ {s} : state'[i] = state[i]
  BY <1>1, <1>2, <1>5 DEF Types
<1>8. /\ func' \in [Slots -> {"none", "idle", "kernel", "login", "returns", "exits", "exited"}]
      /\ func'[s] = f /\ \A i \in Slots \ {s} : func'[i] = func[i]
  BY <1>1, <1>5 DEF Types
<1>9. /\ code' = [i \in Slots |-> code'[i]] /\ code'[s] = <<>> /\ code'[c] = q
      /\ \A i \in Slots \ {s, c} : code'[i] = code[i]
  BY <1>1, <1>2, <1>5 DEF Types
<1>10. cuts' \in [Slots -> 0 .. MaxCuts] /\ \A i \in Slots \ {s} : cuts'[i] = cuts[i]
  <2>1. 0 \in 0 .. MaxCuts
    BY WindowsAssumption
  <2> QED BY <1>1, <1>5, <2>1 DEF Types
<1>11. lately' \in Slots
  <2>1. lately \in 0 .. PROC_NUM_MAX - 1 /\ PROC_NUM_MAX \in Nat \ {0}
    BY <1>1, SlotsAssumption DEF Types, Slots
  <2>2. (lately + 1) % PROC_NUM_MAX \in 0 .. PROC_NUM_MAX - 1
    BY <2>1
  <2> QED BY <1>5, <2>2 DEF Slots
<1>12. Types'
  BY <1>1, <1>5, <1>6, <1>7, <1>8, <1>9, <1>10, <1>11 DEF Types, Entered
<1>13. Who'
  <2>1. IdleSlot \in Slots /\ s # IdleSlot
    BY <1>1, SlotsAssumption DEF Who, Slots, IdleSlot
  <2>2. ASSUME NEW i \in Slots
        PROVE  /\ func'[i] = "idle" <=> i = IdleSlot
               /\ func'[i] = "login" => i = 3
               /\ func'[i] \in {"idle", "kernel", "login", "exits"} => state'[i] = "RUN"
               /\ func'[i] = "exited" => state'[i] # "RUN"
               /\ func'[i] = "none" => state'[i] = "UNUSED"
               /\ func'[i] = "login" => code'[i] = <<>>
    <3>1. CASE i = s
      BY <1>7, <1>8, <1>9, <2>1, <3>1
    <3>2. CASE i # s
      <4>1. func'[i] = func[i] /\ state'[i] = state[i]
        BY <1>7, <1>8, <3>2
      <4>2. func[i] = "login" => code'[i] = <<>>
        BY <1>a, <1>9
      <4> QED BY <1>1, <4>1, <4>2 DEF Who
    <3> QED BY <3>1, <3>2
  <2>3. ASSUME NEW i \in Slots \ {c}, state'[i] = "RUN"
        PROVE  Waiting(i)'
    <3>1. CASE i = s
      BY <1>9, <3>1 DEF Waiting
    <3>2. CASE i # s
      <4>1. Waiting(i)
        BY <1>1, <1>7, <2>3, <3>2 DEF Who
      <4>2. code'[i] = code[i] /\ func'[i] = func[i] /\ cuts'[i] = cuts[i]
        BY <1>8, <1>9, <1>10, <2>3, <3>2
      <4> QED BY <4>1, <4>2 DEF Waiting
    <3> QED BY <3>1, <3>2
  <2> QED BY <1>5, <2>2, <2>3 DEF Who
<1>14. Dead(w, x)'
  <2>1. ASSUME NEW i \in Slots, state'[i] = "ZOMBIE"
        PROVE  state[i] = "ZOMBIE" /\ (Pending(i)' <=> Pending(i))
    <3>1. i # s /\ i # c
      BY <1>7, <2>1
    <3>2. state[i] = "ZOMBIE" /\ code'[i] = code[i]
      BY <1>7, <1>9, <2>1, <3>1
    <3> QED BY <3>2 DEF Pending
  <2>2. \A i \in Slots : state[i] = "ZOMBIE" => state'[i] = "ZOMBIE"
    BY <1>7
  <2>3. \A i \in Slots : On("unuse", i) \in ToSet(code[IdleSlot]) => On("unuse", i) \in ToSet(code'[IdleSlot])
    <3>1. IdleSlot \in Slots /\ IdleSlot # s
      BY <1>1, SlotsAssumption DEF Who, Slots, IdleSlot
    <3>2. CASE IdleSlot = c
      BY <1>9, <1>b, <1>c, <3>2
    <3>3. CASE IdleSlot # c
      BY <1>9, <3>1, <3>3
    <3> QED BY <3>2, <3>3
  <2>4. \A i \in ToSet(w) : state'[i] = "ZOMBIE"
    <3>1. \A i \in ToSet(w) : i \in Slots
      BY <1>1, SeqIs
    <3> QED BY <2>2, <3>1 DEF Dead
  <2>5. x \in Slots => state'[x] = "ZOMBIE" /\ x \notin ToSet(w) /\ Pending(x)'
    BY <2>1, <2>2 DEF Dead
  <2>6. \A i \in Slots : state'[i] = "ZOMBIE" /\ ~Pending(i)'
                           => i \in ToSet(w) \/ On("unuse", i) \in ToSet(code'[IdleSlot])
    BY <2>1, <2>3 DEF Dead
  <2> QED BY <2>4, <2>5, <2>6 DEF Dead
<1>15. Append(u, s) \in Seqs /\ ToSet(Append(u, s)) = Runnable' \ {c}
  <2>1. Append(u, s) \in Seqs /\ ToSet(Append(u, s)) = ToSet(u) \cup {s}
    BY <1>1, <1>2, AppendIs
  <2>2. Runnable' = Runnable \cup {s}
    BY <1>7 DEF Runnable
  <2> QED BY <1>1, <1>2, <2>1, <2>2
<1>16. func'[c] = func[c]
  BY <1>1, <1>2, <1>8
<1>17. CreatedOne(u, w, x, c, s, q)
  BY <1>5, <1>6, <1>7, <1>9, <1>12, <1>13, <1>14, <1>15, <1>16 DEF CreatedOne
<1> QED BY <1>17 DEF q

LEMMA StillBoots ==
  ASSUME NEW u, NEW w, NEW x, Now(u, w, x), Dead(w, x), NEW c, c = cur_process, Still(c, u, w, x),
         func[c] = "idle", BootCode(c), Next
  PROVE  IInv'
<1>1. /\ c \in Slots /\ u \in Seqs /\ w \in Seqs /\ x \in Slots \cup {D} /\ Types /\ Who
  BY StillIs
<1>2. PICK k \in 1 .. 3 : /\ code[c] = Left(Boot, k) /\ lately = k - 1
                          /\ \A s \in k .. PROC_NUM_MAX - 1 : state[s] = "UNUSED"
  BY DEF BootCode
<1> DEFINE p == Boot
           S == All(c)
<1>3. /\ p \in Seq(S) /\ Len(p) = 3
      /\ p[1] = Created("kernel") /\ p[2] = Created("kernel") /\ p[3] = Created("login")
  BY BootIs
<1>4. p = Boot
  OBVIOUS
<1> HIDE DEF p, S
<1>5. k \in 1 .. Len(p)
  BY <1>3
<1>6. PICK f \in {"kernel", "login"} : p[k] = Created(f) /\ (f = "login" => k = 3)
  <2>1. k = 1 \/ k = 2 \/ k = 3
    OBVIOUS
  <2> QED BY <1>3, <2>1
<1>7. At(p, k, Created(f))
  BY <1>2, <1>3, <1>4, <1>5, <1>6 DEF At
<1>8. proc_create
  <2>1. code[c] # <<>> /\ Head(code[c]) = Created(f)
    BY <1>7, AtIs
  <2>2. Shielded(cur_process)
    BY DEF Shielded
  <2>3. Does(Created(f))
    BY <2>1, <2>2, StatementStep, Undisturbed
  <2> QED BY <2>3, DoesIs
<1>9. k \in Slots /\ 3 \in Slots /\ 3 \in k .. PROC_NUM_MAX - 1 /\ k \in k .. PROC_NUM_MAX - 1
      /\ lately + 1 = k /\ lately \in Slots /\ (lately + 1) % PROC_NUM_MAX = k
  <2>1. k \in Slots /\ 3 \in Slots /\ 3 \in k .. PROC_NUM_MAX - 1 /\ k \in k .. PROC_NUM_MAX - 1
        /\ lately + 1 = k /\ lately \in Slots
    BY <1>2, SlotsAssumption DEF Slots
  <2>2. PROC_NUM_MAX \in Nat \ {0} /\ k \in Nat /\ k < 2 * PROC_NUM_MAX /\ k < PROC_NUM_MAX
    BY SlotsAssumption
  <2>3. Wrapped(k, PROC_NUM_MAX)
    BY <2>2, Wraps
  <2> QED BY <2>1, <2>2, <2>3 DEF Wrapped
<1>10. state[k] = "UNUSED" /\ state[3] = "UNUSED"
  BY <1>2, <1>9
<1>11. FirstUnused = k
  BY <1>9, <1>10, UnusedFound
<1>12. \A i \in Slots : func[i] # "login"
  BY <1>1, <1>10 DEF Who
<1> DEFINE q == Left(p, k + 1)
           t == Append(u, k)
<1>13. CreatedOne(u, w, x, c, k, q)
  BY <1>6, <1>7, <1>8, <1>9, <1>10, <1>11, <1>12, CreateStep
<1>14. /\ Types' /\ Who' /\ Dead(w, x)' /\ t \in Seqs /\ ToSet(t) = Runnable' \ {c}
       /\ Fronts(link', r_list, c, t, R) /\ List(link', d_list, w, x)
       /\ cur_process' = c /\ state'[c] = "RUN" /\ func'[c] = "idle" /\ code'[c] = q
       /\ lately' = k /\ \A i \in Slots \ {k} : state'[i] = state[i]
  BY <1>9, <1>13 DEF CreatedOne, Entered
<1> HIDE DEF t
<1>15. CASE k < 3
  <2>1. BootCode(c)'
    <3>1. k + 1 \in 1 .. 3 /\ k = (k + 1) - 1
      BY <1>15
    <3>2. ASSUME NEW s \in k + 1 .. PROC_NUM_MAX - 1
          PROVE  state'[s] = "UNUSED"
      <4>1. s \in k .. PROC_NUM_MAX - 1 /\ s \in Slots \ {k}
        BY SlotsAssumption DEF Slots
      <4> QED BY <1>2, <1>14, <4>1
    <3>3. code'[c] = Left(Boot, k + 1) /\ lately' = (k + 1) - 1
      BY <1>4, <1>14, <3>1
    <3> QED BY <3>1, <3>2, <3>3 DEF BootCode
  <2>2. StillCode(c)'
    BY <1>14, <2>1 DEF StillCode
  <2>3. Still(c, t, w, x)'
    BY <1>14, <2>2 DEF Still
  <2>4. Situation(cur_process, t, w, x)'
    BY <1>14, <2>3 DEF Situation
  <2> QED BY <1>1, <1>14, <2>4, Conclude
<1>16. CASE k = 3
  <2>1. code'[c] = <<>>
    <3>1. k + 1 = Len(p) + 1
      BY <1>3, <1>16
    <3>2. Left(p, Len(p) + 1) = <<>>
      BY <1>3, AllLeft
    <3> QED BY <1>14, <3>1, <3>2
  <2>2. Idling(c, t, w, x)'
    BY <1>14, <2>1 DEF Idling, List
  <2>3. Situation(cur_process, t, w, x)'
    BY <1>14, <2>2 DEF Situation
  <2> QED BY <1>1, <1>14, <2>3, Conclude
<1> QED BY <1>15, <1>16

LEMMA StillEnters ==
  ASSUME NEW u, NEW w, NEW x, Now(u, w, x), Dead(w, x), NEW c, c = cur_process, Still(c, u, w, x),
         func[c] = "login", NEW f \in Commands, code[c] = <<Created(f)>>, Next
  PROVE  IInv'
<1>1. /\ c \in Slots /\ u \in Seqs /\ w \in Seqs /\ x \in Slots \cup {D} /\ Types /\ Who
  BY StillIs
<1> DEFINE st == Created(f)
           p == <<st>>
<1>2. p \in Seq({st}) /\ Len(p) = 1 /\ p[1] = st
  OBVIOUS
<1>3. code[c] = p /\ st = Created(f)
  OBVIOUS
<1> HIDE DEF st
<1>4. Left(p, 1) = p /\ Left(p, Len(p) + 1) = <<>>
  BY <1>2, AllLeft
<1> HIDE DEF p
<1>5. At(p, 1, st) /\ Left(p, 1 + 1) = <<>>
  <2>1. 1 \in 1 .. Len(p)
    BY <1>2
  <2> QED BY <1>2, <1>3, <1>4, <2>1 DEF At
<1>6. Tick => IInv'
  BY StillTick
<1>7. proc_create \/ Tick
  <2>1. code[c] # <<>> /\ Head(code[c]) = Created(f)
    BY <1>3, <1>5, AtIs
  <2>2. Does(Created(f)) \/ Tick
    BY <2>1, StatementStep
  <2> QED BY <2>2, DoesIs
<1> SUFFICES ASSUME proc_create
             PROVE  IInv'
  BY <1>6, <1>7
<1> DEFINE s == FirstUnused
<1>8. s \in Slots /\ state[s] = "UNUSED"
  <2>1. code[c] # <<>>
    BY <1>5, AtIs
  <2>2. lately \in Slots /\ \E i \in Slots : state[i] = "UNUSED"
    BY <1>1, <2>1 DEF Types, Who
  <2> QED BY <2>2, UnusedFound
<1>9. f \in {"returns", "exits"}
  BY CommandsAssumption
<1>10. \A i \in Slots : func[i] = "login" => i = c
  BY <1>1 DEF Who
<1>11. s = FirstUnused
  OBVIOUS
<1>12. PICK r : r = s
  OBVIOUS
<1> HIDE DEF s
<1>13. CreatedOne(u, w, x, c, r, Left(p, 1 + 1))
  BY <1>3, <1>5, <1>8, <1>9, <1>10, <1>11, <1>12, CreateStep
<1> DEFINE v == Append(u, r)
<1>14. /\ Types' /\ Who' /\ Dead(w, x)' /\ v \in Seqs /\ ToSet(v) = Runnable' \ {c}
       /\ Fronts(link', r_list, c, v, R) /\ List(link', d_list, w, x)
       /\ cur_process' = c /\ state'[c] = "RUN" /\ func'[c] = "login" /\ code'[c] = <<>>
  BY <1>5, <1>13 DEF CreatedOne, Entered
<1> HIDE DEF v
<1>15. StillCode(c)'
  BY <1>14 DEF StillCode
<1>16. Still(c, v, w, x)'
  BY <1>14, <1>15 DEF Still
<1>17. Situation(cur_process, v, w, x)'
  BY <1>14, <1>16 DEF Situation
<1> QED BY <1>1, <1>14, <1>17, Conclude

LEMMA StillStep ==
  ASSUME NEW u, NEW w, NEW x, Now(u, w, x), Dead(w, x), NEW c, c = cur_process, Still(c, u, w, x), Next
  PROVE  IInv'
<1>1. StillCode(c)
  BY DEF Still
<1>2. CASE code[c] = <<Do("pick")>> /\ func[c] \in {"idle", "kernel"}
  BY <1>2, StillPicks
<1>3. CASE func[c] = "idle" /\ BootCode(c)
  BY <1>3, StillBoots
<1>4. CASE code[c] = <<>> /\ func[c] # "exits"
  BY <1>4, StillLooks
<1>5. CASE code[c] = <<>> /\ func[c] = "exits"
  BY <1>5, StillExits
<1>6. CASE func[c] = "login" /\ \E f \in Commands : code[c] = <<Created(f)>>
  BY <1>6, StillEnters
<1>7. CASE func[c] = "returns" /\ \E k \in 1 .. 2 : code[c] = Left(Free(c), k)
  BY <1>7, StillFrees
<1> QED BY <1>1, <1>2, <1>3, <1>4, <1>5, <1>6, <1>7 DEF StillCode

-----------------------------------------------------------------------------
(* The invariant.                                                          *)

LEMMA StepKeeps ==
  ASSUME IInv, Calm, Next
  PROVE  IInv'
<1>1. PICK u, w \in Seqs, x \in Slots \cup {D} :
         ToSet(u) = Runnable \ {cur_process} /\ Situation(cur_process, u, w, x)
  BY DEF IInv
<1>2. Now(u, w, x)
  BY <1>1 DEF IInv, Now
<1>3. PICK c : c = cur_process
  OBVIOUS
<1>4. Situation(c, u, w, x)
  BY <1>1, <1>3
<1>5. CASE Still(c, u, w, x) /\ Dead(w, x)
  BY <1>2, <1>3, <1>5, StillStep
<1>6. CASE Idling(c, u, w, x) /\ Dead(w, x)
  BY <1>2, <1>3, <1>6, IdlingStep
<1>7. CASE (\E e \in Slots, k \in 1 .. 3 : Reaping(c, u, w, x, e, k)) /\ Dead(w, x)
  BY <1>2, <1>3, <1>7, ReapingStep
<1>8. CASE (\E k \in 1 .. 9 : Requeueing(c, u, w, x, k)) /\ Dead(w, x)
  BY <1>2, <1>3, <1>8, RequeueingStep
<1>9. CASE (\E k \in 3 .. 6 : Leaving(c, u, w, x, k)) /\ Dead(w, x)
  BY <1>2, <1>3, <1>9, LeavingStep
<1>10. CASE (\E k \in 7 .. 10 : Burying(c, u, w, x, k)) /\ Dead(w, x)
  BY <1>2, <1>3, <1>10, BuryingStep
<1>11. CASE Gone(c, u, w, x) /\ Dead(w, x)
  BY <1>2, <1>3, <1>11, GoneStep
<1>12. CASE \E k \in 0 .. 6 : Exited(c, u, w, x, k) /\ Dead(IF k = 0 THEN Append(w, c) ELSE w, x)
  <2>1. PICK k \in 0 .. 6 : Exited(c, u, w, x, k) /\ Dead(IF k = 0 THEN Append(w, c) ELSE w, x)
    BY <1>12
  <2>2. CASE k = 0
    <3>1. Exited(c, u, w, x, 0) /\ Dead(Append(w, c), x)
      BY <2>1, <2>2
    <3> QED BY <1>2, <1>3, <3>1, ExitedFrees
  <2>3. CASE k # 0
    <3>1. Exited(c, u, w, x, k) /\ Dead(w, x) /\ k \in 1 .. 6
      BY <2>1, <2>3
    <3> QED BY <1>2, <1>3, <3>1, ExitedStep
  <2> QED BY <2>2, <2>3
<1> QED BY <1>4, <1>5, <1>6, <1>7, <1>8, <1>9, <1>10, <1>11, <1>12 DEF Situation

LEMMA StutterKeeps ==
  ASSUME IInv, UNCHANGED vars
  PROVE  IInv'
<1>1. /\ link' = link /\ state' = state /\ func' = func /\ code' = code /\ cuts' = cuts
      /\ lately' = lately /\ cur_process' = cur_process
  BY DEF vars
<1>2. Types' /\ Who'
  BY <1>1 DEF IInv, Types, Who, Waiting
<1>3. PICK u, w \in Seqs, x \in Slots \cup {D} :
         ToSet(u) = Runnable \ {cur_process} /\ Situation(cur_process, u, w, x)
  BY DEF IInv
<1>4. Runnable' = Runnable
  BY <1>1 DEF Runnable
<1>5. PICK c : c = cur_process
  OBVIOUS
<1>6. \A v, y : Dead(v, y)' <=> Dead(v, y)
  BY <1>1 DEF Dead, Pending
<1>7. Situation(c, u, w, x)'
  <2>1. Situation(c, u, w, x)
    BY <1>3, <1>5
  <2>2. Still(c, u, w, x)' <=> Still(c, u, w, x)
    BY <1>1 DEF Still, StillCode, BootCode
  <2>3. Idling(c, u, w, x)' <=> Idling(c, u, w, x)
    BY <1>1 DEF Idling
  <2>4. \A e, k : Reaping(c, u, w, x, e, k)' <=> Reaping(c, u, w, x, e, k)
    BY <1>1 DEF Reaping
  <2>5. \A k : Requeueing(c, u, w, x, k)' <=> Requeueing(c, u, w, x, k)
    BY <1>1 DEF Requeueing
  <2>6. \A k : Leaving(c, u, w, x, k)' <=> Leaving(c, u, w, x, k)
    BY <1>1 DEF Leaving
  <2>7. \A k : Burying(c, u, w, x, k)' <=> Burying(c, u, w, x, k)
    BY <1>1 DEF Burying
  <2>8. Gone(c, u, w, x)' <=> Gone(c, u, w, x)
    BY <1>1 DEF Gone
  <2>9. \A k : Exited(c, u, w, x, k)' <=> Exited(c, u, w, x, k)
    BY <1>1 DEF Exited
  <2> QED BY <1>6, <2>1, <2>2, <2>3, <2>4, <2>5, <2>6, <2>7, <2>8, <2>9 DEF Situation
<1>8. Situation(cur_process, u, w, x)'
  BY <1>1, <1>5, <1>7
<1> QED BY <1>1, <1>2, <1>3, <1>4, <1>8, Conclude

\* list_init() and the first list_push_back().
LEMMA InitLinks ==
  ASSUME Init
  PROVE  link \in LinkType /\ Fronts(link, r_list, IdleSlot, <<>>, R) /\ List(link, d_list, <<>>, D)
<1> DEFINE m == [prev |-> [NoLinks EXCEPT ![-2] = -1, ![-4] = -3],
                 next |-> [NoLinks EXCEPT ![-1] = -2, ![-3] = -4]]
           c == IdleSlot
<1>1. link = Done(m, list_push_back(r_list, c))
  BY DEF Init
<1>2. c \in Slots /\ IdleSlot = 0
  BY SlotsAssumption DEF Slots, IdleSlot
<1>3. /\ m \in LinkType /\ m.prev[c] = NULL /\ m.next[c] = NULL
      /\ m.next[r_list.head] = R /\ m.prev[R] = r_list.head
      /\ m.next[d_list.head] = D /\ m.prev[D] = d_list.head
  <2>1. -1 \in Nodes /\ -2 \in Nodes /\ -3 \in Nodes /\ -4 \in Nodes /\ c \in Nodes
    BY <1>2 DEF Nodes
  <2>2. c # -1 /\ c # -2 /\ c # -3 /\ c # -4
    BY <1>2
  <2>3. NoLinks \in [Nodes -> Nodes \cup {NULL}] /\ \A n \in Nodes : NoLinks[n] = NULL
    BY DEF NoLinks
  <2> HIDE DEF c
  <2> QED BY <2>1, <2>2, <2>3 DEF LinkType, R, D, r_list, d_list
<1> HIDE DEF m
<1>4. <<>> \in Seqs /\ ToSet(<<>>) = {} /\ Len(<<>>) = 0
  BY DEF Seqs, IsInjective, ToSet
<1>5. \A l \in Lists : m.next[l.head] = l.tail /\ m.prev[l.tail] = l.head => List(m, l, <<>>, l.tail)
  BY <1>4, ListIs DEF Inner, StartOf
<1>6. List(m, r_list, <<>>, R) /\ List(m, d_list, <<>>, D)
  BY <1>3, <1>5, ListsApart DEF R, D
<1>7. Setting(m, r_list, <<>>, R, c)
  BY <1>2, <1>3, <1>4, NodesAre, ListsApart DEF Setting, R
<1>8. IsLinked(m, link, r_list, <<>>, c)
  BY <1>1, <1>3, <1>6, <1>7, PushedBack
<1>9. link \in LinkType /\ List(link, r_list, Append(<<>>, c), R) /\ Reaches(m, link, r_list, {c})
  BY <1>4, <1>8 DEF IsLinked, R
<1>10. Fronts(link, r_list, c, <<>>, R)
  <2>1. Append(<<>>, c) = <<c>> \o <<>>
    BY <1>2
  <2>2. From(link, r_list, r_list.head, <<c>> \o <<>>, R)
    BY <1>9, <2>1 DEF List
  <2>3. R \in Slots \cup {r_list.tail} /\ r_list \in Lists /\ c \notin ToSet(<<>>)
    BY <1>4, ListsApart DEF R
  <2> HIDE DEF c
  <2> QED BY <1>2, <1>4, <2>2, <2>3, FirstOfList
<1>11. List(link, d_list, <<>>, D)
  <2>1. Aside(d_list, <<>>, D, r_list, {c})
    BY <1>2, <1>4, NodesAre, ListsApart DEF Aside, D
  <2>2. Kept(m, link, d_list, <<>>, D, {c})
    BY <1>9, <2>1, ListKept
  <2> QED BY <1>6, <2>2 DEF Kept
<1> QED BY <1>9, <1>10, <1>11

LEMMA InitHolds == Init => IInv
<1> SUFFICES ASSUME Init
             PROVE  IInv
  OBVIOUS
<1> DEFINE c == IdleSlot
<1>1. /\ cur_process = c
      /\ state = [s \in Slots |-> IF s = IdleSlot THEN "RUN" ELSE "UNUSED"]
      /\ func = [s \in Slots |-> IF s = IdleSlot THEN "idle" ELSE "none"]
      /\ code = [s \in Slots |-> IF s = IdleSlot THEN Boot ELSE <<>>]
      /\ cuts = [s \in Slots |-> 0] /\ lately = 0
  BY DEF Init, Boot
<1>2. c \in Slots /\ 0 \in Slots /\ 3 \in Slots /\ IdleSlot = 0
  BY SlotsAssumption DEF Slots, IdleSlot
<1>3. <<>> \in Seqs /\ ToSet(<<>>) = {} /\ Len(<<>>) = 0
  BY DEF Seqs, IsInjective, ToSet
<1>4. link \in LinkType /\ Fronts(link, r_list, c, <<>>, R) /\ List(link, d_list, <<>>, D)
  BY InitLinks
<1>5. Types
  <2>1. 0 \in 0 .. MaxCuts
    BY WindowsAssumption
  <2> QED BY <1>1, <1>2, <1>4, <2>1 DEF Types
<1>6. Who
  BY <1>1, <1>2 DEF Who
<1>7. Runnable = {c}
  BY <1>1, <1>2 DEF Runnable
<1>8. Dead(<<>>, D)
  <2>1. D \notin Slots
    BY NodesAre, ListsApart DEF D
  <2> QED BY <1>1, <1>3, <2>1 DEF Dead
<1>9. BootCode(c)
  <2> DEFINE p == Boot
             S == All(c)
  <2>1. p \in Seq(S)
    BY BootIs
  <2>2. p = Left(p, 1)
    BY <2>1, AllLeft
  <2>3. code[c] = Left(Boot, 1) /\ lately = 1 - 1 /\ 1 \in 1 .. 3
    BY <1>1, <1>2, <2>2
  <2>4. \A s \in 1 .. PROC_NUM_MAX - 1 : state[s] = "UNUSED"
    BY <1>1, <1>2 DEF Slots
  <2> QED BY <2>3, <2>4 DEF BootCode
<1>10. Still(c, <<>>, <<>>, D)
  <2>1. StillCode(c)
    BY <1>1, <1>2, <1>9 DEF StillCode
  <2> QED BY <1>1, <1>2, <1>4, <2>1 DEF Still
<1>11. Situation(cur_process, <<>>, <<>>, D)
  BY <1>1, <1>8, <1>10 DEF Situation
<1>12. ToSet(<<>>) = Runnable \ {cur_process}
  BY <1>1, <1>3, <1>7
<1> QED BY <1>3, <1>5, <1>6, <1>11, <1>12 DEF IInv

\* At every store the lists have the shape that belongs to what the current process is
\* executing, and preempted operations can go on (list.c, proc_free, get_next_proc, idle).
THEOREM Invariance ==
  ASSUME Calm
  PROVE  Spec => []IInv
<1>1. Init => IInv
  BY InitHolds
<1>2. IInv /\ [Next]_vars => IInv'
  BY StepKeeps, StutterKeeps
<1> QED BY <1>1, <1>2, PTL DEF Spec

-----------------------------------------------------------------------------
(* What is found in a list.                                                *)

LEMMA FitsSlots ==
  ASSUME NEW v \in Seqs
  PROVE  Len(v) <= PROC_NUM_MAX
<1>1. v \in Seq(Slots) /\ Len(v) \in Nat /\ v \in [1 .. Len(v) -> Slots]
  BY SeqIs
<1>2. v \in Injection(1 .. Len(v), Slots)
  BY <1>1 DEF Seqs, Injection
<1>3. IsFiniteSet(Slots) /\ Cardinality(Slots) = PROC_NUM_MAX
  BY SlotsAssumption, FS_Interval DEF Slots
<1>4. Cardinality(1 .. Len(v)) = Len(v)
  BY <1>1, FS_Interval
<1>5. Cardinality(1 .. Len(v)) <= Cardinality(Slots)
  BY <1>2, <1>3, FS_Injection
<1> QED BY <1>3, <1>4, <1>5

Walk(f, m, l) ==
  f = [i \in 1 .. PROC_NUM_MAX |->
         IF i = 1 THEN list_front(m, l) ELSE IF f[i - 1] \in Slots THEN m.next[f[i - 1]] ELSE NULL]

\* The pointers lead from the head of l through v to its tail.
Path(m, l, v) ==
  /\ m.next[l.head] = StartOf(v, l.tail)
  /\ \A i \in 1 .. Len(v) - 1 : m.next[v[i]] = v[i + 1]
  /\ v # <<>> => m.next[v[Len(v)]] = l.tail

LEMMA ChainIs ==
  ASSUME NEW m, NEW l \in Lists, NEW v \in Seqs, Path(m, l, v)
  PROVE  Chain(m, l) = v
<1> DEFINE N == PROC_NUM_MAX
           n == Len(v)
           y == l.tail
           Step(f, i) == IF i = 1 THEN list_front(m, l)
                         ELSE IF f[i - 1] \in Slots THEN m.next[f[i - 1]] ELSE NULL
           g == [i \in 1 .. N |-> IF i <= n THEN v[i] ELSE IF i = n + 1 THEN y ELSE NULL]
           Seen == CHOOSE f : Walk(f, m, l)
<1>1. /\ v \in Seq(Slots) /\ n \in Nat /\ (v # <<>> <=> n > 0)
      /\ \A i \in 1 .. n : v[i] \in Slots
  BY SeqIs
<1>2. n <= N /\ N \in Nat /\ N >= 4
  BY FitsSlots, SlotsAssumption
<1>3. y \notin Slots /\ NULL \notin Slots
  BY NodesAre
<1>4. /\ list_front(m, l) = IF n = 0 THEN y ELSE v[1]
      /\ \A i \in 1 .. n : m.next[v[i]] = IF i = n THEN y ELSE v[i + 1]
  <2>1. list_front(m, l) = IF n = 0 THEN y ELSE v[1]
    BY <1>1 DEF Path, list_front, StartOf
  <2>2. ASSUME NEW i \in 1 .. n
        PROVE  m.next[v[i]] = IF i = n THEN y ELSE v[i + 1]
    <3>1. v # <<>>
      BY <1>1
    <3>2. i # n => i \in 1 .. n - 1
      BY <1>1
    <3> QED BY <3>1, <3>2 DEF Path
  <2> QED BY <2>1, <2>2
<1> HIDE DEF N, n, y
<1>5. \A i \in 1 .. N : g[i] = IF i <= n THEN v[i] ELSE IF i = n + 1 THEN y ELSE NULL
  OBVIOUS
<1>6. g = [i \in 1 .. N |-> g[i]]
  OBVIOUS
<1> HIDE DEF g
<1>7. ASSUME NEW i \in 1 .. N
      PROVE  g[i] = Step(g, i)
  <2>1. CASE i = 1
    <3>1. g[1] = IF n = 0 THEN y ELSE v[1]
      BY <1>1, <1>2, <1>5
    <3> QED BY <1>4, <2>1, <3>1
  <2>2. CASE i # 1
    <3>1. i - 1 \in 1 .. N /\ (i - 1) + 1 = i
      BY <1>2, <2>2
    <3>2. CASE i - 1 <= n
      <4>1. g[i - 1] = v[i - 1] /\ i - 1 \in 1 .. n
        BY <1>1, <1>2, <1>5, <3>1, <3>2
      <4>2. Step(g, i) = m.next[v[i - 1]]
        BY <1>1, <2>2, <4>1
      <4>3. m.next[v[i - 1]] = IF i - 1 = n THEN y ELSE v[i]
        BY <1>4, <3>1, <4>1
      <4>4. g[i] = IF i - 1 = n THEN y ELSE v[i]
        <5>1. i - 1 = n => i = n + 1 /\ ~(i <= n)
          BY <1>1
        <5>2. i - 1 # n => i <= n
          BY <1>1, <3>2
        <5> QED BY <1>5, <5>1, <5>2
      <4> QED BY <4>2, <4>3, <4>4
    <3>3. CASE ~(i - 1 <= n)
      <4>1. ~(i <= n) /\ i # n + 1
        BY <1>1, <3>3
      <4>2. g[i - 1] \in {y, NULL}
        BY <1>5, <3>1, <3>3
      <4> QED BY <1>3, <1>5, <2>2, <4>1, <4>2
    <3> QED BY <3>2, <3>3
  <2> QED BY <2>1, <2>2
<1>8. Walk(g, m, l)
  BY <1>6, <1>7 DEF Walk, N
<1>9. Walk(Seen, m, l)
  <2>1. \E f : Walk(f, m, l)
    BY <1>8
  <2> QED BY <2>1
<1>10. Found(m, l) = Seen
  BY DEF Found, Walk
<1> HIDE DEF Seen
<1>11. DOMAIN Seen = 1 .. N /\ \A i \in 1 .. N : Seen[i] = Step(Seen, i)
  BY <1>9 DEF Walk, N
<1>12. \A i \in 1 .. N : Seen[i] = g[i]
  <2> DEFINE Bad == {i \in 1 .. N : Seen[i] # g[i]}
  <2> SUFFICES ASSUME Bad # {}
               PROVE  FALSE
    OBVIOUS
  <2>1. Bad \in SUBSET Nat
    BY <1>2
  <2>2. PICK k \in Bad : \A j \in Bad : k <= j
    <3> HIDE DEF Bad
    <3> QED BY <2>1, LeastExists
  <2>3. k # 1
    BY <1>7, <1>11
  <2>4. k - 1 \in 1 .. N /\ ~(k <= k - 1)
    BY <1>2, <2>3
  <2>5. Seen[k - 1] = g[k - 1]
    BY <2>2, <2>4
  <2>6. Step(Seen, k) = Step(g, k)
    BY <2>5
  <2> HIDE DEF Step
  <2> QED BY <1>7, <1>11, <2>6
<1>13. \A i \in 1 .. N : Seen[i] \in Slots <=> i \in 1 .. n
  <2> TAKE i \in 1 .. N
  <2>1. CASE i <= n
    BY <1>1, <1>5, <1>12, <2>1
  <2>2. CASE ~(i <= n)
    BY <1>1, <1>3, <1>5, <1>12, <2>2
  <2> QED BY <2>1, <2>2
<1>14. {i \in DOMAIN Seen : Seen[i] \in Slots} = 1 .. n
  <2>1. \A i \in 1 .. n : i \in 1 .. N
    BY <1>1, <1>2
  <2> QED BY <1>11, <1>13, <2>1
<1>15. \A i \in 1 .. n : Seen[i] = v[i]
  BY <1>1, <1>2, <1>5, <1>12
<1>16. Chain(m, l) = [i \in 1 .. n |-> Seen[i]]
  BY <1>10, <1>14 DEF Chain
<1>17. v = [i \in 1 .. n |-> v[i]]
  BY <1>1 DEF n
<1> QED BY <1>15, <1>16, <1>17

\* What a list holds: its elements, and one that is half linked.
LEMMA FromChain ==
  ASSUME NEW m, NEW l \in Lists, NEW w \in Seqs, NEW x \in Slots \cup {l.tail}, x \notin ToSet(w),
         From(m, l, l.head, w, x)
  PROVE  ToSet(Chain(m, l)) = ToSet(w) \cup ({x} \cap Slots)
<1>1. /\ Inner(m, l, w, x) /\ m.next[l.head] = StartOf(w, x)
  BY DEF From
<1>2. l.tail \notin Slots
  BY NodesAre
<1>3. CASE x = l.tail
  <2>1. Path(m, l, w)
    BY <1>1, <1>3 DEF Path, Inner
  <2>2. Chain(m, l) = w
    BY <2>1, ChainIs
  <2> QED BY <1>2, <1>3, <2>2
<1>4. CASE x # l.tail
  <2> DEFINE v == Append(w, x)
  <2>1. x \in Slots
    BY <1>4
  <2>2. v \in Seqs /\ v # <<>> /\ Len(v) = Len(w) + 1 /\ v[Len(w) + 1] = x
        /\ (\A i \in 1 .. Len(w) : v[i] = w[i]) /\ ToSet(v) = ToSet(w) \cup {x}
    BY <2>1, AppendIs
  <2>3. Len(w) \in Nat /\ (w # <<>> <=> Len(w) > 0)
    BY SeqIs
  <2> HIDE DEF v
  <2>4. m.next[l.head] = StartOf(v, l.tail)
    <3>1. CASE w = <<>>
      <4>1. Len(w) + 1 = 1
        BY ONLY <2>3, <3>1
      <4>2. v[1] = x
        BY <2>2, <4>1
      <4> QED BY <1>1, <2>2, <3>1, <4>2 DEF StartOf
    <3>2. CASE w # <<>>
      <4>1. 1 \in 1 .. Len(w)
        BY ONLY <2>3, <3>2
      <4>2. v[1] = w[1]
        BY <2>2, <4>1
      <4> QED BY <1>1, <2>2, <3>2, <4>2 DEF StartOf
    <3> QED BY <3>1, <3>2
  <2>5. m.next[v[Len(v)]] = l.tail
    BY <1>1, <1>4, <2>2 DEF Inner
  <2>6. ASSUME NEW i \in 1 .. Len(v) - 1
        PROVE  m.next[v[i]] = v[i + 1]
    <3>0. Len(v) - 1 = Len(w)
      BY ONLY <2>2, <2>3
    <3>1. i \in 1 .. Len(w) /\ w # <<>>
      BY ONLY <3>0, <2>3, i \in 1 .. Len(v) - 1
    <3>2. v[i] = w[i]
      BY <2>2, <3>1
    <3>3. CASE i = Len(w)
      BY <1>1, <2>2, <3>1, <3>2, <3>3 DEF Inner
    <3>4. CASE i # Len(w)
      <4>1. i + 1 \in 1 .. Len(w) /\ i \in 1 .. Len(w) - 1
        BY ONLY <2>3, <3>1, <3>4
      <4>2. v[i + 1] = w[i + 1]
        BY <2>2, <4>1
      <4> QED BY <1>1, <3>2, <4>1, <4>2 DEF Inner
    <3> QED BY <3>3, <3>4
  <2>7. Path(m, l, v)
    BY <2>4, <2>5, <2>6 DEF Path
  <2>8. Chain(m, l) = v
    BY <2>2, <2>7, ChainIs
  <2> QED BY <2>1, <2>2, <2>8
<1> QED BY <1>3, <1>4

LEMMA ListLinked ==
  ASSUME NEW m, NEW l \in Lists, NEW v \in Seqs, List(m, l, v, l.tail)
  PROVE  Chain(m, l) = v /\ Linked(m, l)
<1>1. /\ Inner(m, l, v, l.tail) /\ m.next[l.head] = StartOf(v, l.tail) /\ m.prev[StartOf(v, l.tail)] = l.head
      /\ (v = <<>> => m.prev[l.tail] = l.head)
  BY ListIs
<1>2. Path(m, l, v)
  BY <1>1 DEF Path, Inner
<1>3. Chain(m, l) = v
  BY <1>2, ChainIs
<1> DEFINE n == Len(v)
           path == <<l.head>> \o v \o <<l.tail>>
<1>4. v \in Seq(Nodes) /\ n \in Nat /\ (v # <<>> <=> n > 0) /\ l.head \in Nodes /\ l.tail \in Nodes
  <2>1. v \in Seq(Slots) /\ n \in Nat /\ (v # <<>> <=> n > 0)
    BY SeqIs
  <2>2. Slots \subseteq Nodes
    BY NodesAre
  <2> QED BY <2>1, <2>2, NodesAre
<1>5. path \in Seq(Nodes) /\ Len(path) = n + 2
  BY <1>4
<1>6. path[1] = l.head /\ path[n + 2] = l.tail /\ \A i \in 1 .. n : path[i + 1] = v[i]
  BY <1>4
<1>7. Linked(m, l) <=> \A i \in 1 .. Len(path) - 1 : m.next[path[i]] = path[i + 1] /\ m.prev[path[i + 1]] = path[i]
  BY <1>3 DEF Linked
<1> HIDE DEF path, n
<1>8. ASSUME NEW i \in 1 .. Len(path) - 1
      PROVE  m.next[path[i]] = path[i + 1] /\ m.prev[path[i + 1]] = path[i]
  <2>1. i \in 1 .. n + 1
    BY ONLY <1>4, <1>5, i \in 1 .. Len(path) - 1
  <2>2. CASE i = 1
    <3>1. path[2] = StartOf(v, l.tail)
      <4>1. CASE v = <<>>
        <5>1. n + 2 = 2
          BY ONLY <1>4, <4>1
        <5> QED BY <1>6, <4>1, <5>1 DEF StartOf
      <4>2. CASE v # <<>>
        <5>1. 1 \in 1 .. n /\ 1 + 1 = 2
          BY ONLY <1>4, <4>2
        <5> QED BY <1>6, <4>2, <5>1 DEF StartOf
      <4> QED BY <4>1, <4>2
    <3>2. i + 1 = 2
      BY <2>2
    <3> QED BY <1>1, <1>6, <2>2, <3>1, <3>2
  <2>3. CASE i # 1 /\ i # n + 1
    <3>1. i - 1 \in 1 .. n - 1 /\ i - 1 \in 1 .. n /\ i \in 1 .. n /\ (i - 1) + 1 = i
      BY ONLY <1>4, <2>1, <2>3
    <3>2. path[i] = v[i - 1] /\ path[i + 1] = v[i]
      BY <1>6, <3>1
    <3> QED BY <1>1, <3>1, <3>2 DEF Inner, n
  <2>4. CASE i # 1 /\ i = n + 1
    <3>1. n \in 1 .. n /\ n > 0
      BY ONLY <1>4, <2>1, <2>4
    <3>2. i + 1 = n + 2
      BY ONLY <1>4, <2>4
    <3>3. path[i] = v[n] /\ path[i + 1] = l.tail
      BY <1>6, <2>4, <3>1, <3>2
    <3> QED BY <1>1, <1>4, <3>1, <3>3 DEF Inner, n
  <2> QED BY <2>2, <2>3, <2>4
<1> QED BY <1>3, <1>7, <1>8

LEMMA SoundIf ==
  ASSUME NEW v \in Seqs, ToSet(v) = Runnable, List(link, r_list, v, R),
         NEW w \in Seqs, NEW x \in Slots \cup {D}, From(link, d_list, d_list.head, w, x), Dead(w, x)
  PROVE  ListsSound
<1>1. /\ r_list \in Lists /\ d_list \in Lists /\ R = r_list.tail /\ D = d_list.tail /\ D \notin Slots
  BY NodesAre, ListsApart DEF R, D
<1>2. Chain(link, r_list) = v /\ Linked(link, r_list)
  BY <1>1, ListLinked
<1>3. x \notin ToSet(w) /\ ToSet(w) \subseteq Slots
  BY <1>1, SeqIs DEF Dead
<1>4. ToSet(Chain(link, d_list)) = ToSet(w) \cup ({x} \cap Slots)
  BY <1>1, <1>3, FromChain
<1>5. IsInjective(Chain(link, r_list)) /\ ToSet(Chain(link, r_list)) = {s \in Slots : state[s] = "RUN"}
  BY <1>2 DEF Seqs, Runnable
<1>6. ToSet(Chain(link, d_list)) \subseteq {s \in Slots : state[s] = "ZOMBIE"}
  BY <1>3, <1>4 DEF Dead
<1>7. ASSUME NEW s \in Slots, state[s] = "ZOMBIE", \A i \in DOMAIN code[s] : code[s][i].op \notin StoreOps
      PROVE  s \in ToSet(Chain(link, d_list)) \/ On("unuse", s) \in ToSet(code[IdleSlot])
  <2>1. ~Pending(s)
    BY <1>7 DEF Pending
  <2> QED BY <1>4, <1>7, <2>1 DEF Dead
<1> QED BY <1>2, <1>5, <1>6, <1>7 DEF ListsSound

\* Statements of a list operation are left.
LEMMA InFree ==
  ASSUME NEW c, NEW k \in 1 .. 10, code[c] = Left(Free(c), k)
  PROVE  Pending(c)
<1> DEFINE p == Free(c)
<1>1. FreeAt(p, c)
  BY FreeIs DEF FreeAt
<1>2. code[c] = Left(p, k)
  OBVIOUS
<1> HIDE DEF p
<1>3. HasStore(Left(p, k))
  BY <1>1, FreePending
<1> QED BY <1>2, <1>3 DEF Pending, HasStore

LEMMA InReap ==
  ASSUME NEW c, NEW e, NEW k \in 1 .. 2, code[c] = Left(Reap(e), k)
  PROVE  Pending(c)
<1> DEFINE p == Reap(e)
           S == All(e)
<1>1. p \in Seq(S) /\ Len(p) = 3 /\ p[2] = On("pass_back", e)
  BY ReapIs
<1>2. p[2].op \in StoreOps
  BY <1>1, StoresAre
<1>3. code[c] = Left(p, k)
  OBVIOUS
<1> HIDE DEF p, S
<1>4. Len(p) = 3
  BY <1>1
<1>5. 2 \in k .. Len(p) /\ k \in Nat \ {0}
  BY <1>4
<1>6. HasStore(Left(p, k))
  BY <1>1, <1>2, <1>5, LeftStores
<1> QED BY <1>3, <1>6 DEF Pending, HasStore

LEMMA InAgain ==
  ASSUME NEW c, NEW k \in 1 .. 8, code[c] = Left(Again(c), k)
  PROVE  Pending(c)
<1> DEFINE p == Again(c)
           S == All(c)
<1>1. p \in Seq(S) /\ Len(p) = 9 /\ p[8] = In("link_back", r_list, c)
  BY AgainIs
<1>2. p[8].op \in StoreOps
  BY <1>1, StoresAre
<1>3. code[c] = Left(p, k)
  OBVIOUS
<1> HIDE DEF p, S
<1>4. Len(p) = 9
  BY <1>1
<1>5. 8 \in k .. Len(p) /\ k \in Nat \ {0}
  BY <1>4
<1>6. HasStore(Left(p, k))
  BY <1>1, <1>2, <1>5, LeftStores
<1> QED BY <1>3, <1>6 DEF Pending, HasStore

LEMMA SoundNow ==
  ASSUME IInv
  PROVE  ListsSound
<1>1. PICK u, w \in Seqs, x \in Slots \cup {D} :
         ToSet(u) = Runnable \ {cur_process} /\ Situation(cur_process, u, w, x)
  BY DEF IInv
<1>2. PICK c : c = cur_process
  OBVIOUS
<1>3. Situation(c, u, w, x) /\ ToSet(u) = Runnable \ {c}
  BY <1>1, <1>2
<1>4. Types /\ Who /\ c \in Slots
  BY <1>2 DEF IInv, Types
<1>5. r_list \in Lists /\ R = r_list.tail /\ R \in Slots \cup {r_list.tail} /\ c \notin ToSet(u)
  BY <1>3, ListsApart DEF R
<1> SUFFICES ASSUME ~Pending(c)
             PROVE  ListsSound
  BY <1>2 DEF ListsSound, InOperation, Pending
<1>6. ASSUME Fronts(link, r_list, c, u, R), state[c] = "RUN", From(link, d_list, d_list.head, w, x), Dead(w, x)
      PROVE  ListsSound
  <2> DEFINE v == <<c>> \o u
  <2>1. v \in Seqs /\ ToSet(v) = ToSet(u) \cup {c}
    BY <1>4, <1>5, ConsIs
  <2>2. List(link, r_list, v, R)
    BY <1>4, <1>5, <1>6, FirstOfList
  <2>3. ToSet(v) = Runnable
    BY <1>3, <1>4, <1>6, <2>1 DEF Runnable
  <2> HIDE DEF v
  <2> QED BY <1>6, <2>1, <2>2, <2>3, SoundIf
<1>7. \A y : List(link, d_list, y, x) => From(link, d_list, d_list.head, y, x)
  BY DEF List
<1>8. CASE Still(c, u, w, x) /\ Dead(w, x)
  BY <1>6, <1>7, <1>8 DEF Still
<1>9. CASE Idling(c, u, w, x) /\ Dead(w, x)
  BY <1>4, <1>6, <1>9 DEF Idling, Who
<1>10. CASE (\E e \in Slots, k \in 1 .. 3 : Reaping(c, u, w, x, e, k)) /\ Dead(w, x)
  <2>1. PICK e \in Slots, k \in 1 .. 3 : Reaping(c, u, w, x, e, k)
    BY <1>10
  <2>2. k \notin 1 .. 2
    BY <2>1, InReap DEF Reaping
  <2>3. k > 2
    BY <2>2
  <2> QED BY <1>4, <1>6, <1>10, <2>1, <2>3 DEF Reaping, Who
<1>11. CASE (\E k \in 1 .. 9 : Requeueing(c, u, w, x, k)) /\ Dead(w, x)
  <2>1. PICK k \in 1 .. 9 : Requeueing(c, u, w, x, k)
    BY <1>11
  <2>2. k \notin 1 .. 8
    BY <2>1, InAgain DEF Requeueing
  <2>3. k = 9
    BY <2>2
  <2> DEFINE v == Append(u, c)
  <2>4. List(link, r_list, v, R) /\ List(link, d_list, w, x) /\ state[c] = "RUN"
    BY <1>4, <2>1, <2>3 DEF Requeueing, Who
  <2>5. v \in Seqs /\ ToSet(v) = ToSet(u) \cup {c}
    BY <1>4, <1>5, AppendIs
  <2>6. ToSet(v) = Runnable
    BY <1>3, <1>4, <2>4, <2>5 DEF Runnable
  <2> HIDE DEF v
  <2> QED BY <1>7, <1>11, <2>4, <2>5, <2>6, SoundIf
<1>12. CASE (\E k \in 3 .. 6 : Leaving(c, u, w, x, k)) /\ Dead(w, x)
  <2>1. PICK k \in 3 .. 6 : Leaving(c, u, w, x, k)
    BY <1>12
  <2>2. k \in 1 .. 10
    OBVIOUS
  <2> QED BY <2>1, <2>2, InFree DEF Leaving
<1>13. CASE (\E k \in 7 .. 10 : Burying(c, u, w, x, k)) /\ Dead(w, x)
  <2>1. PICK k \in 7 .. 10 : Burying(c, u, w, x, k)
    BY <1>13
  <2>2. k \in 1 .. 10
    OBVIOUS
  <2> QED BY <2>1, <2>2, InFree DEF Burying
<1>14. ASSUME state[c] = "ZOMBIE"
       PROVE  ToSet(u) = Runnable
  BY <1>3, <1>14 DEF Runnable
<1>15. CASE Gone(c, u, w, x) /\ Dead(w, x)
  <2>1. List(link, r_list, u, R) /\ List(link, d_list, w, x) /\ ToSet(u) = Runnable
    BY <1>14, <1>15 DEF Gone
  <2> QED BY <1>7, <1>15, <2>1, SoundIf
<1>16. CASE \E k \in 0 .. 6 : Exited(c, u, w, x, k) /\ Dead(IF k = 0 THEN Append(w, c) ELSE w, x)
  <2>1. PICK k \in 0 .. 6 : Exited(c, u, w, x, k) /\ Dead(IF k = 0 THEN Append(w, c) ELSE w, x)
    BY <1>16
  <2>2. CASE k # 0
    <3>1. k \in 1 .. 10 /\ k > 0 /\ k # 0
      BY <2>2
    <3>2. code[c] = Left(Free(c), k)
      BY <2>1, <3>1 DEF Exited
    <3> QED BY <3>1, <3>2, InFree
  <2>3. CASE k = 0
    <3> DEFINE y == Append(w, c)
    <3>1. List(link, r_list, u, R) /\ List(link, d_list, y, x) /\ ToSet(u) = Runnable /\ Dead(y, x)
          /\ c \notin ToSet(w)
      BY <1>14, <2>1, <2>3 DEF Exited
    <3>2. y \in Seqs
      BY <1>4, <3>1, AppendIs
    <3> HIDE DEF y
    <3> QED BY <1>7, <3>1, <3>2, SoundIf
  <2> QED BY <2>2, <2>3
<1> QED BY <1>3, <1>8, <1>9, <1>10, <1>11, <1>12, <1>13, <1>15, <1>16 DEF Situation

\* Outside the current process's list operations r_list is linked both ways and holds the
\* runnable processes once each, and no zombie is lost from d_list before idle reaps it.
THEOREM ListsAreSound ==
  ASSUME Calm
  PROVE  Spec => []ListsSound
<1>1. IInv => ListsSound
  BY SoundNow
<1> QED BY <1>1, Invariance, PTL

-----------------------------------------------------------------------------
(* The queue of RunQueue, found from the head of r_list.                   *)

HasSwitch(p) == \E i \in DOMAIN p : p[i].op = "switch"

\* RunQueueNow, where c has the statements p left and the state s.
QueueIn(m, p, s, c) ==
  IF HasSwitch(p) /\ s = "RUN" /\ c \notin ToSet(Chain(m, r_list))
  THEN <<c>> \o Chain(m, r_list) ELSE Chain(m, r_list)

LEMMA RunQueueIs ==
  /\ RunQueueNow = QueueIn(link, code[cur_process], state[cur_process], cur_process)
  /\ RunQueueNow' = QueueIn(link', code'[cur_process'], state'[cur_process'], cur_process')
BY DEF RunQueueNow, QueueIn, HasSwitch

LEMMA InQueue ==
  ASSUME NEW m, NEW v \in Seqs, Path(m, r_list, v), NEW p, NEW s, NEW c,
         ~HasSwitch(p) \/ s # "RUN" \/ c \in ToSet(v)
  PROVE  QueueIn(m, p, s, c) = v
<1>1. Chain(m, r_list) = v
  BY ListsApart, ChainIs
<1> QED BY <1>1 DEF QueueIn

LEMMA BesideQueue ==
  ASSUME NEW m, NEW v \in Seqs, Path(m, r_list, v), NEW p, NEW s, NEW c,
         HasSwitch(p), s = "RUN", c \notin ToSet(v)
  PROVE  QueueIn(m, p, s, c) = <<c>> \o v
<1>1. Chain(m, r_list) = v
  BY ListsApart, ChainIs
<1> QED BY <1>1 DEF QueueIn

\* The lists of processes that lead from the head of r_list.
LEMMA PathIs ==
  ASSUME NEW m, NEW l \in Lists, NEW u \in Seqs, Inner(m, l, u, l.tail)
  PROVE  /\ Starts(m, l, u, l.tail) => Path(m, l, u)
         /\ \A c \in Slots : c \notin ToSet(u) /\ m.next[l.head] = c /\ m.next[c] = StartOf(u, l.tail)
              => Path(m, l, <<c>> \o u)
<1>1. /\ \A i \in 1 .. Len(u) - 1 : m.next[u[i]] = u[i + 1]
      /\ u # <<>> => m.next[u[Len(u)]] = l.tail
      /\ Len(u) \in Nat /\ (u # <<>> <=> Len(u) > 0)
  BY SeqIs DEF Inner
<1>2. Starts(m, l, u, l.tail) => Path(m, l, u)
  BY <1>1 DEF Starts, Path
<1>3. ASSUME NEW c \in Slots, c \notin ToSet(u), m.next[l.head] = c, m.next[c] = StartOf(u, l.tail)
      PROVE  Path(m, l, <<c>> \o u)
  <2> DEFINE v == <<c>> \o u
  <2>1. v # <<>> /\ Len(v) = Len(u) + 1 /\ v[1] = c /\ \A i \in 1 .. Len(u) : v[i + 1] = u[i]
    BY <1>3, ConsIs
  <2> HIDE DEF v
  <2>2. m.next[l.head] = StartOf(v, l.tail)
    BY <1>3, <2>1 DEF StartOf
  <2>3. ASSUME NEW i \in 1 .. Len(v) - 1
        PROVE  m.next[v[i]] = v[i + 1]
    <3>0. i \in 1 .. Len(u) /\ v[i + 1] = u[i] /\ u # <<>>
      BY <1>1, <2>1
    <3>1. CASE i = 1
      <4>1. m.next[c] = u[1]
        BY <1>3, <3>0 DEF StartOf
      <4> QED BY <2>1, <3>0, <3>1, <4>1
    <3>2. CASE i # 1
      <4>1. i - 1 \in 1 .. Len(u) - 1 /\ (i - 1) + 1 = i /\ i - 1 \in 1 .. Len(u)
        BY <1>1, <3>0, <3>2
      <4>2. v[i] = u[i - 1] /\ m.next[u[i - 1]] = u[i]
        BY <1>1, <2>1, <4>1
      <4> QED BY <3>0, <4>2
    <3> QED BY <3>1, <3>2
  <2>4. m.next[v[Len(v)]] = l.tail
    <3>1. CASE u = <<>>
      <4>1. Len(v) = 1
        BY <1>1, <2>1, <3>1
      <4> QED BY <1>3, <2>1, <3>1, <4>1 DEF StartOf
    <3>2. CASE u # <<>>
      <4>1. Len(u) \in 1 .. Len(u)
        BY <1>1, <3>2
      <4> QED BY <1>1, <2>1, <3>2, <4>1
    <3> QED BY <3>1, <3>2
  <2>5. Path(m, l, v)
    BY <2>1, <2>2, <2>3, <2>4 DEF Path
  <2> QED BY <2>5 DEF v
<1> QED BY <1>2, <1>3

\* The last one is linked forward only.
LEMMA PathToLast ==
  ASSUME NEW m, NEW l \in Lists, NEW u \in Seqs, NEW c \in Slots, c \notin ToSet(u), List(m, l, u, c)
  PROVE  Path(m, l, Append(u, c))
<1> DEFINE v == Append(u, c)
<1>1. /\ v # <<>> /\ Len(v) = Len(u) + 1 /\ v[Len(u) + 1] = c /\ \A i \in 1 .. Len(u) : v[i] = u[i]
      /\ Len(u) \in Nat /\ (u # <<>> <=> Len(u) > 0)
  BY AppendIs, SeqIs
<1> HIDE DEF v
<1>2. c # l.tail
  BY NodesAre
<1>3. /\ \A i \in 1 .. Len(u) - 1 : m.next[u[i]] = u[i + 1]
      /\ u # <<>> => m.next[u[Len(u)]] = c
      /\ m.next[c] = l.tail /\ m.next[l.head] = StartOf(u, c)
  BY <1>2, ListIs DEF Inner
<1>4. m.next[l.head] = StartOf(v, l.tail)
  <2>1. CASE u = <<>>
    <3>1. v[1] = c
      BY <1>1, <2>1
    <3> QED BY <1>1, <1>3, <2>1, <3>1 DEF StartOf
  <2>2. CASE u # <<>>
    <3>1. v[1] = u[1]
      BY <1>1, <2>2
    <3> QED BY <1>1, <1>3, <2>2, <3>1 DEF StartOf
  <2> QED BY <2>1, <2>2
<1>5. ASSUME NEW i \in 1 .. Len(v) - 1
      PROVE  m.next[v[i]] = v[i + 1]
  <2>0. i \in 1 .. Len(u) /\ v[i] = u[i]
    BY <1>1
  <2>1. CASE i = Len(u)
    <3>1. u # <<>>
      BY <1>1, <2>0
    <3> QED BY <1>1, <1>3, <2>0, <2>1, <3>1
  <2>2. CASE i # Len(u)
    <3>1. i \in 1 .. Len(u) - 1 /\ i + 1 \in 1 .. Len(u)
      BY <1>1, <2>0, <2>2
    <3> QED BY <1>1, <1>3, <2>0, <3>1
  <2> QED BY <2>1, <2>2
<1>6. m.next[v[Len(v)]] = l.tail
  BY <1>1, <1>3
<1>7. Path(m, l, v)
  BY <1>1, <1>4, <1>5, <1>6 DEF Path
<1> QED BY <1>7 DEF v

LEMMA PathKept ==
  ASSUME NEW m, NEW m2, NEW l, NEW v \in Seqs, Path(m, l, v),
         m2.next[l.head] = m.next[l.head], \A n \in ToSet(v) : m2.next[n] = m.next[n]
  PROVE  Path(m2, l, v)
<1>1. /\ Len(v) \in Nat /\ (v # <<>> <=> Len(v) > 0) /\ \A i \in 1 .. Len(v) : v[i] \in ToSet(v)
  BY SeqIs
<1>2. ASSUME NEW i \in 1 .. Len(v) - 1
      PROVE  m2.next[v[i]] = v[i + 1]
  <2>1. v[i] \in ToSet(v)
    <3>1. i \in 1 .. Len(v)
      BY <1>1
    <3> QED BY <1>1, <3>1
  <2>2. m.next[v[i]] = v[i + 1]
    BY DEF Path
  <2> QED BY <2>1, <2>2
<1>3. v # <<>> => m2.next[v[Len(v)]] = l.tail
  BY <1>1 DEF Path
<1> QED BY <1>2, <1>3 DEF Path

\* What RunQueue allows: the head goes to the end or leaves, or someone joins.
Moves(q, r) ==
  \/ r = q
  \/ q # <<>> /\ r = Append(Tail(q), Head(q))
  \/ q # <<>> /\ Head(q) # IdleSlot /\ r = Tail(q)
  \/ \E t \in Slots \ {q[i] : i \in DOMAIN q} : r = Append(q, t)

LEMMA MovesAre ==
  ASSUME NEW u \in Seqs, NEW c \in Slots, c \notin ToSet(u)
  PROVE  /\ Moves(<<c>> \o u, Append(u, c))
         /\ c # IdleSlot => Moves(<<c>> \o u, u)
         /\ Moves(u, Append(u, c))
<1> DEFINE v == <<c>> \o u
<1>1. u \in Seq(Slots) /\ v # <<>>
  BY SeqIs, ConsIs
<1>2. Head(v) = c /\ Tail(v) = u
  BY <1>1
<1> HIDE DEF v
<1>3. c \notin {u[i] : i \in DOMAIN u}
  BY DEF ToSet
<1>4. Moves(v, Append(u, c)) /\ (c # IdleSlot => Moves(v, u))
  BY <1>1, <1>2 DEF Moves
<1>5. Moves(u, Append(u, c))
  BY <1>3 DEF Moves
<1> QED BY <1>4, <1>5 DEF v

QueueMoves == Moves(RunQueueNow, RunQueueNow')

\* The queue before and after a step, by the path from the head of r_list.
LEMMA QueueNow ==
  ASSUME NEW v \in Seqs, Path(link, r_list, v),
         ~HasSwitch(code[cur_process]) \/ state[cur_process] # "RUN" \/ cur_process \in ToSet(v)
  PROVE  RunQueueNow = v
BY RunQueueIs, InQueue

LEMMA QueueNext ==
  ASSUME NEW v \in Seqs, Path(link', r_list, v),
         ~HasSwitch(code'[cur_process']) \/ state'[cur_process'] # "RUN" \/ cur_process' \in ToSet(v)
  PROVE  RunQueueNow' = v
<1> DEFINE m == link'
           p == code'[cur_process']
           s == state'[cur_process']
           c == cur_process'
<1>1. Path(m, r_list, v) /\ (~HasSwitch(p) \/ s # "RUN" \/ c \in ToSet(v)) /\ RunQueueNow' = QueueIn(m, p, s, c)
  BY RunQueueIs
<1> HIDE DEF m, p, s, c
<1> QED BY <1>1, InQueue

LEMMA PathOfFront ==
  ASSUME NEW m, NEW u \in Seqs, NEW c \in Slots, c \notin ToSet(u), Fronts(m, r_list, c, u, R)
  PROVE  <<c>> \o u \in Seqs /\ c \in ToSet(<<c>> \o u) /\ ToSet(<<c>> \o u) = ToSet(u) \cup {c}
         /\ Path(m, r_list, <<c>> \o u)
<1>1. <<c>> \o u \in Seqs /\ ToSet(<<c>> \o u) = ToSet(u) \cup {c}
  BY ConsIs
<1>2. r_list \in Lists /\ R = r_list.tail
  BY ListsApart DEF R
<1>3. Inner(m, r_list, u, r_list.tail) /\ m.next[r_list.head] = c /\ m.next[c] = StartOf(u, r_list.tail)
  BY <1>2 DEF Fronts, From
<1>4. Path(m, r_list, <<c>> \o u)
  BY <1>2, <1>3, PathIs
<1> QED BY <1>1, <1>4

LEMMA PathOfList ==
  ASSUME NEW m, NEW u \in Seqs, List(m, r_list, u, R)
  PROVE  Path(m, r_list, u)
<1>1. r_list \in Lists /\ R = r_list.tail
  BY ListsApart DEF R
<1>2. Inner(m, r_list, u, r_list.tail) /\ Starts(m, r_list, u, r_list.tail)
  BY <1>1, ListIs DEF Starts
<1> QED BY <1>1, <1>2, PathIs

\* A step that does not reach r_list, of a process that stands at the front.
LEMMA FrontStays ==
  ASSUME NEW u \in Seqs, NEW c \in Slots, c = cur_process, c \notin ToSet(u), Fronts(link, r_list, c, u, R),
         cur_process' = c, \A n \in Nodes \ {d_list.head} : link'.next[n] = link.next[n]
  PROVE  QueueMoves
<1> DEFINE v == <<c>> \o u
<1>1. v \in Seqs /\ c \in ToSet(v) /\ Path(link, r_list, v)
  BY PathOfFront
<1> HIDE DEF v
<1>2. r_list.head \in Nodes /\ r_list.head # d_list.head /\ d_list.head \notin Slots
      /\ \A n \in ToSet(v) : n \in Nodes /\ n \in Slots
  BY <1>1, NodesAre, ListsApart, SeqIs
<1>3. Path(link', r_list, v)
  BY <1>1, <1>2, PathKept
<1>4. RunQueueNow = v
  BY <1>1, QueueNow
<1>5. RunQueueNow' = v
  BY <1>1, <1>3, QueueNext
<1> QED BY <1>4, <1>5 DEF QueueMoves, Moves

\* A step of a process that is not in the queue and does not come into it.
LEMMA BesideStays ==
  ASSUME NEW u \in Seqs, NEW c, c = cur_process, Path(link, r_list, u), Path(link', r_list, u), cur_process' = c,
         \/ state[c] # "RUN" /\ state'[c] # "RUN"
         \/ ~HasSwitch(code[c]) /\ ~HasSwitch(code'[c])
  PROVE  QueueMoves
<1>1. RunQueueNow = u
  BY QueueNow
<1>2. RunQueueNow' = u
  BY QueueNext
<1> QED BY <1>1, <1>2 DEF QueueMoves, Moves

\* schedule() makes the first of r_list the current process.
LEMMA FirstIsNext ==
  ASSUME NEW v \in Seqs, v # <<>>, ToSet(v) = Runnable, List(link', r_list, v, R),
         cur_process' = FrontRunnable(link')
  PROVE  RunQueueNow' = v
<1> DEFINE m == link'
<1>1. List(m, r_list, v, R) /\ cur_process' = FrontRunnable(m)
  OBVIOUS
<1> HIDE DEF m
<1>2. cur_process' = v[1] /\ v[1] \in ToSet(v) /\ Path(m, r_list, v)
  BY <1>1, FirstRuns, TailOf, PathOfList
<1> QED BY <1>2, QueueNext DEF m

LEMMA TickQueue ==
  ASSUME NEW u, NEW w, NEW x, Now(u, w, x), Tick, NEW c, c = cur_process, state[c] = "RUN",
         Hangs(link, r_list, c, u, R)
  PROVE  RunQueueNow' = Append(u, c)
<1>1. c \in Slots /\ link \in LinkType /\ u \in Seqs /\ ToSet(u) = Runnable \ {c}
  BY DEF Now, Types
<1>2. c \notin ToSet(u) /\ R = r_list.tail /\ Setting(link, r_list, u, R, c)
  <2>1. R = r_list.tail /\ r_list \in Lists /\ c # R /\ R \notin Slots
    BY <1>1, NodesAre, ListsApart DEF R
  <2>2. R \notin ToSet(u) /\ c \notin ToSet(u)
    BY <1>1, <2>1 DEF Runnable
  <2> QED BY <1>1, <2>1, <2>2 DEF Setting
<1>3. link' = Done(link, Move(r_list, c)) /\ cur_process' = FrontRunnable(link')
  BY DEF Tick, Requeue, Move
<1>4. List(link', r_list, Append(u, c), R)
  <2>1. IsLinked(link, link', r_list, u, c)
    BY <1>2, <1>3, MovedBack
  <2> QED BY <1>2, <2>1 DEF IsLinked
<1> DEFINE v == Append(u, c)
<1>5. v \in Seqs /\ v # <<>> /\ ToSet(v) = Runnable
  <2>1. v \in Seqs /\ v # <<>> /\ ToSet(v) = ToSet(u) \cup {c}
    BY <1>1, <1>2, AppendIs
  <2> QED BY <1>1, <2>1 DEF Runnable
<1>6. List(link', r_list, v, R)
  BY <1>4
<1> HIDE DEF v
<1>7. RunQueueNow' = v
  BY <1>3, <1>5, <1>6, FirstIsNext
<1> QED BY <1>7 DEF v

\* A tick or the end of schedule(), when the current process is a zombie.
LEMMA ZombieSwitches ==
  ASSUME NEW u, NEW w, NEW x, Now(u, w, x), state[cur_process] = "ZOMBIE", List(link, r_list, u, R),
         Tick \/ Switch
  PROVE  QueueMoves
<1>1. u \in Seqs /\ u # <<>> /\ ToSet(u) = Runnable
  BY SomeoneRuns DEF Now
<1>2. link' = link /\ cur_process' = FrontRunnable(link')
  <2>1. CASE Tick
    <3>1. link' = Done(link, <<>>) /\ cur_process' = FrontRunnable(link')
      BY <2>1 DEF Tick, Requeue
    <3>2. r_list \in Lists
      BY ListsApart
    <3> QED BY <3>1, <3>2, WholeOperations
  <2>2. CASE Switch
    BY <2>2 DEF Switch
  <2> QED BY <2>1, <2>2
<1>3. RunQueueNow' = u
  BY <1>1, <1>2, FirstIsNext
<1>4. RunQueueNow = u
  BY <1>1, QueueNow, PathOfList
<1> QED BY <1>3, <1>4 DEF QueueMoves, Moves

\* Steps that do not store into the lists nor switch.
LEMMA QuietIs ==
  ASSUME IdleLoop \/ KernelLoop \/ CommandReturns \/ UserInput \/ Unlock \/ SetState \/ Pick
  PROVE  link' = link /\ cur_process' = cur_process
BY DEF IdleLoop, KernelLoop, CommandReturns, UserInput, ShellCommand, Continue, Unlock, SetState, Pick

\* Stores into prev leave every path forward as it is.
LEMMA SetPrevForward ==
  ASSUME NEW m \in LinkType, NEW a, NEW b
  PROVE  SetPrev(m, a, b).next = m.next
BY DEF SetPrev, LinkType

LEMMA PassBackStores ==
  ASSUME NEW m \in LinkType, NEW e
  PROVE  Stored(m, On("pass_back", e)).next = m.next
<1> DEFINE m2 == Stored(m, On("pass_back", e))
<1>1. m2 = m \/ m2 = SetPrev(m, m.next[e], m.prev[e])
  BY PassBackEither
<1> HIDE DEF m2
<1>2. m2.next = m.next
  BY <1>1, SetPrevForward
<1> QED BY <1>2 DEF m2

LEMMA SetPrevStores ==
  ASSUME NEW m \in LinkType, NEW l, NEW e
  PROVE  Stored(m, In("set_prev", l, e)).next = m.next
<1>1. Stored(m, In("set_prev", l, e)) = SetPrev(m, e, m.prev[l.tail])
  BY LinkStores
<1> QED BY <1>1, SetPrevForward

LEMMA LinkBackStores ==
  ASSUME NEW m \in LinkType, NEW l, NEW e
  PROVE  Stored(m, In("link_back", l, e)).next = m.next
<1>1. Stored(m, In("link_back", l, e)) = SetPrev(m, l.tail, e)
  BY LinkStores
<1> QED BY <1>1, SetPrevForward

\* pass forward writes the next of the element before.
LEMMA PassWrites ==
  ASSUME NEW m \in LinkType, NEW e \in Slots, NEW a \in Nodes, m.prev[e] = a, NEW m2,
         m2 = Stored(m, On("pass_forward", e))
  PROVE  \A n \in Nodes : n # a => m2.next[n] = m.next[n]
<1>1. m2 = SetNext(m, a, m.next[e])
  BY PassForward
<1>2. e \in Nodes /\ m.next[e] \in Nodes \cup {NULL}
  BY NodesAre DEF LinkType
<1> QED BY <1>1, <1>2, NextIs

LEMMA LeftIn ==
  ASSUME NEW S, NEW p \in Seq(S), NEW k \in 1 .. Len(p)
  PROVE  Left(p, k) \in Seq(S)
BY DEF Left

\* A process whose statements are done.
LEMMA ReadyStep ==
  ASSUME code[cur_process] = <<>>, Next
  PROVE  IdleLoop \/ KernelLoop \/ CommandReturns \/ CommandExits \/ UserInput \/ Tick
<1>1. Ready
  BY DEF Ready
<1>2. ~Store /\ ~Unlock /\ ~SetState /\ ~proc_create /\ ~Pick /\ ~Switch
  BY <1>1 DEF Store, Unlock, SetState, proc_create, Pick, Switch, Next1
<1> QED BY <1>2 DEF Next, Go

\* The queue while idle() looks at d_list and reaps.
LEMMA IdlingQueue ==
  ASSUME NEW u, NEW w, NEW x, Now(u, w, x), NEW c, c = cur_process, Idling(c, u, w, x), Next
  PROVE  QueueMoves
<1>1. c \in Slots /\ u \in Seqs /\ c \notin ToSet(u) /\ func[c] = "idle" /\ code[c] = <<>> /\ Fronts(link, r_list, c, u, R)
  BY DEF Now, Types, Idling
<1>2. ~Tick
  <2>1. Shielded(cur_process)
    BY <1>1 DEF Shielded
  <2> QED BY <2>1, Undisturbed
<1>3. ~CommandExits
  BY <1>1 DEF CommandExits
<1>4. link' = link /\ cur_process' = c
  BY <1>1, <1>2, <1>3, ReadyStep, QuietIs
<1> QED BY <1>1, <1>4, FrontStays

LEMMA ReapingQueue ==
  ASSUME NEW u, NEW w, NEW x, Now(u, w, x), NEW e \in Slots, NEW k \in 1 .. 3,
         NEW c, c = cur_process, Reaping(c, u, w, x, e, k), Next
  PROVE  QueueMoves
<1> DEFINE p == Reap(e)
<1>1. /\ c \in Slots /\ u \in Seqs /\ c \notin ToSet(u) /\ func[c] = "idle" /\ code[c] = Left(p, k)
      /\ Fronts(link, r_list, c, u, R) /\ link \in LinkType
      /\ k < 3 => link.prev[e] = d_list.head
  BY DEF Now, Types, Reaping, Hangs
<1>2. p \in Seq(All(e)) /\ Len(p) = 3 /\ p[1] = On("pass_forward", e) /\ p[2] = On("pass_back", e) /\ p[3] = On("unuse", e)
  BY ReapIs
<1> HIDE DEF p
<1>3. At(p, k, p[k])
  <2>1. Len(p) = 3
    BY <1>2
  <2>2. k \in 1 .. Len(p)
    BY <2>1
  <2> QED BY <1>1, <1>2, <2>2 DEF At
<1>4. ~Tick
  <2>1. Shielded(cur_process)
    BY <1>1 DEF Shielded
  <2> QED BY <2>1, Undisturbed
<1>5. ASSUME p[k].op \in StoreOps
      PROVE  link' = Stored(link, p[k]) /\ cur_process' = c
  BY <1>3, <1>4, <1>5, Stores DEF Executes, Others
<1>6. cur_process' = c /\ \A n \in Nodes \ {d_list.head} : link'.next[n] = link.next[n]
  <2>1. CASE k = 1
    <3>1. p[k] = On("pass_forward", e) /\ p[k].op \in StoreOps
      BY <1>2, <2>1, StoresAre
    <3>2. d_list.head \in Nodes /\ link.prev[e] = d_list.head
      BY <1>1, <2>1, NodesAre, ListsApart
    <3>3. link' = Stored(link, On("pass_forward", e)) /\ cur_process' = c
      BY <1>5, <3>1
    <3>4. link \in LinkType /\ d_list.head \in Nodes /\ link.prev[e] = d_list.head
      BY <1>1, <3>2
    <3>5. \A n \in Nodes : n # d_list.head => link'.next[n] = link.next[n]
      <4>1. link' = Stored(link, On("pass_forward", e))
        BY <3>3
      <4> QED BY ONLY <3>4, <4>1, e \in Slots, PassWrites
    <3> QED BY <3>3, <3>5
  <2>2. CASE k = 2
    <3>1. p[k] = On("pass_back", e) /\ p[k].op \in StoreOps
      BY <1>2, <2>2, StoresAre
    <3>2. link' = Stored(link, On("pass_back", e)) /\ cur_process' = c
      BY <1>5, <3>1
    <3>3. link'.next = link.next
      BY <1>1, <3>2, PassBackStores
    <3> QED BY <3>2, <3>3
  <2>3. CASE k = 3
    <3>1. code[c] # <<>> /\ Head(code[c]) = On("unuse", e)
      BY <1>2, <1>3, <2>3, AtIs
    <3>2. Does(On("unuse", e))
      BY <1>4, <3>1, StatementStep
    <3>3. SetState
      BY <3>2, DoesIs
    <3> QED BY <3>3, QuietIs
  <2> QED BY <2>1, <2>2, <2>3
<1> QED BY <1>1, <1>6, FrontStays

\* get_next_proc(): the process is in the queue until it is linked again.
LEMMA RequeueingQueue ==
  ASSUME NEW u, NEW w, NEW x, Now(u, w, x), NEW k \in 1 .. 9,
         NEW c, c = cur_process, Requeueing(c, u, w, x, k), Next
  PROVE  QueueMoves
<1> DEFINE p == Again(c)
<1>1. /\ c \in Slots /\ u \in Seqs /\ c \notin ToSet(u) /\ func[c] \in {"idle", "kernel"} /\ code[c] = Left(p, k)
      /\ link \in LinkType /\ state[c] = "RUN" /\ ToSet(u) = Runnable \ {c}
  BY DEF Now, Types, Who, Requeueing
<1>2. Setting(link, r_list, u, R, c) /\ R = r_list.tail /\ r_list \in Lists
  <2>1. R = r_list.tail /\ r_list \in Lists /\ c # R /\ R \notin Slots
    BY <1>1, NodesAre, ListsApart DEF R
  <2>2. R \notin ToSet(u)
    BY <1>1, <2>1 DEF Runnable
  <2> QED BY <1>1, <2>1, <2>2 DEF Setting
<1>3. /\ p \in Seq(All(c)) /\ Len(p) = 9
      /\ p[1] = On("pass_forward", c) /\ p[2] = On("pass_back", c)
      /\ p[3] = On("pass_forward", c) /\ p[4] = On("pass_back", c)
      /\ p[5] = In("set_prev", r_list, c) /\ p[6] = In("set_next", r_list, c)
      /\ p[7] = In("link_forward", r_list, c) /\ p[8] = In("link_back", r_list, c)
      /\ p[9] = Do("switch")
  BY AgainIs
<1> HIDE DEF p
<1>4. At(p, k, p[k])
  BY <1>1, <1>3 DEF At
<1>5. ~Tick
  <2>1. Shielded(cur_process)
    BY <1>1 DEF Shielded
  <2> QED BY <2>1, Undisturbed
<1>6. \A i \in 1 .. 9 : HasSwitch(Left(p, i))
  <2> TAKE i \in 1 .. 9
  <2> DEFINE S == All(c)
             q == Left(p, i)
             j == 9 - i + 1
  <2>1. p \in Seq(S) /\ Len(p) = 9 /\ p[9].op = "switch"
    BY <1>3, OpsAre
  <2>2. q = SubSeq(p, i, 9)
    BY <2>1 DEF Left
  <2> HIDE DEF S
  <2>3. q \in Seq(S) /\ Len(q) = j /\ j \in 1 .. j /\ i + j - 1 = 9
    <3>1. i \in 1 .. Len(p)
      BY <2>1
    <3>2. Len(q) = Len(p) - i + 1
      <4>1. p \in Seq(S)
        BY <2>1
      <4> QED BY <3>1, <4>1, LeftIs DEF q
    <3>3. q \in Seq(S)
      <4>1. p \in Seq(S)
        BY <2>1
      <4> QED BY <3>1, <4>1, LeftIn
    <3> QED BY <2>1, <3>2, <3>3
  <2>4. q[j] = p[9]
    BY <2>1, <2>2, <2>3
  <2>5. j \in DOMAIN q
    BY <2>3
  <2> HIDE DEF q, j
  <2> QED BY <2>1, <2>4, <2>5 DEF HasSwitch, q
<1>7. ASSUME k # 9
      PROVE  /\ \A st : p[k] = st => link' = Stored(link, st)
             /\ cur_process' = c /\ state'[c] = "RUN"
             /\ HasSwitch(code[c]) /\ HasSwitch(code'[c])
  <2>1. p[k].op \in StoreOps
    <3>1. k = 1 \/ k = 2 \/ k = 3 \/ k = 4 \/ k = 5 \/ k = 6 \/ k = 7 \/ k = 8
      BY <1>7
    <3> QED BY <1>3, <3>1, StoresAre
  <2>2. Executes(p, k, p[k])
    BY <1>4, <1>5, <2>1, Stores
  <2>3. code'[c] = Left(p, k + 1) /\ k + 1 \in 1 .. 9
    BY <1>1, <1>7, <2>2 DEF Executes, Now, Types
  <2> QED BY <1>1, <1>6, <2>2, <2>3 DEF Executes, Others
<1> DEFINE v == <<c>> \o u
<1>v. v = <<c>> \o u
  OBVIOUS
<1> HIDE DEF v
<1>8. ASSUME Path(link, r_list, u), k # 9
      PROVE  RunQueueNow = v
  BY <1>1, <1>7, <1>8, <1>v, RunQueueIs, BesideQueue
<1>9. ASSUME Path(link', r_list, u), k # 9
      PROVE  RunQueueNow' = v
  <2> DEFINE m == link'
             q == code'[c]
             s == state'[c]
  <2>1. Path(m, r_list, u) /\ HasSwitch(q) /\ s = "RUN" /\ RunQueueNow' = QueueIn(m, q, s, c)
    BY <1>7, <1>9, RunQueueIs
  <2> HIDE DEF m, q, s
  <2> QED BY <1>1, <1>v, <2>1, BesideQueue
<1>10. ASSUME Path(link', r_list, Append(u, c)), k # 9
       PROVE  RunQueueNow' = Append(u, c)
  <2>1. Append(u, c) \in Seqs /\ c \in ToSet(Append(u, c))
    BY <1>1, AppendIs
  <2> QED BY <1>7, <1>10, <2>1, QueueNext
<1>11. ASSUME Path(link, r_list, Append(u, c))
       PROVE  RunQueueNow = Append(u, c)
  <2>1. Append(u, c) \in Seqs /\ c \in ToSet(Append(u, c))
    BY <1>1, AppendIs
  <2> QED BY <1>11, <2>1, QueueNow
<1>12. ASSUME Inner(link, r_list, u, R), link.next[r_list.head] = StartOf(u, R)
       PROVE  Path(link, r_list, u)
  BY <1>1, <1>2, <1>12, PathIs DEF Starts
<1>13. CASE k = 1
  <2>1. RunQueueNow = v
    <3>1. v \in Seqs /\ c \in ToSet(v) /\ Path(link, r_list, v)
      BY <1>1, <1>13, <1>v, PathOfFront DEF Requeueing
    <3> QED BY <3>1, QueueNow
  <2>2. Path(link', r_list, u)
    <3>1. Hangs(link, r_list, c, u, r_list.tail)
      BY <1>2, <1>13 DEF Requeueing
    <3>2. PassedForward(link, link', r_list, u, r_list.tail, c)
      <4>1. link' = Stored(link, On("pass_forward", c))
        <5>1. p[k] = On("pass_forward", c)
          BY <1>3, <1>13
        <5>2. k # 9
          BY <1>13
        <5> QED BY <1>7, <5>1, <5>2
      <4> QED BY <1>2, <3>1, <4>1, PassForwardIs
    <3>3. Inner(link', r_list, u, r_list.tail) /\ Starts(link', r_list, u, r_list.tail)
      BY <3>2 DEF PassedForward, Hangs
    <3> QED BY <1>1, <1>2, <3>3, PathIs
  <2> QED BY <1>9, <1>13, <2>1, <2>2 DEF QueueMoves, Moves
<1>14. CASE k \in 2 .. 6
  <2>1. Path(link, r_list, u)
    <3>1. CASE k < 6
      <4>1. Inner(link, r_list, u, R) /\ link.next[r_list.head] = StartOf(u, R)
        BY <1>14, <3>1 DEF Requeueing, Hangs
      <4> QED BY <1>12, <4>1
    <3>2. CASE k = 6
      <4>1. Linking(link, r_list, u, R, c, 1)
        BY <3>2 DEF Requeueing
      <4>2. List(link, r_list, u, R)
        BY <4>1 DEF Linking
      <4> QED BY <1>1, <4>2, PathOfList
    <3> QED BY <1>14, <3>1, <3>2
  <2>2. Path(link', r_list, u)
    <3>1. CASE k = 3
      <4>1. Hangs(link, r_list, c, u, r_list.tail)
        BY <1>2, <3>1 DEF Requeueing
      <4>2. PassedForward(link, link', r_list, u, r_list.tail, c)
        <5>1. link' = Stored(link, On("pass_forward", c))
          <6>1. p[k] = On("pass_forward", c)
            BY <1>3, <3>1
          <6>2. k # 9
            BY <3>1
          <6> QED BY <1>7, <6>1, <6>2
        <5> QED BY <1>2, <4>1, <5>1, PassForwardIs
      <4>3. Inner(link', r_list, u, r_list.tail) /\ Starts(link', r_list, u, r_list.tail)
        BY <4>2 DEF PassedForward, Hangs
      <4> QED BY <1>1, <1>2, <4>3, PathIs
    <3>2. CASE k \in {2, 4, 5}
      <4>1. link'.next = link.next
        <5>1. \/ link' = Stored(link, On("pass_back", c))
              \/ link' = Stored(link, In("set_prev", r_list, c))
          <6>1. p[k] = On("pass_back", c) \/ p[k] = In("set_prev", r_list, c)
            BY <1>3, <3>2
          <6>2. k # 9
            BY <3>2
          <6> QED BY <1>7, <6>1, <6>2
        <5>2. link \in LinkType
          BY <1>1
        <5>3. Stored(link, On("pass_back", c)).next = link.next
          BY <5>2, PassBackStores
        <5>4. Stored(link, In("set_prev", r_list, c)).next = link.next
          BY <5>2, SetPrevStores
        <5> QED BY <5>1, <5>3, <5>4
      <4> QED BY <1>1, <2>1, <4>1, PathKept
    <3>3. CASE k = 6
      <4>1. link' = SetNext(link, c, r_list.tail)
        <5>1. link' = Stored(link, In("set_next", r_list, c))
          <6>1. p[k] = In("set_next", r_list, c)
            BY <1>3, <3>3
          <6>2. k # 9
            BY <3>3
          <6> QED BY <1>7, <6>1, <6>2
        <5> QED BY <5>1, LinkStores
      <4>2. c \in Nodes /\ r_list.tail \in Nodes /\ r_list.head \in Nodes /\ r_list.head # c
            /\ \A n \in ToSet(u) : n \in Nodes /\ n # c
        BY <1>1, <1>2, NodesAre, SeqIs
      <4>3. \A n \in Nodes : n # c => link'.next[n] = link.next[n]
        BY <1>1, <4>1, <4>2, NextIs
      <4> QED BY <1>1, <2>1, <4>2, <4>3, PathKept
    <3> QED BY <1>14, <3>1, <3>2, <3>3
  <2> QED BY <1>8, <1>9, <1>14, <2>1, <2>2 DEF QueueMoves, Moves
<1>15. CASE k = 7
  <2>1. Linking(link, r_list, u, R, c, 2)
    BY <1>15 DEF Requeueing
  <2>2. Path(link, r_list, u)
    <3>1. List(link, r_list, u, R)
      BY <2>1 DEF Linking
    <3> QED BY <1>1, <3>1, PathOfList
  <2>3. LinkedOn(link, link', r_list, u, R, c, 2)
    <3>1. p[k] = In(LinkOp(2), r_list, c)
      <4>1. p[k] = In("link_forward", r_list, c)
        BY <1>3, <1>15
      <4>2. LinkOp(2) = "link_forward"
        BY LinkOpIs
      <4> QED BY <4>1, <4>2
    <3>2. link' = Stored(link, In(LinkOp(2), r_list, c))
      <4>1. p[k] = In(LinkOp(2), r_list, c)
        BY <3>1
      <4>2. k # 9
        BY <1>15
      <4> QED BY <1>7, <4>1, <4>2
    <3>3. 2 \in 0 .. 2
      OBVIOUS
    <3> QED BY <1>2, <2>1, <3>2, <3>3, LinkingIs
  <2>4. Linking(link', r_list, u, R, c, 3)
    <3>1. 2 + 1 = 3
      OBVIOUS
    <3> QED BY <2>3, <3>1 DEF LinkedOn
  <2>5. List(link', r_list, u, c)
    BY <2>4 DEF Linking
  <2>6. Path(link', r_list, Append(u, c))
    BY <1>1, <1>2, <2>5, PathToLast
  <2>7. RunQueueNow = v /\ RunQueueNow' = Append(u, c)
    BY <1>8, <1>10, <1>15, <2>2, <2>6
  <2>8. Moves(v, Append(u, c))
    BY <1>1, <1>v, MovesAre
  <2> QED BY <2>7, <2>8 DEF QueueMoves
<1>16. CASE k = 8
  <2>1. Linking(link, r_list, u, R, c, 3)
    BY <1>16 DEF Requeueing
  <2>2. List(link, r_list, u, c)
    BY <2>1 DEF Linking
  <2>3. Path(link, r_list, Append(u, c)) /\ Append(u, c) \in Seqs
    BY <1>1, <1>2, <2>2, PathToLast, AppendIs
  <2>4. link'.next = link.next
    <3>1. link' = Stored(link, In("link_back", r_list, c))
      <4>1. p[k] = In("link_back", r_list, c)
        BY <1>3, <1>16
      <4>2. k # 9
        BY <1>16
      <4> QED BY <1>7, <4>1, <4>2
    <3>2. link \in LinkType
      BY <1>1
    <3> QED BY <3>1, <3>2, LinkBackStores
  <2>5. Path(link', r_list, Append(u, c))
    BY <2>3, <2>4, PathKept
  <2> QED BY <1>10, <1>11, <1>16, <2>3, <2>5 DEF QueueMoves, Moves
<1>17. CASE k = 9
  <2> DEFINE y == Append(u, c)
  <2>1. y \in Seqs /\ y # <<>> /\ ToSet(y) = Runnable
    <3>1. y \in Seqs /\ y # <<>> /\ ToSet(y) = ToSet(u) \cup {c}
      BY <1>1, AppendIs
    <3> QED BY <1>1, <3>1 DEF Runnable
  <2>2. List(link, r_list, y, R)
    BY <1>17 DEF Requeueing
  <2>3. RunQueueNow = y
    BY <1>1, <1>11, <2>1, <2>2, PathOfList
  <2>4. code[c] # <<>> /\ Head(code[c]) = Do("switch")
    BY <1>3, <1>4, <1>17, AtIs
  <2>5. Switch
    <3>1. Does(Do("switch"))
      BY <1>5, <2>4, StatementStep
    <3> QED BY <3>1, DoesIs
  <2>6. link' = link /\ cur_process' = FrontRunnable(link')
    BY <2>5 DEF Switch
  <2> HIDE DEF y
  <2>7. RunQueueNow' = y
    BY <2>1, <2>2, <2>6, FirstIsNext
  <2> QED BY <2>3, <2>7 DEF QueueMoves, Moves
<1> QED BY <1>13, <1>14, <1>15, <1>16, <1>17

\* Nothing in proc_free() calls schedule().
LEMMA FreeSwitches ==
  ASSUME NEW p, NEW c, FreeAt(p, c), NEW k \in 1 .. 11
  PROVE  ~HasSwitch(Left(p, k))
<1> DEFINE S == All(c)
<1>1. p \in Seq(S) /\ Len(p) = 11
  BY DEF FreeAt
<1> HIDE DEF S
<1>2. ASSUME NEW i \in 1 .. 11
      PROVE  p[i].op # "switch"
  <2>1. p[i].op \in StoreOps \/ p[i].op = "unlock" \/ p[i].op = "zombie" \/ p[i].op = "pick"
    <3>1. CASE i \in {1, 4, 11}
      <4>1. p[i] = Do("unlock") \/ p[i] = On("zombie", c) \/ p[i] = Do("pick")
        BY <3>1 DEF FreeAt
      <4> QED BY <4>1, OpsAre
    <3>2. CASE i \notin {1, 4, 11}
      <4>1. i = 2 \/ i = 3 \/ i = 5 \/ i = 6 \/ i = 7 \/ i = 8 \/ i = 9 \/ i = 10
        BY <3>2
      <4>2. p[i].op \in StoreOps
        BY <4>1, StoresAre DEF FreeAt
      <4> QED BY <4>2
    <3> QED BY <3>1, <3>2
  <2> QED BY <2>1 DEF StoreOps
<1> DEFINE q == Left(p, k)
<1>3. Len(p) = 11
  BY <1>1
<1>4. k \in 1 .. Len(p)
  BY <1>3
<1>5. p \in Seq(S)
  BY <1>1
<1>6. q \in Seq(S) /\ Len(q) = Len(p) - k + 1 /\ \A i \in 1 .. Len(p) - k + 1 : q[i] = p[k + i - 1]
  BY <1>4, <1>5, LeftIs, LeftIn
<1>7. ASSUME NEW i \in DOMAIN q
      PROVE  q[i].op # "switch"
  <2> HIDE DEF q
  <2>1. i \in 1 .. Len(p) - k + 1
    BY <1>6
  <2>2. k + i - 1 \in 1 .. 11
    BY <1>3, <2>1
  <2> QED BY <1>2, <1>6, <2>1, <2>2
<1> QED BY <1>7 DEF HasSwitch

LEMMA PathOfHanging ==
  ASSUME NEW m, NEW u \in Seqs, NEW c \in Slots, c \notin ToSet(u), Hangs(m, r_list, c, u, R)
  PROVE  /\ m.next[r_list.head] = StartOf(u, R) => Path(m, r_list, u)
         /\ m.next[r_list.head] = c => Path(m, r_list, <<c>> \o u)
<1>1. r_list \in Lists /\ R = r_list.tail
  BY ListsApart DEF R
<1>2. Inner(m, r_list, u, r_list.tail) /\ m.next[c] = StartOf(u, r_list.tail)
  BY <1>1 DEF Hangs
<1> QED BY <1>1, <1>2, PathIs DEF Starts

\* proc_free() takes the process out of the queue.
LEMMA LeavingQueue ==
  ASSUME NEW u, NEW w, NEW x, Now(u, w, x), Dead(w, x), NEW k \in 3 .. 6,
         NEW c, c = cur_process, Leaving(c, u, w, x, k), Next
  PROVE  QueueMoves
<1> DEFINE p == Free(c)
<1>1. /\ c \in Slots /\ link \in LinkType /\ func[c] = "returns" /\ cuts[c] \in 0 .. 1
      /\ u \in Seqs /\ w \in Seqs /\ x \in Slots \cup {D} /\ ToSet(u) = Runnable \ {c} /\ c # IdleSlot
  <2>1. MaxCuts <= 1 /\ MaxCuts \in Nat /\ cuts \in [Slots -> 0 .. MaxCuts] /\ c \in Slots
    BY WindowsAssumption DEF Now, Calm, Types
  <2> QED BY <2>1 DEF Now, Types, Who, Leaving
<1>2. Setting(link, r_list, u, R, c) /\ c \notin ToSet(u) /\ R = r_list.tail
  BY <1>1, Two DEF R
<1>3. code[c] = Left(p, k) /\ state[c] = (IF k < 5 THEN "RUN" ELSE "ZOMBIE")
  BY DEF Leaving
<1>4. FreeAt(p, c)
  BY FreeIs DEF FreeAt
<1>5. /\ Hangs(link, r_list, c, u, R) /\ link.next[r_list.head] \in {c, StartOf(u, R)}
      /\ k \in 4 .. 6 /\ cuts[c] = 0 => List(link, r_list, u, R)
  BY DEF Leaving
<1> HIDE DEF p
<1>6. At(p, k, p[k]) /\ code[c] # <<>> /\ ~HasSwitch(code[c]) /\ ~HasSwitch(Left(p, k + 1))
  <2>1. k \in 1 .. 11 /\ k + 1 \in 1 .. 11
    OBVIOUS
  <2> QED BY <1>3, <1>4, <2>1, FreeAtIs, FreeSwitches
<1>7. PICK v \in {u, <<c>> \o u} : v \in Seqs /\ Path(link, r_list, v)
  <2>1. <<c>> \o u \in Seqs
    BY <1>1, <1>2, ConsIs
  <2>2. Path(link, r_list, u) \/ Path(link, r_list, <<c>> \o u)
    BY <1>1, <1>2, <1>5, PathOfHanging
  <2> QED BY <1>1, <2>1, <2>2
<1>8. RunQueueNow = v
  BY <1>6, <1>7, QueueNow
<1>9. ASSUME Tick
      PROVE  QueueMoves
  <2>1. CASE k \in 3 .. 4
    <3>1. state[c] = "RUN"
      BY <1>3, <2>1
    <3>2. RunQueueNow' = Append(u, c)
      BY <1>5, <1>9, <3>1, TickQueue
    <3>3. Moves(v, Append(u, c))
      BY <1>1, <1>2, <1>7, MovesAre
    <3> QED BY <1>8, <3>2, <3>3 DEF QueueMoves
  <2>2. CASE k \in 5 .. 6
    <3>1. cuts[c] = 0
      <4>1. CASE cuts[c] = 1
        <5>1. Shielded(cur_process)
          BY <1>1, <1>6, <4>1 DEF Shielded
        <5> QED BY <1>9, <5>1, Undisturbed
      <4> QED BY <1>1, <4>1
    <3>2. state[c] = "ZOMBIE" /\ List(link, r_list, u, R)
      BY <1>3, <1>5, <2>2, <3>1
    <3> QED BY <1>9, <3>2, ZombieSwitches
  <2> QED BY <2>1, <2>2
<1>10. ASSUME code'[c] = Left(p, k + 1), cur_process' = c, link'.next = link.next
       PROVE  QueueMoves
  <2>1. Path(link', r_list, v)
    BY <1>7, <1>10, PathKept
  <2>2. ~HasSwitch(code'[c])
    BY <1>6, <1>10
  <2> QED BY <1>6, <1>7, <1>10, <2>1, <2>2, BesideStays
<1>11. ASSUME p[k].op \in StoreOps, ~Tick
       PROVE  link' = Stored(link, p[k]) /\ code'[c] = Left(p, k + 1) /\ cur_process' = c
  <2>1. Executes(p, k, p[k])
    BY <1>6, <1>11, Stores
  <2> QED BY <1>1, <2>1 DEF Executes, Others, Now, Types
<1> SUFFICES ASSUME ~Tick
             PROVE  QueueMoves
  BY <1>9
<1>12. CASE k \in {3, 6}
  <2>1. p[k] = On("pass_back", c)
    BY <1>4, <1>12 DEF FreeAt
  <2>2. p[k].op \in StoreOps
    BY <2>1, StoresAre
  <2>3. link' = Stored(link, On("pass_back", c))
    BY <1>11, <2>1, <2>2
  <2>4. link'.next = link.next
    BY <1>1, <2>3, PassBackStores
  <2> QED BY <1>10, <1>11, <2>2, <2>4
<1>13. CASE k = 4
  <2>1. p[k] = On("zombie", c)
    BY <1>4, <1>13 DEF FreeAt
  <2>2. code[c] # <<>> /\ Head(code[c]) = On("zombie", c) /\ Tail(code[c]) = Left(p, k + 1)
    BY <1>6, <2>1, AtIs
  <2>3. SetState
    <3>1. Does(On("zombie", c))
      BY <2>2, StatementStep
    <3> QED BY <3>1, DoesIs
  <2>4. code' = [code EXCEPT ![c] = Left(p, k + 1)] /\ link' = link /\ cur_process' = c
    BY <2>2, <2>3 DEF SetState, Rest
  <2>5. code'[c] = Left(p, k + 1)
    BY <1>1, <2>4 DEF Now, Types
  <2> QED BY <1>10, <2>4, <2>5
<1>14. CASE k = 5
  <2>1. p[k] = On("pass_forward", c)
    BY <1>4, <1>14 DEF FreeAt
  <2>2. p[k].op \in StoreOps
    BY <2>1, StoresAre
  <2>3. link' = Stored(link, On("pass_forward", c)) /\ code'[c] = Left(p, k + 1) /\ cur_process' = c
    BY <1>11, <2>1, <2>2
  <2>4. PassedForward(link, link', r_list, u, r_list.tail, c)
    <3>1. Hangs(link, r_list, c, u, r_list.tail)
      BY <1>2, <1>5
    <3> QED BY <1>2, <2>3, <3>1, PassForwardIs
  <2>5. Hangs(link', r_list, c, u, R) /\ link'.next[r_list.head] = StartOf(u, R)
    BY <1>2, <2>4 DEF PassedForward, Starts
  <2>6. Path(link', r_list, u)
    BY <1>1, <1>2, <2>5, PathOfHanging
  <2>7. ~HasSwitch(code'[c])
    BY <1>6, <2>3
  <2>8. RunQueueNow' = u
    BY <1>1, <2>3, <2>6, <2>7, QueueNext
  <2>9. Moves(v, u)
    <3>1. v = u => Moves(v, u)
      BY DEF Moves
    <3> QED BY <1>1, <1>2, <1>7, <3>1, MovesAre
  <2> QED BY <1>8, <2>8, <2>9 DEF QueueMoves
<1> QED BY <1>12, <1>13, <1>14

\* Stores at the elements of d_list, at its head and at the process itself.
LEMMA ElsewhereKept ==
  ASSUME NEW u, NEW w, NEW x, Now(u, w, x), Dead(w, x), NEW c, c = cur_process, Path(link, r_list, u),
         NEW a \in ToSet(w) \cup {d_list.head, c}, \A n \in Nodes : n # a => link'.next[n] = link.next[n]
  PROVE  Path(link', r_list, u)
<1>1. /\ c \in Slots /\ link \in LinkType /\ ToSet(u) = Runnable \ {c}
      /\ u \in Seqs /\ w \in Seqs /\ x \in Slots \cup {D}
  BY DEF Now, Types
<1>2. c \notin ToSet(u) /\ ToSet(u) \cap ToSet(w) = {}
  BY <1>1, Two
<1>3. /\ r_list.head \in Nodes /\ r_list.head # d_list.head /\ r_list.head \notin Slots /\ d_list.head \notin Slots
      /\ \A n \in ToSet(u) : n \in Nodes /\ n \in Slots
      /\ \A n \in ToSet(w) : n \in Slots
  BY <1>1, NodesAre, ListsApart, SeqIs
<1>4. a # r_list.head /\ a \notin ToSet(u)
  BY <1>1, <1>2, <1>3
<1> QED BY <1>1, <1>3, <1>4, PathKept

LEMMA ZombieStays ==
  ASSUME NEW u \in Seqs, NEW c, c = cur_process, Path(link, r_list, u), Path(link', r_list, u), cur_process' = c,
         state[c] = "ZOMBIE", state'[c] = "ZOMBIE"
  PROVE  QueueMoves
<1>1. RunQueueNow = u
  BY QueueNow
<1>2. RunQueueNow' = u
  BY QueueNext
<1> QED BY <1>1, <1>2 DEF QueueMoves, Moves

\* The queue while a zombie goes to the end of d_list, calls schedule() or frees itself again.
LEMMA BuryingQueue ==
  ASSUME NEW u, NEW w, NEW x, Now(u, w, x), Dead(w, x), NEW k \in 7 .. 10,
         NEW c, c = cur_process, Burying(c, u, w, x, k), Next
  PROVE  QueueMoves
<1> DEFINE p == Free(c)
<1>1. /\ c \in Slots /\ link \in LinkType /\ state[c] = "ZOMBIE" /\ u \in Seqs /\ w \in Seqs /\ x \in Slots \cup {D}
      /\ code[c] = Left(p, k) /\ List(link, r_list, u, R) /\ Linking(link, d_list, w, x, c, k - 7)
  BY DEF Now, Types, Burying
<1>2. FreeAt(p, c)
  BY FreeIs DEF FreeAt
<1> HIDE DEF p
<1>3. At(p, k, p[k])
  <2>1. k \in 1 .. 11
    OBVIOUS
  <2> QED BY <1>1, <1>2, <2>1, FreeAtIs
<1>4. Path(link, r_list, u)
  BY <1>1, PathOfList
<1> SUFFICES ASSUME ~Tick
             PROVE  QueueMoves
  BY <1>1, ZombieSwitches
<1>5. p[k].op \in StoreOps
  <2>1. k = 7 \/ k = 8 \/ k = 9 \/ k = 10
    OBVIOUS
  <2> QED BY <1>2, <2>1, FreeStores
<1>6. link' = Stored(link, p[k]) /\ cur_process' = c /\ state' = state
  BY <1>3, <1>5, Stores DEF Executes, Others
<1>7. Path(link', r_list, u)
  <2>1. CASE k \in {7, 10}
    <3>1. p[k] = In("set_prev", d_list, c) \/ p[k] = In("link_back", d_list, c)
      BY <1>2, <2>1 DEF FreeAt
    <3>2. link' = Stored(link, In("set_prev", d_list, c)) \/ link' = Stored(link, In("link_back", d_list, c))
      BY <1>6, <3>1
    <3>a. link \in LinkType
      BY <1>1
    <3>3. Stored(link, In("set_prev", d_list, c)).next = link.next
      BY <3>a, SetPrevStores
    <3>4. Stored(link, In("link_back", d_list, c)).next = link.next
      BY <3>a, LinkBackStores
    <3>5. link'.next = link.next
      BY <3>2, <3>3, <3>4
    <3> QED BY <1>1, <1>4, <3>5, PathKept
  <2>2. CASE k = 8
    <3>1. p[k] = In("set_next", d_list, c)
      BY <1>2, <2>2 DEF FreeAt
    <3>2. link' = SetNext(link, c, d_list.tail)
      <4>1. link' = Stored(link, In("set_next", d_list, c))
        BY <1>6, <3>1
      <4> QED BY <4>1, LinkStores
    <3>3. c \in Nodes /\ d_list.tail \in Nodes
      BY <1>1, NodesAre, ListsApart
    <3>4. \A n \in Nodes : n # c => link'.next[n] = link.next[n]
      BY <1>1, <3>2, <3>3, NextIs
    <3> QED BY <1>4, <3>4, ElsewhereKept
  <2>3. CASE k = 9
    <3> DEFINE a == EndOf(d_list, w)
    <3>1. p[k] = In("link_forward", d_list, c)
      BY <1>2, <2>3 DEF FreeAt
    <3>2. List(link, d_list, w, x)
      <4>1. k - 7 < 3
        BY <2>3
      <4> QED BY <1>1, <4>1 DEF Linking
    <3>3. a = link.prev[d_list.tail]
      BY <1>1, <3>2, ListsApart, TailIs
    <3>4. a \in ToSet(w) \cup {d_list.head} /\ a \in Nodes
      BY <1>1, ListsApart, EndsAre DEF D
    <3> HIDE DEF a
    <3>5. link' = SetNext(link, a, c)
      <4>1. link' = Stored(link, In("link_forward", d_list, c))
        BY <1>6, <3>1
      <4> QED BY <3>3, <4>1, LinkForward
    <3>6. c \in Nodes
      BY <1>1, NodesAre
    <3>7. \A n \in Nodes : n # a => link'.next[n] = link.next[n]
      BY <1>1, <3>4, <3>5, <3>6, NextIs
    <3> QED BY <1>4, <3>4, <3>7, ElsewhereKept
  <2> QED BY <2>1, <2>2, <2>3
<1>8. u \in Seqs /\ cur_process' = c /\ state[c] = "ZOMBIE" /\ state'[c] = "ZOMBIE"
  BY <1>1, <1>6
<1> QED BY <1>4, <1>7, <1>8, ZombieStays

LEMMA GoneQueue ==
  ASSUME NEW u, NEW w, NEW x, Now(u, w, x), Dead(w, x), NEW c, c = cur_process, Gone(c, u, w, x), Next
  PROVE  QueueMoves
<1>1. /\ u \in Seqs /\ state[c] = "ZOMBIE" /\ List(link, r_list, u, R)
      /\ code[c] \in {<<Do("pick")>>, <<Do("switch")>>}
  BY DEF Now, Gone
<1>2. Pick \/ Switch \/ Tick
  <2>1. CASE code[c] = <<Do("pick")>>
    <3>1. code[c] # <<>> /\ Head(code[c]) = Do("pick")
      BY <2>1
    <3>2. Does(Do("pick")) \/ Tick
      BY <3>1, StatementStep
    <3> QED BY <3>2, DoesIs
  <2>2. CASE code[c] = <<Do("switch")>>
    <3>1. code[c] # <<>> /\ Head(code[c]) = Do("switch")
      BY <2>2
    <3>2. Does(Do("switch")) \/ Tick
      BY <3>1, StatementStep
    <3> QED BY <3>2, DoesIs
  <2> QED BY <1>1, <2>1, <2>2
<1>3. CASE Switch \/ Tick
  BY <1>1, <1>3, ZombieSwitches
<1>4. CASE Pick
  <2>1. link' = link /\ cur_process' = c /\ state' = state
    BY <1>4 DEF Pick
  <2>2. Path(link, r_list, u)
    BY <1>1, PathOfList
  <2>3. Path(link', r_list, u)
    BY <2>1, <2>2
  <2>4. u \in Seqs /\ cur_process' = c /\ state[c] = "ZOMBIE" /\ state'[c] = "ZOMBIE"
    BY <1>1, <2>1
  <2> QED BY <2>2, <2>3, <2>4, ZombieStays
<1> QED BY <1>2, <1>3, <1>4

LEMMA ExitedQueue ==
  ASSUME NEW u, NEW w, NEW x, Now(u, w, x), NEW k \in 0 .. 6, k # 0 => Dead(w, x),
         NEW c, c = cur_process, Exited(c, u, w, x, k), Next
  PROVE  QueueMoves
<1> DEFINE p == Free(c)
<1>1. /\ c \in Slots /\ link \in LinkType /\ func[c] = "exited" /\ state[c] = "ZOMBIE" /\ u \in Seqs /\ w \in Seqs
      /\ state \in [Slots -> {"RUN", "ZOMBIE", "UNUSED"}] /\ c \notin ToSet(w)
      /\ List(link, r_list, u, R) /\ (k = 0 => code[c] = <<>>) /\ (k # 0 => code[c] = Left(p, k))
  BY DEF Now, Types, Exited
<1>2. Path(link, r_list, u)
  BY <1>1, PathOfList
<1> SUFFICES ASSUME ~Tick
             PROVE  QueueMoves
  BY <1>1, ZombieSwitches
<1>3. ASSUME Path(link', r_list, u), cur_process' = c, state'[c] = "ZOMBIE"
      PROVE  QueueMoves
  <2>1. u \in Seqs /\ state[c] = "ZOMBIE"
    BY <1>1
  <2> QED BY <1>2, <1>3, <2>1, ZombieStays
<1>4. CASE k = 0
  <2>1. CommandReturns
    <3>1. Ready /\ ~ShellCommand
      BY <1>1, <1>4 DEF Ready, ShellCommand
    <3>2. ~Store /\ ~Unlock /\ ~SetState /\ ~proc_create /\ ~Pick /\ ~Switch
      BY <3>1 DEF Store, Unlock, SetState, proc_create, Pick, Switch, Next1
    <3> QED BY <1>1, <3>1, <3>2 DEF Next, Go, UserInput, IdleLoop, KernelLoop, CommandExits
  <2>2. link' = link /\ cur_process' = c /\ state' = state
    BY <2>1 DEF CommandReturns, Continue
  <2>3. Path(link', r_list, u)
    BY <1>2, <2>2
  <2> QED BY <1>1, <1>3, <2>2, <2>3
<1>5. CASE k # 0
  <2>1. FreeAt(p, c) /\ code[c] = Left(p, k)
    BY <1>1, <1>5, FreeIs DEF FreeAt
  <2> HIDE DEF p
  <2>2. At(p, k, p[k])
    <3>1. k \in 1 .. 11
      BY <1>5
    <3> QED BY <2>1, <3>1, FreeAtIs
  <2>3. ASSUME p[k].op \in StoreOps
        PROVE  link' = Stored(link, p[k]) /\ cur_process' = c /\ state'[c] = "ZOMBIE"
    <3>1. Executes(p, k, p[k])
      BY <2>2, <2>3, Stores
    <3> QED BY <1>1, <3>1 DEF Executes, Others
  <2>4. CASE k \in {1, 4}
    <3>1. code[c] # <<>> /\ Head(code[c]) = p[k]
      BY <2>2, AtIs
    <3>2. Does(p[k])
      BY <3>1, StatementStep
    <3>3. p[k] = Do("unlock") \/ p[k] = On("zombie", c)
      BY <2>1, <2>4 DEF FreeAt
    <3>4. Unlock \/ (SetState /\ Head(code[c]) = On("zombie", c))
      <4>1. CASE p[k] = Do("unlock")
        <5>1. Does(Do("unlock"))
          BY <3>2, <4>1
        <5> QED BY <5>1, DoesIs
      <4>2. CASE p[k] = On("zombie", c)
        <5>1. Does(On("zombie", c))
          BY <3>2, <4>2
        <5>2. SetState
          BY <5>1, DoesIs
        <5> QED BY <3>1, <4>2, <5>2
      <4> QED BY <3>3, <4>1, <4>2
    <3>5. link' = link /\ cur_process' = c
      BY <3>4, QuietIs
    <3>6. state'[c] = "ZOMBIE"
      <4>1. CASE Unlock
        BY <1>1, <4>1 DEF Unlock
      <4>2. CASE SetState /\ Head(code[c]) = On("zombie", c)
        <5>1. On("zombie", c).op = "zombie" /\ On("zombie", c).elem = c
          BY OpsAre
        <5>2. state' = [state EXCEPT ![c] = "ZOMBIE"]
          BY <4>2, <5>1 DEF SetState, Statement
        <5> QED BY <1>1, <5>2
      <4> QED BY <3>4, <4>1, <4>2
    <3>7. Path(link', r_list, u)
      BY <1>2, <3>5
    <3> QED BY <1>3, <3>5, <3>6, <3>7
  <2>5. CASE k \in {3, 6}
    <3>1. p[k] = On("pass_back", c)
      BY <2>1, <2>5 DEF FreeAt
    <3>2. p[k].op \in StoreOps
      BY <3>1, StoresAre
    <3>3. link' = Stored(link, On("pass_back", c)) /\ cur_process' = c /\ state'[c] = "ZOMBIE"
      BY <2>3, <3>1, <3>2
    <3>4. link'.next = link.next
      BY <1>1, <3>3, PassBackStores
    <3>5. Path(link', r_list, u)
      BY <1>1, <1>2, <3>4, PathKept
    <3> QED BY <1>3, <3>3, <3>5
  <2>6. CASE k \in {2, 5}
    <3> DEFINE a == EndOf(d_list, w)
    <3>1. p[k] = On("pass_forward", c)
      BY <2>1, <2>6 DEF FreeAt
    <3>2. p[k].op \in StoreOps
      BY <3>1, StoresAre
    <3>3. link' = Stored(link, On("pass_forward", c)) /\ cur_process' = c /\ state'[c] = "ZOMBIE"
      BY <2>3, <3>1, <3>2
    <3>4. link.prev[c] = a
      <4>1. CASE k = 2
        <5>1. List(link, d_list, Append(w, c), d_list.tail)
          BY <4>1 DEF Exited, D
        <5>2. d_list \in Lists
          BY ListsApart
        <5> QED BY <1>1, <5>1, <5>2, LastOf
      <4>2. CASE k = 5
        BY <4>2 DEF Exited
      <4> QED BY <2>6, <4>1, <4>2
    <3>5. a \in ToSet(w) \cup {d_list.head} /\ a \in Nodes
      <4>1. d_list \in Lists /\ d_list.tail \in Slots \cup {d_list.tail}
        BY ListsApart
      <4> QED BY <1>1, <4>1, EndsAre
    <3> HIDE DEF a
    <3>6. \A n \in Nodes : n # a => link'.next[n] = link.next[n]
      <4>1. link \in LinkType /\ c \in Slots /\ a \in Nodes /\ link.prev[c] = a
        BY <1>1, <3>4, <3>5
      <4>2. link' = SetNext(link, a, link.next[c])
        <5>1. Stored(link, On("pass_forward", c)) = SetNext(link, a, link.next[c])
          BY <4>1, PassForward
        <5> QED BY <3>3, <5>1
      <4>3. link.next[c] \in Nodes \cup {NULL}
        BY <4>1, NodesAre DEF LinkType
      <4> QED BY <4>1, <4>2, <4>3 DEF SetNext, LinkType
    <3>7. Path(link', r_list, u)
      <4>1. Dead(w, x)
        BY <1>5
      <4> QED BY <1>2, <3>5, <3>6, <4>1, ElsewhereKept
    <3> QED BY <1>3, <3>3, <3>7
  <2>7. k \in {1, 2, 3, 4, 5, 6}
    BY <1>5
  <2> QED BY <2>4, <2>5, <2>6, <2>7
<1> QED BY <1>4, <1>5

\* proc_create() appends a process.
LEMMA CreateQueue ==
  ASSUME NEW u, NEW w, NEW x, Now(u, w, x), Dead(w, x), NEW c, c = cur_process, Still(c, u, w, x),
         proc_create, \E s \in Slots : state[s] = "UNUSED"
  PROVE  QueueMoves
<1>1. /\ c \in Slots /\ u \in Seqs /\ lately \in Slots /\ Fronts(link, r_list, c, u, R)
      /\ c \notin ToSet(u) /\ ToSet(u) = Runnable \ {c} /\ state[c] = "RUN"
  BY StillIs DEF Types
<1>2. PICK s \in Slots : s = FirstUnused /\ state[s] = "UNUSED"
  BY <1>1, UnusedFound
<1>3. link' = Done(Cleared(link, s), list_push_back(r_list, s)) /\ cur_process' = c
  BY <1>2 DEF proc_create
<1> DEFINE v == <<c>> \o u
           t == Append(u, s)
           z == <<c>> \o t
<1>4. s # c /\ s \notin ToSet(u)
  BY <1>1, <1>2 DEF Runnable
<1>5. v \in Seqs /\ c \in ToSet(v) /\ ToSet(v) = ToSet(u) \cup {c} /\ Path(link, r_list, v)
  BY <1>1, PathOfFront
<1>6. t \in Seqs /\ c \notin ToSet(t)
  <2>1. t \in Seqs /\ ToSet(t) = ToSet(u) \cup {s}
    BY <1>1, <1>4, AppendIs
  <2> QED BY <1>1, <1>4, <2>1
<1>7. Fronts(link', r_list, c, t, R)
  <2>1. Entered(link', u, w, x, c, s)
    BY <1>2, <1>3, CreatedLinks
  <2> QED BY <2>1 DEF Entered
<1>8. Append(v, s) = z
  BY <1>1, ConsAppend
<1> HIDE DEF t, v
<1>9. z \in Seqs /\ c \in ToSet(z) /\ Path(link', r_list, z)
  BY <1>1, <1>6, <1>7, PathOfFront
<1> HIDE DEF z
<1>10. RunQueueNow = v
  BY <1>1, <1>5, QueueNow
<1>11. RunQueueNow' = z
  BY <1>3, <1>9, QueueNext
<1>12. Moves(v, Append(v, s))
  <2>1. s \notin ToSet(v)
    BY <1>4, <1>5
  <2> QED BY <1>5, <2>1, MovesAre
<1> QED BY <1>8, <1>10, <1>11, <1>12 DEF QueueMoves

\* The process at the front leaves the queue.
LEMMA FrontLeaves ==
  ASSUME NEW u \in Seqs, NEW c \in Slots, c = cur_process, c \notin ToSet(u), c # IdleSlot,
         Fronts(link, r_list, c, u, R), Path(link', r_list, u), cur_process' = c,
         ~HasSwitch(code'[c]) \/ state'[c] # "RUN"
  PROVE  QueueMoves
<1> DEFINE v == <<c>> \o u
<1>1. v \in Seqs /\ c \in ToSet(v) /\ Path(link, r_list, v)
  BY PathOfFront
<1>2. Moves(v, u)
  BY MovesAre
<1> HIDE DEF v
<1>3. RunQueueNow = v
  BY <1>1, QueueNow
<1>4. RunQueueNow' = u
  BY QueueNext
<1> QED BY <1>2, <1>3, <1>4 DEF QueueMoves

\* exit() and proc_free() take the process at the front out of the queue.
LEMMA ExitsQueue ==
  ASSUME NEW u, NEW w, NEW x, Now(u, w, x), Dead(w, x), NEW c, c = cur_process, Still(c, u, w, x), CommandExits
  PROVE  QueueMoves
<1>1. /\ c \in Slots /\ u \in Seqs /\ w \in Seqs /\ x \in Slots \cup {D} /\ Types /\ Who
      /\ link \in LinkType /\ c # x /\ c \notin ToSet(w) /\ c \notin ToSet(u) /\ ToSet(u) = Runnable \ {c}
      /\ Hangs(link, r_list, c, u, R) /\ List(link, d_list, w, x) /\ Fronts(link, r_list, c, u, R)
      /\ Setting(link, r_list, u, R, c) /\ R = r_list.tail /\ D = d_list.tail
  BY StillIs DEF R, D
<1>2. /\ link' = Done(link, Move(d_list, c)) /\ state' = [state EXCEPT ![c] = "ZOMBIE"] /\ cur_process' = c
      /\ func[c] = "exits"
  BY DEF CommandExits, Move
<1>3. List(link', r_list, u, R)
  <2>1. Setting(link, d_list, w, x, c)
    BY <1>1, Two
  <2>2. Aside(d_list, w, x, r_list, ToSet(u)) /\ Aside(r_list, u, R, d_list, ToSet(w) \cup {c})
    BY <1>1, TwoAside
  <2> DEFINE m2 == Done(link, Move(d_list, c))
  <2>3. m2 \in LinkType /\ List(m2, r_list, u, r_list.tail) /\ List(m2, d_list, Append(w, c), d_list.tail)
    BY <1>1, <2>1, <2>2, MovedOver
  <2> QED BY <1>1, <1>2, <2>3
<1>4. state'[c] = "ZOMBIE" /\ c # IdleSlot
  BY <1>1, <1>2 DEF Types, Who
<1>5. Path(link', r_list, u)
  BY <1>1, <1>3, PathOfList
<1>6. ~HasSwitch(code'[c]) \/ state'[c] # "RUN"
  BY <1>4
<1> QED BY <1>1, <1>2, <1>4, <1>5, <1>6, FrontLeaves

LEMMA FreesQueue ==
  ASSUME NEW u, NEW w, NEW x, Now(u, w, x), Dead(w, x), NEW c, c = cur_process, Still(c, u, w, x),
         func[c] = "returns", NEW k \in 1 .. 2, code[c] = Left(Free(c), k), Next, ~Tick
  PROVE  QueueMoves
<1> DEFINE p == Free(c)
<1>1. /\ c \in Slots /\ state[c] = "RUN" /\ u \in Seqs /\ w \in Seqs /\ x \in Slots \cup {D} /\ Types /\ Who
      /\ link \in LinkType /\ c \notin ToSet(u)
      /\ Fronts(link, r_list, c, u, R) /\ Hangs(link, r_list, c, u, R)
      /\ Setting(link, r_list, u, R, c) /\ R = r_list.tail
  BY StillIs DEF R
<1>2. FreeAt(p, c) /\ code[c] = Left(p, k)
  BY FreeIs DEF FreeAt
<1> HIDE DEF p
<1>3. At(p, k, p[k]) /\ ~HasSwitch(Left(p, k + 1))
  <2>1. k \in 1 .. 11 /\ k + 1 \in 1 .. 11
    OBVIOUS
  <2> QED BY <1>2, <2>1, FreeAtIs, FreeSwitches
<1>4. CASE k = 1
  <2>1. p[k] = Do("unlock")
    BY <1>2, <1>4 DEF FreeAt
  <2>2. code[c] # <<>> /\ Head(code[c]) = Do("unlock")
    BY <1>3, <2>1, AtIs
  <2>3. Does(Do("unlock"))
    BY <2>2, StatementStep
  <2>4. link' = link /\ cur_process' = c
    BY <2>3, DoesIs, QuietIs
  <2> QED BY <1>1, <2>4, FrontStays
<1>5. CASE k = 2
  <2>1. p[k] = On("pass_forward", c)
    BY <1>2, <1>5 DEF FreeAt
  <2>2. p[k].op \in StoreOps
    BY <2>1, StoresAre
  <2>3. Executes(p, k, p[k])
    BY <1>3, <2>2, Stores
  <2>4. link' = Stored(link, On("pass_forward", c)) /\ code'[c] = Left(p, k + 1) /\ cur_process' = c
    BY <1>1, <2>1, <2>3 DEF Executes, Others, Types
  <2>5. PassedForward(link, link', r_list, u, r_list.tail, c)
    BY <1>1, <2>4, PassForwardIs
  <2>6. Hangs(link', r_list, c, u, R) /\ link'.next[r_list.head] = StartOf(u, R)
    BY <1>1, <2>5 DEF PassedForward, Starts
  <2>7. Path(link', r_list, u)
    BY <1>1, <2>6, PathOfHanging
  <2>8. c # IdleSlot
    BY <1>1 DEF Who
  <2>9. ~HasSwitch(code'[c]) \/ state'[c] # "RUN"
    BY <1>3, <2>4
  <2> QED BY <1>1, <2>4, <2>7, <2>8, <2>9, FrontLeaves
<1> QED BY <1>4, <1>5

\* The queue while a process stands at the front.
LEMMA StillQueue ==
  ASSUME NEW u, NEW w, NEW x, Now(u, w, x), Dead(w, x), NEW c, c = cur_process, Still(c, u, w, x), Next
  PROVE  QueueMoves
<1>1. /\ c \in Slots /\ u \in Seqs /\ Types /\ Who /\ c \notin ToSet(u) /\ state[c] = "RUN" /\ StillCode(c)
      /\ Fronts(link, r_list, c, u, R) /\ Hangs(link, r_list, c, u, R)
  BY StillIs
<1>2. CASE Tick
  <2> DEFINE v == <<c>> \o u
  <2>1. v \in Seqs /\ c \in ToSet(v) /\ Path(link, r_list, v)
    BY <1>1, PathOfFront
  <2>2. Moves(v, Append(u, c))
    BY <1>1, MovesAre
  <2> HIDE DEF v
  <2>3. RunQueueNow = v
    BY <1>1, <2>1, QueueNow
  <2>4. RunQueueNow' = Append(u, c)
    BY <1>1, <1>2, TickQueue
  <2> QED BY <2>2, <2>3, <2>4 DEF QueueMoves
<1> SUFFICES ASSUME ~Tick
             PROVE  QueueMoves
  BY <1>2
<1>3. ASSUME NEW f, code[c] # <<>>, Head(code[c]) = Created(f), \E s \in Slots : state[s] = "UNUSED"
      PROVE  QueueMoves
  <2>1. Does(Created(f))
    BY <1>3, StatementStep
  <2>2. proc_create
    BY <2>1, DoesIs
  <2> QED BY <1>3, <2>2, CreateQueue
<1>4. CASE code[c] = <<Do("pick")>>
  <2>1. code[c] # <<>> /\ Head(code[c]) = Do("pick")
    BY <1>4
  <2>2. Does(Do("pick"))
    BY <2>1, StatementStep
  <2>3. link' = link /\ cur_process' = c
    BY <2>2, DoesIs, QuietIs
  <2> QED BY <1>1, <2>3, FrontStays
<1>5. CASE BootCode(c)
  <2>1. PICK k \in 1 .. 3 : /\ code[c] = Left(Boot, k)
                            /\ \A s \in k .. PROC_NUM_MAX - 1 : state[s] = "UNUSED"
    BY <1>5 DEF BootCode
  <2> DEFINE p == Boot
             S == All(c)
  <2>2. /\ p \in Seq(S) /\ Len(p) = 3
        /\ p[1] = Created("kernel") /\ p[2] = Created("kernel") /\ p[3] = Created("login")
    BY BootIs
  <2>3. code[c] = Left(p, k)
    BY <2>1
  <2> HIDE DEF p, S
  <2>4. k \in 1 .. Len(p)
    BY <2>2
  <2>5. PICK f : p[k] = Created(f)
    <3>1. k = 1 \/ k = 2 \/ k = 3
      OBVIOUS
    <3> QED BY <2>2, <3>1
  <2>6. code[c] # <<>> /\ Head(code[c]) = Created(f)
    <3>1. Left(p, k) # <<>> /\ Head(Left(p, k)) = p[k]
      BY ONLY <2>2, <2>4, LeftIs
    <3> QED BY <2>3, <2>5, <3>1
  <2>7. k \in Slots /\ state[k] = "UNUSED"
    BY <2>1, SlotsAssumption DEF Slots
  <2> QED BY <1>3, <2>6, <2>7
<1>6. CASE func[c] = "login" /\ \E f \in Commands : code[c] = <<Created(f)>>
  <2>1. PICK f \in Commands : code[c] = <<Created(f)>>
    BY <1>6
  <2>2. code[c] # <<>> /\ Head(code[c]) = Created(f)
    BY <2>1
  <2>3. \E s \in Slots : state[s] = "UNUSED"
    BY <1>1, <1>6, <2>2 DEF Who
  <2> QED BY <1>3, <2>2, <2>3
<1>7. CASE code[c] = <<>>
  <2>1. IdleLoop \/ KernelLoop \/ CommandReturns \/ CommandExits \/ UserInput
    BY <1>7, ReadyStep
  <2>2. CASE CommandExits
    BY <2>2, ExitsQueue
  <2>3. CASE ~CommandExits
    <3>1. link' = link /\ cur_process' = c
      BY <2>1, <2>3, QuietIs
    <3> QED BY <1>1, <3>1, FrontStays
  <2> QED BY <2>2, <2>3
<1>8. CASE func[c] = "returns" /\ \E k \in 1 .. 2 : code[c] = Left(Free(c), k)
  BY <1>8, FreesQueue
<1> QED BY <1>1, <1>4, <1>5, <1>6, <1>7, <1>8 DEF StillCode

LEMMA StepMoves ==
  ASSUME IInv, Calm, Next
  PROVE  QueueMoves
<1>1. PICK u, w \in Seqs, x \in Slots \cup {D} :
         ToSet(u) = Runnable \ {cur_process} /\ Situation(cur_process, u, w, x)
  BY DEF IInv
<1>2. Now(u, w, x)
  BY <1>1 DEF IInv, Now
<1>3. PICK c : c = cur_process
  OBVIOUS
<1>4. Situation(c, u, w, x)
  BY <1>1, <1>3
<1>5. CASE Still(c, u, w, x) /\ Dead(w, x)
  BY <1>2, <1>3, <1>5, StillQueue
<1>6. CASE Idling(c, u, w, x) /\ Dead(w, x)
  BY <1>2, <1>3, <1>6, IdlingQueue
<1>7. CASE (\E e \in Slots, k \in 1 .. 3 : Reaping(c, u, w, x, e, k)) /\ Dead(w, x)
  BY <1>2, <1>3, <1>7, ReapingQueue
<1>8. CASE (\E k \in 1 .. 9 : Requeueing(c, u, w, x, k)) /\ Dead(w, x)
  BY <1>2, <1>3, <1>8, RequeueingQueue
<1>9. CASE (\E k \in 3 .. 6 : Leaving(c, u, w, x, k)) /\ Dead(w, x)
  BY <1>2, <1>3, <1>9, LeavingQueue
<1>10. CASE (\E k \in 7 .. 10 : Burying(c, u, w, x, k)) /\ Dead(w, x)
  BY <1>2, <1>3, <1>10, BuryingQueue
<1>11. CASE Gone(c, u, w, x) /\ Dead(w, x)
  BY <1>2, <1>3, <1>11, GoneQueue
<1>12. CASE \E k \in 0 .. 6 : Exited(c, u, w, x, k) /\ Dead(IF k = 0 THEN Append(w, c) ELSE w, x)
  <2>1. PICK k \in 0 .. 6 : Exited(c, u, w, x, k) /\ Dead(IF k = 0 THEN Append(w, c) ELSE w, x)
    BY <1>12
  <2>2. k # 0 => Dead(w, x)
    BY <2>1
  <2> QED BY <1>2, <1>3, <2>1, <2>2, ExitedQueue
<1> QED BY <1>4, <1>5, <1>6, <1>7, <1>8, <1>9, <1>10, <1>11, <1>12 DEF Situation

LEMMA InitQueue ==
  ASSUME Init
  PROVE  RunQueueNow = <<IdleSlot>>
<1> DEFINE c == IdleSlot
           v == <<c>> \o <<>>
<1>1. c \in Slots /\ <<>> \in Seqs /\ c \notin ToSet(<<>>)
  BY SlotsAssumption DEF Slots, IdleSlot, Seqs, IsInjective, ToSet
<1>2. Fronts(link, r_list, c, <<>>, R) /\ cur_process = c
  BY InitLinks DEF Init
<1>3. v = <<c>>
  OBVIOUS
<1>4. v \in Seqs /\ c \in ToSet(v) /\ Path(link, r_list, v)
  BY <1>1, <1>2, PathOfFront
<1> HIDE DEF v
<1>5. RunQueueNow = v
  BY <1>2, <1>4, QueueNow
<1> QED BY <1>3, <1>5

LEMMA StutterMoves ==
  ASSUME UNCHANGED vars
  PROVE  RunQueueNow' = RunQueueNow
<1>1. link' = link /\ state' = state /\ code' = code /\ cur_process' = cur_process
  BY DEF vars
<1>2. code'[cur_process'] = code[cur_process] /\ state'[cur_process'] = state[cur_process]
  BY <1>1
<1> QED BY <1>1, <1>2, RunQueueIs

\* At every store the run list implements the queue of get_next_proc() ("simple FIFO"):
\* no store drops a process, lets one overtake another or brings one in twice.
THEOREM QueueIsKept ==
  ASSUME Calm
  PROVE  Spec => QueueKept
<1>1. Init => Queue!Init
  BY InitQueue DEF Queue!Init
<1>2. IInv /\ [Next]_vars => [Queue!Next]_RunQueueNow
  <2> SUFFICES ASSUME IInv, [Next]_vars
               PROVE  [Queue!Next]_RunQueueNow
    OBVIOUS
  <2>1. CASE Next
    <3>1. Moves(RunQueueNow, RunQueueNow')
      BY <2>1, StepMoves DEF QueueMoves
    <3> QED BY <3>1 DEF Moves, Queue!Next, Queue!Yield, Queue!Finish, Queue!Join, Queue!Queued
  <2>2. CASE UNCHANGED vars
    BY <2>2, StutterMoves
  <2> QED BY <2>1, <2>2
<1> QED BY <1>1, <1>2, Invariance, PTL DEF Spec, QueueKept, Queue!Spec
=============================================================================
