---------------------------- MODULE LifecycleProofs ----------------------------
(***************************************************************************)
(* Theorems about ApplicationLifecycle, for the six programs and every set of *)
(* orderly uses, any number of queues and any number of starts: nothing is    *)
(* deleted twice, a release leaves nothing of what the start has made, and no *)
(* thread, constructor or destructor works with what is not there.            *)
(*                                                                         *)
(* The invariant says what the steps that are left to do say of the objects.  *)
(* While a start goes on (StartGoesOn), what it has still to make is not      *)
(* there and what it has made is there whole; when it has failed              *)
(* (StartFailed), each pointer that a release tests is NULL or points to an   *)
(* object; during a release (Releasing), that holds of what is still to be    *)
(* deleted, all that is alive is still to be deleted, and a thread that runs  *)
(* has still to be waited for.  It rests on the order of the steps: of each   *)
(* start and release the proof shows that every part comes before those that  *)
(* use it, and that no step is there twice (PartOf, StartFacts, FreeFacts).   *)
(***************************************************************************)
EXTENDS ApplicationLifecycle, SequenceTheorems, TLAPS

(* The uses that the theorems are about.                                    *)
Orderly == \A u \in Uses : OrderlyUse(u)

(* What a start makes, and what a release deletes.                          *)
News      == {s \in ToSet(stream_configure_and_start) : s.do = "new"}
Deletable == {s.what : s \in {d \in ToSet(stream_free_all) : d.do = "delete"}}

(* Every part of a start comes before the parts that use it, and a release  *)
(* ends the threads first and deletes the pools last.                       *)
Rank(s) ==
  CASE s.do = "new"    -> IF s.what[1] = "fifo" THEN 2
                          ELSE IF s.what[1] = "node" THEN 3 ELSE 0
    [] s.do = "touch"  -> IF s.over = {} THEN 0 ELSE 4
    [] s.do = "launch" -> IF s.what = "stream" THEN 5 ELSE 1
    [] s.do = "delete" -> IF s.what[1] \in {"queue", "node", "fifo"} THEN 1 ELSE 2
    [] OTHER           -> 0

(* Of what follows the start of the event thread only that of the stream    *)
(* thread has to.                                                           *)
Before(s, t) ==
  Rank(s) < Rank(t) /\ (s.do = "launch" => t.do = "launch")
Ordered(s) == \A i, j \in DOMAIN s : Before(s[i], s[j]) => i < j
Once(s) ==
  \A i, j \in DOMAIN s :
    s[i].do = s[j].do /\ s[i].do \in {"new", "delete", "launch"}
      /\ s[i].what = s[j].what => i = j
PartOf(s, whole) == s \in Seq(ToSet(whole)) /\ Ordered(s) /\ Once(s)

Running(t) == thread[t] = "running"
Forgets(x) == x[1] \in {"timer", "queue flags"}
Sound(x) == PointsTo(x) = 0 \/ Lives(x)
Whole(n) == Lives(n.what) /\ \A x \in n.with : Lives(x)
(* What is deleted with x                                                   *)
OwnerOf(x) == IF x[1] = "ring" THEN queue(x[2]) ELSE x

StartGoesOn ==
  /\ PartOf(todo["main"], stream_configure_and_start)
  /\ \A n \in News :
       IF n \in ToSet(todo["main"]) THEN Objects(n.what) = {} \/ Forgets(n.what)
                                   ELSE Whole(n)
  /\ starts = 1 => \A x \in Deletable : Sound(x)
  /\ Running("stream") => todo["main"] = <<>>

StartFailed ==
  /\ todo["main"] \in {<<EndThreads, Join("event")>>, <<Join("event")>>, <<>>}
  /\ ~Running("stream") /\ (Running("event") => todo["main"] # <<>>)
  /\ \A x \in Deletable : Sound(x)

Releasing(a) ==
  /\ PartOf(todo[a], stream_free_all)
  /\ \A s \in ToSet(todo[a]) : s.do = "delete" => Sound(s.what)
  /\ \A x \in DOMAIN alive :
       ~Forgets(x) /\ alive[x] # {} =>
         \E s \in ToSet(todo[a]) : s.do = "delete" /\ s.what = OwnerOf(x)
  /\ \A t \in Threads : Running(t) => Join(t) \in ToSet(todo[a])

Frees(t) == thread[t] = "freeing"
MainInv ==
  /\ main \in {"out", "starting", "giving up", "running", "waiting", "freeing", "exited"}
  /\ main = "out" => /\ todo["main"] = <<>> /\ \A t \in Threads : ~Running(t)
                     /\ \A x \in DOMAIN alive : Forgets(x) \/ alive[x] = {}
  /\ main = "starting" => StartGoesOn \/ StartFailed
  /\ main = "giving up" => StartFailed
  /\ main = "freeing" => Releasing("main")
  /\ main \in {"running", "waiting"} =>
       /\ todo["main"] \in Seq(ToSet(Wait))
       /\ \/ \A x \in Deletable : Sound(x)
          \/ \E t \in Threads : Frees(t)
  /\ main = "running" => todo["main"] = <<>>
  /\ main = "waiting" => use.waits
  /\ main = "exited" => \A t \in Threads : ~Running(t)

HandlerInv ==
  \A t \in Threads :
    /\ ~Frees(t) => todo[t] = <<>>
    /\ Frees(t) => /\ main \in {"running", "exited"} /\ t \in use.handlers /\ Releasing(t)
                   /\ \A u \in Threads \ {t} : ~Frees(u)

ObjectInv ==
  /\ \A x \in DOMAIN alive :
       ~Forgets(x) => /\ alive[x] = {} \/ alive[x] = {PointsTo(x)}
                      /\ OwnerOf(x) \in Deletable
                      /\ x[1] = "ring" => x \in Rings(x[2])
  /\ \A x \in DOMAIN ptr : x \in UNION {{n.what} \cup n.with : n \in News}
  /\ starts = 0 => ptr = Never /\ alive = Never
  /\ \A k \in Nat, p \in Levels : Objects(<<"ring", k, p>>) = Objects(queue(k))

TypeInv ==
  /\ use \in Uses /\ starts \in Nat
  /\ main # "out" => starts > 0
  /\ todo \in [Actors -> Seq(ToSet(stream_configure_and_start)
                               \cup ToSet(stream_free_all) \cup ToSet(Wait))]
  /\ thread \in [Threads -> {"none", "running", "freeing", "ended"}]
  /\ handle \subseteq Threads
  /\ \A t \in Threads :
       Running(t) => t \in handle /\ Launch(t) \in ToSet(stream_configure_and_start)

Inv == TypeInv /\ MainInv /\ HandlerInv /\ ObjectInv
         /\ NothingTwice /\ ThreadsUseLive
(***************************************************************************)
(* The sequences of steps.                                                 *)
(***************************************************************************)
Tested(k)  == k \in {"new", "delete", "launch"}
Same(s, t) == s.do = t.do /\ Tested(s.do) /\ s.what = t.what
Block(s)   == s \in Seq(ToSet(s)) /\ Ordered(s) /\ Once(s)

LEMMA RankIsNumber == \A s : Rank(s) \in 0 .. 5
  BY DEF Rank

LEMMA Elements ==
  ASSUME NEW S, NEW s \in Seq(S)
  PROVE  /\ s \in Seq(ToSet(s)) /\ ToSet(s) \subseteq S
         /\ Len(s) \in Nat /\ DOMAIN s = 1 .. Len(s)
         /\ \A x \in ToSet(s) : \E i \in 1 .. Len(s) : s[i] = x
<1>1. Len(s) \in Nat /\ s \in [1 .. Len(s) -> S] /\ DOMAIN s = 1 .. Len(s)
  BY LenProperties
<1>2. s \in [1 .. Len(s) -> ToSet(s)]
  BY <1>1 DEF ToSet
<1>3. QED
  BY <1>1, <1>2, SeqDef DEF ToSet

LEMMA SequenceOf ==
  ASSUME NEW n \in Nat, NEW S, NEW s \in [1 .. n -> S]
  PROVE  s \in Seq(ToSet(s)) /\ Len(s) = n /\ DOMAIN s = 1 .. n
<1>1. s \in [1 .. n -> ToSet(s)]
  BY DEF ToSet
<1>2. s \in Seq(ToSet(s))
  BY <1>1, SeqDef
<1>3. QED
  BY <1>2, LenProperties

LEMMA Joined ==
  ASSUME NEW s, NEW t, s \in Seq(ToSet(s)), t \in Seq(ToSet(t))
  PROVE  /\ s \o t \in Seq(ToSet(s \o t))
         /\ Len(s \o t) = Len(s) + Len(t) /\ Len(s) \in Nat /\ Len(t) \in Nat
         /\ \A i \in 1 .. Len(s) + Len(t) :
              (s \o t)[i] = IF i <= Len(s) THEN s[i] ELSE t[i - Len(s)]
         /\ ToSet(s \o t) = ToSet(s) \cup ToSet(t)
<1> DEFINE S == ToSet(s) \cup ToSet(t)
<1>1. s \in Seq(S) /\ t \in Seq(S)
  BY SeqMonotonic
<1>2. /\ s \o t \in Seq(S) /\ Len(s \o t) = Len(s) + Len(t)
      /\ \A i \in 1 .. Len(s) + Len(t) :
           (s \o t)[i] = IF i <= Len(s) THEN s[i] ELSE t[i - Len(s)]
  BY <1>1, ConcatProperties
<1>3. /\ Len(s) \in Nat /\ Len(t) \in Nat
      /\ DOMAIN s = 1 .. Len(s) /\ DOMAIN t = 1 .. Len(t)
      /\ DOMAIN (s \o t) = 1 .. Len(s) + Len(t)
  BY <1>1, <1>2, LenProperties
<1>4. s \o t \in Seq(ToSet(s \o t)) /\ ToSet(s \o t) \subseteq S
  BY <1>2, Elements
<1>5. ASSUME NEW x \in ToSet(s) PROVE x \in ToSet(s \o t)
  <2>1. PICK i \in 1 .. Len(s) : s[i] = x
    BY <1>3 DEF ToSet
  <2>2. i \in 1 .. Len(s) + Len(t) /\ (s \o t)[i] = x
    BY <1>2, <1>3, <2>1
  <2>3. QED
    BY <1>3, <2>2 DEF ToSet
<1>6. ASSUME NEW x \in ToSet(t) PROVE x \in ToSet(s \o t)
  <2>1. PICK i \in 1 .. Len(t) : t[i] = x
    BY <1>3 DEF ToSet
  <2>2. Len(s) + i \in 1 .. Len(s) + Len(t) /\ (s \o t)[Len(s) + i] = x
    BY <1>2, <1>3, <2>1
  <2>3. QED
    BY <1>3, <2>2 DEF ToSet
<1>7. QED
  BY <1>2, <1>3, <1>4, <1>5, <1>6

(* Two parts that follow each other.                                        *)
LEMMA BlocksFollow ==
  ASSUME NEW s, NEW t, Block(s), Block(t),
         \A x \in ToSet(s), y \in ToSet(t) : ~Before(y, x) /\ ~Same(x, y)
  PROVE  Block(s \o t) /\ ToSet(s \o t) = ToSet(s) \cup ToSet(t)
<1> USE DEF Block
<1>1. /\ s \o t \in Seq(ToSet(s \o t))
      /\ Len(s \o t) = Len(s) + Len(t) /\ Len(s) \in Nat /\ Len(t) \in Nat
      /\ \A i \in 1 .. Len(s) + Len(t) :
           (s \o t)[i] = IF i <= Len(s) THEN s[i] ELSE t[i - Len(s)]
      /\ ToSet(s \o t) = ToSet(s) \cup ToSet(t)
  BY Joined
<1>2. /\ DOMAIN s = 1 .. Len(s) /\ DOMAIN t = 1 .. Len(t)
      /\ DOMAIN (s \o t) = 1 .. Len(s) + Len(t)
  BY <1>1, LenProperties
<1>3. \A i \in 1 .. Len(s) :
        s[i] \in ToSet(s) /\ i \in 1 .. Len(s) + Len(t) /\ (s \o t)[i] = s[i]
  BY <1>1, <1>2 DEF ToSet
<1>4. \A i \in 1 .. Len(s) + Len(t) : i > Len(s) =>
        i - Len(s) \in 1 .. Len(t) /\ t[i - Len(s)] \in ToSet(t)
          /\ (s \o t)[i] = t[i - Len(s)]
  BY <1>1, <1>2 DEF ToSet
<1>5. Ordered(s \o t)
  <2> SUFFICES ASSUME NEW i \in 1 .. Len(s) + Len(t), NEW j \in 1 .. Len(s) + Len(t),
                      Before((s \o t)[i], (s \o t)[j])
               PROVE  i < j
    BY <1>2 DEF Ordered
  <2>1. CASE i <= Len(s) /\ j <= Len(s)
    <3>1. i \in 1 .. Len(s) /\ j \in 1 .. Len(s)
      BY <2>1, <1>1
    <3>2. Before(s[i], s[j])
      BY <1>3, <3>1
    <3>3. QED
      BY <3>1, <3>2, <1>2 DEF Ordered
  <2>2. CASE i > Len(s) /\ j > Len(s)
    <3>1. Before(t[i - Len(s)], t[j - Len(s)])
      BY <1>4, <2>2
    <3>2. i - Len(s) < j - Len(s)
      BY <3>1, <1>2, <1>4, <2>2 DEF Ordered
    <3>3. QED
      BY <3>2, <1>1
  <2>3. CASE i <= Len(s) /\ j > Len(s)
    BY <2>3, <1>1
  <2>4. CASE i > Len(s) /\ j <= Len(s)
    <3>1. j \in 1 .. Len(s)
      BY <2>4, <1>1
    <3>2. QED
      BY <3>1, <2>4, <1>3, <1>4
  <2>5. QED
    BY <2>1, <2>2, <2>3, <2>4, <1>1
<1>6. Once(s \o t)
  <2> SUFFICES ASSUME NEW i \in 1 .. Len(s) + Len(t), NEW j \in 1 .. Len(s) + Len(t),
                      Same((s \o t)[i], (s \o t)[j])
               PROVE  i = j
    BY <1>2 DEF Once, Same, Tested
  <2>1. CASE i <= Len(s) /\ j <= Len(s)
    <3>1. i \in 1 .. Len(s) /\ j \in 1 .. Len(s)
      BY <2>1, <1>1
    <3>2. Same(s[i], s[j])
      BY <1>3, <3>1
    <3>3. QED
      BY <3>1, <3>2, <1>2 DEF Once, Same, Tested
  <2>2. CASE i > Len(s) /\ j > Len(s)
    <3>1. Same(t[i - Len(s)], t[j - Len(s)])
      BY <1>4, <2>2
    <3>2. i - Len(s) = j - Len(s)
      BY <3>1, <1>2, <1>4, <2>2 DEF Once, Same, Tested
    <3>3. QED
      BY <3>2, <1>1
  <2>3. CASE i <= Len(s) /\ j > Len(s)
    <3>1. i \in 1 .. Len(s)
      BY <2>3, <1>1
    <3>2. QED
      BY <3>1, <2>3, <1>3, <1>4
  <2>4. CASE i > Len(s) /\ j <= Len(s)
    <3>1. j \in 1 .. Len(s)
      BY <2>4, <1>1
    <3>2. ~Same((s \o t)[j], (s \o t)[i])
      BY <3>1, <2>4, <1>3, <1>4
    <3>3. QED
      BY <3>2 DEF Same
  <2>5. QED
    BY <2>1, <2>2, <2>3, <2>4, <1>1
<1>7. QED
  BY <1>1, <1>5, <1>6

(* Steps of one rank that make or delete different things.                  *)
LEMMA BlockOf ==
  ASSUME NEW n \in Nat, NEW S, NEW s \in [1 .. n -> S],
         \A i, j \in 1 .. n : Rank(s[i]) = Rank(s[j]),
         \A i, j \in 1 .. n : Same(s[i], s[j]) => i = j
  PROVE  Block(s) /\ ToSet(s) = {s[i] : i \in 1 .. n}
<1>1. s \in Seq(ToSet(s)) /\ DOMAIN s = 1 .. n
  BY SequenceOf
<1>2. Ordered(s)
  BY <1>1, RankIsNumber DEF Ordered, Before
<1>3. Once(s)
  BY <1>1 DEF Once, Same, Tested
<1>4. QED
  BY <1>1, <1>2, <1>3 DEF Block, ToSet

LEMMA EmptyBlock == Block(<<>>) /\ ToSet(<<>>) = {}
  BY DEF Block, Ordered, Once, ToSet

LEMMA OneStepBlock == ASSUME NEW s PROVE Block(<<s>>) /\ ToSet(<<s>>) = {s}
<1>1. DOMAIN <<s>> = 1 .. 1 /\ <<s>>[1] = s
  OBVIOUS
<1>2. ToSet(<<s>>) = {s}
  BY <1>1 DEF ToSet
<1>3. <<s>> \in Seq(ToSet(<<s>>))
  BY <1>2
<1>4. Ordered(<<s>>) /\ Once(<<s>>)
  BY <1>1, RankIsNumber DEF Ordered, Once, Before
<1>5. QED
  BY <1>2, <1>3, <1>4 DEF Block
(***************************************************************************)
(* The six programs: FIFOs and nodes have one name each, a node is given    *)
(* FIFOs that there are, what is subscribed is a node, and what is deleted  *)
(* is what is made.                                                        *)
(***************************************************************************)
IsProgram(p) ==
  /\ p.init.fifos \in Nat /\ p.free.fifos = p.init.fifos
  /\ p.init.nodes \in Seq(ToSet(p.init.nodes)) /\ Len(p.init.nodes) > 0
  /\ \A i, j \in DOMAIN p.init.nodes :
       p.init.nodes[i][1] = p.init.nodes[j][1] => i = j
  /\ \A n \in ToSet(p.init.nodes) : n[2] \subseteq 0 .. p.init.fifos - 1
  /\ p.init.subscribes \in Seq(ToSet(p.init.subscribes))
  /\ \A e \in ToSet(p.init.subscribes) :
       {e[1], e[2]} \subseteq {n[1] : n \in ToSet(p.init.nodes)}
  /\ p.free.nodes \in Seq(ToSet(p.free.nodes))
  /\ \A i, j \in DOMAIN p.free.nodes : p.free.nodes[i] = p.free.nodes[j] => i = j
  /\ ToSet(p.free.nodes) = {n[1] : n \in ToSet(p.init.nodes)}

LEMMA ProgramOf ==
  ASSUME NEW I, NEW F, NEW E, NEW c \in Nat, NEW n \in Nat \ {0}, NEW m \in Nat,
         I \in [1 .. n -> ToSet(I)], F \in [1 .. n -> ToSet(F)],
         E \in [1 .. m -> ToSet(E)],
         \A i \in 1 .. n : I[i][1] = F[i] /\ I[i][2] \subseteq 0 .. c - 1,
         \A i, j \in 1 .. n : F[i] = F[j] => i = j,
         \A i \in 1 .. m : E[i][1] \in ToSet(F) /\ E[i][2] \in ToSet(F)
  PROVE  IsProgram([init |-> [fifos |-> c, subscribes |-> E, nodes |-> I],
                    free |-> [fifos |-> c, nodes |-> F]])
<1>1. I \in Seq(ToSet(I)) /\ Len(I) = n /\ DOMAIN I = 1 .. n
  BY SequenceOf
<1>2. F \in Seq(ToSet(F)) /\ DOMAIN F = 1 .. n
  BY SequenceOf
<1>3. E \in Seq(ToSet(E)) /\ DOMAIN E = 1 .. m
  BY SequenceOf
<1>4. ToSet(F) = {x[1] : x \in ToSet(I)} /\ \A x \in ToSet(I) : x[2] \subseteq 0 .. c - 1
  <2>1. ASSUME NEW x \in ToSet(I) PROVE x[1] \in ToSet(F) /\ x[2] \subseteq 0 .. c - 1
    <3>1. PICK i \in 1 .. n : x = I[i]
      BY <1>1 DEF ToSet
    <3>2. x[1] = F[i] /\ x[2] \subseteq 0 .. c - 1
      BY <3>1
    <3>3. QED
      BY <3>2, <1>2 DEF ToSet
  <2>2. ASSUME NEW y \in ToSet(F) PROVE \E x \in ToSet(I) : y = x[1]
    <3>1. PICK i \in 1 .. n : y = F[i]
      BY <1>2 DEF ToSet
    <3>2. I[i] \in ToSet(I) /\ y = I[i][1]
      BY <3>1, <1>1 DEF ToSet
    <3>3. QED
      BY <3>2
  <2>3. QED
    BY <2>1, <2>2
<1>5. ASSUME NEW e \in ToSet(E) PROVE {e[1], e[2]} \subseteq ToSet(F)
  <2>1. PICK i \in 1 .. m : e = E[i]
    BY <1>3 DEF ToSet
  <2>2. QED
    BY <2>1
<1>6. \A i, j \in DOMAIN I : I[i][1] = I[j][1] => i = j
  BY <1>1
<1>7. Len(I) > 0
  BY <1>1
<1> DEFINE p == [init |-> [fifos |-> c, subscribes |-> E, nodes |-> I],
                 free |-> [fifos |-> c, nodes |-> F]]
<1>8. /\ p.init.fifos = c /\ p.init.subscribes = E /\ p.init.nodes = I
      /\ p.free.fifos = c /\ p.free.nodes = F
  OBVIOUS
<1> HIDE DEF p
<1>9. IsProgram(p)
  BY <1>1, <1>2, <1>3, <1>4, <1>5, <1>6, <1>7, <1>8 DEF IsProgram
<1>10. QED
  BY <1>9 DEF p

LEMMA Example10IsProgram == IsProgram([init |-> Example10Init, free |-> Example10Free])
<1> DEFINE I == Example10Init.nodes
           F == Example10Free.nodes
           E == Example10Init.subscribes
           n == 12
           m == 0
           c == 12
<1>0. c \in Nat /\ n \in Nat \ {0} /\ m \in Nat
  OBVIOUS
<1>1. /\ Example10Init = [fifos |-> c, subscribes |-> E, nodes |-> I]
      /\ Example10Free = [fifos |-> c, nodes |-> F]
  BY DEF Example10Init, Example10Free
<1>2. I \in [1 .. n -> ToSet(I)] /\ F \in [1 .. n -> ToSet(F)] /\ E \in [1 .. m -> ToSet(E)]
  BY DEF Example10Init, Example10Free, ToSet
<1>3. /\ I[1] = <<"debug", {4}>> /\ I[2] = <<"debug0", {8}>>
      /\ I[3] = <<"debug1", {9}>> /\ I[4] = <<"debug2", {10}>>
      /\ I[5] = <<"debug3", {11}>> /\ I[6] = <<"dup0", {2, 3, 4}>>
      /\ I[7] = <<"dup1", 5..11>> /\ I[8] = <<"proc", {0, 1, 3}>>
      /\ I[9] = <<"sinka", {6}>> /\ I[10] = <<"sinkb", {7}>>
      /\ I[11] = <<"sourceEven", {0}>> /\ I[12] = <<"sourceOdd", {2}>>
  BY DEF Example10Init
<1>4. /\ F[1] = "debug" /\ F[2] = "debug0" /\ F[3] = "debug1"
      /\ F[4] = "debug2" /\ F[5] = "debug3" /\ F[6] = "dup0" /\ F[7] = "dup1"
      /\ F[8] = "proc" /\ F[9] = "sinka" /\ F[10] = "sinkb"
      /\ F[11] = "sourceEven" /\ F[12] = "sourceOdd"
  BY DEF Example10Free
<1> HIDE DEF I, F, E
<1>6. \A i \in 1 .. n : I[i][1] = F[i] /\ I[i][2] \subseteq 0 .. c - 1
  BY <1>3, <1>4
<1>7. \A i, j \in 1 .. n : F[i] = F[j] => i = j
  BY <1>4
<1>8. \A i \in 1 .. m : E[i][1] \in ToSet(F) /\ E[i][2] \in ToSet(F)
  BY <1>2, <1>4 DEF ToSet
<1> HIDE DEF n, m, c
<1>9. IsProgram([init |-> [fifos |-> c, subscribes |-> E, nodes |-> I],
                 free |-> [fifos |-> c, nodes |-> F]])
  BY <1>0, <1>2, <1>6, <1>7, <1>8, ProgramOf
<1>10. QED
  BY <1>1, <1>9

LEMMA CallbackIsProgram == IsProgram([init |-> CallbackInit, free |-> CallbackFree])
<1> DEFINE I == CallbackInit.nodes
           F == CallbackFree.nodes
           E == CallbackInit.subscribes
           n == 3
           m == 0
           c == 3
<1>0. c \in Nat /\ n \in Nat \ {0} /\ m \in Nat
  OBVIOUS
<1>1. /\ CallbackInit = [fifos |-> c, subscribes |-> E, nodes |-> I]
      /\ CallbackFree = [fifos |-> c, nodes |-> F]
  BY DEF CallbackInit, CallbackFree
<1>2. I \in [1 .. n -> ToSet(I)] /\ F \in [1 .. n -> ToSet(F)] /\ E \in [1 .. m -> ToSet(E)]
  BY DEF CallbackInit, CallbackFree, ToSet
<1>3. /\ I[1] = <<"processing", {0, 1}>> /\ I[2] = <<"sink", {2}>>
      /\ I[3] = <<"source", {0}>>
  BY DEF CallbackInit
<1>4. /\ F[1] = "processing" /\ F[2] = "sink" /\ F[3] = "source"
  BY DEF CallbackFree
<1> HIDE DEF I, F, E
<1>6. \A i \in 1 .. n : I[i][1] = F[i] /\ I[i][2] \subseteq 0 .. c - 1
  BY <1>3, <1>4
<1>7. \A i, j \in 1 .. n : F[i] = F[j] => i = j
  BY <1>4
<1>8. \A i \in 1 .. m : E[i][1] \in ToSet(F) /\ E[i][2] \in ToSet(F)
  BY <1>2, <1>4 DEF ToSet
<1> HIDE DEF n, m, c
<1>9. IsProgram([init |-> [fifos |-> c, subscribes |-> E, nodes |-> I],
                 free |-> [fifos |-> c, nodes |-> F]])
  BY <1>0, <1>2, <1>6, <1>7, <1>8, ProgramOf
<1>10. QED
  BY <1>1, <1>9

LEMMA EventsIsProgram == IsProgram([init |-> EventsInit, free |-> EventsFree])
<1> DEFINE I == EventsInit.nodes
           F == EventsFree.nodes
           E == EventsInit.subscribes
           n == 4
           m == 2
           c == 2
<1>0. c \in Nat /\ n \in Nat \ {0} /\ m \in Nat
  OBVIOUS
<1>1. /\ EventsInit = [fifos |-> c, subscribes |-> E, nodes |-> I]
      /\ EventsFree = [fifos |-> c, nodes |-> F]
  BY DEF EventsInit, EventsFree
<1>2. I \in [1 .. n -> ToSet(I)] /\ F \in [1 .. n -> ToSet(F)] /\ E \in [1 .. m -> ToSet(E)]
  BY DEF EventsInit, EventsFree, ToSet
<1>3. /\ I[1] = <<"processing", {0, 1}>> /\ I[2] = <<"sink", {1}>>
      /\ I[3] = <<"source", {0}>> /\ I[4] = <<"evtsink", {}>>
  BY DEF EventsInit
<1>4. /\ F[1] = "processing" /\ F[2] = "sink" /\ F[3] = "source"
      /\ F[4] = "evtsink"
  BY DEF EventsFree
<1>5. /\ E[1] = <<"source", "sink">> /\ E[2] = <<"source", "evtsink">>
  BY DEF EventsInit
<1> HIDE DEF I, F, E
<1>6. \A i \in 1 .. n : I[i][1] = F[i] /\ I[i][2] \subseteq 0 .. c - 1
  BY <1>3, <1>4
<1>7. \A i, j \in 1 .. n : F[i] = F[j] => i = j
  BY <1>4
<1>8. \A i \in 1 .. m : E[i][1] \in ToSet(F) /\ E[i][2] \in ToSet(F)
  BY <1>2, <1>4, <1>5 DEF ToSet
<1> HIDE DEF n, m, c
<1>9. IsProgram([init |-> [fifos |-> c, subscribes |-> E, nodes |-> I],
                 free |-> [fifos |-> c, nodes |-> F]])
  BY <1>0, <1>2, <1>6, <1>7, <1>8, ProgramOf
<1>10. QED
  BY <1>1, <1>9

LEMMA HelloIsProgram == IsProgram([init |-> HelloPosixInit, free |-> HelloPosixFree])
<1> DEFINE I == HelloPosixInit.nodes
           F == HelloPosixFree.nodes
           E == HelloPosixInit.subscribes
           n == 4
           m == 1
           c == 2
<1>0. c \in Nat /\ n \in Nat \ {0} /\ m \in Nat
  OBVIOUS
<1>1. /\ HelloPosixInit = [fifos |-> c, subscribes |-> E, nodes |-> I]
      /\ HelloPosixFree = [fifos |-> c, nodes |-> F]
  BY DEF HelloPosixInit, HelloPosixFree
<1>2. I \in [1 .. n -> ToSet(I)] /\ F \in [1 .. n -> ToSet(F)] /\ E \in [1 .. m -> ToSet(E)]
  BY DEF HelloPosixInit, HelloPosixFree, ToSet
<1>3. /\ I[1] = <<"process", {0, 1}>> /\ I[2] = <<"sink", {1}>>
      /\ I[3] = <<"src", {0}>> /\ I[4] = <<"evtSink", {}>>
  BY DEF HelloPosixInit
<1>4. /\ F[1] = "process" /\ F[2] = "sink" /\ F[3] = "src" /\ F[4] = "evtSink"
  BY DEF HelloPosixFree
<1>5. /\ E[1] = <<"sink", "evtSink">>
  BY DEF HelloPosixInit
<1> HIDE DEF I, F, E
<1>6. \A i \in 1 .. n : I[i][1] = F[i] /\ I[i][2] \subseteq 0 .. c - 1
  BY <1>3, <1>4
<1>7. \A i, j \in 1 .. n : F[i] = F[j] => i = j
  BY <1>4
<1>8. \A i \in 1 .. m : E[i][1] \in ToSet(F) /\ E[i][2] \in ToSet(F)
  BY <1>2, <1>4, <1>5 DEF ToSet
<1> HIDE DEF n, m, c
<1>9. IsProgram([init |-> [fifos |-> c, subscribes |-> E, nodes |-> I],
                 free |-> [fifos |-> c, nodes |-> F]])
  BY <1>0, <1>2, <1>6, <1>7, <1>8, ProgramOf
<1>10. QED
  BY <1>1, <1>9

LEMMA UseIsOfProgram == ASSUME use \in Uses PROVE IsProgram(Program)
<1>1. use.program \in {"Example10", "Callback", "Events", "posix", "CMSIS", "Zephyr"}
  BY UsesAssumption DEF Programs
<1>2. /\ HelloCMSISInit = HelloPosixInit /\ HelloCMSISFree = HelloPosixFree
      /\ HelloZephyrInit = HelloPosixInit /\ HelloZephyrFree = HelloPosixFree
  BY DEF HelloPosixInit, HelloPosixFree, HelloCMSISInit, HelloCMSISFree,
         HelloZephyrInit, HelloZephyrFree
<1>3. Program \in {[init |-> Example10Init, free |-> Example10Free],
                   [init |-> CallbackInit, free |-> CallbackFree],
                   [init |-> EventsInit, free |-> EventsFree],
                   [init |-> HelloPosixInit, free |-> HelloPosixFree]}
  BY <1>1, <1>2 DEF Program, Programs
<1>4. QED
  BY <1>3, Example10IsProgram, CallbackIsProgram, EventsIsProgram, HelloIsProgram

(* The steps of init_scheduler() and of free_scheduler().                    *)
FIFOSteps(p)  == {New(fifo(k), TRUE, {}) : k \in 0 .. p.fifos - 1}
NodeSteps(p)  == {New(node(n[1]), TRUE, {fifo(k) : k \in n[2]}) : n \in ToSet(p.nodes)}
EventSteps(p) == {Touch({node(e[1]), node(e[2])}, FALSE) : e \in ToSet(p.subscribes)}
InitSteps(p)  == {Touch({node(n[1])}, TRUE) : n \in ToSet(p.nodes)}

LEMMA NamesDiffer ==
  /\ \A k : fifo(k)[1] = "fifo" /\ fifo(k)[2] = k
  /\ \A n : node(n)[1] = "node" /\ node(n)[2] = n
  /\ \A k : queue(k)[1] = "queue" /\ queue(k)[2] = k
  BY DEF fifo, node, queue

LEMMA FIFOsAreMade ==
  ASSUME NEW p, p.fifos \in Nat
  PROVE  LET s == Each(LAMBDA k : New(fifo(k), TRUE, {}), Upto(p.fifos)) IN
         /\ Block(s) /\ ToSet(s) = FIFOSteps(p)
         /\ \A x \in ToSet(s) : Rank(x) = 2
<1> DEFINE s == Each(LAMBDA k : New(fifo(k), TRUE, {}), Upto(p.fifos))
           n == p.fifos
<1>1. s = [k \in 1 .. n |-> New(fifo(k - 1), TRUE, {})]
  BY DEF Each, Upto
<1>2. \A i \in 1 .. n : s[i] = New(fifo(i - 1), TRUE, {})
  BY <1>1
<1>3. s \in [1 .. n -> ToSet(s)]
  BY <1>1 DEF ToSet
<1> HIDE DEF s
<1>f. ASSUME NEW i \in 1 .. n
      PROVE  s[i].do = "new" /\ s[i].what = fifo(i - 1) /\ fifo(i - 1)[1] = "fifo"
  <2>1. s[i] = New(fifo(i - 1), TRUE, {})
    BY <1>2
  <2>2. QED
    BY <2>1, NamesDiffer DEF New
<1>4. \A i \in 1 .. n : Rank(s[i]) = 2
  BY <1>f DEF Rank
<1>5. \A i, j \in 1 .. n : Same(s[i], s[j]) => i = j
  <2> SUFFICES ASSUME NEW i \in 1 .. n, NEW j \in 1 .. n, Same(s[i], s[j])
               PROVE  i = j
    OBVIOUS
  <2>1. fifo(i - 1) = fifo(j - 1)
    BY <1>f DEF Same
  <2>2. i - 1 = j - 1
    BY <2>1, NamesDiffer
  <2>3. QED
    BY <2>2
<1>6. Block(s) /\ ToSet(s) = {s[i] : i \in 1 .. n}
  BY <1>3, <1>4, <1>5, BlockOf
<1>7. ToSet(s) = FIFOSteps(p)
  <2>1. ASSUME NEW i \in 1 .. n PROVE s[i] \in FIFOSteps(p)
    <3>1. i - 1 \in 0 .. n - 1
      OBVIOUS
    <3>2. QED
      BY <3>1, <1>2 DEF FIFOSteps
  <2>2. ASSUME NEW k \in 0 .. n - 1 PROVE New(fifo(k), TRUE, {}) \in ToSet(s)
    <3>1. k + 1 \in 1 .. n /\ (k + 1) - 1 = k
      OBVIOUS
    <3>2. s[k + 1] = New(fifo(k), TRUE, {})
      BY <3>1, <1>2
    <3>3. QED
      BY <3>1, <3>2, <1>6
  <2>3. QED
    BY <2>1, <2>2, <1>6 DEF FIFOSteps
<1>8. \A x \in ToSet(s) : Rank(x) = 2
  BY <1>4, <1>6
<1>9. QED
  BY <1>6, <1>7, <1>8 DEF s

LEMMA NodesAreMade ==
  ASSUME NEW p, p.nodes \in Seq(ToSet(p.nodes)),
         \A i, j \in DOMAIN p.nodes : p.nodes[i][1] = p.nodes[j][1] => i = j
  PROVE  LET s == Each(LAMBDA n : New(node(n[1]), TRUE, {fifo(k) : k \in n[2]}), p.nodes) IN
         /\ Block(s) /\ ToSet(s) = NodeSteps(p)
         /\ \A x \in ToSet(s) : Rank(x) = 3
<1> DEFINE Step(n) == New(node(n[1]), TRUE, {fifo(k) : k \in n[2]})
           s == Each(LAMBDA n : New(node(n[1]), TRUE, {fifo(k) : k \in n[2]}), p.nodes)
           n0 == Len(p.nodes)
<1>0. n0 \in Nat /\ DOMAIN p.nodes = 1 .. n0
  BY LenProperties
<1>1. s = [k \in 1 .. n0 |-> Step(p.nodes[k])]
  BY <1>0 DEF Each
<1>2. \A i \in 1 .. n0 : s[i] = Step(p.nodes[i])
  BY <1>1
<1>3. s \in [1 .. n0 -> ToSet(s)]
  BY <1>1 DEF ToSet
<1> HIDE DEF s, n0
<1>f. ASSUME NEW i \in 1 .. n0
      PROVE  /\ s[i].do = "new" /\ s[i].what = node(p.nodes[i][1])
             /\ node(p.nodes[i][1])[1] = "node"
  <2>1. s[i] = New(node(p.nodes[i][1]), TRUE, {fifo(k) : k \in p.nodes[i][2]})
    BY <1>2
  <2>2. QED
    BY <2>1, NamesDiffer DEF New
<1>4. \A i \in 1 .. n0 : Rank(s[i]) = 3
  BY <1>f DEF Rank
<1>5. \A i, j \in 1 .. n0 : Same(s[i], s[j]) => i = j
  <2> SUFFICES ASSUME NEW i \in 1 .. n0, NEW j \in 1 .. n0, Same(s[i], s[j])
               PROVE  i = j
    OBVIOUS
  <2>1. node(p.nodes[i][1]) = node(p.nodes[j][1])
    BY <1>f DEF Same
  <2>2. p.nodes[i][1] = p.nodes[j][1]
    BY <2>1, NamesDiffer
  <2>3. QED
    BY <2>2, <1>0
<1>6. Block(s) /\ ToSet(s) = {s[i] : i \in 1 .. n0}
  <2>1. \A i, j \in 1 .. n0 : Rank(s[i]) = Rank(s[j])
    BY <1>4
  <2>2. n0 \in Nat
    BY <1>0
  <2>3. QED
    BY <2>1, <2>2, <1>3, <1>5, BlockOf
<1>7. ToSet(s) = NodeSteps(p)
  <2>1. ASSUME NEW x \in ToSet(s) PROVE x \in NodeSteps(p)
    <3>1. PICK i \in 1 .. n0 : x = s[i]
      BY <1>6
    <3>2. x = Step(p.nodes[i]) /\ p.nodes[i] \in ToSet(p.nodes)
      BY <3>1, <1>0, <1>2 DEF ToSet
    <3>3. QED
      BY <3>2 DEF NodeSteps
  <2>2. ASSUME NEW n \in ToSet(p.nodes) PROVE Step(n) \in ToSet(s)
    <3>1. PICK i \in 1 .. n0 : n = p.nodes[i]
      BY <1>0 DEF ToSet
    <3>2. QED
      BY <3>1, <1>2, <1>6
  <2>3. QED
    BY <2>1, <2>2 DEF NodeSteps
<1>8. \A x \in ToSet(s) : Rank(x) = 3
  BY <1>4, <1>6
<1>9. QED
  BY <1>6, <1>7, <1>8 DEF s

LEMMA EventsAreConnected ==
  ASSUME NEW p, p.subscribes \in Seq(ToSet(p.subscribes))
  PROVE  LET s == Each(LAMBDA e : Touch({node(e[1]), node(e[2])}, FALSE), p.subscribes) IN
         /\ Block(s) /\ ToSet(s) = EventSteps(p)
         /\ \A x \in ToSet(s) : Rank(x) = 4
<1> DEFINE Step(e) == Touch({node(e[1]), node(e[2])}, FALSE)
           s == Each(LAMBDA e : Touch({node(e[1]), node(e[2])}, FALSE), p.subscribes)
           n0 == Len(p.subscribes)
<1>0. n0 \in Nat /\ DOMAIN p.subscribes = 1 .. n0
  BY LenProperties
<1>1. s = [k \in 1 .. n0 |-> Step(p.subscribes[k])]
  BY <1>0 DEF Each
<1>2. \A i \in 1 .. n0 : s[i] = Step(p.subscribes[i])
  BY <1>1
<1>3. s \in [1 .. n0 -> ToSet(s)]
  BY <1>1 DEF ToSet
<1> HIDE DEF s, n0
<1>f. ASSUME NEW i \in 1 .. n0 PROVE s[i].do = "touch" /\ s[i].over # {}
  <2>1. s[i] = Step(p.subscribes[i])
    BY <1>2
  <2>2. QED
    BY <2>1 DEF Touch
<1>4. \A i \in 1 .. n0 : Rank(s[i]) = 4
  BY <1>f DEF Rank
<1>5. \A i, j \in 1 .. n0 : Same(s[i], s[j]) => i = j
  BY <1>f DEF Same, Tested
<1>6. Block(s) /\ ToSet(s) = {s[i] : i \in 1 .. n0}
  BY <1>0, <1>3, <1>4, <1>5, BlockOf
<1>7. ToSet(s) = EventSteps(p)
  <2>1. ToSet(s) = {Step(p.subscribes[i]) : i \in 1 .. n0}
    BY <1>2, <1>6
  <2>2. ToSet(p.subscribes) = {p.subscribes[i] : i \in 1 .. n0}
    BY <1>0 DEF ToSet
  <2>3. QED
    BY <2>1, <2>2 DEF EventSteps
<1>8. \A x \in ToSet(s) : Rank(x) = 4
  BY <1>4, <1>6
<1>9. QED
  BY <1>6, <1>7, <1>8 DEF s

LEMMA NodesAreInitialised ==
  ASSUME NEW p, p.nodes \in Seq(ToSet(p.nodes))
  PROVE  LET s == Each(LAMBDA n : Touch({node(n[1])}, TRUE), p.nodes) IN
         /\ Block(s) /\ ToSet(s) = InitSteps(p)
         /\ \A x \in ToSet(s) : Rank(x) = 4
<1> DEFINE Step(n) == Touch({node(n[1])}, TRUE)
           s == Each(LAMBDA n : Touch({node(n[1])}, TRUE), p.nodes)
           n0 == Len(p.nodes)
<1>0. n0 \in Nat /\ DOMAIN p.nodes = 1 .. n0
  BY LenProperties
<1>1. s = [k \in 1 .. n0 |-> Step(p.nodes[k])]
  BY <1>0 DEF Each
<1>2. \A i \in 1 .. n0 : s[i] = Step(p.nodes[i])
  BY <1>1
<1>3. s \in [1 .. n0 -> ToSet(s)]
  BY <1>1 DEF ToSet
<1> HIDE DEF s, n0
<1>f. ASSUME NEW i \in 1 .. n0 PROVE s[i].do = "touch" /\ s[i].over # {}
  <2>1. s[i] = Step(p.nodes[i])
    BY <1>2
  <2>2. QED
    BY <2>1 DEF Touch
<1>4. \A i \in 1 .. n0 : Rank(s[i]) = 4
  BY <1>f DEF Rank
<1>5. \A i, j \in 1 .. n0 : Same(s[i], s[j]) => i = j
  BY <1>f DEF Same, Tested
<1>6. Block(s) /\ ToSet(s) = {s[i] : i \in 1 .. n0}
  BY <1>0, <1>3, <1>4, <1>5, BlockOf
<1>7. ToSet(s) = InitSteps(p)
  <2>1. ToSet(s) = {Step(p.nodes[i]) : i \in 1 .. n0}
    BY <1>2, <1>6
  <2>2. ToSet(p.nodes) = {p.nodes[i] : i \in 1 .. n0}
    BY <1>0 DEF ToSet
  <2>3. QED
    BY <2>1, <2>2 DEF InitSteps
<1>8. \A x \in ToSet(s) : Rank(x) = 4
  BY <1>4, <1>6
<1>9. QED
  BY <1>6, <1>7, <1>8 DEF s
(* Parts of increasing rank follow each other.                               *)
Within(s, a, b) == Block(s) /\ \A x \in ToSet(s) : Rank(x) \in a .. b

LEMMA SameRank == \A s, t : Same(s, t) => Rank(s) = Rank(t) /\ s.do # "touch"
  BY DEF Same, Tested, Rank

LEMMA RanksFollow ==
  ASSUME NEW s, NEW t, NEW a \in Nat, NEW b \in Nat, NEW c \in Nat, NEW d \in Nat,
         Within(s, a, b), Within(t, c, d), b <= c, a <= c, b <= d,
         b < c \/ \A x \in ToSet(t) : x.do = "touch"
  PROVE  Within(s \o t, a, d) /\ ToSet(s \o t) = ToSet(s) \cup ToSet(t)
<1>1. Block(s) /\ Block(t)
  BY DEF Within
<1>2. ASSUME NEW x \in ToSet(s), NEW y \in ToSet(t)
      PROVE  ~Before(y, x) /\ ~Same(x, y)
  <2>1. Rank(x) \in a .. b /\ Rank(y) \in c .. d
    BY DEF Within
  <2>2. ~Before(y, x)
    BY <2>1 DEF Before
  <2>3. ~Same(x, y)
    <3>1. CASE b < c
      BY <3>1, <2>1, SameRank
    <3>2. CASE y.do = "touch"
      BY <3>2 DEF Same, Tested
    <3>3. QED
      BY <3>1, <3>2
  <2>4. QED
    BY <2>2, <2>3
<1>3. Block(s \o t) /\ ToSet(s \o t) = ToSet(s) \cup ToSet(t)
  BY <1>1, <1>2, BlocksFollow
<1>4. ASSUME NEW x \in ToSet(s \o t) PROVE Rank(x) \in a .. d
  <2>1. CASE x \in ToSet(s)
    <3>1. Rank(x) \in a .. b
      BY <2>1 DEF Within
    <3>2. QED
      BY <3>1
  <2>2. CASE x \in ToSet(t)
    <3>1. Rank(x) \in c .. d
      BY <2>2 DEF Within
    <3>2. QED
      BY <3>1
  <2>3. QED
    BY <2>1, <2>2, <1>3
<1>5. QED
  BY <1>3, <1>4 DEF Within

LEMMA SchedulerIsMade ==
  ASSUME NEW p, IsProgram(p)
  PROVE  /\ Within(init_scheduler(p.init), 2, 4)
         /\ ToSet(init_scheduler(p.init))
              = FIFOSteps(p.init) \cup NodeSteps(p.init)
                  \cup EventSteps(p.init) \cup InitSteps(p.init)
<1> DEFINE q == p.init
           s1 == Each(LAMBDA k : New(fifo(k), TRUE, {}), Upto(q.fifos))
           s2 == Each(LAMBDA n : New(node(n[1]), TRUE, {fifo(k) : k \in n[2]}), q.nodes)
           s3 == Each(LAMBDA e : Touch({node(e[1]), node(e[2])}, FALSE), q.subscribes)
           s4 == Each(LAMBDA n : Touch({node(n[1])}, TRUE), q.nodes)
           c2 == 2  c3 == 3  c4 == 4
<1>1. /\ q.fifos \in Nat /\ q.nodes \in Seq(ToSet(q.nodes))
      /\ q.subscribes \in Seq(ToSet(q.subscribes))
      /\ \A i, j \in DOMAIN q.nodes : q.nodes[i][1] = q.nodes[j][1] => i = j
  BY DEF IsProgram
<1>2. init_scheduler(q) = s1 \o s2 \o s3 \o s4
  BY DEF init_scheduler
<1>3. c2 \in Nat /\ c3 \in Nat /\ c4 \in Nat /\ c2 < c3 /\ c3 < c4 /\ c2 < c4 /\ c4 <= c4
  OBVIOUS
<1> HIDE DEF q
<1>4. Block(s1) /\ ToSet(s1) = FIFOSteps(q) /\ \A x \in ToSet(s1) : Rank(x) = c2
  BY <1>1, FIFOsAreMade
<1>5. Block(s2) /\ ToSet(s2) = NodeSteps(q) /\ \A x \in ToSet(s2) : Rank(x) = c3
  BY <1>1, NodesAreMade
<1>6. Block(s3) /\ ToSet(s3) = EventSteps(q) /\ \A x \in ToSet(s3) : Rank(x) = c4
  BY <1>1, EventsAreConnected
<1>7. Block(s4) /\ ToSet(s4) = InitSteps(q) /\ \A x \in ToSet(s4) : Rank(x) = c4
  BY <1>1, NodesAreInitialised
<1>8. \A x \in InitSteps(q) : x.do = "touch"
  BY DEF InitSteps, Touch
<1> HIDE DEF s1, s2, s3, s4, c2, c3, c4
<1>w. /\ Within(s1, c2, c2) /\ Within(s2, c3, c3)
      /\ Within(s3, c4, c4) /\ Within(s4, c4, c4)
  <2>1. c2 \in c2 .. c2 /\ c3 \in c3 .. c3 /\ c4 \in c4 .. c4
    BY <1>3
  <2>2. QED
    BY <2>1, <1>4, <1>5, <1>6, <1>7 DEF Within
<1>9. Within(s1 \o s2, c2, c3) /\ ToSet(s1 \o s2) = ToSet(s1) \cup ToSet(s2)
  BY <1>3, <1>w, RanksFollow
<1>10. Within((s1 \o s2) \o s3, c2, c4)
       /\ ToSet((s1 \o s2) \o s3) = ToSet(s1 \o s2) \cup ToSet(s3)
  BY <1>3, <1>w, <1>9, RanksFollow
<1>11. Within(((s1 \o s2) \o s3) \o s4, c2, c4)
       /\ ToSet(((s1 \o s2) \o s3) \o s4) = ToSet((s1 \o s2) \o s3) \cup ToSet(s4)
  BY <1>3, <1>w, <1>7, <1>8, <1>10, RanksFollow
<1>12. QED
  BY <1>2, <1>4, <1>5, <1>6, <1>7, <1>9, <1>10, <1>11 DEF q, c2, c4

(* The queues.                                                              *)
LEMMA QueueIsMade ==
  ASSUME use \in Uses, NEW k
  PROVE  /\ stream_new_event_queue(k).do = "new"
         /\ stream_new_event_queue(k).what = queue(k)
         /\ stream_new_event_queue(k).over = {}
         /\ Rings(k) \subseteq stream_new_event_queue(k).with
         /\ stream_new_event_queue(k).with \subseteq Rings(k) \cup {<<"queue flags", k>>}
<1> DEFINE n == New(queue(k), TRUE, {})
<1>1. /\ n \in [do : {"new"}, what : {queue(k)}, with : {Parts(queue(k))},
               fails : {TRUE}, over : {{}}]
      /\ Parts(queue(k)) = Rings(k)
  BY NamesDiffer DEF New, Parts
<1>2. n.do = "new" /\ n.what = queue(k) /\ n.over = {} /\ n.with = Rings(k)
  BY <1>1 DEF New
<1>3. CMSISEventQueue(k) = [n EXCEPT !.with = @ \cup {<<"queue flags", k>>}]
  BY DEF CMSISEventQueue
<1> HIDE DEF n
<1>4. /\ CMSISEventQueue(k).do = "new" /\ CMSISEventQueue(k).what = queue(k)
      /\ CMSISEventQueue(k).over = {}
      /\ CMSISEventQueue(k).with = Rings(k) \cup {<<"queue flags", k>>}
  BY <1>1, <1>3
<1>5. PosixEventQueue(k) = n /\ MyQueue(k) = n
  BY DEF n, PosixEventQueue, MyQueue
<1>6. stream_new_event_queue(k) \in {n, CMSISEventQueue(k)}
  <2>1. use.platform \in {"posix", "CMSIS", "Zephyr"}
    BY UsesAssumption
  <2>2. QED
    BY <2>1, <1>5 DEF stream_new_event_queue
<1>7. QED
  BY <1>2, <1>4, <1>6

LEMMA QueuesAreMade ==
  ASSUME use \in Uses
  PROVE  /\ Within(Queues, 0, 0)
         /\ ToSet(Queues) = {stream_new_event_queue(k) : k \in 0 .. use.queues - 1}
<1> DEFINE n == use.queues
           s == Queues
<1>0. n \in Nat
  BY UsesAssumption
<1>1. s = [i \in 1 .. n |-> stream_new_event_queue(i - 1)]
  BY DEF Queues, Each, Upto
<1>2. \A i \in 1 .. n : s[i] = stream_new_event_queue(i - 1)
  BY <1>1
<1>3. s \in [1 .. n -> ToSet(s)]
  BY <1>1 DEF ToSet
<1> HIDE DEF s, n
<1>f. ASSUME NEW i \in 1 .. n
      PROVE  s[i].do = "new" /\ s[i].what = queue(i - 1) /\ queue(i - 1)[1] = "queue"
  <2>1. s[i] = stream_new_event_queue(i - 1)
    BY <1>2
  <2>2. QED
    BY <2>1, QueueIsMade, NamesDiffer
<1>4. \A i \in 1 .. n : Rank(s[i]) = 0
  BY <1>f DEF Rank
<1>5. \A i, j \in 1 .. n : Same(s[i], s[j]) => i = j
  <2> SUFFICES ASSUME NEW i \in 1 .. n, NEW j \in 1 .. n, Same(s[i], s[j])
               PROVE  i = j
    OBVIOUS
  <2>1. queue(i - 1) = queue(j - 1)
    BY <1>f DEF Same
  <2>2. i - 1 = j - 1
    BY <2>1, NamesDiffer
  <2>3. QED
    BY <2>2
<1>6. Block(s) /\ ToSet(s) = {s[i] : i \in 1 .. n}
  <2>1. \A i, j \in 1 .. n : Rank(s[i]) = Rank(s[j])
    BY <1>4
  <2>2. QED
    BY <2>1, <1>0, <1>3, <1>5, BlockOf
<1>7. ToSet(s) = {stream_new_event_queue(k) : k \in 0 .. n - 1}
  <2>1. ASSUME NEW i \in 1 .. n
        PROVE  s[i] \in {stream_new_event_queue(k) : k \in 0 .. n - 1}
    <3>1. i - 1 \in 0 .. n - 1
      BY <1>0
    <3>2. QED
      BY <3>1, <1>2
  <2>2. ASSUME NEW k \in 0 .. n - 1 PROVE stream_new_event_queue(k) \in ToSet(s)
    <3>1. k + 1 \in 1 .. n /\ (k + 1) - 1 = k
      BY <1>0
    <3>2. s[k + 1] = stream_new_event_queue(k)
      BY <3>1, <1>2
    <3>3. QED
      BY <3>1, <3>2, <1>6
  <2>3. QED
    BY <2>1, <2>2, <1>6
<1>8. \A x \in ToSet(s) : Rank(x) \in 0 .. 0
  BY <1>4, <1>6
<1>9. QED
  BY <1>6, <1>7, <1>8 DEF s, n, Within

(* The memory of the platforms.                                             *)
Timer == New(<<"timer", 0>>, TRUE, {})
CMSISObjects == {<<"flags", "stream">>, <<"flags", "reply">>} \cup Pools

LEMMA CMSISMemoryIsMade ==
  /\ Block(CMSISInitMemory)
  /\ \A x \in ToSet(CMSISInitMemory) :
       x.do = "new" /\ x.over = {} /\ x.with = {} /\ x.what \in CMSISObjects
  /\ CMSISObjects \subseteq {x.what : x \in ToSet(CMSISInitMemory)}
<1> DEFINE s == CMSISInitMemory
           n == 5
<1>1. /\ s[1] = New(<<"flags", "stream">>, FALSE, {})
      /\ s[2] = New(<<"flags", "reply">>, FALSE, {})
      /\ s[3] = New(<<"pool", "event">>, TRUE, {})
      /\ s[4] = New(<<"pool", "buf">>, TRUE, {})
      /\ s[5] = New(<<"pool", "mutex">>, TRUE, {})
      /\ s \in [1 .. n -> ToSet(s)]
  BY DEF CMSISInitMemory, ToSet
<1> HIDE DEF s
<1>2. /\ s[1].what = <<"flags", "stream">> /\ s[2].what = <<"flags", "reply">>
      /\ s[3].what = <<"pool", "event">> /\ s[4].what = <<"pool", "buf">>
      /\ s[5].what = <<"pool", "mutex">>
  BY <1>1 DEF New
<1>3. \A i \in 1 .. 5 : s[i].do = "new" /\ s[i].over = {} /\ s[i].with = Parts(s[i].what)
  <2>1. s[1].do = "new" /\ s[1].over = {} /\ s[1].with = Parts(s[1].what)
    BY <1>1, <1>2 DEF New
  <2>2. s[2].do = "new" /\ s[2].over = {} /\ s[2].with = Parts(s[2].what)
    BY <1>1, <1>2 DEF New
  <2>3. s[3].do = "new" /\ s[3].over = {} /\ s[3].with = Parts(s[3].what)
    BY <1>1, <1>2 DEF New
  <2>4. s[4].do = "new" /\ s[4].over = {} /\ s[4].with = Parts(s[4].what)
    BY <1>1, <1>2 DEF New
  <2>5. s[5].do = "new" /\ s[5].over = {} /\ s[5].with = Parts(s[5].what)
    BY <1>1, <1>2 DEF New
  <2>6. QED
    BY <2>1, <2>2, <2>3, <2>4, <2>5
<1>4. \A i \in 1 .. 5 : s[i].what[1] \in {"flags", "pool"} /\ s[i].what \in CMSISObjects
  <2>1. \A i \in 1 .. 5 : s[i].what \in CMSISObjects
    BY <1>2 DEF CMSISObjects, Pools
  <2>2. \A x \in CMSISObjects : x[1] \in {"flags", "pool"}
    BY DEF CMSISObjects, Pools
  <2>3. QED
    BY <2>1, <2>2
<1>5. \A i \in 1 .. 5 : Rank(s[i]) = 0 /\ s[i].with = {}
  BY <1>3, <1>4 DEF Rank, Parts
<1>6. \A i, j \in 1 .. 5 : s[i].what = s[j].what => i = j
  BY <1>2
<1>7. Block(s) /\ ToSet(s) = {s[i] : i \in 1 .. n}
  <2>1. n \in Nat
    OBVIOUS
  <2>2. /\ \A i, j \in 1 .. n : Rank(s[i]) = Rank(s[j])
        /\ \A i, j \in 1 .. n : Same(s[i], s[j]) => i = j
    BY <1>5, <1>6 DEF Same
  <2> HIDE DEF n
  <2>3. QED
    BY <2>1, <2>2, <1>1, BlockOf
<1>8. \A x \in CMSISObjects : \E i \in 1 .. 5 : s[i].what = x
  BY <1>2 DEF CMSISObjects, Pools
<1>9. \A x \in ToSet(s) :
        x.do = "new" /\ x.over = {} /\ x.with = {} /\ x.what \in CMSISObjects
  BY <1>3, <1>4, <1>5, <1>7
<1>10. CMSISObjects \subseteq {x.what : x \in ToSet(s)}
  BY <1>7, <1>8
<1>11. QED
  BY <1>7, <1>9, <1>10 DEF s

LEMMA ZephyrMemoryIsThere ==
  /\ Block(ZephyrInitMemory)
  /\ \A x \in ToSet(ZephyrInitMemory) : x.do = "touch" /\ x.over = {}
<1> DEFINE s == ZephyrInitMemory
           n == 3
<1>1. /\ s[1] = Touch({}, TRUE) /\ s[2] = Touch({}, TRUE) /\ s[3] = Touch({}, TRUE)
      /\ s \in [1 .. n -> ToSet(s)]
  BY DEF ZephyrInitMemory, ToSet
<1> HIDE DEF s
<1>2. \A i \in 1 .. 3 : s[i].do = "touch" /\ s[i].over = {}
  BY <1>1 DEF Touch
<1>3. \A i \in 1 .. 3 : Rank(s[i]) = 0
  BY <1>2 DEF Rank
<1>4. Block(s) /\ ToSet(s) = {s[i] : i \in 1 .. n}
  <2>1. n \in Nat
    OBVIOUS
  <2>2. /\ \A i, j \in 1 .. n : Rank(s[i]) = Rank(s[j])
        /\ \A i, j \in 1 .. n : Same(s[i], s[j]) => i = j
    BY <1>2, <1>3 DEF Same, Tested
  <2> HIDE DEF n
  <2>3. QED
    BY <2>1, <2>2, <1>1, BlockOf
<1>5. QED
  BY <1>2, <1>4 DEF s

(* A start of a program, after the memory m is there.                       *)
Resumption == Touch({node(n[1]) : n \in ToSet(Program.init.nodes)}, FALSE)
GraphMade == FIFOSteps(Program.init) \cup NodeSteps(Program.init)
GraphUsed == EventSteps(Program.init) \cup InitSteps(Program.init) \cup {Resumption}

LEMMA ResumptionComes ==
  ASSUME use \in Uses
  PROVE  /\ Resumption.do = "touch" /\ Rank(Resumption) = 4
         /\ Resumption.over = {node(n[1]) : n \in ToSet(Program.init.nodes)}
<1>1. /\ Resumption.do = "touch"
      /\ Resumption.over = {node(n[1]) : n \in ToSet(Program.init.nodes)}
  BY DEF Resumption, Touch
<1>2. Program.init.nodes \in Seq(ToSet(Program.init.nodes)) /\ Len(Program.init.nodes) > 0
  BY UseIsOfProgram DEF IsProgram
<1>3. Program.init.nodes[1] \in ToSet(Program.init.nodes)
  <2>1. /\ Len(Program.init.nodes) \in Nat
        /\ DOMAIN Program.init.nodes = 1 .. Len(Program.init.nodes)
    BY <1>2, LenProperties
  <2>2. 1 \in DOMAIN Program.init.nodes
    BY <2>1, <1>2
  <2>3. QED
    BY <2>2 DEF ToSet
<1>4. Resumption.over # {}
  BY <1>1, <1>3
<1>5. QED
  BY <1>1, <1>4 DEF Rank

LEMMA GraphIsBuilt ==
  ASSUME use \in Uses
  PROVE  LET s == init_scheduler(Program.init)
         IN  /\ Within(s, 2, 4) /\ Within(s \o Resumed, 2, 4)
             /\ GraphMade \subseteq ToSet(s) /\ ToSet(s) \subseteq ToSet(s \o Resumed)
             /\ ToSet(s \o Resumed) \subseteq GraphMade \cup GraphUsed
<1> DEFINE s == init_scheduler(Program.init)
           c2 == 2  c4 == 4
<1>1. /\ Within(s, c2, c4) /\ GraphMade \subseteq ToSet(s)
      /\ ToSet(s) \subseteq GraphMade \cup GraphUsed
  BY UseIsOfProgram, SchedulerIsMade DEF GraphMade, GraphUsed
<1>2. Resumed = <<Resumption>>
  BY DEF Resumed, Resumption
<1>3. Within(Resumed, c4, c4) /\ ToSet(Resumed) = {Resumption}
  BY <1>2, OneStepBlock, ResumptionComes DEF Within
<1>4. c2 \in Nat /\ c4 \in Nat /\ c2 <= c4 /\ c4 <= c4
  OBVIOUS
<1>5. \A x \in ToSet(Resumed) : x.do = "touch"
  BY <1>3, ResumptionComes
<1> HIDE DEF c2, c4, s
<1>6. Within(s \o Resumed, c2, c4) /\ ToSet(s \o Resumed) = ToSet(s) \cup ToSet(Resumed)
  BY <1>1, <1>3, <1>4, <1>5, RanksFollow
<1>7. ToSet(s \o Resumed) \subseteq GraphMade \cup GraphUsed
  BY <1>1, <1>3, <1>6 DEF GraphUsed
<1>8. QED
  BY <1>1, <1>6, <1>7 DEF s, c2, c4

Launches == {Launch("event"), Launch("stream")}

LEMMA TwoStepsBlock ==
  ASSUME NEW e, NEW s, ~Before(s, e), ~Same(e, s)
  PROVE  Block(<<e, s>>) /\ ToSet(<<e, s>>) = {e, s}
<1> DEFINE t == <<e, s>>
<1>1. /\ DOMAIN t = 1 .. 2 /\ t[1] = e /\ t[2] = s /\ t \in Seq({e, s})
  OBVIOUS
<1> HIDE DEF t
<1>2. ToSet(t) = {e, s}
  BY <1>1 DEF ToSet
<1>3. Ordered(t)
  BY <1>1, RankIsNumber DEF Ordered, Before
<1>4. Once(t)
  BY <1>1 DEF Once, Same, Tested
<1>5. QED
  BY <1>1, <1>2, <1>3, <1>4 DEF Block, t

LEMMA LaunchesCome ==
  /\ Block(<<Launch("event"), Launch("stream")>>)
  /\ ToSet(<<Launch("event"), Launch("stream")>>) = Launches
  /\ Launch("event").do = "launch" /\ Launch("event").what = "event"
  /\ Launch("stream").do = "launch" /\ Launch("stream").what = "stream"
  /\ Rank(Launch("event")) = 1 /\ Rank(Launch("stream")) = 5
<1>1. /\ Launch("event").do = "launch" /\ Launch("event").what = "event"
      /\ Launch("stream").do = "launch" /\ Launch("stream").what = "stream"
  BY DEF Launch
<1>2. Rank(Launch("event")) = 1 /\ Rank(Launch("stream")) = 5
  BY <1>1 DEF Rank
<1>3. DEFINE e == Launch("event")
             s == Launch("stream")
<1> HIDE DEF e, s
<1>6. Rank(e) = 1 /\ Rank(s) = 5 /\ e.what = "event" /\ s.what = "stream"
  BY <1>1, <1>2 DEF e, s
<1>7. ~Before(s, e) /\ ~Same(e, s)
  BY <1>6 DEF Before, Same
<1>9. Block(<<e, s>>) /\ ToSet(<<e, s>>) = {e, s}
  BY <1>7, TwoStepsBlock
<1>10. QED
  BY <1>1, <1>2, <1>9 DEF e, s, Launches

LEMMA LaunchesFollow ==
  ASSUME NEW s, Within(s, 0, 4), \A x \in ToSet(s) : x.do # "launch"
  PROVE  LET t == s \o <<Launch("event"), Launch("stream")>>
         IN  Block(t) /\ ToSet(t) = ToSet(s) \cup Launches
<1> DEFINE l == <<Launch("event"), Launch("stream")>>
<1>1. Block(s) /\ Block(l) /\ ToSet(l) = Launches
  BY LaunchesCome DEF Within
<1>2. ASSUME NEW x \in ToSet(s), NEW y \in Launches PROVE ~Before(y, x) /\ ~Same(x, y)
  <2>1. y.do = "launch"
    BY LaunchesCome DEF Launches
  <2>2. QED
    BY <2>1 DEF Before, Same
<1> HIDE DEF l
<1>3. Block(s \o l) /\ ToSet(s \o l) = ToSet(s) \cup ToSet(l)
  BY <1>1, <1>2, BlocksFollow
<1>4. QED
  BY <1>1, <1>3 DEF l

(* What the steps of a graph are.                                           *)
LEMMA GraphSteps ==
  ASSUME use \in Uses
  PROVE  /\ \A x \in GraphMade : x.do = "new"
         /\ \A x \in GraphUsed : x.do = "touch" /\ Rank(x) = 4
<1> DEFINE q == Program.init
<1>1. ASSUME NEW x \in FIFOSteps(q) PROVE x.do = "new"
  <2>1. PICK k \in 0 .. q.fifos - 1 : x = New(fifo(k), TRUE, {})
    BY DEF FIFOSteps
  <2>2. QED
    BY <2>1 DEF New
<1>2. ASSUME NEW x \in NodeSteps(q) PROVE x.do = "new"
  <2>1. PICK n \in ToSet(q.nodes) : x = New(node(n[1]), TRUE, {fifo(k) : k \in n[2]})
    BY DEF NodeSteps
  <2>2. QED
    BY <2>1 DEF New
<1>3. \A x \in EventSteps(q) : x.do = "touch" /\ x.over # {}
  BY DEF EventSteps, Touch
<1>4. \A x \in InitSteps(q) : x.do = "touch" /\ x.over # {}
  BY DEF InitSteps, Touch
<1>5. \A x : x.do = "touch" /\ x.over # {} => Rank(x) = 4
  BY DEF Rank
<1>6. QED
  BY <1>1, <1>2, <1>3, <1>4, <1>5, ResumptionComes DEF GraphMade, GraphUsed

LEMMA HelloIsStarted ==
  ASSUME use \in Uses, NEW m, Within(m, 0, 0),
         \A x \in ToSet(m) : x.do \in {"new", "touch"},
         \A x \in ToSet(m) : x.do = "new" => x.what[1] # "queue"
  PROVE  LET s == m \o Queues \o init_scheduler(Program.init) \o Resumed
                    \o <<Launch("event"), Launch("stream")>>
         IN  /\ Block(s)
             /\ ToSet(m) \cup ToSet(Queues) \cup GraphMade \cup Launches \subseteq ToSet(s)
             /\ ToSet(s) \subseteq ToSet(m) \cup ToSet(Queues) \cup GraphMade
                                     \cup GraphUsed \cup Launches
<1> DEFINE i == init_scheduler(Program.init)
           c0 == 0  c2 == 2  c4 == 4
           s1 == m \o Queues
           s2 == s1 \o i
           s3 == s2 \o Resumed
<1>1. /\ Within(i, c2, c4) /\ GraphMade \subseteq ToSet(i)
      /\ ToSet(i) \subseteq GraphMade \cup GraphUsed
  BY GraphIsBuilt
<1>2. Within(Queues, c0, c0) /\ Within(m, c0, c0)
  BY QueuesAreMade
<1>3. ASSUME NEW x \in ToSet(Queues) PROVE x.do = "new" /\ x.what[1] = "queue"
  <2>1. PICK k \in 0 .. use.queues - 1 : x = stream_new_event_queue(k)
    BY QueuesAreMade
  <2>2. x.do = "new" /\ x.what = queue(k)
    BY <2>1, QueueIsMade
  <2>3. QED
    BY <2>2, NamesDiffer
<1>4. Within(s1, c0, c0) /\ ToSet(s1) = ToSet(m) \cup ToSet(Queues)
  <2>1. Block(m) /\ Block(Queues)
    BY <1>2 DEF Within
  <2>2. ASSUME NEW x \in ToSet(m), NEW y \in ToSet(Queues)
        PROVE  ~Before(y, x) /\ ~Same(x, y)
    <3>1. Rank(x) = 0 /\ Rank(y) = 0
      BY <1>2 DEF Within
    <3>2. y.do = "new" /\ y.what[1] = "queue"
      BY <1>3
    <3>3. QED
      BY <3>1, <3>2 DEF Before, Same
  <2>3. Block(s1) /\ ToSet(s1) = ToSet(m) \cup ToSet(Queues)
    BY <2>1, <2>2, BlocksFollow
  <2> HIDE DEF s1
  <2>4. QED
    BY <2>3, <1>2 DEF Within
<1>5. c0 \in Nat /\ c2 \in Nat /\ c4 \in Nat /\ c0 < c2 /\ c0 <= c4 /\ c2 <= c4 /\ c4 <= c4
  OBVIOUS
<1>6. Within(Resumed, c4, c4) /\ ToSet(Resumed) = {Resumption} /\ Resumption.do = "touch"
  <2>1. Resumed = <<Resumption>>
    BY DEF Resumed, Resumption
  <2>2. Block(Resumed) /\ ToSet(Resumed) = {Resumption}
    BY <2>1, OneStepBlock
  <2>3. QED
    BY <2>2, ResumptionComes DEF Within
<1>7. /\ \A x \in GraphMade : x.do = "new"
      /\ \A x \in GraphUsed : x.do = "touch"
  BY GraphSteps
<1>8. Resumption \in GraphUsed
  BY DEF GraphUsed
<1> HIDE DEF c0, c2, c4, i, s1
<1>9. Within(s2, c0, c4) /\ ToSet(s2) = ToSet(s1) \cup ToSet(i)
  BY <1>1, <1>4, <1>5, RanksFollow
<1> HIDE DEF s2
<1>10. Within(s3, c0, c4) /\ ToSet(s3) = ToSet(s2) \cup ToSet(Resumed)
  BY <1>5, <1>6, <1>9, RanksFollow
<1> HIDE DEF s3
<1>11. \A x \in ToSet(s3) : x.do # "launch"
  BY <1>1, <1>3, <1>4, <1>6, <1>7, <1>9, <1>10
<1>12. Within(s3, 0, 4)
  BY <1>10 DEF c0, c4
<1> DEFINE s == s3 \o <<Launch("event"), Launch("stream")>>
<1>13. Block(s) /\ ToSet(s) = ToSet(s3) \cup Launches
  BY <1>11, <1>12, LaunchesFollow
<1> HIDE DEF s
<1>14. /\ ToSet(m) \cup ToSet(Queues) \cup GraphMade \cup Launches \subseteq ToSet(s)
       /\ ToSet(s) \subseteq ToSet(m) \cup ToSet(Queues) \cup GraphMade
                               \cup GraphUsed \cup Launches
  BY <1>1, <1>4, <1>6, <1>8, <1>9, <1>10, <1>13
<1>15. QED
  BY <1>13, <1>14 DEF s, s3, s2, s1, i

(* What a start consists of.                                                *)
MemorySteps ==
  IF use.program = "CMSIS" THEN {Timer} \cup ToSet(CMSISInitMemory)
  ELSE IF use.program = "Zephyr" THEN ToSet(ZephyrInitMemory) ELSE {}
QueueSteps ==
  IF use.program = "Events" THEN {New(queue(0), FALSE, {})}
  ELSE IF use.program \in {"posix", "CMSIS", "Zephyr"} THEN ToSet(Queues) ELSE {}
LaunchSteps ==
  IF use.program \in {"posix", "CMSIS", "Zephyr", "Events"} THEN Launches ELSE {}

LEMMA EventsAreStarted ==
  ASSUME use \in Uses
  PROVE  /\ Block(EventsStart)
         /\ {New(queue(0), FALSE, {})} \cup GraphMade \cup Launches \subseteq ToSet(EventsStart)
         /\ ToSet(EventsStart) \subseteq {New(queue(0), FALSE, {})} \cup GraphMade
                                           \cup GraphUsed \cup Launches
<1> DEFINE q == New(queue(0), FALSE, {})
           e == Launch("event")
           l == Launch("stream")
           i == init_scheduler(Program.init)
           s1 == <<q, e>> \o i
           s2 == s1 \o <<l>>
<1>1. q.do = "new" /\ q.what = queue(0)
  BY DEF New
<1>2. Rank(q) = 0
  BY <1>1, NamesDiffer DEF Rank
<1>3. Rank(e) = 1 /\ Rank(l) = 5 /\ e.do = "launch" /\ l.do = "launch"
      /\ e.what = "event" /\ l.what = "stream" /\ Launches = {e, l}
  BY LaunchesCome DEF Launches
<1>4. /\ Within(i, 2, 4) /\ GraphMade \subseteq ToSet(i)
      /\ ToSet(i) \subseteq GraphMade \cup GraphUsed
  BY GraphIsBuilt
<1>5. \A x \in ToSet(i) : x.do \in {"new", "touch"}
  BY <1>4, GraphSteps
<1>6. EventsStart = s2
  BY DEF EventsStart
<1> HIDE DEF q, e, l, i
<1>7. Block(<<q, e>>) /\ ToSet(<<q, e>>) = {q, e}
  <2>1. ~Before(e, q) /\ ~Same(q, e)
    BY <1>1, <1>2, <1>3 DEF Before, Same
  <2>2. QED
    BY <2>1, TwoStepsBlock
<1>8. ASSUME NEW x \in {q, e}, NEW y \in ToSet(i) PROVE ~Before(y, x) /\ ~Same(x, y)
  <2>1. Rank(y) \in 2 .. 4 /\ y.do \in {"new", "touch"}
    BY <1>4, <1>5 DEF Within
  <2>2. Rank(x) \in {0, 1}
    BY <1>2, <1>3
  <2>3. Rank(x) < Rank(y)
    BY <2>1, <2>2
  <2>4. QED
    BY <2>1, <2>2, <2>3, SameRank DEF Before
<1>9. Block(s1) /\ ToSet(s1) = {q, e} \cup ToSet(i)
  <2>1. Block(i)
    BY <1>4 DEF Within
  <2>2. QED
    BY <1>7, <1>8, <2>1, BlocksFollow
<1>10. Block(<<l>>) /\ ToSet(<<l>>) = {l}
  BY OneStepBlock
<1>11. ASSUME NEW x \in ToSet(s1), NEW y \in {l} PROVE ~Before(y, x) /\ ~Same(x, y)
  <2>1. Rank(x) \in 0 .. 4
    <3>1. CASE x \in {q, e}
      BY <3>1, <1>2, <1>3
    <3>2. CASE x \in ToSet(i)
      <4>1. Rank(x) \in 2 .. 4
        BY <3>2, <1>4 DEF Within
      <4>2. QED
        BY <4>1
    <3>3. QED
      BY <3>1, <3>2, <1>9
  <2>2. QED
    BY <2>1, <1>3, SameRank DEF Before
<1> HIDE DEF s1
<1>12. Block(s2) /\ ToSet(s2) = ToSet(s1) \cup {l}
  BY <1>9, <1>10, <1>11, BlocksFollow
<1>13. QED
  BY <1>3, <1>4, <1>6, <1>9, <1>12 DEF q

LEMMA MemoryIsMade ==
  ASSUME use \in Uses
  PROVE  /\ Within(PosixInitMemory, 0, 0) /\ ToSet(PosixInitMemory) = {}
         /\ Within(ZephyrInitMemory, 0, 0)
         /\ Within(<<Timer>> \o CMSISInitMemory, 0, 0)
         /\ ToSet(<<Timer>> \o CMSISInitMemory) = {Timer} \cup ToSet(CMSISInitMemory)
<1>1. Within(PosixInitMemory, 0, 0) /\ ToSet(PosixInitMemory) = {}
  BY EmptyBlock DEF PosixInitMemory, Within
<1>2. Within(ZephyrInitMemory, 0, 0)
  <2>1. \A x \in ToSet(ZephyrInitMemory) : Rank(x) = 0
    BY ZephyrMemoryIsThere DEF Rank
  <2>2. QED
    BY <2>1, ZephyrMemoryIsThere DEF Within
<1>3. Timer.do = "new" /\ Timer.what = <<"timer", 0>>
  BY DEF Timer, New
<1>4. Rank(Timer) = 0
  BY <1>3 DEF Rank
<1>5. ASSUME NEW x \in ToSet(CMSISInitMemory)
      PROVE  x.do = "new" /\ x.what[1] \in {"flags", "pool"} /\ Rank(x) = 0
  <2>1. x.do = "new" /\ x.what \in CMSISObjects
    BY CMSISMemoryIsMade
  <2>2. x.what[1] \in {"flags", "pool"}
    BY <2>1 DEF CMSISObjects, Pools
  <2>3. QED
    BY <2>1, <2>2 DEF Rank
<1>6. ASSUME NEW x \in {Timer}, NEW y \in ToSet(CMSISInitMemory)
      PROVE  ~Before(y, x) /\ ~Same(x, y)
  <2>1. x.what[1] = "timer"
    BY <1>3
  <2>2. QED
    BY <2>1, <1>4, <1>5 DEF Before, Same
<1>7. Block(<<Timer>>) /\ ToSet(<<Timer>>) = {Timer} /\ Block(CMSISInitMemory)
  BY OneStepBlock, CMSISMemoryIsMade
<1>8. /\ Block(<<Timer>> \o CMSISInitMemory)
      /\ ToSet(<<Timer>> \o CMSISInitMemory) = {Timer} \cup ToSet(CMSISInitMemory)
  BY <1>6, <1>7, BlocksFollow
<1>9. Within(<<Timer>> \o CMSISInitMemory, 0, 0)
  BY <1>4, <1>5, <1>8 DEF Within
<1>10. QED
  BY <1>1, <1>2, <1>8, <1>9

LEMMA MemoryIsNoQueue ==
  /\ \A x \in ToSet(ZephyrInitMemory) \cup {Timer} \cup ToSet(CMSISInitMemory) :
       /\ x.do \in {"new", "touch"}
       /\ x.do = "new" => x.what[1] # "queue"
<1>1. \A x \in ToSet(ZephyrInitMemory) : x.do = "touch"
  BY ZephyrMemoryIsThere
<1>2. Timer.do = "new" /\ Timer.what = <<"timer", 0>>
  BY DEF Timer, New
<1>3. Timer.what[1] = "timer"
  BY <1>2
<1>4. \A x \in CMSISObjects : x[1] \in {"flags", "pool"}
  BY DEF CMSISObjects, Pools
<1>5. QED
  BY <1>1, <1>2, <1>3, <1>4, CMSISMemoryIsMade

LEMMA StartSteps ==
  ASSUME use \in Uses
  PROVE  /\ Block(stream_configure_and_start)
         /\ MemorySteps \cup QueueSteps \cup GraphMade \cup LaunchSteps
              \subseteq ToSet(stream_configure_and_start)
         /\ ToSet(stream_configure_and_start)
              \subseteq MemorySteps \cup QueueSteps \cup GraphMade \cup GraphUsed
                          \cup LaunchSteps
<1>0. /\ use.program \in {"Example10", "Callback", "Events", "posix", "CMSIS", "Zephyr"}
      /\ use.program \in {"posix", "CMSIS", "Zephyr"} => use.platform = use.program
  BY UsesAssumption DEF Programs
<1>1. CASE use.program = "posix"
  <2>1. /\ stream_configure_and_start = PosixStart
        /\ stream_init_memory = PosixInitMemory
    BY <1>0, <1>1 DEF stream_configure_and_start, stream_init_memory
  <2>2. MemorySteps = {} /\ QueueSteps = ToSet(Queues) /\ LaunchSteps = Launches
    BY <1>1 DEF MemorySteps, QueueSteps, LaunchSteps
  <2>3. PosixStart = PosixInitMemory \o Queues \o init_scheduler(Program.init) \o Resumed
                       \o <<Launch("event"), Launch("stream")>>
    BY <2>1 DEF PosixStart
  <2>4. /\ Block(PosixStart)
        /\ ToSet(Queues) \cup GraphMade \cup Launches \subseteq ToSet(PosixStart)
        /\ ToSet(PosixStart) \subseteq ToSet(Queues) \cup GraphMade \cup GraphUsed \cup Launches
    BY <2>3, MemoryIsMade, HelloIsStarted
  <2>5. QED
    BY <2>1, <2>2, <2>4
<1>2. CASE use.program = "CMSIS"
  <2> DEFINE m == <<Timer>> \o CMSISInitMemory
  <2>1. /\ stream_configure_and_start = CMSISStart
        /\ stream_init_memory = CMSISInitMemory
    BY <1>0, <1>2 DEF stream_configure_and_start, stream_init_memory
  <2>2. /\ MemorySteps = {Timer} \cup ToSet(CMSISInitMemory)
        /\ QueueSteps = ToSet(Queues) /\ LaunchSteps = Launches
    BY <1>2 DEF MemorySteps, QueueSteps, LaunchSteps
  <2>3. CMSISStart = m \o Queues \o init_scheduler(Program.init) \o Resumed
                       \o <<Launch("event"), Launch("stream")>>
    BY <2>1 DEF CMSISStart, Timer
  <2>4. Within(m, 0, 0) /\ ToSet(m) = {Timer} \cup ToSet(CMSISInitMemory)
    BY MemoryIsMade
  <2>5. \A x \in ToSet(m) :
          x.do \in {"new", "touch"} /\ (x.do = "new" => x.what[1] # "queue")
    BY <2>4, MemoryIsNoQueue
  <2> HIDE DEF m
  <2>6. /\ Block(CMSISStart)
        /\ ToSet(m) \cup ToSet(Queues) \cup GraphMade \cup Launches \subseteq ToSet(CMSISStart)
        /\ ToSet(CMSISStart) \subseteq ToSet(m) \cup ToSet(Queues) \cup GraphMade
                                         \cup GraphUsed \cup Launches
    BY <2>3, <2>4, <2>5, HelloIsStarted
  <2>7. QED
    BY <2>1, <2>2, <2>4, <2>6
<1>3. CASE use.program = "Zephyr"
  <2> DEFINE m == ZephyrInitMemory
  <2>1. /\ stream_configure_and_start = ZephyrStart
        /\ stream_init_memory = ZephyrInitMemory
    BY <1>0, <1>3 DEF stream_configure_and_start, stream_init_memory
  <2>2. /\ MemorySteps = ToSet(m)
        /\ QueueSteps = ToSet(Queues) /\ LaunchSteps = Launches
    BY <1>3 DEF MemorySteps, QueueSteps, LaunchSteps
  <2>3. ZephyrStart = m \o Queues \o init_scheduler(Program.init) \o Resumed
                       \o <<Launch("event"), Launch("stream")>>
    BY <2>1 DEF ZephyrStart
  <2>4. Within(m, 0, 0)
    BY MemoryIsMade
  <2>5. \A x \in ToSet(m) :
          x.do \in {"new", "touch"} /\ (x.do = "new" => x.what[1] # "queue")
    BY MemoryIsNoQueue
  <2> HIDE DEF m
  <2>6. /\ Block(ZephyrStart)
        /\ ToSet(m) \cup ToSet(Queues) \cup GraphMade \cup Launches \subseteq ToSet(ZephyrStart)
        /\ ToSet(ZephyrStart) \subseteq ToSet(m) \cup ToSet(Queues) \cup GraphMade
                                         \cup GraphUsed \cup Launches
    BY <2>3, <2>4, <2>5, HelloIsStarted
  <2>7. QED
    BY <2>1, <2>2, <2>6
<1>4. CASE use.program = "Events"
  <2>1. stream_configure_and_start = EventsStart
    BY <1>4 DEF stream_configure_and_start
  <2>2. /\ MemorySteps = {} /\ QueueSteps = {New(queue(0), FALSE, {})}
        /\ LaunchSteps = Launches
    BY <1>4 DEF MemorySteps, QueueSteps, LaunchSteps
  <2>3. QED
    BY <2>1, <2>2, EventsAreStarted
<1>5. CASE use.program \in {"Example10", "Callback"}
  <2>1. stream_configure_and_start = init_scheduler(Program.init) \o Resumed
    BY <1>5 DEF stream_configure_and_start
  <2>2. MemorySteps = {} /\ QueueSteps = {} /\ LaunchSteps = {}
    BY <1>5 DEF MemorySteps, QueueSteps, LaunchSteps
  <2>3. QED
    BY <2>1, <2>2, GraphIsBuilt DEF Within
<1>6. QED
  BY <1>0, <1>1, <1>2, <1>3, <1>4, <1>5

(***************************************************************************)
(* A release.                                                              *)
(***************************************************************************)
FIFODeletes == {Delete(fifo(k), FALSE) : k \in 0 .. Program.init.fifos - 1}
NodeDeletes == {Delete(node(n[1]), FALSE) : n \in ToSet(Program.init.nodes)}
QueueDeletes(cleared) == {Delete(queue(k), cleared) : k \in 0 .. use.queues - 1}

LEMMA DeleteStep ==
  ASSUME NEW x, NEW cleared
  PROVE  /\ Delete(x, cleared).do = "delete" /\ Delete(x, cleared).what = x
         /\ Delete(x, cleared).cleared = cleared
  BY DEF Delete

(* The deletions of what is numbered from 0 on, one after the other.         *)
LEMMA FIFOsAreDeleted ==
  ASSUME use \in Uses
  PROVE  LET s == Each(LAMBDA k : Delete(fifo(k), FALSE), Upto(Program.free.fifos)) IN
         Block(s) /\ ToSet(s) = FIFODeletes
<1> DEFINE s == Each(LAMBDA k : Delete(fifo(k), FALSE), Upto(Program.free.fifos))
           n == Program.init.fifos
<1>0. n \in Nat /\ Program.free.fifos = n
  BY UseIsOfProgram DEF IsProgram
<1>1. s = [k \in 1 .. n |-> Delete(fifo(k - 1), FALSE)]
  BY <1>0 DEF Each, Upto
<1>2. \A i \in 1 .. n : s[i] = Delete(fifo(i - 1), FALSE)
  BY <1>1
<1>3. s \in [1 .. n -> ToSet(s)]
  BY <1>1 DEF ToSet
<1> HIDE DEF s, n
<1>f. ASSUME NEW i \in 1 .. n
      PROVE  s[i].do = "delete" /\ s[i].what = fifo(i - 1) /\ fifo(i - 1)[1] = "fifo"
  <2>1. s[i] = Delete(fifo(i - 1), FALSE)
    BY <1>2
  <2>2. QED
    BY <2>1, NamesDiffer DEF Delete
<1>4. \A i \in 1 .. n : Rank(s[i]) = 1
  BY <1>f DEF Rank
<1>5. \A i, j \in 1 .. n : Same(s[i], s[j]) => i = j
  <2> SUFFICES ASSUME NEW i \in 1 .. n, NEW j \in 1 .. n, Same(s[i], s[j])
               PROVE  i = j
    OBVIOUS
  <2>1. fifo(i - 1) = fifo(j - 1)
    BY <1>f DEF Same
  <2>2. i - 1 = j - 1
    BY <2>1, NamesDiffer
  <2>3. QED
    BY <2>2
<1>6. Block(s) /\ ToSet(s) = {s[i] : i \in 1 .. n}
  <2>1. \A i, j \in 1 .. n : Rank(s[i]) = Rank(s[j])
    BY <1>4
  <2>2. QED
    BY <2>1, <1>0, <1>3, <1>5, BlockOf
<1>7. ToSet(s) = {Delete(fifo(k), FALSE) : k \in 0 .. n - 1}
  <2>1. ASSUME NEW i \in 1 .. n
        PROVE  s[i] \in {Delete(fifo(k), FALSE) : k \in 0 .. n - 1}
    <3>1. i - 1 \in 0 .. n - 1
      BY <1>0
    <3>2. QED
      BY <3>1, <1>2
  <2>2. ASSUME NEW k \in 0 .. n - 1 PROVE Delete(fifo(k), FALSE) \in ToSet(s)
    <3>1. k + 1 \in 1 .. n /\ (k + 1) - 1 = k
      BY <1>0
    <3>2. s[k + 1] = Delete(fifo(k), FALSE)
      BY <3>1, <1>2
    <3>3. QED
      BY <3>1, <3>2, <1>6
  <2>3. QED
    BY <2>1, <2>2, <1>6
<1>8. QED
  BY <1>6, <1>7 DEF s, n, FIFODeletes

LEMMA QueuesAreDeleted ==
  ASSUME use \in Uses, NEW cleared
  PROVE  Block(DeleteQueues(cleared)) /\ ToSet(DeleteQueues(cleared)) = QueueDeletes(cleared)
<1> DEFINE s == DeleteQueues(cleared)
           n == use.queues
<1>0. n \in Nat
  BY UsesAssumption
<1>1. s = [k \in 1 .. n |-> Delete(queue(k - 1), cleared)]
  BY <1>0 DEF DeleteQueues, Each, Upto
<1>2. \A i \in 1 .. n : s[i] = Delete(queue(i - 1), cleared)
  BY <1>1
<1>3. s \in [1 .. n -> ToSet(s)]
  BY <1>1 DEF ToSet
<1> HIDE DEF s, n
<1>f. ASSUME NEW i \in 1 .. n
      PROVE  s[i].do = "delete" /\ s[i].what = queue(i - 1) /\ queue(i - 1)[1] = "queue"
  <2>1. s[i] = Delete(queue(i - 1), cleared)
    BY <1>2
  <2>2. QED
    BY <2>1, NamesDiffer DEF Delete
<1>4. \A i \in 1 .. n : Rank(s[i]) = 1
  BY <1>f DEF Rank
<1>5. \A i, j \in 1 .. n : Same(s[i], s[j]) => i = j
  <2> SUFFICES ASSUME NEW i \in 1 .. n, NEW j \in 1 .. n, Same(s[i], s[j])
               PROVE  i = j
    OBVIOUS
  <2>1. queue(i - 1) = queue(j - 1)
    BY <1>f DEF Same
  <2>2. i - 1 = j - 1
    BY <2>1, NamesDiffer
  <2>3. QED
    BY <2>2
<1>6. Block(s) /\ ToSet(s) = {s[i] : i \in 1 .. n}
  <2>1. \A i, j \in 1 .. n : Rank(s[i]) = Rank(s[j])
    BY <1>4
  <2>2. QED
    BY <2>1, <1>0, <1>3, <1>5, BlockOf
<1>7. ToSet(s) = {Delete(queue(k), cleared) : k \in 0 .. n - 1}
  <2>1. ASSUME NEW i \in 1 .. n
        PROVE  s[i] \in {Delete(queue(k), cleared) : k \in 0 .. n - 1}
    <3>1. i - 1 \in 0 .. n - 1
      BY <1>0
    <3>2. QED
      BY <3>1, <1>2
  <2>2. ASSUME NEW k \in 0 .. n - 1 PROVE Delete(queue(k), cleared) \in ToSet(s)
    <3>1. k + 1 \in 1 .. n /\ (k + 1) - 1 = k
      BY <1>0
    <3>2. s[k + 1] = Delete(queue(k), cleared)
      BY <3>1, <1>2
    <3>3. QED
      BY <3>1, <3>2, <1>6
  <2>3. QED
    BY <2>1, <2>2, <1>6
<1>8. QED
  BY <1>6, <1>7 DEF s, n, QueueDeletes

LEMMA NodesAreDeleted ==
  ASSUME use \in Uses
  PROVE  LET s == Each(LAMBDA n : Delete(node(n), FALSE), Program.free.nodes) IN
         Block(s) /\ ToSet(s) = NodeDeletes
<1> DEFINE s == Each(LAMBDA n : Delete(node(n), FALSE), Program.free.nodes)
           w == Program.free.nodes
           n0 == Len(w)
           names == {n[1] : n \in ToSet(Program.init.nodes)}
<1>a. /\ w \in Seq(ToSet(w)) /\ ToSet(w) = names
      /\ \A i, j \in DOMAIN w : w[i] = w[j] => i = j
  BY UseIsOfProgram DEF IsProgram
<1>0. n0 \in Nat /\ DOMAIN w = 1 .. n0
  BY <1>a, LenProperties
<1>1. s = [k \in 1 .. n0 |-> Delete(node(w[k]), FALSE)]
  BY <1>0 DEF Each
<1>2. \A i \in 1 .. n0 : s[i] = Delete(node(w[i]), FALSE)
  BY <1>1
<1>3. s \in [1 .. n0 -> ToSet(s)]
  BY <1>1 DEF ToSet
<1> HIDE DEF s, n0, w, names
<1>f. ASSUME NEW i \in 1 .. n0
      PROVE  s[i].do = "delete" /\ s[i].what = node(w[i]) /\ node(w[i])[1] = "node"
  <2>1. s[i] = Delete(node(w[i]), FALSE)
    BY <1>2
  <2>2. QED
    BY <2>1, NamesDiffer DEF Delete
<1>4. \A i \in 1 .. n0 : Rank(s[i]) = 1
  BY <1>f DEF Rank
<1>5. \A i, j \in 1 .. n0 : Same(s[i], s[j]) => i = j
  <2> SUFFICES ASSUME NEW i \in 1 .. n0, NEW j \in 1 .. n0, Same(s[i], s[j])
               PROVE  i = j
    OBVIOUS
  <2>1. node(w[i]) = node(w[j])
    BY <1>f DEF Same
  <2>2. w[i] = w[j]
    BY <2>1, NamesDiffer
  <2>3. QED
    BY <2>2, <1>a, <1>0
<1>6. Block(s) /\ ToSet(s) = {s[i] : i \in 1 .. n0}
  <2>1. \A i, j \in 1 .. n0 : Rank(s[i]) = Rank(s[j])
    BY <1>4
  <2>2. n0 \in Nat
    BY <1>0
  <2>3. QED
    BY <2>1, <2>2, <1>3, <1>5, BlockOf
<1>7. ToSet(s) = {Delete(node(x), FALSE) : x \in ToSet(w)}
  <2>1. ASSUME NEW i \in 1 .. n0 PROVE s[i] \in {Delete(node(x), FALSE) : x \in ToSet(w)}
    <3>1. w[i] \in ToSet(w)
      BY <1>0 DEF ToSet
    <3>2. QED
      BY <3>1, <1>2
  <2>2. ASSUME NEW x \in ToSet(w) PROVE Delete(node(x), FALSE) \in ToSet(s)
    <3>1. PICK i \in 1 .. n0 : x = w[i]
      BY <1>0 DEF ToSet
    <3>2. QED
      BY <3>1, <1>2, <1>6
  <2>3. QED
    BY <2>1, <2>2, <1>6
<1>8. ToSet(s) = NodeDeletes
  BY <1>a, <1>7 DEF names, NodeDeletes
<1>9. QED
  BY <1>6, <1>8 DEF s, w

Stops == {EndThreads, Join("event"), Join("stream")}

LEMMA StopSteps ==
  /\ \A x \in Stops : x.do \in {"end", "join"} /\ Rank(x) = 0
  /\ EndThreads.do = "end"
  /\ \A t : Join(t).do = "join" /\ Join(t).what = t
<1>1. EndThreads.do = "end" /\ \A t : Join(t).do = "join" /\ Join(t).what = t
  BY DEF EndThreads, Join
<1>2. \A x \in Stops : x.do \in {"end", "join"}
  BY <1>1 DEF Stops
<1>3. QED
  BY <1>1, <1>2 DEF Rank

LEMMA StopsAreBlock ==
  ASSUME NEW a \in Stops, NEW b \in Stops, NEW c \in Stops, Stops = {a, b, c}
  PROVE  Block(<<a, b, c>>) /\ ToSet(<<a, b, c>>) = Stops
<1> DEFINE s == <<a, b, c>>
<1>1. DOMAIN s = 1 .. 3 /\ s[1] = a /\ s[2] = b /\ s[3] = c /\ s \in Seq(Stops)
  OBVIOUS
<1> HIDE DEF s
<1>2. \A i \in 1 .. 3 : s[i].do \in {"end", "join"} /\ Rank(s[i]) = 0
  BY <1>1, StopSteps
<1>3. ToSet(s) = {a, b, c}
  BY <1>1 DEF ToSet
<1>4. Ordered(s)
  BY <1>1, <1>2 DEF Ordered, Before
<1>5. Once(s)
  BY <1>1, <1>2 DEF Once
<1>6. QED
  BY <1>1, <1>3, <1>4, <1>5 DEF Block, s

(* The threads are stopped, the graph and the queues are deleted.            *)
LEMMA GraphIsReleased ==
  ASSUME use \in Uses, NEW stops, Block(stops), NEW cleared,
         \A x \in ToSet(stops) : x.do \in {"end", "join"} /\ Rank(x) = 0
  PROVE  /\ LET s == stops \o free_scheduler(Program.free) \o DeleteQueues(cleared)
            IN  /\ Block(s) /\ \A x \in ToSet(s) : Rank(x) \in 0 .. 1
                /\ ToSet(s) = ToSet(stops) \cup FIFODeletes \cup NodeDeletes
                                \cup QueueDeletes(cleared)
         /\ Block(free_scheduler(Program.free))
         /\ ToSet(free_scheduler(Program.free)) = FIFODeletes \cup NodeDeletes
<1> DEFINE f == Each(LAMBDA k : Delete(fifo(k), FALSE), Upto(Program.free.fifos))
           d == Each(LAMBDA n : Delete(node(n), FALSE), Program.free.nodes)
           q == DeleteQueues(cleared)
           g == free_scheduler(Program.free)
           s1 == stops \o g
<1>1. g = f \o d
  BY DEF free_scheduler
<1>2. Block(f) /\ ToSet(f) = FIFODeletes
  BY FIFOsAreDeleted
<1>3. Block(d) /\ ToSet(d) = NodeDeletes
  BY NodesAreDeleted
<1>4. Block(q) /\ ToSet(q) = QueueDeletes(cleared)
  BY QueuesAreDeleted
<1> HIDE DEF f, d, q, g
<1>5. \A x \in FIFODeletes : x.do = "delete" /\ x.what[1] = "fifo"
  <2> SUFFICES ASSUME NEW k, NEW x, x = Delete(fifo(k), FALSE)
               PROVE  x.do = "delete" /\ x.what[1] = "fifo"
    BY DEF FIFODeletes
  <2>1. x.do = "delete" /\ x.what = fifo(k)
    BY DeleteStep
  <2>2. QED
    BY <2>1, NamesDiffer
<1>6. \A x \in NodeDeletes : x.do = "delete" /\ x.what[1] = "node"
  <2> SUFFICES ASSUME NEW n, NEW x, x = Delete(node(n[1]), FALSE)
               PROVE  x.do = "delete" /\ x.what[1] = "node"
    BY DEF NodeDeletes
  <2>1. x.do = "delete" /\ x.what = node(n[1])
    BY DeleteStep
  <2>2. QED
    BY <2>1, NamesDiffer
<1>7. \A x \in QueueDeletes(cleared) : x.do = "delete" /\ x.what[1] = "queue"
  <2> SUFFICES ASSUME NEW k, NEW x, x = Delete(queue(k), cleared)
               PROVE  x.do = "delete" /\ x.what[1] = "queue"
    BY DEF QueueDeletes
  <2>1. x.do = "delete" /\ x.what = queue(k)
    BY DeleteStep
  <2>2. QED
    BY <2>1, NamesDiffer
<1>8. \A x : x.do = "delete" /\ x.what[1] \in {"fifo", "node", "queue"} => Rank(x) = 1
  BY DEF Rank
<1>9. Block(g) /\ ToSet(g) = FIFODeletes \cup NodeDeletes
  <2>1. ASSUME NEW x \in ToSet(f), NEW y \in ToSet(d) PROVE ~Before(y, x) /\ ~Same(x, y)
    BY <1>2, <1>3, <1>5, <1>6, <1>8 DEF Before, Same
  <2>2. QED
    BY <2>1, <1>1, <1>2, <1>3, BlocksFollow
<1>10. Block(s1) /\ ToSet(s1) = ToSet(stops) \cup ToSet(g)
  <2>1. ASSUME NEW x \in ToSet(stops), NEW y \in ToSet(g) PROVE ~Before(y, x) /\ ~Same(x, y)
    BY <1>5, <1>6, <1>8, <1>9 DEF Before, Same
  <2>2. QED
    BY <2>1, <1>9, BlocksFollow
<1>11. \A x \in ToSet(s1) : Rank(x) \in 0 .. 1 /\ (x.do = "delete" => x.what[1] # "queue")
  BY <1>5, <1>6, <1>8, <1>9, <1>10
<1> HIDE DEF s1
<1>12. Block(s1 \o q) /\ ToSet(s1 \o q) = ToSet(s1) \cup ToSet(q)
  <2>1. ASSUME NEW x \in ToSet(s1), NEW y \in ToSet(q) PROVE ~Before(y, x) /\ ~Same(x, y)
    <3>1. Rank(y) = 1 /\ y.do = "delete" /\ y.what[1] = "queue"
      BY <1>4, <1>7, <1>8
    <3>2. Rank(x) \in 0 .. 1 /\ (x.do = "delete" => x.what[1] # "queue")
      BY <1>11
    <3>3. QED
      BY <3>1, <3>2 DEF Before, Same
  <2>2. QED
    BY <2>1, <1>4, <1>10, BlocksFollow
<1>13. \A x \in ToSet(s1 \o q) : Rank(x) \in 0 .. 1
  BY <1>4, <1>7, <1>8, <1>11, <1>12
<1>14. QED
  BY <1>4, <1>9, <1>10, <1>12, <1>13 DEF s1, q, g

LEMMA MemoryIsReleased ==
  /\ Block(CMSISFreeMemory) /\ Block(PosixFreeMemory) /\ Block(ZephyrFreeMemory)
  /\ ToSet(CMSISFreeMemory) = {Delete(x, FALSE) : x \in CMSISObjects}
  /\ ToSet(PosixFreeMemory) = {Delete(<<"pool", "event">>, FALSE)}
  /\ ToSet(ZephyrFreeMemory) = {}
  /\ \A x \in CMSISObjects : Rank(Delete(x, FALSE)) = 2
<1>1. Block(ZephyrFreeMemory) /\ ToSet(ZephyrFreeMemory) = {}
  BY EmptyBlock DEF ZephyrFreeMemory
<1>2. /\ Block(PosixFreeMemory)
      /\ ToSet(PosixFreeMemory) = {Delete(<<"pool", "event">>, FALSE)}
  BY OneStepBlock DEF PosixFreeMemory
<1>3. \A x \in CMSISObjects : x[1] \in {"flags", "pool"}
  BY DEF CMSISObjects, Pools
<1>4. \A x \in CMSISObjects : Rank(Delete(x, FALSE)) = 2
  <2> SUFFICES ASSUME NEW x \in CMSISObjects PROVE Rank(Delete(x, FALSE)) = 2
    OBVIOUS
  <2>1. Delete(x, FALSE).do = "delete" /\ Delete(x, FALSE).what = x
    BY DeleteStep
  <2>2. QED
    BY <2>1, <1>3 DEF Rank
<1> DEFINE s == CMSISFreeMemory
           n == 5
           w == << <<"pool", "event">>, <<"pool", "buf">>, <<"pool", "mutex">>,
                   <<"flags", "stream">>, <<"flags", "reply">> >>
           D(x) == Delete(x, FALSE)
<1>d. \A x : D(x).what = x
  BY DeleteStep
<1>r. \A x \in CMSISObjects : Rank(D(x)) = 2
  BY <1>4
<1>5. /\ w[1] = <<"pool", "event">> /\ w[2] = <<"pool", "buf">>
      /\ w[3] = <<"pool", "mutex">> /\ w[4] = <<"flags", "stream">>
      /\ w[5] = <<"flags", "reply">>
  OBVIOUS
<1>6. s \in [1 .. n -> ToSet(s)] /\ \A i \in 1 .. 5 : s[i] = D(w[i])
  <2>1. s[1] = D(w[1]) /\ s[2] = D(w[2])
        /\ s[3] = D(w[3]) /\ s[4] = D(w[4])
        /\ s[5] = D(w[5])
    BY DEF CMSISFreeMemory
  <2>2. s \in [1 .. n -> ToSet(s)]
    BY DEF CMSISFreeMemory, ToSet
  <2> HIDE DEF w, s, D
  <2>3. QED
    BY <2>1, <2>2
<1> HIDE DEF s, w, D
<1>7. \A i \in 1 .. 5 : w[i] \in CMSISObjects
  BY <1>5 DEF CMSISObjects, Pools
<1>8. \A x \in CMSISObjects : \E i \in 1 .. 5 : x = w[i]
  BY <1>5 DEF CMSISObjects, Pools
<1>9. \A i, j \in 1 .. 5 : w[i] = w[j] => i = j
  BY <1>5
<1>10. \A i \in 1 .. 5 : s[i].what = w[i] /\ Rank(s[i]) = 2
  <2> SUFFICES ASSUME NEW i \in 1 .. 5 PROVE s[i].what = w[i] /\ Rank(s[i]) = 2
    OBVIOUS
  <2>1. s[i] = D(w[i])
    BY <1>6
  <2>2. QED
    BY <2>1, <1>d, <1>r, <1>7
<1>11. Block(s) /\ ToSet(s) = {s[i] : i \in 1 .. n}
  <2>1. n \in Nat
    OBVIOUS
  <2>2. /\ \A i, j \in 1 .. n : Rank(s[i]) = Rank(s[j])
        /\ \A i, j \in 1 .. n : Same(s[i], s[j]) => i = j
    BY <1>9, <1>10 DEF Same
  <2> HIDE DEF n
  <2>3. QED
    BY <2>1, <2>2, <1>6, BlockOf
<1>12. ToSet(s) = {D(x) : x \in CMSISObjects}
  <2>1. ASSUME NEW x \in ToSet(s) PROVE x \in {D(y) : y \in CMSISObjects}
    BY <1>6, <1>7, <1>11
  <2>2. ASSUME NEW y \in CMSISObjects PROVE D(y) \in ToSet(s)
    BY <1>6, <1>8, <1>11
  <2>3. QED
    BY <2>1, <2>2
<1>13. QED
  BY <1>1, <1>2, <1>4, <1>11, <1>12 DEF s, D

(* What a release consists of.                                              *)
StopsOfUse ==
  IF use.program \in {"posix", "CMSIS", "Zephyr", "Events"} THEN Stops ELSE {}
QueuesReleased ==
  IF use.program \in {"posix", "Zephyr"} THEN QueueDeletes(TRUE)
  ELSE IF use.program \in {"CMSIS", "Events"} THEN QueueDeletes(FALSE) ELSE {}
MemoryReleased ==
  IF use.program = "CMSIS" THEN {Delete(x, FALSE) : x \in CMSISObjects}
  ELSE IF use.program = "posix" THEN {Delete(<<"pool", "event">>, FALSE)} ELSE {}

LEMMA FreeSteps ==
  ASSUME use \in Uses
  PROVE  /\ Block(stream_free_all)
         /\ ToSet(stream_free_all) = StopsOfUse \cup FIFODeletes \cup NodeDeletes
                                       \cup QueuesReleased \cup MemoryReleased
<1>0. /\ use.program \in {"Example10", "Callback", "Events", "posix", "CMSIS", "Zephyr"}
      /\ use.program \in {"posix", "CMSIS", "Zephyr"} => use.platform = use.program
  BY UsesAssumption DEF Programs
<1>1. /\ Block(stream_stop_threads) /\ ToSet(stream_stop_threads) = Stops
      /\ \A x \in Stops : x.do \in {"end", "join"} /\ Rank(x) = 0
  <2>1. Stops = {EndThreads, Join("event"), Join("stream")}
    BY DEF Stops
  <2>2. Block(<<EndThreads, Join("event"), Join("stream")>>)
        /\ ToSet(<<EndThreads, Join("event"), Join("stream")>>) = Stops
    BY <2>1, StopsAreBlock
  <2>3. QED
    BY <2>2, StopSteps DEF stream_stop_threads
<1>2. ASSUME NEW cleared, NEW m, Block(m), \A x \in ToSet(m) : Rank(x) = 2
      PROVE  LET s == stream_stop_threads \o free_scheduler(Program.free)
                        \o DeleteQueues(cleared) \o m
             IN  /\ Block(s)
                 /\ ToSet(s) = Stops \cup FIFODeletes \cup NodeDeletes
                                 \cup QueueDeletes(cleared) \cup ToSet(m)
  <2> DEFINE r == stream_stop_threads \o free_scheduler(Program.free) \o DeleteQueues(cleared)
  <2>1. /\ Block(r) /\ \A x \in ToSet(r) : Rank(x) \in 0 .. 1
        /\ ToSet(r) = Stops \cup FIFODeletes \cup NodeDeletes \cup QueueDeletes(cleared)
    BY <1>1, GraphIsReleased
  <2> HIDE DEF r
  <2>2. ASSUME NEW x \in ToSet(r), NEW y \in ToSet(m) PROVE ~Before(y, x) /\ ~Same(x, y)
    <3>1. Rank(x) \in 0 .. 1 /\ Rank(y) = 2
      BY <1>2, <2>1
    <3>2. QED
      BY <3>1, SameRank DEF Before
  <2>3. Block(r \o m) /\ ToSet(r \o m) = ToSet(r) \cup ToSet(m)
    BY <1>2, <2>1, <2>2, BlocksFollow
  <2>4. QED
    BY <2>1, <2>3 DEF r
<1>3. \A x \in ToSet(CMSISFreeMemory) \cup ToSet(PosixFreeMemory) : Rank(x) = 2
  <2>1. <<"pool", "event">> \in CMSISObjects
    BY DEF CMSISObjects, Pools
  <2>2. QED
    BY <2>1, MemoryIsReleased
<1>4. CASE use.program = "posix"
  <2>1. stream_free_all = stream_stop_threads \o free_scheduler(Program.free)
                            \o DeleteQueues(TRUE) \o PosixFreeMemory
    BY <1>0, <1>4 DEF stream_free_all, PosixFreeAll, stream_free_memory
  <2>2. /\ StopsOfUse = Stops /\ QueuesReleased = QueueDeletes(TRUE)
        /\ MemoryReleased = ToSet(PosixFreeMemory)
    BY <1>4, MemoryIsReleased DEF StopsOfUse, QueuesReleased, MemoryReleased
  <2>3. QED
    BY <2>1, <2>2, <1>2, <1>3, MemoryIsReleased
<1>5. CASE use.program = "CMSIS"
  <2>1. stream_free_all = stream_stop_threads \o free_scheduler(Program.free)
                            \o DeleteQueues(FALSE) \o CMSISFreeMemory
    BY <1>0, <1>5 DEF stream_free_all, CMSISFreeAll, stream_free_memory
  <2>2. /\ StopsOfUse = Stops /\ QueuesReleased = QueueDeletes(FALSE)
        /\ MemoryReleased = ToSet(CMSISFreeMemory)
    BY <1>5, MemoryIsReleased DEF StopsOfUse, QueuesReleased, MemoryReleased
  <2>3. QED
    BY <2>1, <2>2, <1>2, <1>3, MemoryIsReleased
<1>6. CASE use.program = "Zephyr"
  <2>1. stream_free_all = stream_stop_threads \o free_scheduler(Program.free)
                            \o DeleteQueues(TRUE) \o ZephyrFreeMemory
    BY <1>0, <1>6 DEF stream_free_all, ZephyrFreeAll, stream_free_memory
  <2>2. /\ StopsOfUse = Stops /\ QueuesReleased = QueueDeletes(TRUE)
        /\ MemoryReleased = ToSet(ZephyrFreeMemory)
    BY <1>6, MemoryIsReleased DEF StopsOfUse, QueuesReleased, MemoryReleased
  <2>3. \A x \in ToSet(ZephyrFreeMemory) : Rank(x) = 2
    BY MemoryIsReleased
  <2>4. QED
    BY <2>1, <2>2, <2>3, <1>2, MemoryIsReleased
<1>7. CASE use.program = "Events"
  <2> DEFINE stops == <<Join("stream"), EndThreads, Join("event")>>
  <2>1. stream_free_all = stops \o free_scheduler(Program.free) \o DeleteQueues(FALSE)
    BY <1>7 DEF stream_free_all, EventsFreeAll
  <2>2. /\ StopsOfUse = Stops /\ QueuesReleased = QueueDeletes(FALSE)
        /\ MemoryReleased = {}
    BY <1>7 DEF StopsOfUse, QueuesReleased, MemoryReleased
  <2>3. Block(stops) /\ ToSet(stops) = Stops
    <3>1. Stops = {Join("stream"), EndThreads, Join("event")}
      BY DEF Stops
    <3>2. QED
      BY <3>1, StopsAreBlock
  <2> HIDE DEF stops
  <2>4. QED
    BY <2>1, <2>2, <2>3, <1>1, GraphIsReleased
<1>8. CASE use.program \in {"Example10", "Callback"}
  <2>1. stream_free_all = free_scheduler(Program.free)
    BY <1>8 DEF stream_free_all
  <2>2. StopsOfUse = {} /\ QueuesReleased = {} /\ MemoryReleased = {}
    BY <1>8 DEF StopsOfUse, QueuesReleased, MemoryReleased
  <2>3. /\ Block(free_scheduler(Program.free))
        /\ ToSet(free_scheduler(Program.free)) = FIFODeletes \cup NodeDeletes
    BY <1>1, GraphIsReleased
  <2>4. QED
    BY <2>1, <2>2, <2>3
<1>9. QED
  BY <1>0, <1>4, <1>5, <1>6, <1>7, <1>8

(***************************************************************************)
(* What is made and deleted.                                                *)
(***************************************************************************)
Threaded == use.program \in {"posix", "CMSIS", "Zephyr", "Events"}

MakesMemory(n) ==
  /\ use.program = "CMSIS" /\ n.what \in {<<"timer", 0>>} \cup CMSISObjects
  /\ n.with = {} /\ n.over = {} /\ Rank(n) = 0
MakesQueue(n) ==
  /\ Threaded
  /\ \E k \in 0 .. use.queues - 1 :
       /\ n.what = queue(k) /\ Rings(k) \subseteq n.with
       /\ n.with \subseteq Rings(k) \cup {<<"queue flags", k>>}
  /\ n.over = {} /\ Rank(n) = 0
MakesFIFO(n) ==
  /\ \E k \in 0 .. Program.init.fifos - 1 : n.what = fifo(k)
  /\ n.with = {} /\ n.over = {} /\ Rank(n) = 2
MakesNode(n) ==
  /\ \E m \in ToSet(Program.init.nodes) :
       n.what = node(m[1]) /\ n.over = {fifo(k) : k \in m[2]}
  /\ n.with = {} /\ Rank(n) = 3

LEMMA QueueStepsMake ==
  ASSUME use \in Uses
  PROVE  /\ \A n \in QueueSteps : n.do = "new" /\ MakesQueue(n)
         /\ Threaded => \A k \in 0 .. use.queues - 1 :
              \E n \in QueueSteps : n.what = queue(k)
<1>1. CASE use.program = "Events"
  <2> DEFINE q == New(queue(0), FALSE, {})
  <2>1. QueueSteps = {q} /\ use.queues = 1 /\ Threaded
    BY <1>1, UsesAssumption DEF QueueSteps, Threaded
  <2>2. q.do = "new" /\ q.what = queue(0) /\ q.over = {} /\ q.with = Rings(0)
    BY NamesDiffer DEF New, Parts
  <2>3. Rank(q) = 0
    BY <2>2, NamesDiffer DEF Rank
  <2>4. 0 .. use.queues - 1 = {0}
    BY <2>1
  <2> HIDE DEF q
  <2>5. MakesQueue(q)
    BY <2>1, <2>2, <2>3, <2>4 DEF MakesQueue
  <2>6. QED
    BY <2>1, <2>2, <2>4, <2>5
<1>2. CASE use.program \in {"posix", "CMSIS", "Zephyr"}
  <2>1. QueueSteps = {stream_new_event_queue(k) : k \in 0 .. use.queues - 1} /\ Threaded
    BY <1>2, QueuesAreMade DEF QueueSteps, Threaded
  <2>2. ASSUME NEW k \in 0 .. use.queues - 1
        PROVE  /\ stream_new_event_queue(k).do = "new"
               /\ MakesQueue(stream_new_event_queue(k))
    <3> DEFINE n == stream_new_event_queue(k)
    <3>1. /\ n.do = "new" /\ n.what = queue(k) /\ n.over = {} /\ Rings(k) \subseteq n.with
          /\ n.with \subseteq Rings(k) \cup {<<"queue flags", k>>}
      BY QueueIsMade
    <3> HIDE DEF n
    <3>2. Rank(n) = 0
      BY <3>1, NamesDiffer DEF Rank
    <3>3. MakesQueue(n)
      BY <2>1, <3>1, <3>2 DEF MakesQueue
    <3>4. QED
      BY <3>1, <3>3 DEF n
  <2>3. QED
    BY <2>1, <2>2, QueueIsMade
<1>3. CASE ~Threaded
  BY <1>3 DEF Threaded, QueueSteps
<1>4. QED
  BY <1>1, <1>2, <1>3 DEF Threaded

LEMMA NewsKinds ==
  ASSUME use \in Uses, NEW n \in News
  PROVE  MakesMemory(n) \/ MakesQueue(n) \/ MakesFIFO(n) \/ MakesNode(n)
<1>0. n.do = "new" /\ n \in ToSet(stream_configure_and_start)
  BY DEF News
<1>1. n \in MemorySteps \cup QueueSteps \cup GraphMade \cup GraphUsed \cup LaunchSteps
  BY <1>0, StartSteps
<1>2. n \notin GraphUsed /\ n \notin LaunchSteps
  <2>1. \A x \in Launches : x.do = "launch"
    BY LaunchesCome DEF Launches
  <2>2. \A x \in GraphUsed : x.do = "touch"
    BY GraphSteps
  <2>3. QED
    BY <1>0, <2>1, <2>2 DEF LaunchSteps
<1>3. CASE n \in MemorySteps
  <2>1. CASE use.program = "CMSIS" /\ n = Timer
    <3>1. n.what = <<"timer", 0>> /\ n.with = Parts(<<"timer", 0>>) /\ n.over = {}
      BY <2>1 DEF Timer, New
    <3>2. Parts(<<"timer", 0>>) = {}
      BY DEF Parts
    <3>3. Rank(n) = 0
      BY <1>0, <3>1 DEF Rank
    <3>4. QED
      BY <2>1, <3>1, <3>2, <3>3 DEF MakesMemory
  <2>2. CASE use.program = "CMSIS" /\ n \in ToSet(CMSISInitMemory)
    <3>1. n.what \in CMSISObjects /\ n.with = {} /\ n.over = {}
      BY <2>2, CMSISMemoryIsMade
    <3>2. n.what[1] \in {"flags", "pool"}
      BY <3>1 DEF CMSISObjects, Pools
    <3>3. Rank(n) = 0
      BY <1>0, <3>2 DEF Rank
    <3>4. QED
      BY <2>2, <3>1, <3>3 DEF MakesMemory
  <2>3. CASE use.program = "Zephyr" /\ n \in ToSet(ZephyrInitMemory)
    BY <1>0, <2>3, ZephyrMemoryIsThere
  <2>4. QED
    BY <1>3, <2>1, <2>2, <2>3 DEF MemorySteps
<1>4. CASE n \in QueueSteps
  BY <1>4, QueueStepsMake
<1>5. CASE n \in FIFOSteps(Program.init)
  <2>1. PICK k \in 0 .. Program.init.fifos - 1 : n = New(fifo(k), TRUE, {})
    BY <1>5 DEF FIFOSteps
  <2>2. n.what = fifo(k) /\ n.over = {} /\ n.with = Parts(fifo(k))
    BY <2>1 DEF New
  <2>3. n.with = {} /\ Rank(n) = 2
    BY <1>0, <2>2, NamesDiffer DEF Parts, Rank
  <2>4. QED
    BY <2>2, <2>3 DEF MakesFIFO
<1>6. CASE n \in NodeSteps(Program.init)
  <2>1. PICK m \in ToSet(Program.init.nodes) :
          n = New(node(m[1]), TRUE, {fifo(k) : k \in m[2]})
    BY <1>6 DEF NodeSteps
  <2>2. n.what = node(m[1]) /\ n.over = {fifo(k) : k \in m[2]} /\ n.with = Parts(node(m[1]))
    BY <2>1 DEF New
  <2>3. n.with = {} /\ Rank(n) = 3
    BY <1>0, <2>2, NamesDiffer DEF Parts, Rank
  <2>4. QED
    BY <2>2, <2>3 DEF MakesNode
<1>7. QED
  BY <1>1, <1>2, <1>3, <1>4, <1>5, <1>6 DEF GraphMade

LEMMA NewsExist ==
  ASSUME use \in Uses
  PROVE  /\ \A k \in 0 .. Program.init.fifos - 1 : \E n \in News : n.what = fifo(k)
         /\ \A m \in ToSet(Program.init.nodes) : \E n \in News : n.what = node(m[1])
         /\ Threaded => \A k \in 0 .. use.queues - 1 : \E n \in News : n.what = queue(k)
         /\ use.program = "CMSIS" => \A x \in CMSISObjects : \E n \in News : n.what = x
<1>1. MemorySteps \cup QueueSteps \cup GraphMade \subseteq ToSet(stream_configure_and_start)
  BY StartSteps
<1>2. ASSUME NEW k \in 0 .. Program.init.fifos - 1 PROVE \E n \in News : n.what = fifo(k)
  <2> DEFINE n == New(fifo(k), TRUE, {})
  <2>1. n \in FIFOSteps(Program.init)
    BY DEF FIFOSteps
  <2>2. n.do = "new" /\ n.what = fifo(k)
    BY DEF New
  <2> HIDE DEF n
  <2>3. QED
    BY <1>1, <2>1, <2>2 DEF News, GraphMade
<1>3. ASSUME NEW m \in ToSet(Program.init.nodes) PROVE \E n \in News : n.what = node(m[1])
  <2> DEFINE n == New(node(m[1]), TRUE, {fifo(k) : k \in m[2]})
  <2>1. n \in NodeSteps(Program.init)
    BY DEF NodeSteps
  <2>2. n.do = "new" /\ n.what = node(m[1])
    BY DEF New
  <2> HIDE DEF n
  <2>3. QED
    BY <1>1, <2>1, <2>2 DEF News, GraphMade
<1>4. ASSUME Threaded, NEW k \in 0 .. use.queues - 1 PROVE \E n \in News : n.what = queue(k)
  BY <1>1, <1>4, QueueStepsMake DEF News
<1>5. ASSUME use.program = "CMSIS", NEW x \in CMSISObjects PROVE \E n \in News : n.what = x
  <2>1. PICK n \in ToSet(CMSISInitMemory) : n.what = x
    BY CMSISMemoryIsMade
  <2>2. n.do = "new" /\ n \in MemorySteps
    BY <1>5, CMSISMemoryIsMade DEF MemorySteps
  <2>3. QED
    BY <1>1, <2>1, <2>2 DEF News
<1>6. QED
  BY <1>2, <1>3, <1>4, <1>5

LEMMA DeletableAre ==
  ASSUME use \in Uses
  PROVE  /\ \A k \in 0 .. Program.init.fifos - 1 : fifo(k) \in Deletable
         /\ \A m \in ToSet(Program.init.nodes) : node(m[1]) \in Deletable
         /\ Threaded => \A k \in 0 .. use.queues - 1 : queue(k) \in Deletable
         /\ use.program = "CMSIS" => CMSISObjects \subseteq Deletable
<1> DEFINE F == ToSet(stream_free_all)
<1>1. F = StopsOfUse \cup FIFODeletes \cup NodeDeletes \cup QueuesReleased \cup MemoryReleased
  BY FreeSteps
<1> HIDE DEF F
<1>2. \A d \in F : d.do = "delete" => d.what \in Deletable
  BY DEF Deletable, F
<1>3. ASSUME NEW k \in 0 .. Program.init.fifos - 1 PROVE fifo(k) \in Deletable
  <2>1. Delete(fifo(k), FALSE) \in F
    BY <1>1 DEF FIFODeletes
  <2>2. QED
    BY <1>2, <2>1, DeleteStep
<1>4. ASSUME NEW m \in ToSet(Program.init.nodes) PROVE node(m[1]) \in Deletable
  <2>1. Delete(node(m[1]), FALSE) \in F
    BY <1>1 DEF NodeDeletes
  <2>2. QED
    BY <1>2, <2>1, DeleteStep
<1>5. ASSUME Threaded, NEW k \in 0 .. use.queues - 1 PROVE queue(k) \in Deletable
  <2>1. Delete(queue(k), TRUE) \in QueuesReleased \/ Delete(queue(k), FALSE) \in QueuesReleased
    BY <1>5 DEF Threaded, QueuesReleased, QueueDeletes
  <2>2. Delete(queue(k), TRUE) \in F \/ Delete(queue(k), FALSE) \in F
    BY <1>1, <2>1
  <2>3. QED
    BY <1>2, <2>2, DeleteStep
<1>6. ASSUME use.program = "CMSIS", NEW x \in CMSISObjects PROVE x \in Deletable
  <2>1. Delete(x, FALSE) \in F
    BY <1>1, <1>6 DEF MemoryReleased
  <2>2. QED
    BY <1>2, <2>1, DeleteStep
<1>7. QED
  BY <1>3, <1>4, <1>5, <1>6

(* The facts about a start that the steps of the application rest on.       *)
LEMMA NewsFacts ==
  ASSUME use \in Uses, NEW n \in News
  PROVE  /\ n.what[1] \notin {"ring", "queue flags"}
         /\ \A k : n.what = queue(k) => k \in Nat /\ Rings(k) \subseteq n.with
         /\ \A x \in n.with : /\ x[1] \in {"ring", "queue flags"} /\ n.what = queue(x[2])
                              /\ x[1] = "ring" => x \in Rings(x[2])
         /\ ~Forgets(n.what) => n.what \in Deletable
         /\ n.do = "new"
<1>0. n.do = "new"
  BY DEF News
<1>1. CASE MakesMemory(n)
  <2>1. use.program = "CMSIS" /\ n.what \in {<<"timer", 0>>} \cup CMSISObjects /\ n.with = {}
    BY <1>1 DEF MakesMemory
  <2>2. n.what[1] \in {"timer", "flags", "pool"}
    BY <2>1 DEF CMSISObjects, Pools
  <2>3. \A k : n.what # queue(k)
    BY <2>2, NamesDiffer
  <2>4. ~Forgets(n.what) => n.what \in CMSISObjects
    <3>1. Forgets(<<"timer", 0>>)
      BY DEF Forgets
    <3>2. QED
      BY <2>1, <3>1
  <2>5. QED
    BY <1>0, <2>1, <2>2, <2>3, <2>4, DeletableAre
<1>2. CASE MakesQueue(n)
  <2>1. PICK k \in 0 .. use.queues - 1 :
          /\ n.what = queue(k) /\ Rings(k) \subseteq n.with
          /\ n.with \subseteq Rings(k) \cup {<<"queue flags", k>>}
    BY <1>2 DEF MakesQueue
  <2>2. Threaded /\ use.queues \in Nat
    BY <1>2, UsesAssumption DEF MakesQueue
  <2>3. n.what[1] = "queue" /\ \A j : n.what = queue(j) => j = k
    <3>1. n.what[1] = "queue" /\ n.what[2] = k
      BY <2>1, NamesDiffer
    <3>2. ASSUME NEW j, n.what = queue(j) PROVE j = k
      BY <3>1, <3>2, NamesDiffer
    <3>3. QED
      BY <3>1, <3>2
  <2>4. ASSUME NEW x \in n.with
        PROVE  /\ x[1] \in {"ring", "queue flags"} /\ x[2] = k
               /\ x[1] = "ring" => x \in Rings(k)
    <3>1. CASE x \in Rings(k)
      <4>1. PICK p \in Levels : x = <<"ring", k, p>>
        BY <3>1 DEF Rings
      <4>2. QED
        BY <3>1, <4>1
    <3>2. CASE x = <<"queue flags", k>>
      BY <3>2
    <3>3. QED
      BY <2>1, <3>1, <3>2
  <2>5. n.what \in Deletable /\ k \in Nat
    <3>1. k \in Nat
      BY <2>2
    <3>2. QED
      BY <2>1, <2>2, <3>1, DeletableAre
  <2>6. QED
    BY <1>0, <2>1, <2>3, <2>4, <2>5
<1>3. CASE MakesFIFO(n)
  <2>1. PICK k \in 0 .. Program.init.fifos - 1 : n.what = fifo(k)
    BY <1>3 DEF MakesFIFO
  <2>2. n.what[1] = "fifo" /\ \A j : n.what # queue(j)
    BY <2>1, NamesDiffer
  <2>3. n.what \in Deletable /\ n.with = {}
    BY <1>3, <2>1, DeletableAre DEF MakesFIFO
  <2>4. QED
    BY <1>0, <2>2, <2>3
<1>4. CASE MakesNode(n)
  <2>1. PICK m \in ToSet(Program.init.nodes) : n.what = node(m[1])
    BY <1>4 DEF MakesNode
  <2>2. n.what[1] = "node" /\ \A j : n.what # queue(j)
    BY <2>1, NamesDiffer
  <2>3. n.what \in Deletable /\ n.with = {}
    BY <1>4, <2>1, DeletableAre DEF MakesNode
  <2>4. QED
    BY <1>0, <2>2, <2>3
<1>5. QED
  BY <1>1, <1>2, <1>3, <1>4, NewsKinds

LEMMA FIFOsAndNodesRank ==
  ASSUME use \in Uses, NEW n \in News
  PROVE  /\ \A k : n.what = fifo(k) => Rank(n) = 2
         /\ \A m : n.what = node(m) => Rank(n) = 3
         /\ \A k : n.what = queue(k) => Rank(n) = 0
         /\ n.what \in CMSISObjects => Rank(n) = 0
<1>1. n.do = "new"
  BY DEF News
<1>2. \A x \in CMSISObjects : x[1] \in {"flags", "pool"}
  BY DEF CMSISObjects, Pools
<1>3. QED
  BY <1>1, <1>2, NamesDiffer DEF Rank

(* What a step reads is made before it.                                      *)
LEMMA ReadsAreMade ==
  ASSUME use \in Uses, NEW s \in ToSet(stream_configure_and_start), NEW x \in s.over
  PROVE  \E n \in News : n.what = x /\ Before(n, s)
<1> DEFINE q == Program.init
<1>1. \A m : m.do = "new" => m.do # "launch"
  OBVIOUS
<1>2. ASSUME Rank(s) = 4, NEW m \in ToSet(q.nodes), x = node(m[1])
      PROVE  \E n \in News : n.what = x /\ Before(n, s)
  <2>1. PICK n \in News : n.what = node(m[1])
    BY NewsExist
  <2>2. n.do = "new" /\ Rank(n) = 3
    BY <2>1, NewsFacts, FIFOsAndNodesRank
  <2>3. Before(n, s)
    BY <1>2, <2>2 DEF Before
  <2>4. QED
    BY <1>2, <2>1, <2>3
<1>3. IsProgram(Program)
  BY UseIsOfProgram
<1>4. ASSUME s \in News PROVE \E n \in News : n.what = x /\ Before(n, s)
  <2>1. MakesNode(s)
    BY <1>4, NewsKinds DEF MakesMemory, MakesQueue, MakesFIFO
  <2>2. PICK m \in ToSet(q.nodes) : s.over = {fifo(k) : k \in m[2]}
    BY <2>1 DEF MakesNode
  <2>3. PICK k \in m[2] : x = fifo(k)
    BY <2>2
  <2>4. k \in 0 .. q.fifos - 1
    BY <1>3, <2>2, <2>3 DEF IsProgram
  <2>5. PICK n \in News : n.what = fifo(k)
    BY <2>4, NewsExist
  <2>6. n.do = "new" /\ Rank(n) = 2 /\ Rank(s) = 3
    BY <2>1, <2>5, NewsFacts, FIFOsAndNodesRank DEF MakesNode
  <2>7. QED
    BY <2>3, <2>5, <2>6 DEF Before
<1>5. CASE s \in EventSteps(q)
  <2>1. PICK e \in ToSet(q.subscribes) : s = Touch({node(e[1]), node(e[2])}, FALSE)
    BY <1>5 DEF EventSteps
  <2>2. s.over = {node(e[1]), node(e[2])}
    BY <2>1 DEF Touch
  <2>3. {e[1], e[2]} \subseteq {n[1] : n \in ToSet(q.nodes)}
    BY <1>3, <2>1 DEF IsProgram
  <2>4. PICK m \in ToSet(q.nodes) : x = node(m[1])
    BY <2>2, <2>3
  <2>5. Rank(s) = 4
    BY <1>5, GraphSteps DEF GraphUsed
  <2>6. QED
    BY <1>2, <2>4, <2>5
<1>6. CASE s \in InitSteps(q)
  <2>1. PICK m \in ToSet(q.nodes) : s = Touch({node(m[1])}, TRUE)
    BY <1>6 DEF InitSteps
  <2>2. s.over = {node(m[1])}
    BY <2>1 DEF Touch
  <2>3. Rank(s) = 4
    BY <1>6, GraphSteps DEF GraphUsed
  <2>4. QED
    BY <1>2, <2>2, <2>3
<1>7. CASE s = Resumption
  BY <1>2, <1>7, ResumptionComes
<1>8. CASE s \in LaunchSteps
  <2>1. s.over = {}
    BY <1>8 DEF LaunchSteps, Launches, Launch
  <2>2. QED
    BY <2>1
<1>9. CASE s \in MemorySteps /\ s.do = "touch"
  <2>1. s \in ToSet(ZephyrInitMemory)
    <3>1. Timer.do = "new"
      BY DEF Timer, New
    <3>2. QED
      BY <1>9, <3>1, CMSISMemoryIsMade DEF MemorySteps
  <2>2. s.over = {}
    BY <2>1, ZephyrMemoryIsThere
  <2>3. QED
    BY <2>2
<1>10. s \in MemorySteps \cup QueueSteps \cup GraphMade \cup GraphUsed \cup LaunchSteps
  BY StartSteps
<1>11. CASE s \in MemorySteps \cup QueueSteps \cup GraphMade
  <2>1. s.do \in {"new", "touch"} /\ (s \in QueueSteps \cup GraphMade => s.do = "new")
    BY <1>11, MemoryIsNoQueue, QueueStepsMake, GraphSteps DEF MemorySteps
  <2>2. s.do = "new" => s \in News
    BY DEF News
  <2>3. QED
    BY <1>4, <1>9, <1>11, <2>1, <2>2
<1>12. QED
  BY <1>5, <1>6, <1>7, <1>8, <1>10, <1>11 DEF GraphUsed

(* What a thread needs before it runs.                                      *)
LEMMA NeedsAreMade ==
  ASSUME use \in Uses, NEW s \in ToSet(stream_configure_and_start), s.do = "launch",
         NEW x \in BaseNeeds
  PROVE  \E n \in News : x \in {n.what} \cup n.with /\ Before(n, s)
<1>1. s \in Launches /\ Threaded
  <2>1. s \in MemorySteps \cup QueueSteps \cup GraphMade \cup GraphUsed \cup LaunchSteps
    BY StartSteps
  <2>2. s \in LaunchSteps
    BY <2>1, MemoryIsNoQueue, QueueStepsMake, GraphSteps DEF MemorySteps
  <2>3. QED
    BY <2>2 DEF LaunchSteps, Threaded
<1>2. Rank(s) \in {1, 5}
  BY <1>1, LaunchesCome DEF Launches
<1>3. ASSUME NEW n \in News, Rank(n) = 0 PROVE Before(n, s)
  <2>1. n.do = "new"
    BY NewsFacts
  <2>2. QED
    BY <1>2, <1>3, <2>1 DEF Before
<1>4. ASSUME NEW k \in 0 .. use.queues - 1, x \in {queue(k)} \cup Rings(k)
      PROVE  \E n \in News : x \in {n.what} \cup n.with /\ Before(n, s)
  <2>1. PICK n \in News : n.what = queue(k)
    BY <1>1, NewsExist
  <2>2. Rings(k) \subseteq n.with /\ Rank(n) = 0
    BY <2>1, NewsFacts, FIFOsAndNodesRank
  <2>3. QED
    BY <1>3, <1>4, <2>1, <2>2
<1>5. ASSUME use.program = "CMSIS", x \in Pools
      PROVE  \E n \in News : x \in {n.what} \cup n.with /\ Before(n, s)
  <2>1. x \in CMSISObjects
    BY <1>5 DEF CMSISObjects
  <2>2. PICK n \in News : n.what = x
    BY <1>5, <2>1, NewsExist
  <2>3. Rank(n) = 0
    BY <2>1, <2>2, FIFOsAndNodesRank
  <2>4. QED
    BY <1>3, <2>2, <2>3
<1>6. \/ \E k \in 0 .. use.queues - 1 : x \in {queue(k)} \cup Rings(k)
      \/ use.program = "CMSIS" /\ x \in Pools
  <2>1. x \in QueuesNeeded => \E k \in 0 .. use.queues - 1 : x = queue(k)
    BY DEF QueuesNeeded
  <2>2. x \in RingsNeeded => \E k \in 0 .. use.queues - 1 : x \in Rings(k)
    BY DEF RingsNeeded
  <2>3. x \in PoolsNeeded => use.program = "CMSIS" /\ x \in Pools
    BY DEF PoolsNeeded
  <2>4. QED
    BY <2>1, <2>2, <2>3 DEF BaseNeeds
<1>7. QED
  BY <1>4, <1>5, <1>6

LEMMA StartFacts ==
  ASSUME use \in Uses
  PROVE  /\ PartOf(stream_configure_and_start, stream_configure_and_start)
         /\ \A s \in ToSet(stream_configure_and_start) :
              /\ s.do \in {"new", "touch", "launch"}
              /\ s.do = "launch" => s = Launch(s.what) /\ s.what \in Threads
              /\ s # Launch("stream") => Before(s, Launch("stream"))
         /\ \A x \in Graph(Program) : \E n \in News : n.what = x
<1> DEFINE S == stream_configure_and_start
<1>1. Block(S) /\ ToSet(S) \subseteq MemorySteps \cup QueueSteps \cup GraphMade \cup GraphUsed
                                       \cup LaunchSteps
  BY StartSteps
<1>2. PartOf(S, S)
  BY <1>1 DEF PartOf, Block
<1>3. ASSUME NEW s \in ToSet(S)
      PROVE  /\ s.do \in {"new", "touch", "launch"}
             /\ s.do = "launch" => s = Launch(s.what) /\ s.what \in Threads
             /\ s # Launch("stream") => Before(s, Launch("stream"))
  <2>0. Rank(Launch("stream")) = 5 /\ Launch("stream").do = "launch"
    BY LaunchesCome
  <2>1. CASE s \in LaunchSteps
    <3>1. s \in {Launch("event"), Launch("stream")}
      BY <2>1 DEF LaunchSteps, Launches
    <3>2. Before(Launch("event"), Launch("stream"))
      BY LaunchesCome DEF Before
    <3>3. QED
      BY <3>1, <3>2, LaunchesCome DEF Threads
  <2>2. CASE s \in MemorySteps \cup QueueSteps \cup GraphMade \cup GraphUsed
    <3>1. s.do \in {"new", "touch"}
      BY <2>2, MemoryIsNoQueue, QueueStepsMake, GraphSteps DEF MemorySteps
    <3>2. Rank(s) < 5
      BY <3>1 DEF Rank
    <3>3. QED
      BY <2>0, <3>1, <3>2 DEF Before
  <2>3. QED
    BY <1>1, <2>1, <2>2
<1>4. ASSUME NEW x \in Graph(Program) PROVE \E n \in News : n.what = x
  BY NewsExist DEF Graph
<1>5. QED
  BY <1>2, <1>3, <1>4

LEMMA FreeFacts ==
  ASSUME use \in Uses
  PROVE  /\ PartOf(stream_free_all, stream_free_all)
         /\ \A s \in ToSet(stream_free_all) :
              s.do = "end" \/ s.do = "delete" \/ (s.do = "join" /\ s = Join(s.what))
         /\ \A d \in ToSet(stream_free_all) : d.do = "delete" =>
              /\ d.what[1] # "ring" /\ ~Forgets(d.what)
              /\ d.what[1] = "queue" => d.what = queue(d.what[2]) /\ d.what[2] \in Nat
              /\ d.cleared => \E n \in News : n.what = d.what
              /\ \A t : Before(Join(t), d)
              /\ d.what \in Pools =>
                   \A e \in ToSet(stream_free_all) :
                     e.do = "delete" /\ e.what[1] \in {"queue", "node", "fifo"} => Before(e, d)
         /\ \A t \in Threads : Launch(t) \in ToSet(stream_configure_and_start) =>
              Join(t) \in ToSet(stream_free_all)
<1> DEFINE F == ToSet(stream_free_all)
           Good(d) ==
             /\ d.what[1] # "ring" /\ ~Forgets(d.what)
             /\ d.what[1] = "queue" => d.what = queue(d.what[2]) /\ d.what[2] \in Nat
             /\ d.cleared => \E n \in News : n.what = d.what
             /\ d.do = "delete"
<1>1. /\ Block(stream_free_all)
      /\ F = StopsOfUse \cup FIFODeletes \cup NodeDeletes \cup QueuesReleased
               \cup MemoryReleased
  BY FreeSteps
<1>2. PartOf(stream_free_all, stream_free_all)
  BY <1>1 DEF PartOf, Block
<1>3. ASSUME NEW d \in FIFODeletes \cup NodeDeletes PROVE Good(d)
  <2>1. d.do = "delete" /\ d.cleared = FALSE /\ d.what[1] \in {"fifo", "node"}
    <3>1. CASE d \in FIFODeletes
      <4>1. PICK k : d = Delete(fifo(k), FALSE)
        BY <3>1 DEF FIFODeletes
      <4>2. d.do = "delete" /\ d.cleared = FALSE /\ d.what = fifo(k)
        BY <4>1 DEF Delete
      <4>3. QED
        BY <4>2, NamesDiffer
    <3>2. CASE d \in NodeDeletes
      <4>1. PICK m : d = Delete(node(m[1]), FALSE)
        BY <3>2 DEF NodeDeletes
      <4>2. d.do = "delete" /\ d.cleared = FALSE /\ d.what = node(m[1])
        BY <4>1 DEF Delete
      <4>3. QED
        BY <4>2, NamesDiffer
    <3>3. QED
      BY <3>1, <3>2
  <2>2. QED
    BY <2>1 DEF Forgets
<1>4. ASSUME NEW d \in QueuesReleased PROVE Good(d)
  <2>1. /\ Threaded /\ use.queues \in Nat
        /\ d \in QueueDeletes(TRUE) \cup QueueDeletes(FALSE)
    BY UsesAssumption DEF QueuesReleased, Threaded
  <2>2. PICK k \in 0 .. use.queues - 1 :
          d = Delete(queue(k), TRUE) \/ d = Delete(queue(k), FALSE)
    BY <2>1 DEF QueueDeletes
  <2>3. d.do = "delete" /\ d.what = queue(k)
    BY <2>2 DEF Delete
  <2>4. d.what[1] = "queue" /\ d.what[2] = k /\ k \in Nat
    BY <2>1, <2>3, NamesDiffer
  <2>5. \E n \in News : n.what = d.what
    BY <2>1, <2>3, NewsExist
  <2>6. ~Forgets(d.what)
    BY <2>4 DEF Forgets
  <2>7. QED
    BY <2>3, <2>4, <2>5, <2>6
<1>5. ASSUME NEW d \in MemoryReleased PROVE Good(d)
  <2>1. PICK x \in CMSISObjects : d = Delete(x, FALSE)
    <3>1. <<"pool", "event">> \in CMSISObjects
      BY DEF CMSISObjects, Pools
    <3>2. QED
      BY <3>1 DEF MemoryReleased
  <2>2. d.do = "delete" /\ d.cleared = FALSE /\ d.what = x
    BY <2>1 DEF Delete
  <2>3. x[1] \in {"flags", "pool"}
    BY DEF CMSISObjects, Pools
  <2>4. QED
    BY <2>2, <2>3 DEF Forgets
<1>6. ASSUME NEW d \in StopsOfUse
      PROVE  d.do = "end" \/ (d.do = "join" /\ d = Join(d.what))
  <2>1. d \in {EndThreads, Join("event"), Join("stream")}
    BY DEF StopsOfUse, Stops
  <2>2. QED
    BY <2>1, StopSteps
<1>7. ASSUME NEW d \in F, d.do = "delete" PROVE Good(d)
  BY <1>1, <1>3, <1>4, <1>5, <1>6, <1>7
<1>8. \A s \in F : s.do = "end" \/ s.do = "delete" \/ (s.do = "join" /\ s = Join(s.what))
  BY <1>1, <1>3, <1>4, <1>5, <1>6
<1>9. ASSUME NEW d \in F, d.do = "delete" PROVE \A t : Before(Join(t), d)
  <2>1. Rank(d) \in {1, 2}
    BY <1>9 DEF Rank
  <2>2. \A t : Join(t).do = "join"
    BY StopSteps
  <2>3. \A t : Rank(Join(t)) = 0
    BY <2>2 DEF Rank
  <2>4. QED
    BY <2>1, <2>2, <2>3 DEF Before
<1>10. ASSUME NEW d \in F, d.do = "delete", d.what \in Pools,
              NEW e \in F, e.do = "delete", e.what[1] \in {"queue", "node", "fifo"}
       PROVE  Before(e, d)
  <2>1. d.what[1] = "pool"
    BY <1>10 DEF Pools
  <2>2. Rank(d) = 2 /\ Rank(e) = 1
    BY <1>10, <2>1 DEF Rank
  <2>3. QED
    BY <1>10, <2>2 DEF Before
<1>11. ASSUME NEW t \in Threads, Launch(t) \in ToSet(stream_configure_and_start)
       PROVE  Join(t) \in F
  <2>1. Launch(t).do = "launch"
    BY DEF Launch
  <2>2. Threaded
    <3>1. Launch(t) \in MemorySteps \cup QueueSteps \cup GraphMade \cup GraphUsed
                          \cup LaunchSteps
      BY <1>11, StartSteps
    <3>2. Launch(t) \in LaunchSteps
      BY <2>1, <3>1, MemoryIsNoQueue, QueueStepsMake, GraphSteps DEF MemorySteps
    <3>3. QED
      BY <3>2 DEF LaunchSteps, Threaded
  <2>3. QED
    BY <1>1, <2>2 DEF Threaded, StopsOfUse, Stops, Threads
<1>12. QED
  BY <1>2, <1>7, <1>8, <1>9, <1>10, <1>11

(***************************************************************************)
(* A step keeps the use, and so what a start and a release consist of.       *)
(***************************************************************************)
LEMMA UseStays ==
  ASSUME use' = use
  PROVE  /\ stream_configure_and_start' = stream_configure_and_start
         /\ stream_free_all' = stream_free_all
         /\ News' = News /\ Deletable' = Deletable
         /\ BaseNeeds' = BaseNeeds /\ Graph(Program)' = Graph(Program)
<1>1. Program' = Program
  BY DEF Program
<1>2. \A k : stream_new_event_queue(k)' = stream_new_event_queue(k)
  BY DEF stream_new_event_queue
<1>3. Queues' = Queues
  BY <1>2 DEF Queues, Each
<1>4. Resumed' = Resumed
  BY <1>1 DEF Resumed
<1>5. init_scheduler(Program.init)' = init_scheduler(Program.init)
  BY <1>1
<1>6. free_scheduler(Program.free)' = free_scheduler(Program.free)
  BY <1>1
<1>7. /\ stream_init_memory' = stream_init_memory
      /\ stream_free_memory' = stream_free_memory
  BY DEF stream_init_memory, stream_free_memory
<1>8. PosixStart' = PosixStart /\ CMSISStart' = CMSISStart
      /\ ZephyrStart' = ZephyrStart /\ EventsStart' = EventsStart
  BY <1>3, <1>4, <1>5, <1>7 DEF PosixStart, CMSISStart, ZephyrStart, EventsStart
<1>9. stream_configure_and_start' = stream_configure_and_start
  BY <1>4, <1>5, <1>8 DEF stream_configure_and_start
<1>10. DeleteQueues(TRUE)' = DeleteQueues(TRUE) /\ DeleteQueues(FALSE)' = DeleteQueues(FALSE)
  BY DEF DeleteQueues, Each, Upto
<1>11. /\ PosixFreeAll' = PosixFreeAll /\ CMSISFreeAll' = CMSISFreeAll
       /\ ZephyrFreeAll' = ZephyrFreeAll /\ EventsFreeAll' = EventsFreeAll
  BY <1>6, <1>7, <1>10 DEF PosixFreeAll, CMSISFreeAll, ZephyrFreeAll, EventsFreeAll
<1>12. stream_free_all' = stream_free_all
  BY <1>6, <1>11 DEF stream_free_all
<1>13. News' = News
  BY <1>9 DEF News
<1>14. Deletable' = Deletable
  BY <1>12 DEF Deletable
<1>15. BaseNeeds' = BaseNeeds
  BY DEF BaseNeeds, QueuesNeeded, RingsNeeded, PoolsNeeded
<1>16. Graph(Program)' = Graph(Program)
  BY <1>1
<1>17. QED
  BY <1>9, <1>12, <1>13, <1>14, <1>15, <1>16

LEMMA HeadAndTail ==
  ASSUME NEW W, NEW s, PartOf(s, W), s # <<>>
  PROVE  /\ Head(s) \in ToSet(W) /\ Head(s) \in ToSet(s)
         /\ PartOf(Tail(s), W)
         /\ ToSet(s) = {Head(s)} \cup ToSet(Tail(s))
         /\ \A x \in ToSet(Tail(s)) :
              /\ ~Same(x, Head(s)) /\ ~Same(Head(s), x) /\ ~Before(x, Head(s))
              /\ x # Head(s) \/ ~Tested(x.do)
         /\ \A x \in ToSet(s) : ~Before(x, Head(s))
         /\ ToSet(s) \subseteq ToSet(W)
<1> DEFINE n == Len(s)
           t == Tail(s)
<1>1. s \in Seq(ToSet(W)) /\ Ordered(s) /\ Once(s)
  BY DEF PartOf
<1>2. /\ n \in Nat /\ n > 0 /\ DOMAIN s = 1 .. n /\ Head(s) = s[1]
      /\ t \in Seq(ToSet(W)) /\ Len(t) = n - 1
      /\ \A i \in 1 .. n - 1 : t[i] = s[i + 1]
  BY <1>1, HeadTailProperties, LenProperties, EmptySeq
<1>3. DOMAIN t = 1 .. n - 1
  BY <1>2, LenProperties
<1>4. ToSet(s) \subseteq ToSet(W)
  BY <1>1, Elements
<1>5. 1 \in 1 .. n
  BY <1>2
<1>6. Head(s) \in ToSet(s)
  BY <1>2, <1>5 DEF ToSet
<1> HIDE DEF n, t
<1>7. ASSUME NEW x \in ToSet(t)
      PROVE  \E i \in 1 .. n : i # 1 /\ s[i] = x
  <2>1. PICK i \in 1 .. n - 1 : t[i] = x
    BY <1>3 DEF ToSet
  <2>2. i + 1 \in 1 .. n /\ i + 1 # 1 /\ s[i + 1] = x
    BY <1>2, <2>1
  <2>3. QED
    BY <2>2
<1>8. ASSUME NEW x \in ToSet(s) PROVE x = Head(s) \/ x \in ToSet(t)
  <2>1. PICK i \in 1 .. n : s[i] = x
    BY <1>2 DEF ToSet
  <2>2. CASE i = 1
    BY <1>2, <2>1, <2>2
  <2>3. CASE i # 1
    <3>1. i - 1 \in 1 .. n - 1 /\ (i - 1) + 1 = i
      BY <1>2, <2>3
    <3>2. t[i - 1] = x
      BY <1>2, <2>1, <3>1
    <3>3. QED
      BY <1>3, <3>1, <3>2 DEF ToSet
  <2>4. QED
    BY <2>2, <2>3
<1>9. ToSet(s) = {Head(s)} \cup ToSet(t)
  <2>1. ASSUME NEW x \in ToSet(t) PROVE x \in ToSet(s)
    BY <1>2, <1>7 DEF ToSet
  <2>2. QED
    BY <1>6, <1>8, <2>1
<1>10. ASSUME NEW x \in ToSet(s) PROVE ~Before(x, Head(s))
  <2>1. PICK i \in 1 .. n : s[i] = x
    BY <1>2 DEF ToSet
  <2>2. ~(i < 1)
    BY <1>2
  <2>3. QED
    BY <1>1, <1>2, <1>5, <2>1, <2>2 DEF Ordered
<1>11. ASSUME NEW x \in ToSet(t)
       PROVE  ~Same(x, Head(s)) /\ ~Same(Head(s), x)
  <2>1. PICK i \in 1 .. n : i # 1 /\ s[i] = x
    BY <1>7
  <2>2. ~Same(s[i], s[1])
    BY <1>1, <1>2, <1>5, <2>1 DEF Once, Same, Tested
  <2>3. QED
    BY <1>2, <2>1, <2>2 DEF Same
<1>12. PartOf(t, W)
  <2>1. Ordered(t)
    <3> SUFFICES ASSUME NEW i \in 1 .. n - 1, NEW j \in 1 .. n - 1, Before(t[i], t[j])
                 PROVE  i < j
      BY <1>3 DEF Ordered
    <3>1. i + 1 \in 1 .. n /\ j + 1 \in 1 .. n /\ Before(s[i + 1], s[j + 1])
      BY <1>2
    <3>2. i + 1 < j + 1
      BY <1>1, <1>2, <3>1 DEF Ordered
    <3>3. QED
      BY <3>2
  <2>2. Once(t)
    <3> SUFFICES ASSUME NEW i \in 1 .. n - 1, NEW j \in 1 .. n - 1, Same(t[i], t[j])
                 PROVE  i = j
      BY <1>3 DEF Once, Same, Tested
    <3>1. i + 1 \in 1 .. n /\ j + 1 \in 1 .. n /\ Same(s[i + 1], s[j + 1])
      BY <1>2
    <3>2. i + 1 = j + 1
      BY <1>1, <1>2, <3>1 DEF Once, Same, Tested
    <3>3. QED
      BY <3>2
  <2>3. QED
    BY <1>2, <2>1, <2>2 DEF PartOf
<1>13. \A x \in ToSet(t) : x = Head(s) => ~Tested(x.do)
  BY <1>11 DEF Same
<1>14. QED
  BY <1>4, <1>6, <1>9, <1>10, <1>11, <1>12, <1>13 DEF t

(* What does not change with the objects.                                   *)
LEMMA ObjectsStay ==
  ASSUME ptr' = ptr, alive' = alive
  PROVE  \A x : /\ PointsTo(x)' = PointsTo(x) /\ Objects(x)' = Objects(x)
                /\ Lives(x)' = Lives(x) /\ Sound(x)' = Sound(x)
<1>1. \A x : PointsTo(x)' = PointsTo(x)
  BY DEF PointsTo
<1>2. \A x : Objects(x)' = Objects(x)
  BY DEF Objects
<1>3. \A x : Lives(x)' = Lives(x)
  BY <1>1, <1>2 DEF Lives
<1>4. \A x : Sound(x)' = Sound(x)
  BY <1>1, <1>3 DEF Sound
<1>5. QED
  BY <1>1, <1>2, <1>3, <1>4

LEMMA WholesStay ==
  ASSUME ptr' = ptr, alive' = alive
  PROVE  \A n : Whole(n)' = Whole(n)
  BY ObjectsStay DEF Whole

LEMMA ObjectInvStays ==
  ASSUME ObjectInv, use' = use, ptr' = ptr, alive' = alive, starts' = 0 => starts = 0
  PROVE  ObjectInv'
<1>1. Deletable' = Deletable /\ News' = News
  BY UseStays
<1>2. \A x : PointsTo(x)' = PointsTo(x) /\ Objects(x)' = Objects(x)
  BY ObjectsStay
<1>3. QED
  BY <1>1, <1>2 DEF ObjectInv

LEMMA NeedsAfter ==
  Needs' = BaseNeeds' \cup (IF main' \in {"starting", "giving up"} THEN {}
                            ELSE Graph(Program)')
  BY DEF Needs

LEMMA ThreadsStay ==
  ASSUME ThreadsUseLive, use' = use, ptr' = ptr, alive' = alive, dangling' = dangling,
         \A t \in Threads : thread'[t] = "running" => thread[t] = "running",
         main' \in {"starting", "giving up"} \/ main \notin {"starting", "giving up"}
  PROVE  ThreadsUseLive'
<1>1. BaseNeeds' = BaseNeeds /\ Graph(Program)' = Graph(Program)
  BY UseStays
<1>3. Needs' \subseteq Needs
  BY <1>1, NeedsAfter DEF Needs
<1>4. \A x : Lives(x)' = Lives(x)
  BY ObjectsStay
<1>5. QED
  BY <1>3, <1>4 DEF ThreadsUseLive

(* Who acts, and when.                                                      *)
LEMMA Acting ==
  ASSUME Inv, NEW a \in Actors, todo[a] # <<>>, main # "exited"
  PROVE  \/ a = "main" /\ main = "starting" /\ StartGoesOn
         \/ a = "main" /\ main \in {"starting", "giving up"} /\ StartFailed
         \/ a = "main" /\ main = "waiting" /\ todo["main"] \in Seq(ToSet(Wait))
         \/ a = "main" /\ main = "freeing" /\ Releasing("main")
         \/ a \in Threads /\ main = "running" /\ Frees(a) /\ Releasing(a)
<1>1. CASE a = "main"
  BY <1>1 DEF Inv, MainInv
<1>2. CASE a \in Threads
  BY <1>2 DEF Inv, HandlerInv
<1>3. QED
  BY <1>1, <1>2 DEF Actors

LEMMA WaitSteps ==
  /\ \A x \in ToSet(Wait) : x.do = "join" /\ x = Join(x.what)
  /\ Wait \in Seq(ToSet(Wait))
<1>1. Wait \in Seq({Join("stream"), Join("event")})
  BY DEF Wait
<1>2. ToSet(Wait) \subseteq {Join("stream"), Join("event")} /\ Wait \in Seq(ToSet(Wait))
  BY <1>1, Elements
<1>3. QED
  BY <1>2, StopSteps

LEMMA FailedSteps ==
  ASSUME StartFailed, todo["main"] # <<>>
  PROVE  /\ Head(todo["main"]).do \in {"end", "join"} /\ ~Head(todo["main"]).fails
         /\ \/ Head(todo["main"]) = EndThreads /\ Tail(todo["main"]) = <<Join("event")>>
            \/ Head(todo["main"]) = Join("event") /\ Tail(todo["main"]) = <<>>
<1>1. \/ todo["main"] = <<EndThreads, Join("event")>>
      \/ todo["main"] = <<Join("event")>>
  BY DEF StartFailed
<1>2. EndThreads.fails = FALSE /\ Join("event").fails = FALSE
  BY DEF EndThreads, Join
<1>3. CASE todo["main"] = <<EndThreads, Join("event")>>
  <2>1. Head(todo["main"]) = EndThreads /\ Tail(todo["main"]) = <<Join("event")>>
    BY <1>3
  <2>2. QED
    BY <2>1, <1>2, StopSteps
<1>4. CASE todo["main"] = <<Join("event")>>
  <2>1. Head(todo["main"]) = Join("event") /\ Tail(todo["main"]) = <<>>
    BY <1>4
  <2>2. QED
    BY <2>1, <1>2, StopSteps
<1>5. QED
  BY <1>1, <1>3, <1>4

LEMMA WaitingSteps ==
  ASSUME NEW s \in Seq(ToSet(Wait)), s # <<>>
  PROVE  Head(s).do = "join" /\ Tail(s) \in Seq(ToSet(Wait))
<1>1. Head(s) \in ToSet(Wait) /\ Tail(s) \in Seq(ToSet(Wait))
  BY HeadTailProperties
<1>2. QED
  BY <1>1, WaitSteps

LEMMA ReleasingSteps ==
  ASSUME use \in Uses, NEW a, Releasing(a), todo[a] # <<>>
  PROVE  /\ Head(todo[a]).do \in {"end", "join", "delete"}
         /\ Head(todo[a]) \in ToSet(stream_free_all)
<1>1. Head(todo[a]) \in ToSet(stream_free_all)
  BY HeadAndTail DEF Releasing
<1>2. QED
  BY <1>1, FreeFacts

LEMMA MakingActs ==
  ASSUME Inv, NEW a \in Actors, todo[a] # <<>>, main # "exited",
         Head(todo[a]).do \in {"new", "touch", "launch"}
  PROVE  a = "main" /\ main = "starting" /\ StartGoesOn
<1>1. use \in Uses
  BY DEF Inv, TypeInv
<1>2. CASE a = "main" /\ main \in {"starting", "giving up"} /\ StartFailed
  BY <1>2, FailedSteps
<1>3. CASE a = "main" /\ main = "waiting" /\ todo["main"] \in Seq(ToSet(Wait))
  BY <1>3, WaitingSteps
<1>4. CASE Releasing(a)
  BY <1>1, <1>4, ReleasingSteps
<1>5. QED
  BY <1>2, <1>3, <1>4, Acting

LEMMA DeletingActs ==
  ASSUME Inv, NEW a \in Actors, todo[a] # <<>>, main # "exited",
         Head(todo[a]).do = "delete"
  PROVE  Releasing(a) /\ \/ a = "main" /\ main = "freeing"
                         \/ a \in Threads /\ main = "running" /\ Frees(a)
<1>1. use \in Uses
  BY DEF Inv, TypeInv
<1>2. CASE a = "main" /\ main \in {"starting", "giving up"} /\ StartFailed
  BY <1>2, FailedSteps
<1>3. CASE a = "main" /\ main = "waiting" /\ todo["main"] \in Seq(ToSet(Wait))
  BY <1>3, WaitingSteps
<1>4. CASE a = "main" /\ main = "starting" /\ StartGoesOn
  <2>1. Head(todo[a]) \in ToSet(stream_configure_and_start)
    BY <1>4, HeadAndTail DEF StartGoesOn
  <2>2. QED
    BY <1>1, <2>1, StartFacts
<1>5. QED
  BY <1>2, <1>3, <1>4, Acting

LEMMA StoppingActs ==
  ASSUME Inv, NEW a \in Actors, todo[a] # <<>>, main # "exited",
         Head(todo[a]).do \in {"end", "join"}
  PROVE  \/ a = "main" /\ main \in {"starting", "giving up"} /\ StartFailed
         \/ a = "main" /\ main = "waiting" /\ todo["main"] \in Seq(ToSet(Wait))
              /\ Head(todo[a]).do = "join"
         \/ a = "main" /\ main = "freeing" /\ Releasing("main")
         \/ a \in Threads /\ main = "running" /\ Frees(a) /\ Releasing(a)
<1>1. use \in Uses
  BY DEF Inv, TypeInv
<1>2. CASE a = "main" /\ main = "waiting" /\ todo["main"] \in Seq(ToSet(Wait))
  BY <1>2, WaitingSteps
<1>3. CASE a = "main" /\ main = "starting" /\ StartGoesOn
  <2>1. Head(todo[a]) \in ToSet(stream_configure_and_start)
    BY <1>3, HeadAndTail DEF StartGoesOn
  <2>2. QED
    BY <1>1, <2>1, StartFacts
<1>4. QED
  BY <1>2, <1>3, Acting

(* While the application starts no thread frees.                            *)
LEMMA NobodyFrees ==
  ASSUME Inv, main \notin {"running", "exited"}
  PROVE  \A t \in Threads : ~Frees(t) /\ todo[t] = <<>>
  BY DEF Inv, HandlerInv

(* The steps of a thread that goes on.                                      *)
Steps == ToSet(stream_configure_and_start) \cup ToSet(stream_free_all) \cup ToSet(Wait)

LEMMA GoesOn ==
  ASSUME Inv, NEW a \in Actors, todo[a] # <<>>, Going(a)
  PROVE  /\ todo' \in [Actors -> Seq(Steps)]
         /\ todo'[a] = Tail(todo[a])
         /\ \A b \in Actors \ {a} : todo'[b] = todo[b]
<1>1. todo \in [Actors -> Seq(Steps)]
  BY DEF Inv, TypeInv, Steps
<1>2. Tail(todo[a]) \in Seq(Steps)
  BY <1>1, HeadTailProperties
<1>3. QED
  BY <1>1, <1>2 DEF Going

(* What a start has still to do is not there, and what it has done is.       *)
LEMMA HeadOfStart ==
  ASSUME Inv, StartGoesOn, todo["main"] # <<>>
  PROVE  LET h == Head(todo["main"]) IN
         /\ h \in ToSet(stream_configure_and_start) /\ h \in ToSet(todo["main"])
         /\ \A n \in News : Before(n, h) => Whole(n)
         /\ \A x \in h.over : Lives(x)
         /\ h.do = "new" => h \in News
         /\ PartOf(Tail(todo["main"]), stream_configure_and_start)
<1> DEFINE h == Head(todo["main"])
<1>1. /\ h \in ToSet(stream_configure_and_start) /\ h \in ToSet(todo["main"])
      /\ PartOf(Tail(todo["main"]), stream_configure_and_start)
      /\ \A x \in ToSet(todo["main"]) : ~Before(x, h)
  BY HeadAndTail DEF StartGoesOn
<1>2. use \in Uses
  BY DEF Inv, TypeInv
<1> HIDE DEF h
<1>3. \A n \in News : Before(n, h) => Whole(n)
  BY <1>1 DEF StartGoesOn
<1>4. ASSUME NEW x \in h.over PROVE Lives(x)
  <2>1. PICK n \in News : n.what = x /\ Before(n, h)
    BY <1>1, <1>2, ReadsAreMade
  <2>2. QED
    BY <1>3, <2>1 DEF Whole
<1>5. h.do = "new" => h \in News
  BY <1>1 DEF News
<1>6. QED
  BY <1>1, <1>3, <1>4, <1>5 DEF h

(* The invariants from what a step has left.                                *)
LEMMA TypeAfter ==
  ASSUME Inv, use' = use, starts' \in Nat, main' # "out" => starts' > 0,
         todo' \in [Actors -> Seq(Steps)],
         thread' \in [Threads -> {"none", "running", "freeing", "ended"}],
         handle' \subseteq Threads,
         \A t \in Threads : thread'[t] = "running" =>
           t \in handle' /\ Launch(t) \in ToSet(stream_configure_and_start)
  PROVE  TypeInv'
<1>1. /\ stream_configure_and_start' = stream_configure_and_start
      /\ stream_free_all' = stream_free_all
  BY UseStays
<1>2. use' \in Uses
  BY DEF Inv, TypeInv
<1>3. QED
  BY <1>1, <1>2 DEF TypeInv, Running, Steps

LEMMA TypeStays ==
  ASSUME Inv, use' = use, starts' = starts, main' # "out" => main # "out",
         todo' \in [Actors -> Seq(Steps)], thread' = thread, handle' = handle
  PROVE  TypeInv'
<1>1. /\ starts \in Nat /\ (main # "out" => starts > 0)
      /\ thread \in [Threads -> {"none", "running", "freeing", "ended"}]
      /\ handle \subseteq Threads
      /\ \A t \in Threads : thread[t] = "running" =>
           t \in handle /\ Launch(t) \in ToSet(stream_configure_and_start)
  BY DEF Inv, TypeInv, Running
<1>2. QED
  BY <1>1, TypeAfter

LEMMA StartingAfter ==
  ASSUME main' = "starting", StartGoesOn' \/ StartFailed'
  PROVE  MainInv'
  BY DEF MainInv

LEMMA HandlersAfter ==
  ASSUME \A t \in Threads : thread'[t] # "freeing" /\ todo'[t] = <<>>
  PROVE  HandlerInv'
  BY DEF HandlerInv, Frees

LEMMA GoesOnAfter ==
  ASSUME Inv, use' = use, starts' = starts, thread' = thread,
         PartOf(todo'["main"], stream_configure_and_start),
         \A n \in News :
           IF n \in ToSet(todo'["main"]) THEN Objects(n.what)' = {} \/ Forgets(n.what)
                                         ELSE Whole(n)',
         \A x \in Deletable : Sound(x) => Sound(x)',
         StartGoesOn, todo["main"] # <<>>
  PROVE  StartGoesOn'
<1>1. /\ stream_configure_and_start' = stream_configure_and_start
      /\ News' = News /\ Deletable' = Deletable
  BY UseStays
<1>2. PartOf(todo["main"], stream_configure_and_start)'
  BY <1>1 DEF PartOf
<1>3. ~Running("stream")
  BY DEF StartGoesOn
<1>4. \A n \in News' :
        IF n \in ToSet(todo["main"])' THEN Objects(n.what)' = {} \/ Forgets(n.what)
                                      ELSE Whole(n)'
  BY <1>1
<1>5. (starts = 1 => \A x \in Deletable : Sound(x))'
  BY <1>1 DEF StartGoesOn
<1>6. QED
  BY <1>2, <1>3, <1>4, <1>5 DEF StartGoesOn, Running

(***************************************************************************)
(* The steps of a start.                                                   *)
(***************************************************************************)
LEMMA MakeKeeps == ASSUME Inv, NEW a \in Actors, Make(a) PROVE Inv'
<1>0. PICK h : h = Head(todo["main"])
  OBVIOUS
<1> DEFINE made == {h.what} \cup h.with
           S == stream_configure_and_start
<1>1. a = "main" /\ main = "starting" /\ StartGoesOn /\ todo["main"] # <<>> /\ h.do = "new"
  BY <1>0, MakingActs DEF Make, Next1
<1>2. /\ h \in News /\ h \in ToSet(S) /\ h \in ToSet(todo["main"])
      /\ \A x \in h.over : Lives(x)
      /\ PartOf(Tail(todo["main"]), S)
  BY <1>0, <1>1, HeadOfStart
<1>3. /\ Going("main") /\ Reads(h) /\ Set(made, starts) /\ Born(made)
      /\ use' = use /\ main' = main /\ starts' = starts /\ thread' = thread
      /\ handle' = handle /\ ending' = ending /\ twice' = twice
  BY <1>0, <1>1 DEF Make
<1>4. use \in Uses /\ starts \in Nat /\ starts > 0
  BY <1>1 DEF Inv, TypeInv
<1>5. /\ todo' \in [Actors -> Seq(Steps)] /\ todo'["main"] = Tail(todo["main"])
      /\ \A b \in Actors \ {"main"} : todo'[b] = todo[b]
  BY <1>1, <1>3, GoesOn
<1>6. /\ ToSet(todo["main"]) = {h} \cup ToSet(Tail(todo["main"]))
      /\ h \notin ToSet(Tail(todo["main"]))
  BY <1>0, <1>1, HeadAndTail DEF StartGoesOn, Tested
<1>7. /\ h.what[1] \notin {"ring", "queue flags"}
      /\ \A k : h.what = queue(k) => k \in Nat /\ Rings(k) \subseteq h.with
      /\ \A x \in h.with : /\ x[1] \in {"ring", "queue flags"} /\ h.what = queue(x[2])
                           /\ x[1] = "ring" => x \in Rings(x[2])
      /\ ~Forgets(h.what) => h.what \in Deletable
  BY <1>2, <1>4, NewsFacts
<1> HIDE DEF made, S
<1>8. ptr' = [x \in DOMAIN ptr \cup made |-> IF x \in made THEN starts ELSE ptr[x]]
  BY <1>3 DEF Set
<1>9. alive' = [x \in DOMAIN alive \cup made |->
                  IF x \in made THEN Objects(x) \cup {starts} ELSE alive[x]]
  BY <1>3 DEF Born
<1>10. \A x \in made : PointsTo(x)' = starts /\ Objects(x)' = Objects(x) \cup {starts}
  BY <1>8, <1>9 DEF PointsTo, Objects
<1>11. \A x : x \notin made => PointsTo(x)' = PointsTo(x) /\ Objects(x)' = Objects(x)
  BY <1>8, <1>9 DEF PointsTo, Objects
<1>12. \A x : x \in made => Lives(x)'
  BY <1>10 DEF Lives
<1>13. \A x : Lives(x) => Lives(x)'
  BY <1>11, <1>12 DEF Lives
<1>14. \A x : Sound(x) => Sound(x)'
  BY <1>11, <1>12, <1>13 DEF Sound
<1>15. \A n : Whole(n) => Whole(n)'
  BY <1>13 DEF Whole
<1>16. Whole(h)'
  BY <1>12 DEF Whole, made
<1>17. Objects(h.what) = {} \/ Forgets(h.what)
  BY <1>1, <1>2 DEF StartGoesOn
<1>18. ASSUME NEW n \in News, n \in ToSet(Tail(todo["main"]))
       PROVE  n.what \notin made
  <2>1. ~Same(n, h) /\ n.do = "new" /\ h.do = "new"
    BY <1>0, <1>1, <1>18, HeadAndTail DEF StartGoesOn, News, Tested
  <2>2. n.what # h.what
    BY <2>1 DEF Same, Tested
  <2>3. n.what[1] \notin {"ring", "queue flags"}
    BY <1>4, NewsFacts
  <2>4. QED
    BY <1>7, <2>2, <2>3 DEF made
<1>19. StartGoesOn'
  <2>1. ASSUME NEW n \in News, n \in ToSet(todo'["main"])
        PROVE  Objects(n.what)' = {} \/ Forgets(n.what)
    <3>1. Objects(n.what)' = Objects(n.what)
      BY <1>5, <1>11, <1>18, <2>1
    <3>2. n \in ToSet(todo["main"])
      BY <1>5, <1>6, <2>1
    <3>3. QED
      BY <1>1, <3>1, <3>2 DEF StartGoesOn
  <2>2. ASSUME NEW n \in News, n \notin ToSet(todo'["main"]) PROVE Whole(n)'
    <3>1. CASE n = h
      BY <1>16, <3>1
    <3>2. CASE n # h
      <4>1. n \notin ToSet(todo["main"])
        BY <1>5, <1>6, <2>2, <3>2
      <4>2. QED
        BY <1>1, <1>15, <4>1 DEF StartGoesOn
    <3>3. QED
      BY <3>1, <3>2
  <2>3. PartOf(todo'["main"], stream_configure_and_start)
    BY <1>2, <1>5 DEF S
  <2>4. QED
    BY <1>1, <1>3, <1>14, <2>1, <2>2, <2>3, GoesOnAfter
<1>20. \A t \in Threads : ~Frees(t) /\ todo[t] = <<>>
  BY <1>1, NobodyFrees
<1>21. HandlerInv'
  <2>1. \A t \in Threads : t \in Actors \ {"main"}
    BY DEF Threads, Actors
  <2>2. QED
    BY <1>3, <1>5, <1>20, <2>1, HandlersAfter DEF Frees
<1>22. MainInv'
  BY <1>1, <1>3, <1>19, StartingAfter
<1>23. TypeInv'
  BY <1>3, <1>5, TypeStays
<1>24. ObjectInv'
  <2>0. News' = News /\ Deletable' = Deletable
    BY <1>3, UseStays
  <2>1. ASSUME NEW x \in DOMAIN alive', ~Forgets(x)
        PROVE  /\ alive'[x] = {} \/ alive'[x] = {PointsTo(x)'}
               /\ OwnerOf(x) \in Deletable
               /\ x[1] = "ring" => x \in Rings(x[2])
    <3>1. CASE x \notin made
      <4>1. x \in DOMAIN alive /\ alive'[x] = alive[x] /\ PointsTo(x)' = PointsTo(x)
        BY <1>9, <1>11, <3>1
      <4>2. QED
        BY <2>1, <4>1 DEF Inv, ObjectInv
    <3>2. CASE x = h.what
      <4>1. alive'[x] = Objects(x) \cup {starts} /\ PointsTo(x)' = starts
        BY <1>9, <1>10, <3>2 DEF made
      <4>2. Objects(x) = {}
        BY <1>17, <2>1, <3>2
      <4>3. OwnerOf(x) = x /\ x[1] # "ring" /\ x \in Deletable
        BY <1>7, <2>1, <3>2 DEF OwnerOf
      <4>4. QED
        BY <4>1, <4>2, <4>3
    <3>3. CASE x \in h.with
      <4>1. alive'[x] = Objects(x) \cup {starts} /\ PointsTo(x)' = starts
        BY <1>9, <1>10, <3>3 DEF made
      <4>2. x[1] = "ring" /\ h.what = queue(x[2]) /\ x \in Rings(x[2])
        BY <1>7, <2>1, <3>3 DEF Forgets
      <4>3. x[2] \in Nat /\ ~Forgets(h.what)
        BY <1>7, <4>2, NamesDiffer DEF Forgets
      <4>4. Objects(x) = Objects(h.what)
        <5>1. PICK p \in Levels : x = <<"ring", x[2], p>>
          BY <4>2 DEF Rings
        <5>2. \A k \in Nat, q \in Levels : Objects(<<"ring", k, q>>) = Objects(queue(k))
          BY DEF Inv, ObjectInv
        <5>3. QED
          BY <4>2, <4>3, <5>1, <5>2
      <4>5. OwnerOf(x) = h.what /\ h.what \in Deletable
        BY <1>7, <4>2, <4>3 DEF OwnerOf
      <4>6. Objects(x) = {}
        BY <1>17, <4>3, <4>4
      <4>7. QED
        BY <4>1, <4>2, <4>5, <4>6
    <3>4. QED
      BY <3>1, <3>2, <3>3 DEF made
  <2>2. \A x \in DOMAIN ptr' : x \in UNION {{n.what} \cup n.with : n \in News}
    <3>1. DOMAIN ptr' = DOMAIN ptr \cup made
      BY <1>8
    <3>2. made \subseteq UNION {{n.what} \cup n.with : n \in News}
      BY <1>2 DEF made
    <3>3. QED
      BY <3>1, <3>2 DEF Inv, ObjectInv
  <2>3. ASSUME NEW k \in Nat, NEW p \in Levels
        PROVE  Objects(<<"ring", k, p>>)' = Objects(queue(k))'
    <3> DEFINE r == <<"ring", k, p>>
    <3>0. r \in Rings(k) /\ r[1] = "ring" /\ r[2] = k
      BY DEF Rings
    <3> HIDE DEF r
    <3>1. Objects(r) = Objects(queue(k))
      BY DEF Inv, ObjectInv, r
    <3>2. CASE h.what = queue(k)
      <4>1. r \in made /\ queue(k) \in made
        BY <1>7, <3>0, <3>2 DEF made
      <4>2. QED
        BY <1>10, <3>1, <4>1 DEF r
    <3>3. CASE h.what # queue(k)
      <4>1. r \notin made
        BY <1>7, <3>0, <3>3 DEF made
      <4>2. queue(k) \notin made
        BY <1>7, <3>3, NamesDiffer DEF made
      <4>3. QED
        BY <1>11, <3>1, <4>1, <4>2 DEF r
    <3>4. QED
      BY <3>2, <3>3
  <2>4. starts' # 0
    BY <1>3, <1>4
  <2>5. QED
    BY <2>0, <2>1, <2>2, <2>3, <2>4 DEF ObjectInv
<1>25. NothingTwice'
  BY <1>3 DEF Inv, NothingTwice
<1>26. ThreadsUseLive'
  <2>1. dangling' = {}
    BY <1>2, <1>3 DEF Inv, ThreadsUseLive, Reads
  <2>2. BaseNeeds' = BaseNeeds /\ Needs' = BaseNeeds' /\ Needs = BaseNeeds
    BY <1>1, <1>3, UseStays, NeedsAfter DEF Needs
  <2>3. QED
    BY <1>3, <1>13, <2>1, <2>2 DEF Inv, ThreadsUseLive
<1>27. QED
  BY <1>21, <1>22, <1>23, <1>24, <1>25, <1>26 DEF Inv

LEMMA StepDone ==
  ASSUME Inv, StartGoesOn, todo["main"] # <<>>, Going("main"),
         Head(todo["main"]).do # "new", use' = use, ptr' = ptr, alive' = alive
  PROVE  /\ PartOf(todo'["main"], stream_configure_and_start)
         /\ \A n \in News :
              IF n \in ToSet(todo'["main"]) THEN Objects(n.what)' = {} \/ Forgets(n.what)
                                            ELSE Whole(n)'
<1>1. todo'["main"] = Tail(todo["main"])
  BY GoesOn DEF Actors
<1>2. /\ PartOf(Tail(todo["main"]), stream_configure_and_start)
      /\ ToSet(todo["main"]) = {Head(todo["main"])} \cup ToSet(Tail(todo["main"]))
  BY HeadAndTail DEF StartGoesOn
<1>3. ASSUME NEW n \in News
      PROVE  n \in ToSet(todo'["main"]) <=> n \in ToSet(todo["main"])
  BY <1>1, <1>2 DEF News
<1>4. \A n : Whole(n)' = Whole(n) /\ Objects(n.what)' = Objects(n.what)
  BY WholesStay, ObjectsStay
<1>5. QED
  BY <1>1, <1>2, <1>3, <1>4 DEF StartGoesOn

LEMMA UseKeeps == ASSUME Inv, NEW a \in Actors, Use(a) PROVE Inv'
<1>1. /\ a = "main" /\ main = "starting" /\ StartGoesOn /\ todo["main"] # <<>>
      /\ Head(todo["main"]).do = "touch"
  BY MakingActs DEF Use, Next1
<1>2. /\ Going("main") /\ Reads(Head(todo["main"]))
      /\ use' = use /\ main' = main /\ starts' = starts /\ ptr' = ptr /\ alive' = alive
      /\ thread' = thread /\ handle' = handle /\ ending' = ending /\ twice' = twice
  BY <1>1 DEF Use
<1>3. dangling' = dangling
  <2>1. \A x \in Head(todo["main"]).over : Lives(x)
    BY <1>1, HeadOfStart
  <2>2. QED
    BY <1>2, <2>1 DEF Reads
<1>4. /\ todo' \in [Actors -> Seq(Steps)]
      /\ \A b \in Actors \ {"main"} : todo'[b] = todo[b]
  BY <1>1, <1>2, GoesOn
<1>5. \A x \in Deletable : Sound(x) => Sound(x)'
  BY <1>2, ObjectsStay
<1>6. StartGoesOn'
  BY <1>1, <1>2, <1>5, StepDone, GoesOnAfter
<1>7. HandlerInv'
  <2>1. \A t \in Threads : t \in Actors \ {"main"} /\ ~Frees(t) /\ todo[t] = <<>>
    BY <1>1, NobodyFrees DEF Threads, Actors
  <2>2. QED
    BY <1>2, <1>4, <2>1, HandlersAfter DEF Frees
<1>8. MainInv'
  BY <1>1, <1>2, <1>6, StartingAfter
<1>9. TypeInv'
  BY <1>2, <1>4, TypeStays
<1>10. ObjectInv'
  BY <1>2, ObjectInvStays DEF Inv
<1>11. NothingTwice'
  BY <1>2 DEF Inv, NothingTwice
<1>12. ThreadsUseLive'
  BY <1>2, <1>3, ThreadsStay DEF Inv
<1>13. QED
  BY <1>7, <1>8, <1>9, <1>10, <1>11, <1>12 DEF Inv

LEMMA LaunchKeeps == ASSUME Inv, NEW a \in Actors, LaunchThread(a) PROVE Inv'
<1>0. PICK h : h = Head(todo["main"])
  OBVIOUS
<1>1. /\ a = "main" /\ main = "starting" /\ StartGoesOn /\ todo["main"] # <<>>
      /\ h.do = "launch"
  BY <1>0, MakingActs DEF LaunchThread, Next1
<1>2. /\ Going("main") /\ thread' = [thread EXCEPT ![h.what] = "running"]
      /\ handle' = handle \cup {h.what}
      /\ use' = use /\ main' = main /\ starts' = starts /\ ptr' = ptr /\ alive' = alive
      /\ twice' = twice /\ dangling' = dangling
  BY <1>0, <1>1 DEF LaunchThread
<1>3. use \in Uses /\ thread \in [Threads -> {"none", "running", "freeing", "ended"}]
  BY DEF Inv, TypeInv
<1>4. /\ h \in ToSet(stream_configure_and_start)
      /\ \A n \in News : Before(n, h) => Whole(n)
  BY <1>0, <1>1, HeadOfStart
<1>5. h = Launch(h.what) /\ h.what \in Threads
  BY <1>1, <1>3, <1>4, StartFacts
<1>6. /\ todo' \in [Actors -> Seq(Steps)] /\ todo'["main"] = Tail(todo["main"])
      /\ \A b \in Actors \ {"main"} : todo'[b] = todo[b]
  BY <1>1, <1>2, GoesOn
<1>7. \A t \in Threads : thread'[t] = IF t = h.what THEN "running" ELSE thread[t]
  BY <1>2, <1>3
<1>8. \A x \in BaseNeeds : Lives(x)
  <2> SUFFICES ASSUME NEW x \in BaseNeeds PROVE Lives(x)
    OBVIOUS
  <2>1. PICK n \in News : x \in {n.what} \cup n.with /\ Before(n, h)
    BY <1>1, <1>3, <1>4, NeedsAreMade
  <2>2. QED
    BY <1>4, <2>1 DEF Whole
<1>9. ~Running("stream")
  BY <1>1 DEF StartGoesOn
<1>10. thread'["stream"] = "running" => todo'["main"] = <<>>
  <2> SUFFICES ASSUME thread'["stream"] = "running" PROVE todo'["main"] = <<>>
    OBVIOUS
  <2>1. h = Launch("stream")
    BY <1>5, <1>7, <1>9 DEF Running, Threads
  <2>2. PartOf(Tail(todo["main"]), stream_configure_and_start)
    BY <1>0, <1>1, HeadAndTail DEF StartGoesOn
  <2>3. ASSUME NEW x \in ToSet(Tail(todo["main"])) PROVE FALSE
    <3>1. ~Before(x, h) /\ (x # h \/ ~Tested(x.do))
      BY <1>0, <1>1, HeadAndTail DEF StartGoesOn, Same
    <3>2. x \in ToSet(stream_configure_and_start)
      BY <1>0, <1>1, HeadAndTail DEF StartGoesOn
    <3>3. x = h
      BY <1>3, <2>1, <3>1, <3>2, StartFacts
    <3>4. QED
      BY <1>1, <3>1, <3>3 DEF Tested
  <2>4. Tail(todo["main"]) = <<>>
    <3>1. Tail(todo["main"]) \in Seq(ToSet(stream_configure_and_start))
      BY <2>2 DEF PartOf
    <3>2. Tail(todo["main"]) # <<>> => Head(Tail(todo["main"])) \in ToSet(Tail(todo["main"]))
      BY <2>2, HeadAndTail
    <3>3. QED
      BY <2>3, <3>2
  <2>5. QED
    BY <1>6, <2>4
<1>11. StartGoesOn'
  <2>1. /\ stream_configure_and_start' = stream_configure_and_start
        /\ News' = News /\ Deletable' = Deletable
    BY <1>2, UseStays
  <2>2. /\ PartOf(todo'["main"], stream_configure_and_start)
        /\ \A n \in News :
             IF n \in ToSet(todo'["main"]) THEN Objects(n.what)' = {} \/ Forgets(n.what)
                                           ELSE Whole(n)'
    BY <1>0, <1>1, <1>2, StepDone
  <2>3. PartOf(todo["main"], stream_configure_and_start)'
    BY <2>1, <2>2 DEF PartOf
  <2>4. \A n \in News' :
          IF n \in ToSet(todo["main"])' THEN Objects(n.what)' = {} \/ Forgets(n.what)
                                        ELSE Whole(n)'
    BY <2>1, <2>2
  <2>5. (starts = 1 => \A x \in Deletable : Sound(x))'
    BY <1>1, <1>2, <2>1, ObjectsStay DEF StartGoesOn
  <2>6. (Running("stream") => todo["main"] = <<>>)'
    BY <1>10 DEF Running
  <2>7. QED
    BY <2>3, <2>4, <2>5, <2>6 DEF StartGoesOn
<1>12. HandlerInv'
  <2>1. \A t \in Threads : t \in Actors \ {"main"} /\ ~Frees(t) /\ todo[t] = <<>>
    BY <1>1, NobodyFrees DEF Threads, Actors
  <2>2. QED
    BY <1>6, <1>7, <2>1, HandlersAfter DEF Frees
<1>13. MainInv'
  BY <1>1, <1>2, <1>11, StartingAfter
<1>14. TypeInv'
  <2>1. /\ starts \in Nat /\ starts > 0 /\ handle \subseteq Threads
        /\ \A t \in Threads : thread[t] = "running" =>
             t \in handle /\ Launch(t) \in ToSet(stream_configure_and_start)
    BY <1>1 DEF Inv, TypeInv, Running
  <2>2. \A t \in Threads : thread'[t] = "running" =>
          t \in handle' /\ Launch(t) \in ToSet(stream_configure_and_start)
    BY <1>2, <1>4, <1>5, <1>7, <2>1
  <2>3. thread' \in [Threads -> {"none", "running", "freeing", "ended"}]
    BY <1>2, <1>3
  <2>4. QED
    BY <1>2, <1>5, <1>6, <2>1, <2>2, <2>3, TypeAfter
<1>15. ObjectInv'
  BY <1>2, ObjectInvStays DEF Inv
<1>16. NothingTwice'
  BY <1>2 DEF Inv, NothingTwice
<1>17. ThreadsUseLive'
  <2>1. dangling' = {}
    BY <1>2 DEF Inv, ThreadsUseLive
  <2>2. Needs' = BaseNeeds
    BY <1>1, <1>2, UseStays, NeedsAfter
  <2>3. \A x : Lives(x)' = Lives(x)
    BY <1>2, ObjectsStay
  <2>4. QED
    BY <1>8, <2>1, <2>2, <2>3 DEF ThreadsUseLive
<1>18. QED
  BY <1>12, <1>13, <1>14, <1>15, <1>16, <1>17 DEF Inv

LEMMA FailKeeps == ASSUME Orderly, Inv, Fail PROVE Inv'
<1>0. PICK h : h = Head(todo["main"])
  OBVIOUS
<1> DEFINE ended == IF thread["event"] = "running" THEN <<EndThreads, Join("event")>> ELSE <<>>
           gone == IF h.do = "new" THEN {h.what} ELSE {}
<1>1. /\ todo["main"] # <<>> /\ h.fails /\ starts \in use.failing /\ main = "starting"
      /\ main' \in {"starting", "giving up"}
      /\ todo' = [todo EXCEPT !["main"] = ended] /\ Set(gone, 0)
      /\ use' = use /\ starts' = starts /\ alive' = alive /\ thread' = thread
      /\ handle' = handle /\ twice' = twice /\ dangling' = dangling
  BY <1>0 DEF Fail
<1>2. StartGoesOn
  <2>1. StartGoesOn \/ StartFailed
    BY <1>1 DEF Inv, MainInv
  <2>2. QED
    BY <1>0, <1>1, <2>1, FailedSteps
<1>3. use \in Uses /\ starts = 1
  BY <1>1 DEF Orderly, OrderlyUse, Inv, TypeInv
<1>4. /\ \A x \in Deletable : Sound(x)
      /\ ~Running("stream")
  BY <1>1, <1>2, <1>3 DEF StartGoesOn
<1>5. gone # {} => h \in News /\ (Objects(h.what) = {} \/ Forgets(h.what))
  <2>1. h.do = "new" => h \in News /\ h \in ToSet(todo["main"])
    BY <1>0, <1>1, <1>2, HeadOfStart
  <2>2. QED
    BY <1>2, <2>1 DEF StartGoesOn
<1>6. \A x \in gone : x = h.what
  OBVIOUS
<1>7. ended \in Seq(Steps) /\ ended \in {<<EndThreads, Join("event")>>, <<>>}
      /\ (Running("event") => ended # <<>>)
  <2>1. CASE thread["event"] = "running"
    <3>1. Launch("event") \in ToSet(stream_configure_and_start)
      BY <2>1 DEF Inv, TypeInv, Running, Threads
    <3>2. Threaded
      <4>1. Launch("event") \in MemorySteps \cup QueueSteps \cup GraphMade
                                  \cup GraphUsed \cup LaunchSteps
        BY <1>3, <3>1, StartSteps
      <4>2. Launch("event").do = "launch"
        BY LaunchesCome
      <4>3. Launch("event") \in LaunchSteps
        BY <1>3, <4>1, <4>2, MemoryIsNoQueue, QueueStepsMake, GraphSteps DEF MemorySteps
      <4>4. QED
        BY <4>3 DEF LaunchSteps, Threaded
    <3>3. EndThreads \in Steps /\ Join("event") \in Steps
      BY <1>3, <3>2, FreeSteps DEF Steps, StopsOfUse, Stops, Threaded
    <3>4. <<EndThreads, Join("event")>> \in Seq(Steps) /\ <<EndThreads, Join("event")>> # <<>>
      BY <3>3
    <3>5. QED
      BY <2>1, <3>4
  <2>2. CASE thread["event"] # "running"
    BY <2>2 DEF Running
  <2>3. QED
    BY <2>1, <2>2
<1> HIDE DEF ended, gone
<1>8. todo \in [Actors -> Seq(Steps)]
  BY DEF Inv, TypeInv, Steps
<1>9. /\ todo' \in [Actors -> Seq(Steps)] /\ todo'["main"] = ended
      /\ \A b \in Actors \ {"main"} : todo'[b] = todo[b]
  BY <1>1, <1>7, <1>8 DEF Actors
<1>10. ptr' = [x \in DOMAIN ptr \cup gone |-> IF x \in gone THEN 0 ELSE ptr[x]]
  BY <1>1 DEF Set
<1>11. \A x : Objects(x)' = Objects(x)
  BY <1>1 DEF Objects
<1>12. /\ \A x \in gone : PointsTo(x)' = 0
       /\ \A x : x \notin gone => PointsTo(x)' = PointsTo(x)
  BY <1>10 DEF PointsTo
<1>13. \A x : Sound(x) => Sound(x)'
  BY <1>11, <1>12 DEF Sound, Lives
<1>14. StartFailed'
  <2>1. Deletable' = Deletable
    BY <1>1, UseStays
  <2>2. QED
    BY <1>1, <1>4, <1>7, <1>9, <1>13, <2>1 DEF StartFailed, Running
<1>15. MainInv'
  BY <1>1, <1>14 DEF MainInv
<1>16. HandlerInv'
  <2>1. \A t \in Threads : t \in Actors \ {"main"} /\ ~Frees(t) /\ todo[t] = <<>>
    BY <1>1, NobodyFrees DEF Threads, Actors
  <2>2. QED
    BY <1>1, <1>9, <2>1, HandlersAfter DEF Frees
<1>17. TypeInv'
  BY <1>1, <1>9, TypeStays
<1>18. ObjectInv'
  <2>0. News' = News /\ Deletable' = Deletable
    BY <1>1, UseStays
  <2>1. ASSUME NEW x \in DOMAIN alive', ~Forgets(x)
        PROVE  /\ alive'[x] = {} \/ alive'[x] = {PointsTo(x)'}
               /\ OwnerOf(x) \in Deletable
               /\ x[1] = "ring" => x \in Rings(x[2])
    <3>1. /\ alive[x] = {} \/ alive[x] = {PointsTo(x)}
          /\ OwnerOf(x) \in Deletable
          /\ x[1] = "ring" => x \in Rings(x[2])
      BY <1>1, <2>1 DEF Inv, ObjectInv
    <3>2. CASE x \in gone
      <4>1. Objects(x) = {}
        BY <1>5, <1>6, <2>1, <3>2
      <4>2. alive'[x] = {}
        BY <1>1, <2>1, <4>1 DEF Objects
      <4>3. QED
        BY <3>1, <4>2
    <3>3. CASE x \notin gone
      BY <1>1, <1>12, <3>1, <3>3
    <3>4. QED
      BY <3>2, <3>3
  <2>2. \A x \in DOMAIN ptr' : x \in UNION {{n.what} \cup n.with : n \in News}
    <3>1. DOMAIN ptr' = DOMAIN ptr \cup gone
      BY <1>10
    <3>2. \A x \in gone : x \in UNION {{n.what} \cup n.with : n \in News}
      BY <1>5, <1>6
    <3>3. QED
      BY <3>1, <3>2 DEF Inv, ObjectInv
  <2>3. \A k \in Nat, p \in Levels : Objects(<<"ring", k, p>>)' = Objects(queue(k))'
    BY <1>11 DEF Inv, ObjectInv
  <2>4. starts' # 0
    <3>1. starts' = 1
      BY <1>1, <1>3
    <3>2. QED
      BY <3>1
  <2>5. QED
    BY <2>0, <2>1, <2>2, <2>3, <2>4 DEF ObjectInv
<1>19. NothingTwice'
  BY <1>1 DEF Inv, NothingTwice
<1>20. ThreadsUseLive'
  <2>1. dangling' = {}
    BY <1>1 DEF Inv, ThreadsUseLive
  <2>2. Needs' = BaseNeeds /\ Needs = BaseNeeds
    BY <1>1, UseStays, NeedsAfter DEF Needs
  <2>3. ASSUME NEW x, Lives(x), x \in BaseNeeds PROVE Lives(x)'
    <3>1. ~Forgets(x)
      <4>1. x \in QueuesNeeded => x[1] = "queue"
        BY NamesDiffer DEF QueuesNeeded
      <4>2. x \in RingsNeeded => x[1] = "ring"
        BY DEF RingsNeeded, Rings
      <4>3. x \in PoolsNeeded => x[1] = "pool"
        BY DEF PoolsNeeded, Pools
      <4>4. QED
        BY <2>3, <4>1, <4>2, <4>3 DEF BaseNeeds, Forgets
    <3>2. Objects(x) # {}
      BY <2>3 DEF Lives
    <3>3. x \notin gone
      BY <1>5, <1>6, <3>1, <3>2
    <3>4. QED
      BY <1>11, <1>12, <2>3, <3>3 DEF Lives
  <2>4. QED
    BY <1>1, <2>1, <2>2, <2>3 DEF Inv, ThreadsUseLive
<1>21. QED
  BY <1>15, <1>16, <1>17, <1>18, <1>19, <1>20 DEF Inv

LEMMA StartKeeps == ASSUME Inv, Start PROVE Inv'
<1> DEFINE S == stream_configure_and_start
<1>1. /\ main = "out" /\ main' = "starting" /\ starts' = starts + 1
      /\ todo' = [todo EXCEPT !["main"] = S]
      /\ use' = use /\ ptr' = ptr /\ alive' = alive /\ thread' = thread
      /\ handle' = handle /\ twice' = twice /\ dangling' = dangling
  BY DEF Start
<1>2. /\ \A t \in Threads : ~Running(t)
      /\ \A x \in DOMAIN alive : Forgets(x) \/ alive[x] = {}
  BY <1>1 DEF Inv, MainInv
<1>3. /\ use \in Uses /\ starts \in Nat /\ handle \subseteq Threads
      /\ todo \in [Actors -> Seq(Steps)]
      /\ thread \in [Threads -> {"none", "running", "freeing", "ended"}]
  BY DEF Inv, TypeInv, Steps
<1>4. PartOf(S, S)
  BY <1>3, StartFacts
<1>5. S \in Seq(Steps)
  BY <1>4, SeqMonotonic DEF PartOf, Steps
<1> HIDE DEF S
<1>6. /\ todo' \in [Actors -> Seq(Steps)] /\ todo'["main"] = S
      /\ \A b \in Actors \ {"main"} : todo'[b] = todo[b]
  BY <1>1, <1>3, <1>5 DEF Actors
<1>7. \A x : Objects(x) = {} \/ Forgets(x)
  BY <1>2 DEF Objects
<1>8. /\ S' = S /\ News' = News /\ Deletable' = Deletable
  BY <1>1, UseStays DEF S
<1>9. \A x : /\ PointsTo(x)' = PointsTo(x) /\ Objects(x)' = Objects(x)
             /\ Lives(x)' = Lives(x) /\ Sound(x)' = Sound(x)
  BY <1>1, ObjectsStay
<1>10. StartGoesOn'
  <2>1. PartOf(todo["main"], stream_configure_and_start)'
    BY <1>4, <1>6, <1>8 DEF S, PartOf
  <2>2. News \subseteq ToSet(S)
    BY DEF News, S
  <2>3. \A n \in News' :
          IF n \in ToSet(todo["main"])' THEN Objects(n.what)' = {} \/ Forgets(n.what)
                                        ELSE Whole(n)'
    BY <1>6, <1>7, <1>8, <1>9, <2>2
  <2>4. (starts = 1 => \A x \in Deletable : Sound(x))'
    <3> SUFFICES ASSUME starts' = 1 PROVE \A x \in Deletable : Sound(x)'
      BY <1>8
    <3>1. starts = 0
      BY <1>1, <1>3
    <3>2. ptr = Never
      BY <3>1 DEF Inv, ObjectInv
    <3>3. \A x : PointsTo(x) = 0
      BY <3>2 DEF PointsTo, Never
    <3>4. QED
      BY <1>9, <3>3 DEF Sound
  <2>5. (Running("stream") => todo["main"] = <<>>)'
    BY <1>1, <1>2 DEF Running, Threads
  <2>6. QED
    BY <2>1, <2>3, <2>4, <2>5 DEF StartGoesOn
<1>11. HandlerInv'
  <2>1. \A t \in Threads : t \in Actors \ {"main"} /\ ~Frees(t) /\ todo[t] = <<>>
    BY <1>1, NobodyFrees DEF Threads, Actors
  <2>2. QED
    BY <1>1, <1>6, <2>1, HandlersAfter DEF Frees
<1>12. MainInv'
  BY <1>1, <1>10, StartingAfter
<1>13. TypeInv'
  <2>1. starts' \in Nat /\ starts' > 0
    BY <1>1, <1>3
  <2>2. QED
    BY <1>1, <1>2, <1>3, <1>6, <2>1, TypeAfter DEF Running
<1>14. ObjectInv'
  <2>1. starts' # 0
    BY <1>1, <1>3
  <2>2. QED
    BY <1>1, <2>1, ObjectInvStays DEF Inv
<1>15. NothingTwice'
  BY <1>1 DEF Inv, NothingTwice
<1>16. ThreadsUseLive'
  BY <1>1, ThreadsStay DEF Inv
<1>17. QED
  BY <1>11, <1>12, <1>13, <1>14, <1>15, <1>16 DEF Inv

(***************************************************************************)
(* The main thread goes on.                                                *)
(***************************************************************************)
LEMMA NothingLeft == \A W : PartOf(<<>>, W) /\ ToSet(<<>>) = {}
  BY EmptySeq DEF PartOf, Ordered, Once, ToSet

(* What a complete start has made lives, and so can be deleted.              *)
LEMMA StartComplete ==
  ASSUME Inv, StartGoesOn, todo["main"] = <<>>
  PROVE  /\ \A n \in News : Whole(n)
         /\ \A x \in Deletable : Sound(x)
<1>1. \A n \in News : Whole(n)
  BY NothingLeft DEF StartGoesOn
<1>2. use \in Uses
  BY DEF Inv, TypeInv
<1>3. ASSUME NEW x \in Deletable PROVE Sound(x)
  <2>1. x[1] # "ring" /\ ~Forgets(x)
    BY <1>2, FreeFacts DEF Deletable
  <2>2. CASE x \notin DOMAIN ptr
    BY <2>2 DEF Sound, PointsTo
  <2>3. CASE x \in DOMAIN ptr
    <3>1. PICK n \in News : x \in {n.what} \cup n.with
      BY <2>3 DEF Inv, ObjectInv
    <3>2. QED
      BY <1>1, <3>1 DEF Whole, Sound
  <2>4. QED
    BY <2>2, <2>3
<1>4. QED
  BY <1>1, <1>3

(* A release that begins.                                                   *)
LEMMA ReleaseBegins ==
  ASSUME Inv, NEW a, todo'[a] = stream_free_all, use' = use, ptr' = ptr, alive' = alive,
         \A t \in Threads : thread'[t] = "running" => thread[t] = "running",
         \A x \in Deletable : Sound(x)
  PROVE  Releasing(a)'
<1>1. use \in Uses
  BY DEF Inv, TypeInv
<1>2. stream_free_all' = stream_free_all
  BY UseStays
<1>3. PartOf(todo[a], stream_free_all)'
  BY <1>1, <1>2, FreeFacts DEF PartOf
<1>4. \A x : Sound(x)' = Sound(x)
  BY ObjectsStay
<1>5. \A s \in ToSet(stream_free_all) : s.do = "delete" => Sound(s.what)'
  BY <1>4 DEF Deletable
<1>6. \A x \in DOMAIN alive :
        ~Forgets(x) /\ alive[x] # {} =>
          \E s \in ToSet(stream_free_all) : s.do = "delete" /\ s.what = OwnerOf(x)
  <2>1. \A x \in DOMAIN alive : ~Forgets(x) => OwnerOf(x) \in Deletable
    BY DEF Inv, ObjectInv
  <2>2. QED
    BY <2>1 DEF Deletable
<1>7. \A t \in Threads : thread'[t] = "running" => Join(t) \in ToSet(stream_free_all)
  BY <1>1, FreeFacts DEF Inv, TypeInv, Running
<1>8. QED
  BY <1>3, <1>5, <1>6, <1>7 DEF Releasing, Running

LEMMA MainGoesOnKeeps == ASSUME Orderly, Inv, MainGoesOn PROVE Inv'
<1>1. /\ todo["main"] = <<>>
      /\ use' = use /\ starts' = starts /\ ptr' = ptr /\ alive' = alive /\ thread' = thread
      /\ handle' = handle /\ twice' = twice /\ dangling' = dangling
  BY DEF MainGoesOn
<1>2. /\ use \in Uses /\ todo \in [Actors -> Seq(Steps)] /\ (main # "out" => starts > 0)
      /\ "main" \in Actors
  BY DEF Inv, TypeInv, Steps, Actors
<1>3. ObjectInv' /\ NothingTwice'
  <2>1. ObjectInv'
    BY <1>1, ObjectInvStays DEF Inv
  <2>2. QED
    BY <1>1, <2>1 DEF Inv, NothingTwice
<1>4. \A x : Lives(x)' = Lives(x) /\ Sound(x)' = Sound(x)
  BY <1>1, ObjectsStay
<1>5. /\ Deletable' = Deletable /\ BaseNeeds' = BaseNeeds
      /\ Graph(Program)' = Graph(Program)
  BY <1>1, UseStays
<1>6. CASE /\ main = "starting" /\ main' = IF use.waits THEN "waiting" ELSE "running"
           /\ todo' = [todo EXCEPT !["main"] = IF use.waits THEN Wait ELSE <<>>]
  <2>1. use.waits \in BOOLEAN
    BY <1>2, UsesAssumption
  <2>2. Wait \in Seq(Steps) /\ <<>> \in Seq(Steps) /\ Wait \in Seq(ToSet(Wait))
        /\ <<>> \in Seq(ToSet(Wait))
    BY WaitSteps, SeqMonotonic DEF Steps
  <2>3. /\ todo' \in [Actors -> Seq(Steps)]
        /\ todo'["main"] = IF use.waits THEN Wait ELSE <<>>
        /\ \A b \in Actors \ {"main"} : todo'[b] = todo[b]
    BY <1>2, <1>6, <2>2
  <2>4. \A x \in Deletable : Sound(x)
    <3>1. CASE StartGoesOn
      BY <1>1, <3>1, StartComplete
    <3>2. CASE StartFailed
      BY <3>2 DEF StartFailed
    <3>3. QED
      BY <1>6, <3>1, <3>2 DEF Inv, MainInv
  <2>5. \A x \in Deletable' : Sound(x)'
    BY <1>4, <1>5, <2>4
  <2>6. MainInv'
    BY <1>1, <1>6, <2>2, <2>3, <2>5 DEF MainInv
  <2>7. HandlerInv'
    <3>1. \A t \in Threads : t \in Actors \ {"main"} /\ ~Frees(t) /\ todo[t] = <<>>
      BY <1>6, NobodyFrees DEF Threads, Actors
    <3>2. QED
      BY <1>1, <2>3, <3>1, HandlersAfter DEF Frees
  <2>8. TypeInv'
    BY <1>1, <1>6, <2>3, TypeStays
  <2>9. ThreadsUseLive'
    <3>1. dangling' = {}
      BY <1>1 DEF Inv, ThreadsUseLive
    <3>2. ASSUME NEW t \in Threads, thread[t] = "running" PROVE \A x \in Needs' : Lives(x)
      <4>1. StartGoesOn
        <5>1. ~StartFailed
          BY <1>1, <3>2 DEF StartFailed, Running, Threads
        <5>2. QED
          BY <1>6, <5>1 DEF Inv, MainInv
      <4>2. \A n \in News : Whole(n)
        BY <1>1, <4>1, StartComplete
      <4>3. \A x \in Graph(Program) : Lives(x)
        BY <1>2, <4>2, StartFacts DEF Whole
      <4>4. \A x \in BaseNeeds : Lives(x)
        BY <3>2 DEF Inv, ThreadsUseLive, Needs
      <4>5. QED
        BY <1>5, <4>3, <4>4, NeedsAfter
    <3>3. QED
      BY <1>1, <1>4, <3>1, <3>2 DEF ThreadsUseLive
  <2>10. QED
    BY <1>3, <2>6, <2>7, <2>8, <2>9 DEF Inv
<1>7. CASE main = "giving up" /\ main' = "exited" /\ UNCHANGED todo
  <2>1. \A t \in Threads : thread[t] # "running"
    BY <1>1, <1>7 DEF Inv, MainInv, StartFailed, Running, Threads
  <2>2. MainInv'
    BY <1>1, <1>7, <2>1 DEF MainInv, Running
  <2>3. HandlerInv'
    <3>1. \A t \in Threads : ~Frees(t) /\ todo[t] = <<>>
      BY <1>7, NobodyFrees
    <3>2. QED
      BY <1>1, <1>7, <3>1, HandlersAfter DEF Frees
  <2>4. TypeInv'
    BY <1>1, <1>2, <1>7, TypeStays
  <2>5. ThreadsUseLive'
    BY <1>1, <2>1 DEF Inv, ThreadsUseLive
  <2>6. QED
    BY <1>3, <2>2, <2>3, <2>4, <2>5 DEF Inv
<1>8. CASE /\ main = "waiting" \/ (main = "running" /\ use.frees)
           /\ main' = "freeing"
           /\ todo' = [todo EXCEPT !["main"] = stream_free_all]
  <2>1. \A t \in Threads : ~Frees(t) /\ todo[t] = <<>>
    <3>1. \A t \in Threads : Frees(t) => main = "running" /\ use.handlers # {}
      BY <1>8 DEF Inv, HandlerInv
    <3>2. use.handlers # {} => ~use.frees
      BY <1>2 DEF Orderly, OrderlyUse
    <3>3. QED
      BY <1>8, <3>1, <3>2 DEF Inv, HandlerInv
  <2>2. \A x \in Deletable : Sound(x)
    BY <1>8, <2>1 DEF Inv, MainInv
  <2>3. stream_free_all \in Seq(Steps)
    <3>1. stream_free_all \in Seq(ToSet(stream_free_all))
      BY <1>2, FreeFacts DEF PartOf
    <3>2. QED
      BY <3>1, SeqMonotonic DEF Steps
  <2>4. /\ todo' \in [Actors -> Seq(Steps)] /\ todo'["main"] = stream_free_all
        /\ \A b \in Actors \ {"main"} : todo'[b] = todo[b]
    BY <1>2, <1>8, <2>3
  <2>5. Releasing("main")'
    BY <1>1, <2>2, <2>4, ReleaseBegins
  <2>6. MainInv'
    BY <1>8, <2>5 DEF MainInv
  <2>7. HandlerInv'
    <3>1. \A t \in Threads : t \in Actors \ {"main"}
      BY DEF Threads, Actors
    <3>2. QED
      BY <1>1, <2>1, <2>4, <3>1, HandlersAfter DEF Frees
  <2>8. TypeInv'
    BY <1>1, <1>8, <2>4, TypeStays
  <2>9. ThreadsUseLive'
    BY <1>1, <1>8, ThreadsStay DEF Inv
  <2>10. QED
    BY <1>3, <2>6, <2>7, <2>8, <2>9 DEF Inv
<1>9. CASE main = "freeing" /\ main' = "out" /\ UNCHANGED todo
  <2>1. Releasing("main") /\ ToSet(todo["main"]) = {}
    BY <1>1, <1>9, NothingLeft DEF Inv, MainInv
  <2>2. /\ \A x \in DOMAIN alive : Forgets(x) \/ alive[x] = {}
        /\ \A t \in Threads : thread[t] # "running"
    BY <2>1 DEF Releasing, Running
  <2>3. MainInv'
    BY <1>1, <1>9, <2>2 DEF MainInv, Running
  <2>4. HandlerInv'
    <3>1. \A t \in Threads : ~Frees(t) /\ todo[t] = <<>>
      BY <1>9, NobodyFrees
    <3>2. QED
      BY <1>1, <1>9, <3>1, HandlersAfter DEF Frees
  <2>5. TypeInv'
    BY <1>1, <1>2, <1>9, TypeStays
  <2>6. ThreadsUseLive'
    BY <1>1, <2>2 DEF Inv, ThreadsUseLive
  <2>7. QED
    BY <1>3, <2>3, <2>4, <2>5, <2>6 DEF Inv
<1>10. QED
  BY <1>6, <1>7, <1>8, <1>9 DEF MainGoesOn

(***************************************************************************)
(* The steps that end threads.                                             *)
(***************************************************************************)
(* While a thread that has met an error frees, the main thread does nothing. *)
LEMMA HandlerFrees ==
  ASSUME Inv, NEW a \in Threads, main = "running", Frees(a), main' = main, use' = use,
         thread' = thread, \A b \in Actors \ {a} : todo'[b] = todo[b], Releasing(a)'
  PROVE  MainInv' /\ HandlerInv'
<1>1. todo["main"] = <<>> /\ todo'["main"] = todo["main"]
  BY DEF Inv, MainInv, Actors, Threads
<1>2. \A t \in Threads : Frees(t)' <=> Frees(t)
  BY DEF Frees
<1>3. /\ a \in use.handlers
      /\ \A u \in Threads \ {a} : ~Frees(u) /\ todo[u] = <<>> /\ u \in Actors \ {a}
  BY DEF Inv, HandlerInv, Actors
<1>4. HandlerInv'
  <2>1. ASSUME NEW t \in Threads, t # a PROVE ~Frees(t)' /\ todo'[t] = <<>>
    BY <1>2, <1>3, <2>1
  <2>2. Frees(a)' /\ a \in use.handlers' /\ main' = "running"
    BY <1>2, <1>3
  <2>3. QED
    BY <2>1, <2>2 DEF HandlerInv
<1>5. MainInv'
  <2>1. todo'["main"] \in Seq(ToSet(Wait))
    BY <1>1
  <2>2. \E t \in Threads : Frees(t)'
    BY <1>2
  <2>3. QED
    BY <1>1, <2>1, <2>2 DEF MainInv
<1>6. QED
  BY <1>4, <1>5

(* The main thread acts.                                                    *)
LEMMA MainActs ==
  ASSUME Inv, main \notin {"running", "exited"}, thread' = thread,
         \A b \in Actors \ {"main"} : todo'[b] = todo[b]
  PROVE  HandlerInv'
<1>1. \A t \in Threads : t \in Actors \ {"main"} /\ ~Frees(t) /\ todo[t] = <<>>
  BY NobodyFrees DEF Threads, Actors
<1>2. QED
  BY <1>1, HandlersAfter DEF Frees

LEMMA ReleaseGoesOn ==
  ASSUME Inv, NEW a \in Actors, Releasing(a), todo[a] # <<>>, Going(a),
         Head(todo[a]).do \in {"end", "join"}, use' = use, ptr' = ptr, alive' = alive,
         thread' = thread,
         \A u \in Threads : Running(u) => Head(todo[a]).do # "join" \/ Head(todo[a]).what # u
  PROVE  Releasing(a)'
<1>0. PICK h : h = Head(todo[a])
  OBVIOUS
<1>1. todo'[a] = Tail(todo[a])
  BY GoesOn
<1>2. /\ PartOf(Tail(todo[a]), stream_free_all)
      /\ ToSet(todo[a]) = {h} \cup ToSet(Tail(todo[a]))
  BY <1>0, HeadAndTail DEF Releasing
<1>3. stream_free_all' = stream_free_all
  BY UseStays
<1>4. \A x : Sound(x)' = Sound(x)
  BY ObjectsStay
<1>5. PartOf(todo[a], stream_free_all)'
  BY <1>1, <1>2, <1>3 DEF PartOf
<1>6. \A s \in ToSet(todo'[a]) : s.do = "delete" => Sound(s.what)'
  BY <1>1, <1>2, <1>4 DEF Releasing
<1>7. \A x \in DOMAIN alive :
        ~Forgets(x) /\ alive[x] # {} =>
          \E s \in ToSet(todo'[a]) : s.do = "delete" /\ s.what = OwnerOf(x)
  BY <1>0, <1>1, <1>2 DEF Releasing
<1>8. \A u \in Threads : Running(u) => Join(u) \in ToSet(todo'[a])
  <2> SUFFICES ASSUME NEW u \in Threads, Running(u) PROVE Join(u) \in ToSet(todo'[a])
    OBVIOUS
  <2>1. Join(u) \in ToSet(todo[a])
    BY DEF Releasing
  <2>2. Join(u) # h
    BY <1>0, StopSteps
  <2>3. QED
    BY <1>1, <1>2, <2>1, <2>2
<1>9. QED
  BY <1>5, <1>6, <1>7, <1>8 DEF Releasing, Running

LEMMA StopsKeep ==
  ASSUME Inv, NEW a \in Actors, todo[a] # <<>>, main # "exited",
         Head(todo[a]).do \in {"end", "join"}, Going(a),
         use' = use, main' = main, starts' = starts, ptr' = ptr, alive' = alive,
         thread' = thread, twice' = twice, dangling' = dangling, handle' \subseteq handle,
         \A u \in Threads : Running(u) =>
           u \in handle' /\ (Head(todo[a]).do # "join" \/ Head(todo[a]).what # u)
  PROVE  Inv'
<1>1. /\ todo' \in [Actors -> Seq(Steps)] /\ todo'[a] = Tail(todo[a])
      /\ \A b \in Actors \ {a} : todo'[b] = todo[b]
  BY GoesOn
<1>2. TypeInv'
  <2>1. /\ starts \in Nat /\ (main # "out" => starts > 0) /\ handle \subseteq Threads
        /\ thread \in [Threads -> {"none", "running", "freeing", "ended"}]
        /\ \A t \in Threads : thread[t] = "running" =>
             Launch(t) \in ToSet(stream_configure_and_start)
    BY DEF Inv, TypeInv, Running
  <2>2. \A t \in Threads : thread'[t] = "running" =>
          t \in handle' /\ Launch(t) \in ToSet(stream_configure_and_start)
    BY <2>1 DEF Running
  <2>3. QED
    BY <1>1, <2>1, <2>2, TypeAfter
<1>3. ObjectInv' /\ NothingTwice' /\ ThreadsUseLive'
  <2>1. ObjectInv'
    BY ObjectInvStays DEF Inv
  <2>2. ThreadsUseLive'
    BY ThreadsStay DEF Inv
  <2>3. QED
    BY <2>1, <2>2 DEF Inv, NothingTwice
<1>4. CASE a = "main" /\ main \in {"starting", "giving up"} /\ StartFailed
  <2>1. \/ Head(todo["main"]) = EndThreads /\ Tail(todo["main"]) = <<Join("event")>>
        \/ Head(todo["main"]) = Join("event") /\ Tail(todo["main"]) = <<>>
    BY <1>4, FailedSteps
  <2>2. Head(todo["main"]) = Join("event") => thread'["event"] # "running"
    BY <1>4, StopSteps DEF Running, Threads
  <2>3. \A x \in Deletable' : Sound(x)'
    BY <1>4, UseStays, ObjectsStay DEF StartFailed
  <2>4. thread'["stream"] # "running"
    BY <1>4 DEF StartFailed, Running
  <2>5. <<Join("event")>> # <<>>
    OBVIOUS
  <2>6. StartFailed'
    <3>1. todo'["main"] \in {<<EndThreads, Join("event")>>, <<Join("event")>>, <<>>}
      BY <1>1, <1>4, <2>1
    <3>2. thread'["event"] = "running" => todo'["main"] # <<>>
      BY <1>1, <1>4, <2>1, <2>2, <2>5
    <3>3. QED
      BY <2>3, <2>4, <3>1, <3>2 DEF StartFailed, Running
  <2>7. MainInv'
    BY <1>4, <2>6 DEF MainInv
  <2>8. QED
    BY <1>1, <1>2, <1>3, <1>4, <2>7, MainActs DEF Inv
<1>5. CASE a = "main" /\ main = "waiting" /\ todo["main"] \in Seq(ToSet(Wait))
  <2>1. todo'["main"] \in Seq(ToSet(Wait))
    BY <1>1, <1>5, WaitingSteps
  <2>2. \A x \in Deletable' : Sound(x)'
    <3>1. \A t \in Threads : ~Frees(t)
      BY <1>5, NobodyFrees
    <3>2. QED
      BY <1>5, <3>1, UseStays, ObjectsStay DEF Inv, MainInv
  <2>3. use'.waits
    BY <1>5 DEF Inv, MainInv
  <2>4. MainInv'
    BY <1>5, <2>1, <2>2, <2>3 DEF MainInv
  <2>5. QED
    BY <1>1, <1>2, <1>3, <1>5, <2>4, MainActs DEF Inv
<1>6. CASE a = "main" /\ main = "freeing" /\ Releasing("main")
  <2>1. Releasing("main")'
    BY <1>6, ReleaseGoesOn
  <2>2. MainInv'
    BY <1>6, <2>1 DEF MainInv
  <2>3. QED
    BY <1>1, <1>2, <1>3, <1>6, <2>2, MainActs DEF Inv
<1>7. CASE a \in Threads /\ main = "running" /\ Frees(a) /\ Releasing(a)
  <2>1. Releasing(a)'
    BY <1>7, ReleaseGoesOn
  <2>2. MainInv' /\ HandlerInv'
    BY <1>1, <1>7, <2>1, HandlerFrees
  <2>3. QED
    BY <1>2, <1>3, <2>2 DEF Inv
<1>8. QED
  BY <1>4, <1>5, <1>6, <1>7, StoppingActs

LEMMA AskToEndKeeps == ASSUME Inv, NEW a \in Actors, AskToEnd(a) PROVE Inv'
<1>1. /\ todo[a] # <<>> /\ Head(todo[a]).do = "end" /\ main # "exited" /\ Going(a)
      /\ use' = use /\ main' = main /\ starts' = starts /\ ptr' = ptr /\ alive' = alive
      /\ thread' = thread /\ handle' = handle /\ twice' = twice /\ dangling' = dangling
  BY DEF AskToEnd, Next1
<1>2. \A u \in Threads : Running(u) =>
        u \in handle' /\ (Head(todo[a]).do # "join" \/ Head(todo[a]).what # u)
  BY <1>1 DEF Inv, TypeInv
<1>3. QED
  BY <1>1, <1>2, StopsKeep

LEMMA JoinKeeps == ASSUME Inv, NEW a \in Actors, JoinThread(a) PROVE Inv'
<1>0. PICK h : h = Head(todo[a])
  OBVIOUS
<1>1. /\ todo[a] # <<>> /\ h.do = "join" /\ main # "exited" /\ Going(a)
      /\ h.what = a \/ h.what \notin handle \/ thread[h.what] = "ended"
      /\ handle' = handle \ {h.what}
      /\ use' = use /\ main' = main /\ starts' = starts /\ ptr' = ptr /\ alive' = alive
      /\ thread' = thread /\ twice' = twice /\ dangling' = dangling
  BY <1>0 DEF JoinThread, Next1
<1>2. ASSUME NEW u \in Threads, Running(u) PROVE h.what # u /\ u \in handle
  <2>1. u \in handle /\ thread[u] # "ended" /\ thread[u] # "freeing"
    BY <1>2 DEF Inv, TypeInv, Running
  <2>2. a \in Threads => Frees(a)
    BY <1>0, <1>1, StoppingActs DEF Threads
  <2>3. a # u
    BY <2>1, <2>2 DEF Frees
  <2>4. QED
    BY <1>1, <2>1, <2>3
<1>3. \A u \in Threads : Running(u) =>
        u \in handle' /\ (Head(todo[a]).do # "join" \/ Head(todo[a]).what # u)
  BY <1>0, <1>1, <1>2
<1>4. QED
  BY <1>0, <1>1, <1>3, StopsKeep

LEMMA ThreadEndsKeeps == ASSUME Inv, NEW u \in Threads, ThreadEnds(u) PROVE Inv'
<1>1. /\ main # "exited" /\ thread[u] = "running"
      /\ thread' = [thread EXCEPT ![u] = "ended"]
      /\ use' = use /\ todo' = todo /\ main' = main /\ starts' = starts /\ ptr' = ptr
      /\ alive' = alive /\ handle' = handle /\ twice' = twice /\ dangling' = dangling
  BY DEF ThreadEnds
<1>2. /\ use \in Uses /\ starts \in Nat /\ (main # "out" => starts > 0)
      /\ handle \subseteq Threads /\ todo \in [Actors -> Seq(Steps)]
      /\ thread \in [Threads -> {"none", "running", "freeing", "ended"}]
  BY DEF Inv, TypeInv, Steps
<1>3. \A t \in Threads : thread'[t] = IF t = u THEN "ended" ELSE thread[t]
  BY <1>1, <1>2
<1>4. /\ \A t \in Threads : Running(t)' => Running(t)
      /\ \A t \in Threads : Frees(t)' <=> Frees(t)
  BY <1>1, <1>3 DEF Running, Frees
<1>5. /\ stream_configure_and_start' = stream_configure_and_start
      /\ stream_free_all' = stream_free_all /\ Deletable' = Deletable /\ News' = News
  BY <1>1, UseStays
<1>6. \A x : Sound(x)' = Sound(x) /\ Objects(x)' = Objects(x)
  BY <1>1, ObjectsStay
<1>7. \A n : Whole(n)' = Whole(n)
  BY <1>1, WholesStay
<1>8. ASSUME NEW b, Releasing(b) PROVE Releasing(b)'
  <2>1. PartOf(todo[b], stream_free_all)'
    BY <1>1, <1>5, <1>8 DEF Releasing, PartOf
  <2>2. \A s \in ToSet(todo'[b]) : s.do = "delete" => Sound(s.what)'
    BY <1>1, <1>6, <1>8 DEF Releasing
  <2>3. \A t \in Threads : Running(t)' => Join(t) \in ToSet(todo'[b])
    BY <1>1, <1>4, <1>8 DEF Releasing
  <2>4. QED
    BY <1>1, <1>8, <2>1, <2>2, <2>3 DEF Releasing
<1>9. StartGoesOn => StartGoesOn'
  <2> SUFFICES ASSUME StartGoesOn PROVE StartGoesOn'
    OBVIOUS
  <2>1. PartOf(todo["main"], stream_configure_and_start)'
    BY <1>1, <1>5 DEF StartGoesOn, PartOf
  <2>2. \A n \in News' :
          IF n \in ToSet(todo["main"])' THEN Objects(n.what)' = {} \/ Forgets(n.what)
                                        ELSE Whole(n)'
    BY <1>1, <1>5, <1>6, <1>7 DEF StartGoesOn
  <2>3. (starts = 1 => \A x \in Deletable : Sound(x))'
    BY <1>1, <1>5, <1>6 DEF StartGoesOn
  <2>4. (Running("stream") => todo["main"] = <<>>)'
    BY <1>1, <1>4 DEF StartGoesOn, Threads
  <2>5. QED
    BY <2>1, <2>2, <2>3, <2>4 DEF StartGoesOn
<1>10. StartFailed => StartFailed'
  BY <1>1, <1>4, <1>5, <1>6 DEF StartFailed, Threads
<1>11. MainInv'
  BY <1>1, <1>4, <1>5, <1>6, <1>8, <1>9, <1>10 DEF Inv, MainInv
<1>12. HandlerInv'
  BY <1>1, <1>4, <1>8 DEF Inv, HandlerInv
<1>13. TypeInv'
  <2>1. \A t \in Threads : thread'[t] = "running" =>
          t \in handle' /\ Launch(t) \in ToSet(stream_configure_and_start)
    BY <1>1, <1>3 DEF Inv, TypeInv, Running
  <2>2. thread' \in [Threads -> {"none", "running", "freeing", "ended"}]
    BY <1>1, <1>2
  <2>3. QED
    BY <1>1, <1>2, <2>1, <2>2, TypeAfter
<1>14. ObjectInv' /\ NothingTwice'
  <2>1. ObjectInv'
    BY <1>1, ObjectInvStays DEF Inv
  <2>2. QED
    BY <1>1, <2>1 DEF Inv, NothingTwice
<1>15. ThreadsUseLive'
  BY <1>1, <1>4, ThreadsStay DEF Inv, Running
<1>16. QED
  BY <1>11, <1>12, <1>13, <1>14, <1>15 DEF Inv

(***************************************************************************)
(* A deletion.                                                             *)
(***************************************************************************)
LEMMA DestroyKeeps == ASSUME Inv, NEW a \in Actors, Destroy(a) PROVE Inv'
<1>0. PICK h : h = Head(todo[a])
  OBVIOUS
<1>00. PICK x : x = h.what
  OBVIOUS
<1> DEFINE dead == {x} \cup Parts(x)
           gone == IF h.cleared THEN {x} ELSE {}
<1>1. /\ todo[a] # <<>> /\ h.do = "delete" /\ main # "exited" /\ Going(a)
      /\ twice' = IF PointsTo(x) = 0 \/ Lives(x) THEN twice ELSE twice \cup {x}
      /\ Dies(dead, PointsTo(x)) /\ Set(gone, 0) /\ dangling' = dangling \cup Holders(x)
      /\ use' = use /\ main' = main /\ starts' = starts /\ thread' = thread
      /\ handle' = handle
  BY <1>0, <1>00 DEF Destroy, Next1
<1>2. Releasing(a) /\ \/ a = "main" /\ main = "freeing"
                      \/ a \in Threads /\ main = "running" /\ Frees(a)
  BY <1>0, <1>1, DeletingActs
<1>3. use \in Uses /\ (main # "out" => starts > 0)
  BY DEF Inv, TypeInv
<1>4. /\ todo' \in [Actors -> Seq(Steps)] /\ todo'[a] = Tail(todo[a])
      /\ \A b \in Actors \ {a} : todo'[b] = todo[b]
  BY <1>1, GoesOn
<1>5. /\ h \in ToSet(stream_free_all) /\ PartOf(Tail(todo[a]), stream_free_all)
      /\ ToSet(todo[a]) = {h} \cup ToSet(Tail(todo[a]))
      /\ \A s \in ToSet(Tail(todo[a])) : ~Same(s, h) /\ s \in ToSet(stream_free_all)
      /\ \A s \in ToSet(todo[a]) : ~Before(s, h) /\ s \in ToSet(stream_free_all)
  <2>1. PartOf(todo[a], stream_free_all)
    BY <1>2 DEF Releasing
  <2>2. ToSet(todo[a]) \subseteq ToSet(stream_free_all)
    BY <1>1, <2>1, HeadAndTail
  <2>3. \A s \in ToSet(Tail(todo[a])) : ~Same(s, h)
    BY <1>0, <1>1, <2>1, HeadAndTail DEF Tested, Same
  <2>4. QED
    BY <1>0, <1>1, <2>1, <2>2, <2>3, HeadAndTail
<1>6. /\ x[1] # "ring" /\ ~Forgets(x)
      /\ x[1] = "queue" => x = queue(x[2]) /\ x[2] \in Nat
      /\ h.cleared => \E n \in News : n.what = x
      /\ \A t : Before(Join(t), h)
      /\ x \in Pools =>
           \A e \in ToSet(stream_free_all) :
             e.do = "delete" /\ e.what[1] \in {"queue", "node", "fifo"} => Before(e, h)
  BY <1>00, <1>1, <1>3, <1>5, FreeFacts
<1>7. x \in Deletable /\ Sound(x) /\ OwnerOf(x) = x
  <2>1. x \in Deletable
    BY <1>00, <1>1, <1>5 DEF Deletable
  <2>2. Sound(x)
    BY <1>00, <1>1, <1>2, <1>5 DEF Releasing
  <2>3. QED
    BY <1>6, <2>1, <2>2 DEF OwnerOf
<1>8. ASSUME NEW y \in Parts(x)
      PROVE  /\ x = queue(x[2]) /\ x[2] \in Nat /\ y[1] = "ring" /\ y[2] = x[2]
             /\ y \in Rings(x[2]) /\ OwnerOf(y) = x /\ Objects(y) = Objects(x)
  <2>1. x[1] = "queue" /\ y \in Rings(x[2])
    BY <1>8 DEF Parts
  <2>2. PICK p \in Levels : y = <<"ring", x[2], p>>
    BY <2>1 DEF Rings
  <2>3. y[1] = "ring" /\ y[2] = x[2]
    BY <2>2
  <2>4. Objects(<<"ring", x[2], p>>) = Objects(queue(x[2]))
    BY <1>6, <2>1 DEF Inv, ObjectInv
  <2>5. QED
    BY <1>6, <2>1, <2>2, <2>3, <2>4 DEF OwnerOf
<1>9. ASSUME NEW y, y[1] # "ring", y # x PROVE y \notin dead
  BY <1>8, <1>9
<1>10. ASSUME NEW y, y \in dead
       PROVE  /\ OwnerOf(y) = x /\ Objects(y) = Objects(x)
              /\ y[1] = "ring" => y \in Rings(y[2])
  BY <1>6, <1>7, <1>8, <1>10
<1>11. ASSUME NEW y, y[1] = "ring" => y \in Rings(y[2]), OwnerOf(y) = x PROVE y \in dead
  <2>1. CASE y[1] # "ring"
    BY <1>11, <2>1 DEF OwnerOf
  <2>2. CASE y[1] = "ring"
    <3>1. x = queue(y[2]) /\ y \in Rings(y[2])
      BY <1>11, <2>2 DEF OwnerOf
    <3>2. x[1] = "queue" /\ x[2] = y[2]
      BY <3>1, NamesDiffer
    <3>3. QED
      BY <3>1, <3>2 DEF Parts
  <2>3. QED
    BY <2>1, <2>2
<1>12. \A y \in gone : y = x
  OBVIOUS
<1>13. gone \subseteq UNION {{n.what} \cup n.with : n \in News}
  BY <1>6
<1>14. x \in dead
  OBVIOUS
<1> HIDE DEF dead, gone
<1>15. Objects(x) \ {PointsTo(x)} = {}
  <2>1. x \in DOMAIN alive => alive[x] = {} \/ alive[x] = {PointsTo(x)}
    BY <1>6 DEF Inv, ObjectInv
  <2>2. QED
    BY <2>1 DEF Objects
<1>16. /\ DOMAIN alive' = DOMAIN alive \cup dead
       /\ \A y \in dead : alive'[y] = {} /\ Objects(y)' = {}
       /\ \A y : y \notin dead => Objects(y)' = Objects(y)
       /\ \A y \in DOMAIN alive : y \notin dead => alive'[y] = alive[y]
  <2>1. alive' = [y \in DOMAIN alive \cup dead |->
                    IF y \in dead THEN Objects(y) \ {PointsTo(x)} ELSE alive[y]]
    BY <1>1 DEF Dies
  <2>2. \A y \in dead : alive'[y] = {}
    BY <1>10, <1>15, <2>1
  <2>3. QED
    BY <2>1, <2>2 DEF Objects
<1>17. /\ DOMAIN ptr' = DOMAIN ptr \cup gone
       /\ \A y : y \notin gone => PointsTo(y)' = PointsTo(y)
  <2>1. ptr' = [y \in DOMAIN ptr \cup gone |-> IF y \in gone THEN 0 ELSE ptr[y]]
    BY <1>1 DEF Set
  <2>2. QED
    BY <2>1 DEF PointsTo
<1>18. \A y : y \notin dead => (Sound(y) => Sound(y)')
  BY <1>12, <1>14, <1>16, <1>17 DEF Sound, Lives
<1>19. \A u \in Threads : ~Running(u)
  <2> SUFFICES ASSUME NEW u \in Threads, Running(u) PROVE FALSE
    OBVIOUS
  <2>1. Join(u) \in ToSet(todo[a])
    BY <1>2 DEF Releasing
  <2>2. QED
    BY <1>5, <1>6, <2>1
<1>20. Releasing(a)'
  <2>1. stream_free_all' = stream_free_all
    BY <1>1, UseStays
  <2>2. PartOf(todo[a], stream_free_all)'
    BY <1>4, <1>5, <2>1 DEF PartOf
  <2>3. ASSUME NEW s \in ToSet(todo'[a]), s.do = "delete" PROVE Sound(s.what)'
    <3>1. s \in ToSet(Tail(todo[a])) /\ s \in ToSet(todo[a])
      BY <1>4, <1>5, <2>3
    <3>2. s.what # x
      BY <1>00, <1>1, <1>5, <2>3, <3>1 DEF Same, Tested
    <3>3. s.what[1] # "ring"
      BY <1>3, <1>5, <2>3, <3>1, FreeFacts
    <3>4. Sound(s.what)
      BY <1>2, <2>3, <3>1 DEF Releasing
    <3>5. s.what \notin dead
      BY <1>9, <3>2, <3>3
    <3>6. QED
      BY <1>18, <3>4, <3>5
  <2>4. ASSUME NEW y \in DOMAIN alive', ~Forgets(y), alive'[y] # {}
        PROVE  \E s \in ToSet(todo'[a]) : s.do = "delete" /\ s.what = OwnerOf(y)
    <3>1. y \notin dead /\ y \in DOMAIN alive /\ alive[y] # {}
      BY <1>16, <2>4
    <3>2. PICK s \in ToSet(todo[a]) : s.do = "delete" /\ s.what = OwnerOf(y)
      BY <1>2, <2>4, <3>1 DEF Releasing
    <3>3. y[1] = "ring" => y \in Rings(y[2])
      BY <2>4, <3>1 DEF Inv, ObjectInv
    <3>4. s # h
      BY <1>00, <1>11, <3>1, <3>2, <3>3
    <3>5. QED
      BY <1>4, <1>5, <3>2, <3>4
  <2>5. \A t \in Threads : ~Running(t)'
    BY <1>1, <1>19 DEF Running
  <2>6. QED
    BY <2>2, <2>3, <2>4, <2>5 DEF Releasing
<1>21. MainInv' /\ HandlerInv'
  <2>1. CASE a = "main" /\ main = "freeing"
    <3>1. MainInv'
      BY <1>1, <1>20, <2>1 DEF MainInv
    <3>2. QED
      BY <1>1, <1>4, <2>1, <3>1, MainActs
  <2>2. CASE a \in Threads /\ main = "running" /\ Frees(a)
    BY <1>1, <1>4, <1>20, <2>2, HandlerFrees
  <2>3. QED
    BY <1>2, <2>1, <2>2
<1>22. TypeInv'
  BY <1>1, <1>4, TypeStays
<1>23. ObjectInv'
  <2>0. News' = News /\ Deletable' = Deletable
    BY <1>1, UseStays
  <2>1. ASSUME NEW y \in DOMAIN alive', ~Forgets(y)
        PROVE  /\ alive'[y] = {} \/ alive'[y] = {PointsTo(y)'}
               /\ OwnerOf(y) \in Deletable
               /\ y[1] = "ring" => y \in Rings(y[2])
    <3>1. CASE y \in dead
      BY <1>7, <1>10, <1>16, <3>1
    <3>2. CASE y \notin dead
      <4>1. y \in DOMAIN alive /\ alive'[y] = alive[y]
        BY <1>16, <2>1, <3>2
      <4>2. PointsTo(y)' = PointsTo(y)
        BY <1>12, <1>14, <1>17, <3>2
      <4>3. QED
        BY <2>1, <4>1, <4>2 DEF Inv, ObjectInv
    <3>3. QED
      BY <3>1, <3>2
  <2>2. \A y \in DOMAIN ptr' : y \in UNION {{n.what} \cup n.with : n \in News}
    BY <1>13, <1>17 DEF Inv, ObjectInv
  <2>3. ASSUME NEW k \in Nat, NEW p \in Levels
        PROVE  Objects(<<"ring", k, p>>)' = Objects(queue(k))'
    <3> DEFINE r == <<"ring", k, p>>
    <3>0. r \in Rings(k) /\ r[1] = "ring" /\ r[2] = k /\ OwnerOf(r) = queue(k)
      BY DEF Rings, OwnerOf
    <3>1. queue(k)[1] = "queue" /\ OwnerOf(queue(k)) = queue(k)
      BY NamesDiffer DEF OwnerOf
    <3> HIDE DEF r
    <3>2. Objects(r) = Objects(queue(k))
      BY DEF Inv, ObjectInv, r
    <3>3. CASE x = queue(k)
      <4>1. r \in dead /\ queue(k) \in dead
        BY <1>11, <1>14, <3>0, <3>3
      <4>2. QED
        BY <1>16, <4>1 DEF r
    <3>4. CASE x # queue(k)
      <4>1. r \notin dead /\ queue(k) \notin dead
        BY <1>10, <3>0, <3>1, <3>4
      <4>2. QED
        BY <1>16, <3>2, <4>1 DEF r
    <3>5. QED
      BY <3>3, <3>4
  <2>4. starts' # 0
    BY <1>1, <1>2, <1>3
  <2>5. QED
    BY <2>0, <2>1, <2>2, <2>3, <2>4 DEF ObjectInv
<1>24. NothingTwice'
  BY <1>1, <1>7 DEF Inv, NothingTwice, Sound
<1>25. Holders(x) = {}
  <2> SUFFICES ASSUME x \in Pools, NEW y \in DOMAIN alive,
                      y[1] \in {"queue", "node", "fifo"}, alive[y] # {}
               PROVE  FALSE
    BY DEF Holders
  <2>1. ~Forgets(y) /\ OwnerOf(y) = y
    BY DEF Forgets, OwnerOf
  <2>2. PICK e \in ToSet(todo[a]) : e.do = "delete" /\ e.what = y
    BY <1>2, <2>1 DEF Releasing
  <2>3. QED
    BY <1>5, <1>6, <2>2
<1>26. ThreadsUseLive'
  BY <1>1, <1>19, <1>25 DEF Inv, ThreadsUseLive, Running
<1>27. QED
  BY <1>21, <1>22, <1>23, <1>24, <1>26 DEF Inv

(***************************************************************************)
(* The error handler.                                                      *)
(***************************************************************************)
LEMMA HandleErrorKeeps == ASSUME Orderly, Inv, NEW a \in Threads, HandleError(a) PROVE Inv'
<1>1. /\ main \in {"running", "waiting"} /\ a \in use.handlers
      /\ \A u \in Threads : thread[u] = "running"
      /\ thread' = [thread EXCEPT ![a] = "freeing"]
      /\ todo' = [todo EXCEPT ![a] = stream_free_all]
      /\ use' = use /\ main' = main /\ starts' = starts /\ ptr' = ptr /\ alive' = alive
      /\ handle' = handle /\ twice' = twice /\ dangling' = dangling
  BY DEF HandleError
<1>2. /\ use \in Uses /\ starts \in Nat /\ (main # "out" => starts > 0)
      /\ handle \subseteq Threads /\ todo \in [Actors -> Seq(Steps)]
      /\ thread \in [Threads -> {"none", "running", "freeing", "ended"}]
  BY DEF Inv, TypeInv, Steps
<1>3. \A t \in Threads : thread'[t] = IF t = a THEN "freeing" ELSE thread[t]
  BY <1>1, <1>2
<1>4. main = "running"
  <2>1. ~use.waits
    BY <1>1, <1>2 DEF Orderly, OrderlyUse
  <2>2. QED
    BY <1>1, <2>1 DEF Inv, MainInv
<1>5. \A t \in Threads : ~Frees(t) /\ todo[t] = <<>>
  BY <1>1 DEF Inv, HandlerInv, Frees
<1>6. \A x \in Deletable : Sound(x)
  BY <1>4, <1>5 DEF Inv, MainInv
<1>7. stream_free_all \in Seq(Steps)
  <2>1. stream_free_all \in Seq(ToSet(stream_free_all))
    BY <1>2, FreeFacts DEF PartOf
  <2>2. QED
    BY <2>1, SeqMonotonic DEF Steps
<1>8. a \in Actors /\ a # "main" /\ "main" \in Actors /\ Threads \subseteq Actors
  BY DEF Actors, Threads
<1>9. /\ todo' \in [Actors -> Seq(Steps)] /\ todo'[a] = stream_free_all
      /\ \A b \in Actors \ {a} : todo'[b] = todo[b]
  BY <1>1, <1>2, <1>7, <1>8
<1>10. Releasing(a)'
  BY <1>1, <1>3, <1>6, <1>9, ReleaseBegins
<1>11. HandlerInv'
  <2>1. \A t \in Threads \ {a} : ~Frees(t)' /\ todo'[t] = <<>>
    BY <1>3, <1>5, <1>8, <1>9 DEF Frees
  <2>2. Frees(a)' /\ a \in use'.handlers /\ main' = "running"
    BY <1>1, <1>3, <1>4 DEF Frees
  <2>3. QED
    BY <1>10, <2>1, <2>2 DEF HandlerInv
<1>12. MainInv'
  <2>1. todo'["main"] = <<>> /\ todo'["main"] \in Seq(ToSet(Wait))
    BY <1>4, <1>8, <1>9 DEF Inv, MainInv
  <2>2. Frees(a)'
    BY <1>3 DEF Frees
  <2>3. QED
    BY <1>1, <1>4, <2>1, <2>2 DEF MainInv
<1>13. TypeInv'
  <2>1. \A t \in Threads : thread'[t] = "running" =>
          t \in handle' /\ Launch(t) \in ToSet(stream_configure_and_start)
    BY <1>1, <1>3 DEF Inv, TypeInv, Running
  <2>2. thread' \in [Threads -> {"none", "running", "freeing", "ended"}]
    BY <1>1, <1>2
  <2>3. QED
    BY <1>1, <1>2, <1>9, <2>1, <2>2, TypeAfter
<1>14. ObjectInv' /\ NothingTwice'
  <2>1. ObjectInv'
    BY <1>1, ObjectInvStays DEF Inv
  <2>2. QED
    BY <1>1, <2>1 DEF Inv, NothingTwice
<1>15. ThreadsUseLive'
  BY <1>1, <1>3, ThreadsStay DEF Inv
<1>16. QED
  BY <1>11, <1>12, <1>13, <1>14, <1>15 DEF Inv

LEMMA ExitKeeps == ASSUME Inv, NEW a \in Threads, Exit(a) PROVE Inv'
<1>1. /\ thread[a] = "freeing" /\ todo[a] = <<>> /\ main # "exited" /\ main' = "exited"
      /\ use' = use /\ todo' = todo /\ starts' = starts /\ ptr' = ptr /\ alive' = alive
      /\ thread' = thread /\ handle' = handle /\ twice' = twice /\ dangling' = dangling
  BY DEF Exit
<1>2. /\ main = "running" /\ a \in use.handlers /\ Releasing(a)
      /\ \A u \in Threads \ {a} : ~Frees(u)
      /\ \A t \in Threads : ~Frees(t) => todo[t] = <<>>
  BY <1>1 DEF Inv, HandlerInv, Frees
<1>3. \A t \in Threads : thread[t] # "running"
  BY <1>1, <1>2, NothingLeft DEF Releasing, Running
<1>4. MainInv'
  BY <1>1, <1>3 DEF MainInv, Running
<1>5. stream_free_all' = stream_free_all
  BY <1>1, UseStays
<1>6. Releasing(a)'
  <2>1. \A x : Sound(x)' = Sound(x)
    BY <1>1, ObjectsStay
  <2>2. PartOf(todo[a], stream_free_all)'
    BY <1>1, <1>2, <1>5 DEF Releasing, PartOf
  <2>3. \A s \in ToSet(todo'[a]) : s.do = "delete" => Sound(s.what)'
    BY <1>1, <1>2, <2>1 DEF Releasing
  <2>4. QED
    BY <1>1, <1>2, <1>3, <2>2, <2>3 DEF Releasing, Running
<1>7. HandlerInv'
  <2>1. \A t \in Threads \ {a} : ~Frees(t)' /\ todo'[t] = <<>>
    BY <1>1, <1>2 DEF Frees
  <2>2. Frees(a)' /\ a \in use'.handlers /\ main' = "exited"
    BY <1>1, <1>2 DEF Frees
  <2>3. QED
    BY <1>6, <2>1, <2>2 DEF HandlerInv
<1>8. TypeInv'
  <2>1. todo \in [Actors -> Seq(Steps)]
    BY DEF Inv, TypeInv, Steps
  <2>2. QED
    BY <1>1, <1>2, <2>1, TypeStays
<1>9. ObjectInv' /\ NothingTwice'
  <2>1. ObjectInv'
    BY <1>1, ObjectInvStays DEF Inv
  <2>2. QED
    BY <1>1, <2>1 DEF Inv, NothingTwice
<1>10. ThreadsUseLive'
  BY <1>1, <1>3 DEF Inv, ThreadsUseLive
<1>11. QED
  BY <1>4, <1>7, <1>8, <1>9, <1>10 DEF Inv

(***************************************************************************)
(* The theorems.                                                           *)
(***************************************************************************)
LEMMA InitIsInv == Init => Inv
<1> SUFFICES ASSUME Init PROVE Inv
  OBVIOUS
<1>1. /\ use \in Uses /\ todo = [a \in Actors |-> <<>>] /\ main = "out" /\ starts = 0
      /\ ptr = Never /\ alive = Never /\ thread = [t \in Threads |-> "none"] /\ handle = {}
      /\ twice = {} /\ dangling = {}
  BY DEF Init
<1>2. /\ \A a \in Actors : todo[a] = <<>>
      /\ \A t \in Threads : thread[t] = "none" /\ todo[t] = <<>>
      /\ "main" \in Actors
  BY <1>1 DEF Actors
<1>3. DOMAIN alive = {} /\ DOMAIN ptr = {}
  BY <1>1 DEF Never
<1>4. TypeInv
  <2>1. <<>> \in Seq(Steps)
    OBVIOUS
  <2>2. todo \in [Actors -> Seq(Steps)]
    BY <1>1, <2>1
  <2>3. QED
    BY <1>1, <1>2, <2>2 DEF TypeInv, Running, Steps
<1>5. MainInv
  BY <1>1, <1>2, <1>3 DEF MainInv, Running
<1>6. HandlerInv
  BY <1>2 DEF HandlerInv, Frees
<1>7. ObjectInv
  BY <1>1, <1>3 DEF ObjectInv, Objects
<1>8. NothingTwice /\ ThreadsUseLive
  BY <1>1, <1>2 DEF NothingTwice, ThreadsUseLive
<1>9. QED
  BY <1>4, <1>5, <1>6, <1>7, <1>8 DEF Inv

(* A step that changes nothing.                                             *)
LEMMA StutterKeeps == ASSUME Inv, UNCHANGED vars PROVE Inv'
<1>1. /\ use' = use /\ todo' = todo /\ main' = main /\ starts' = starts /\ ptr' = ptr
      /\ alive' = alive /\ thread' = thread /\ handle' = handle /\ ending' = ending
      /\ twice' = twice /\ dangling' = dangling
  BY DEF vars
<1>2. /\ stream_configure_and_start' = stream_configure_and_start
      /\ stream_free_all' = stream_free_all /\ News' = News /\ Deletable' = Deletable
      /\ BaseNeeds' = BaseNeeds /\ Graph(Program)' = Graph(Program)
  BY <1>1, UseStays
<1>3. /\ \A x : PointsTo(x)' = PointsTo(x) /\ Objects(x)' = Objects(x)
                /\ Lives(x)' = Lives(x) /\ Sound(x)' = Sound(x)
      /\ \A n : Whole(n)' = Whole(n)
      /\ \A t : Running(t)' = Running(t) /\ Frees(t)' = Frees(t)
  BY <1>1, ObjectsStay, WholesStay DEF Running, Frees
<1>4. /\ StartGoesOn => StartGoesOn'
      /\ StartFailed => StartFailed'
  BY <1>1, <1>2, <1>3 DEF StartGoesOn, StartFailed, PartOf
<1>5. \A b : Releasing(b) => Releasing(b)'
  BY <1>1, <1>2, <1>3 DEF Releasing, PartOf
<1>6. TypeInv' /\ ObjectInv'
  BY <1>1, <1>2, <1>3, ObjectInvStays DEF Inv, TypeInv, Running
<1>7. MainInv'
  BY <1>1, <1>2, <1>3, <1>4, <1>5 DEF Inv, MainInv
<1>8. HandlerInv'
  BY <1>1, <1>3, <1>5 DEF Inv, HandlerInv
<1>9. NothingTwice' /\ ThreadsUseLive'
  BY <1>1, ThreadsStay DEF Inv, NothingTwice
<1>10. QED
  BY <1>6, <1>7, <1>8, <1>9 DEF Inv

LEMMA NextKeepsInv == ASSUME Orderly PROVE Inv /\ [Next]_vars => Inv'
<1> SUFFICES ASSUME Inv, [Next]_vars PROVE Inv'
  OBVIOUS
<1>1. CASE Start
  BY <1>1, StartKeeps
<1>2. CASE Fail
  BY <1>2, FailKeeps
<1>3. CASE MainGoesOn
  BY <1>3, MainGoesOnKeeps
<1>4. ASSUME NEW a \in Actors,
             Make(a) \/ Use(a) \/ LaunchThread(a) \/ AskToEnd(a) \/ JoinThread(a) \/ Destroy(a)
      PROVE  Inv'
  BY <1>4, MakeKeeps, UseKeeps, LaunchKeeps, AskToEndKeeps, JoinKeeps, DestroyKeeps
<1>5. ASSUME NEW t \in Threads, ThreadEnds(t) \/ HandleError(t) \/ Exit(t)
      PROVE  Inv'
  BY <1>5, ThreadEndsKeeps, HandleErrorKeeps, ExitKeeps
<1>6. CASE UNCHANGED vars
  BY <1>6, StutterKeeps
<1>7. QED
  BY <1>1, <1>2, <1>3, <1>4, <1>5, <1>6 DEF Next

(* Every state of the application satisfies the inductive invariant.        *)
LEMMA InvHolds == ASSUME Orderly PROVE Spec => []Inv
<1>1. Init => Inv
  BY InitIsInv
<1>2. Inv /\ [Next]_vars => Inv'
  BY NextKeepsInv
<1>3. QED
  BY <1>1, <1>2, PTL DEF Spec

(* free_scheduler() and stream_free_all() delete nothing twice, whoever      *)
(* calls them and at whichever step the first start has failed.              *)
THEOREM NothingIsDeletedTwice == ASSUME Orderly PROVE Spec => []NothingTwice
<1>1. Inv => NothingTwice
  BY DEF Inv
<1>2. QED
  BY <1>1, InvHolds, PTL

(* stream_free_all() leaves nothing of what stream_configure_and_start() has *)
(* made, in the main thread and in the error handler of a thread.            *)
THEOREM EverythingIsReleased == ASSUME Orderly PROVE Spec => []AllReleased
<1>1. Inv => AllReleased
  <2> SUFFICES ASSUME Inv, Freed, NEW x \in DOMAIN alive \ Forgotten PROVE alive[x] = {}
    BY DEF AllReleased
  <2>1. ~Forgets(x)
    BY DEF Forgets, Forgotten
  <2>2. CASE main = "out"
    BY <2>1, <2>2 DEF Inv, MainInv
  <2>3. ASSUME NEW t \in Threads, thread[t] = "freeing", todo[t] = <<>> PROVE alive[x] = {}
    <3>1. Releasing(t)
      BY <2>3 DEF Inv, HandlerInv, Frees
    <3>2. QED
      BY <2>1, <2>3, <3>1, NothingLeft DEF Releasing
  <2>4. QED
    BY <2>2, <2>3 DEF Freed
<1>2. QED
  BY <1>1, InvHolds, PTL

(* No runtime thread works, and no constructor, subscription or destructor   *)
(* is called, with a part of the graph, a queue or a pool that is not there. *)
THEOREM ThreadsWorkWithWhatLives == ASSUME Orderly PROVE Spec => []ThreadsUseLive
<1>1. Inv => ThreadsUseLive
  BY DEF Inv
<1>2. QED
  BY <1>1, InvHolds, PTL

=============================================================================
