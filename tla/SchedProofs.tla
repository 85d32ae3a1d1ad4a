---------------------------- MODULE SchedProofs ----------------------------
(* Proofs about Sched.                                                     *)
EXTENDS Sched, TLAPS

(* A leaf is proved by Zenon unless it names another prover; the limits    *)
(* are generous since they are of wall-clock time.                         *)
USE ZenonT(60)

(* How the operations on rings, lists and chains change the set of the     *)
(* tasks in them, and that they keep a task from being there twice.        *)

(* A sequence of some length is not empty: the test for a ring or chain.   *)
LEMMA NotEmpty ==
  ASSUME NEW s \in Seq(Task), Len(s) # 0
  PROVE  s # <<>>
BY SMTT(60)

(* Unlinking the current task of a ring.                                   *)
LEMMA TailSet ==
  ASSUME NEW s \in Seq(Task), s # <<>>
  PROVE  /\ Head(s) \in Task /\ Tail(s) \in Seq(Task) /\ Len(Tail(s)) = Len(s) - 1
         /\ Head(s) \in Range(s)
         /\ Range(Tail(s)) \subseteq Range(s)
         /\ Range(s) = Range(Tail(s)) \cup {Head(s)}
         /\ IsInjective(s) => IsInjective(Tail(s)) /\ Head(s) \notin Range(Tail(s))
<1>1. /\ Head(s) = s[1] /\ Tail(s) \in Seq(Task) /\ Len(s) \in Nat /\ Len(s) >= 1
      /\ Len(Tail(s)) = Len(s) - 1 /\ DOMAIN s = 1 .. Len(s) /\ DOMAIN Tail(s) = 1 .. Len(s) - 1
  BY SMTT(60)
<1>2. \A k \in 1 .. Len(s) - 1 : Tail(s)[k] = s[k + 1]
  BY <1>1, SMTT(60)
<1>3. \A k \in 1 .. Len(s) : k = 1 \/ k - 1 \in 1 .. Len(s) - 1
  BY <1>1, SMTT(60)
<1>4. ASSUME NEW y \in Range(s) PROVE y \in Range(Tail(s)) \cup {Head(s)}
  <2>1. PICK k \in 1 .. Len(s) : y = s[k]
    BY <1>1 DEF Range
  <2>2. CASE k # 1
    <3>1. k - 1 \in DOMAIN Tail(s) /\ Tail(s)[k - 1] = y
      BY <1>1, <1>2, <1>3, <2>1, <2>2, SMTT(60)
    <3> QED BY <3>1 DEF Range
  <2> QED BY <1>1, <2>1, <2>2
<1>5. ASSUME NEW y \in Range(Tail(s))
      PROVE  \E k \in 1 .. Len(s) : k > 1 /\ y = s[k]
  <2>1. PICK k \in 1 .. Len(s) - 1 : y = Tail(s)[k]
    BY <1>1 DEF Range
  <2>2. k + 1 \in 1 .. Len(s) /\ k + 1 > 1 /\ y = s[k + 1]
    BY <1>1, <1>2, <2>1, SMTT(60)
  <2> QED BY <2>2
<1>6. ASSUME IsInjective(s) PROVE IsInjective(Tail(s)) /\ Head(s) \notin Range(Tail(s))
  <2>1. \A j, k \in 1 .. Len(s) : s[j] = s[k] => j = k
    BY <1>1, <1>6 DEF IsInjective
  <2>2. IsInjective(Tail(s))
    <3> SUFFICES ASSUME NEW j \in 1 .. Len(s) - 1, NEW k \in 1 .. Len(s) - 1, Tail(s)[j] = Tail(s)[k] PROVE j = k
      BY <1>1 DEF IsInjective
    <3>1. j + 1 \in 1 .. Len(s) /\ k + 1 \in 1 .. Len(s) /\ s[j + 1] = s[k + 1]
      BY <1>1, <1>2, SMTT(60)
    <3> QED BY <2>1, <3>1, SMTT(60)
  <2>3. 1 \in 1 .. Len(s)
    BY <1>1, SMTT(60)
  <2> QED BY <1>1, <1>5, <2>1, <2>2, <2>3, SMTT(60)
<1>7. Head(s) \in Range(s)
  BY <1>1, SMTT(60) DEF Range
<1>8. Range(Tail(s)) \subseteq Range(s)
  BY <1>1, <1>5 DEF Range
<1> QED BY <1>1, <1>4, <1>6, <1>7, <1>8, SMTT(60)

(* Linking a chain behind a ring.                                          *)
LEMMA ConcatSet ==
  ASSUME NEW s \in Seq(Task), NEW w \in Seq(Task)
  PROVE  /\ s \o w \in Seq(Task) /\ Len(s \o w) = Len(s) + Len(w)
         /\ Range(s \o w) = Range(s) \cup Range(w)
         /\ IsInjective(s) /\ IsInjective(w) /\ Range(s) \cap Range(w) = {} => IsInjective(s \o w)
<1>1. /\ s \o w \in Seq(Task) /\ Len(s) \in Nat /\ Len(w) \in Nat /\ Len(s \o w) = Len(s) + Len(w)
      /\ DOMAIN s = 1 .. Len(s) /\ DOMAIN w = 1 .. Len(w) /\ DOMAIN (s \o w) = 1 .. Len(s) + Len(w)
  BY SMTT(60)
<1>2. \A k \in 1 .. Len(s) + Len(w) :
         /\ k <= Len(s) => k \in 1 .. Len(s) /\ (s \o w)[k] = s[k]
         /\ k > Len(s) => k - Len(s) \in 1 .. Len(w) /\ (s \o w)[k] = w[k - Len(s)]
  BY <1>1, SMTT(60)
<1>3. \A k \in 1 .. Len(s) : k \in 1 .. Len(s) + Len(w) /\ (s \o w)[k] = s[k]
  BY <1>1, <1>2, SMTT(60)
<1>4. \A k \in 1 .. Len(w) : k + Len(s) \in 1 .. Len(s) + Len(w) /\ (s \o w)[k + Len(s)] = w[k]
  BY <1>1, <1>2, SMTT(60)
<1>5. Range(s \o w) \subseteq Range(s) \cup Range(w)
  <2> SUFFICES ASSUME NEW k \in 1 .. Len(s) + Len(w) PROVE (s \o w)[k] \in Range(s) \cup Range(w)
    BY <1>1 DEF Range
  <2>1. CASE k <= Len(s)
    BY <1>1, <1>2, <2>1 DEF Range
  <2>2. CASE k > Len(s)
    BY <1>1, <1>2, <2>2 DEF Range
  <2> QED BY <1>1, <2>1, <2>2, SMTT(60)
<1>6. Range(s) \subseteq Range(s \o w)
  BY <1>1, <1>3 DEF Range
<1>7. Range(w) \subseteq Range(s \o w)
  BY <1>1, <1>4 DEF Range
<1>8. ASSUME IsInjective(s), IsInjective(w), Range(s) \cap Range(w) = {} PROVE IsInjective(s \o w)
  <2>1. /\ \A j, k \in 1 .. Len(s) : s[j] = s[k] => j = k
        /\ \A j, k \in 1 .. Len(w) : w[j] = w[k] => j = k
        /\ \A j \in 1 .. Len(s), k \in 1 .. Len(w) : s[j] # w[k]
    <3>1. (\A j \in 1 .. Len(s) : s[j] \in Range(s)) /\ \A k \in 1 .. Len(w) : w[k] \in Range(w)
      BY <1>1 DEF Range
    <3>2. \A j \in 1 .. Len(s), k \in 1 .. Len(w) : s[j] # w[k]
      BY <1>8, <3>1
    <3> QED BY <1>1, <1>8, <3>2 DEF IsInjective
  <2> SUFFICES ASSUME NEW j \in 1 .. Len(s) + Len(w), NEW k \in 1 .. Len(s) + Len(w), (s \o w)[j] = (s \o w)[k]
               PROVE  j = k
    BY <1>1 DEF IsInjective
  <2>2. CASE j <= Len(s) /\ k <= Len(s)
    BY <1>2, <2>1, <2>2
  <2>3. CASE j > Len(s) /\ k > Len(s)
    <3>1. j - Len(s) = k - Len(s)
      <4>1. /\ j - Len(s) \in 1 .. Len(w) /\ k - Len(s) \in 1 .. Len(w)
            /\ w[j - Len(s)] = w[k - Len(s)]
        BY <1>2, <2>3
      <4> QED BY <2>1, <4>1
    <3> QED BY <1>1, <3>1, SMTT(60)
  <2>4. CASE j <= Len(s) /\ k > Len(s)
    BY <1>2, <2>1, <2>4, SMTT(60)
  <2>5. CASE j > Len(s) /\ k <= Len(s)
    BY <1>2, <2>1, <2>5, SMTT(60)
  <2> QED BY <1>1, <2>2, <2>3, <2>4, <2>5, SMTT(60)
<1> QED BY <1>1, <1>5, <1>6, <1>7, <1>8

(* A sequence of one or two tasks.                                         *)
LEMMA ShortSet ==
  ASSUME NEW x \in Task, NEW y \in Task
  PROVE  /\ <<x>> \in Seq(Task) /\ Range(<<x>>) = {x} /\ IsInjective(<<x>>) /\ Len(<<x>>) = 1
         /\ <<x, y>> \in Seq(Task) /\ Range(<<x, y>>) = {x, y} /\ (x # y => IsInjective(<<x, y>>))
         /\ Len(<<x, y>>) = 2
<1>1. DOMAIN <<x>> = {1} /\ DOMAIN <<x, y>> = {1, 2}
  BY SMTT(60)
<1>2. <<x>>[1] = x /\ <<x, y>>[1] = x /\ <<x, y>>[2] = y
  OBVIOUS
<1>3. Range(<<x>>) = {x} /\ Range(<<x, y>>) = {x, y}
  BY <1>1, <1>2 DEF Range
<1>4. IsInjective(<<x>>) /\ (x # y => IsInjective(<<x, y>>))
  BY <1>1, <1>2 DEF IsInjective
<1> QED BY <1>3, <1>4, SMTT(60)

(* A task in front of a chain.                                             *)
LEMMA ConsSet ==
  ASSUME NEW x \in Task, NEW s \in Seq(Task)
  PROVE  /\ <<x>> \o s \in Seq(Task) /\ <<x>> \o s # <<>>
         /\ Range(<<x>> \o s) = Range(s) \cup {x}
         /\ IsInjective(s) /\ x \notin Range(s) => IsInjective(<<x>> \o s)
<1>1. <<x>> \in Seq(Task) /\ Range(<<x>>) = {x} /\ IsInjective(<<x>>) /\ Len(<<x>>) = 1
  BY ShortSet
<1> DEFINE p == <<x>>
<1>p. p \in Seq(Task) /\ Range(p) = {x} /\ IsInjective(p) /\ Len(p) = 1
  BY <1>1
<1> SUFFICES /\ p \o s \in Seq(Task) /\ p \o s # <<>>
             /\ Range(p \o s) = Range(s) \cup {x}
             /\ IsInjective(s) /\ x \notin Range(s) => IsInjective(p \o s)
  OBVIOUS
<1> HIDE DEF p
<1>2. /\ p \o s \in Seq(Task) /\ Len(p \o s) = 1 + Len(s)
      /\ Range(p \o s) = {x} \cup Range(s)
      /\ IsInjective(s) /\ {x} \cap Range(s) = {} => IsInjective(p \o s)
  <2>1. /\ p \o s \in Seq(Task) /\ Len(p \o s) = Len(p) + Len(s)
        /\ Range(p \o s) = Range(p) \cup Range(s)
        /\ IsInjective(p) /\ IsInjective(s) /\ Range(p) \cap Range(s) = {} => IsInjective(p \o s)
    BY <1>p, ConcatSet
  <2> QED BY <1>p, <2>1
<1>3. p \o s # <<>>
  <2>1. Len(s) \in Nat
    BY SMTT(60)
  <2> QED BY <1>2, <2>1, SMTT(60)
<1> QED BY <1>2, <1>3

(* The ring, seen from the next task.                                      *)
LEMMA RotateSet ==
  ASSUME NEW s \in Seq(Task), s # <<>>
  PROVE  /\ Rotate(s) \in Seq(Task) /\ Rotate(s) # <<>> /\ Range(Rotate(s)) = Range(s)
         /\ IsInjective(s) => IsInjective(Rotate(s))
<1> DEFINE h == Head(s) u == Tail(s)
<1>1. /\ h \in Task /\ u \in Seq(Task) /\ Range(s) = Range(u) \cup {h}
      /\ IsInjective(s) => IsInjective(u) /\ h \notin Range(u)
  BY TailSet
<1> DEFINE p == <<h>>
<1>3. Rotate(s) = u \o p
  BY <1>1, SMTT(60) DEF Rotate
<1> HIDE DEF h, u
<1>2. p \in Seq(Task) /\ Range(p) = {h} /\ IsInjective(p) /\ Len(p) = 1
  BY <1>1, ShortSet
<1> HIDE DEF p
<1>4. /\ u \o p \in Seq(Task) /\ Len(u \o p) = Len(u) + 1
      /\ Range(u \o p) = Range(u) \cup {h}
      /\ IsInjective(u) /\ Range(u) \cap {h} = {} => IsInjective(u \o p)
  <2>1. /\ u \o p \in Seq(Task) /\ Len(u \o p) = Len(u) + Len(p)
        /\ Range(u \o p) = Range(u) \cup Range(p)
        /\ IsInjective(u) /\ IsInjective(p) /\ Range(u) \cap Range(p) = {} => IsInjective(u \o p)
    BY <1>1, <1>2, ConcatSet
  <2> QED BY <1>1, <1>2, <2>1
<1>5. u \o p # <<>>
  <2>1. Len(u) \in Nat
    BY <1>1, SMTT(60)
  <2> QED BY <1>4, <2>1, SMTT(60)
<1> QED BY <1>1, <1>3, <1>4, <1>5

(* A task linked behind the current one.                                   *)
LEMMA InsertSet ==
  ASSUME NEW s \in Seq(Task), s # <<>>, NEW x \in Task
  PROVE  /\ InsertAfter(s, x) \in Seq(Task) /\ InsertAfter(s, x) # <<>>
         /\ Range(InsertAfter(s, x)) = Range(s) \cup {x}
         /\ IsInjective(s) /\ x \notin Range(s) => IsInjective(InsertAfter(s, x))
<1> DEFINE h == Head(s) u == Tail(s)
<1>1. /\ h \in Task /\ u \in Seq(Task) /\ Range(s) = Range(u) \cup {h}
      /\ IsInjective(s) => IsInjective(u) /\ h \notin Range(u)
  BY TailSet
<1> DEFINE p == <<h, x>>
<1>3. InsertAfter(s, x) = p \o u
  BY DEF InsertAfter
<1> HIDE DEF h, u
<1>2. p \in Seq(Task) /\ Range(p) = {h, x} /\ (h # x => IsInjective(p)) /\ Len(p) = 2
  BY <1>1, ShortSet
<1> HIDE DEF p
<1>4. /\ p \o u \in Seq(Task) /\ Len(p \o u) = 2 + Len(u)
      /\ Range(p \o u) = {h, x} \cup Range(u)
      /\ IsInjective(p) /\ IsInjective(u) /\ {h, x} \cap Range(u) = {} => IsInjective(p \o u)
  <2>1. /\ p \o u \in Seq(Task) /\ Len(p \o u) = Len(p) + Len(u)
        /\ Range(p \o u) = Range(p) \cup Range(u)
        /\ IsInjective(p) /\ IsInjective(u) /\ Range(p) \cap Range(u) = {} => IsInjective(p \o u)
    BY <1>1, <1>2, ConcatSet
  <2> QED BY <1>1, <1>2, <2>1
<1>5. p \o u # <<>>
  <2>1. Len(u) \in Nat
    BY <1>1, SMTT(60)
  <2> QED BY <1>4, <2>1, SMTT(60)
<1>6. ASSUME IsInjective(s), x \notin Range(s) PROVE h # x /\ {h, x} \cap Range(u) = {} /\ IsInjective(u)
  BY <1>1, <1>6
<1> QED BY <1>1, <1>2, <1>3, <1>4, <1>5, <1>6

(* Orderings(): every task of the set, once.                               *)
LEMMA PermSet ==
  ASSUME NEW S, NEW w \in Orderings(S)
  PROVE  w \in Seq(S) /\ Range(w) = S /\ IsInjective(w)
<1>1. PICK n \in 0 .. Cardinality(S) : w \in [1 .. n -> S]
  BY DEF Orderings
<1>2. Range(w) = S /\ IsInjective(w)
  BY DEF Orderings
<1>3. n \in Nat
  BY <1>1, SMTT(60)
<1>4. w \in Seq(S)
  BY <1>1, <1>3, SMTT(60)
<1> QED BY <1>2, <1>4

(* X86_IRQ_PIT: the expired sleepers behind the current task, and the next *)
(* one.                                                                    *)
LEMMA ExpiredSet ==
  ASSUME NEW s \in Seq(Task), s # <<>>, NEW xs \in SUBSET Task, NEW w \in Orderings(xs)
  PROVE  /\ Rotate(<<Head(s)>> \o w \o Tail(s)) \in Seq(Task) /\ Rotate(<<Head(s)>> \o w \o Tail(s)) # <<>>
         /\ Range(Rotate(<<Head(s)>> \o w \o Tail(s))) = Range(s) \cup xs
         /\ IsInjective(s) /\ Range(s) \cap xs = {} => IsInjective(Rotate(<<Head(s)>> \o w \o Tail(s)))
<1> DEFINE h == Head(s) u == Tail(s)
<1>1. /\ h \in Task /\ u \in Seq(Task) /\ Range(s) = Range(u) \cup {h}
      /\ IsInjective(s) => IsInjective(u) /\ h \notin Range(u)
  BY TailSet
<1>2. w \in Seq(Task) /\ Range(w) = xs /\ IsInjective(w)
  <2>1. w \in Seq(xs) /\ Range(w) = xs /\ IsInjective(w)
    BY PermSet
  <2> QED BY <2>1, SMTT(60)
<1> SUFFICES /\ Rotate(<<h>> \o w \o u) \in Seq(Task) /\ Rotate(<<h>> \o w \o u) # <<>>
             /\ Range(Rotate(<<h>> \o w \o u)) = Range(s) \cup xs
             /\ IsInjective(s) /\ Range(s) \cap xs = {} => IsInjective(Rotate(<<h>> \o w \o u))
  OBVIOUS
<1> HIDE DEF h, u
<1> DEFINE p == <<h>> \o w
<1>3. /\ p \in Seq(Task) /\ p # <<>> /\ Range(p) = Range(w) \cup {h}
      /\ IsInjective(w) /\ h \notin Range(w) => IsInjective(p)
  BY <1>1, <1>2, ConsSet
<1> HIDE DEF p
<1> DEFINE q == p \o u
<1>4. /\ q \in Seq(Task) /\ Len(q) = Len(p) + Len(u) /\ Range(q) = Range(p) \cup Range(u)
      /\ IsInjective(p) /\ IsInjective(u) /\ Range(p) \cap Range(u) = {} => IsInjective(q)
  BY <1>1, <1>3, ConcatSet
<1>5. Rotate(<<h>> \o w \o u) = Rotate(q)
  BY DEF p
<1> HIDE DEF q
<1>6. q # <<>>
  <2>1. Len(p) \in Nat \ {0} /\ Len(u) \in Nat
    BY <1>1, <1>3, SMTT(60)
  <2>2. Len(q) # 0
    BY <1>4, <2>1, SMTT(60)
  <2> QED BY <1>4, <2>2, NotEmpty
<1>7. /\ Rotate(q) \in Seq(Task) /\ Rotate(q) # <<>> /\ Range(Rotate(q)) = Range(q)
      /\ IsInjective(q) => IsInjective(Rotate(q))
  BY <1>4, <1>6, RotateSet
<1>8. Range(q) = Range(s) \cup xs
  BY <1>1, <1>2, <1>3, <1>4
<1>9. IsInjective(s) /\ Range(s) \cap xs = {} => IsInjective(q)
  <2> SUFFICES ASSUME IsInjective(s), Range(s) \cap xs = {} PROVE IsInjective(q)
    OBVIOUS
  <2>1. IsInjective(p) /\ IsInjective(u)
    BY <1>1, <1>2, <1>3
  <2>2. Range(p) \cap Range(u) = {}
    BY <1>1, <1>2, <1>3
  <2> QED BY <1>4, <2>1, <2>2
<1> QED BY <1>5, <1>7, <1>8, <1>9

(* The tasks of xs, in whatever order.                                     *)
LEMMA OrderSet ==
  ASSUME NEW s, NEW xs \in SUBSET Task, NEW w \in InOrderOf(s, xs)
  PROVE  w \in Seq(Task) /\ Range(w) = xs /\ IsInjective(w)
<1>1. w \in Orderings(xs)
  BY DEF InOrderOf
<1>2. w \in Seq(xs) /\ Range(w) = xs /\ IsInjective(w)
  BY <1>1, PermSet
<1> QED BY <1>2, SMTT(60)

-----------------------------------------------------------------------------
(* A step that replaces the ring of one CPU leaves the other rings alone.  *)
LEMMA RingType ==
  ASSUME TypeOK, NEW c \in Cpu, NEW r \in Seq(Task), r # <<>>, ring' = [ring EXCEPT ![c] = r]
  PROVE  /\ ring' \in [Cpu -> Seq(Task)] /\ \A d \in Cpu : ring'[d] # <<>>
         /\ ring'[c] = r /\ \A d \in Cpu : d # c => ring'[d] = ring[d]
<1>1. ring \in [Cpu -> Seq(Task)] /\ \A d \in Cpu : ring[d] # <<>>
  BY DEF TypeOK
<1>2. ring'[c] = r /\ \A d \in Cpu : d # c => ring'[d] = ring[d]
  BY <1>1
<1>3. ring' \in [Cpu -> Seq(Task)]
  BY <1>1
<1> QED BY <1>1, <1>2, <1>3

(* What loading the chain of c makes of its ring.                          *)
LEMMA LoadedSet ==
  ASSUME TypeOK, NEW c \in Cpu, NEW r \in LoadedRing(c)
  PROVE  /\ r \in Seq(Task) /\ r # <<>> /\ LoadedSleeping(c) \in SUBSET Task
         /\ Range(c_pending[c]) \in SUBSET Task /\ Range(ring[c]) \in SUBSET Task
         /\ Range(r) = Range(ring[c]) \cup {x \in Range(c_pending[c]) : ~Has(x, "SLEEPING")}
         /\ IsInjective(ring[c]) /\ Range(ring[c]) \cap Range(c_pending[c]) = {} => IsInjective(r)
<1> DEFINE xs == {x \in Range(c_pending[c]) : ~Has(x, "SLEEPING")}
<1>1. /\ ring[c] \in Seq(Task) /\ ring[c] # <<>> /\ c_pending[c] \in Seq(Task) /\ c_sleeping[c] \in SUBSET Task
  BY DEF TypeOK
<1>2. Range(c_pending[c]) \in SUBSET Task /\ Range(ring[c]) \in SUBSET Task
  BY <1>1, SMTT(60) DEF Range
<1>3. PICK w \in InOrderOf(c_pending[c], xs) : r = ring[c] \o w
  BY DEF LoadedRing
<1>4. xs \in SUBSET Task /\ xs \subseteq Range(c_pending[c])
  BY <1>2
<1> HIDE DEF xs
<1>5. w \in Seq(Task) /\ Range(w) = xs /\ IsInjective(w)
  BY <1>4, OrderSet
<1>6. /\ ring[c] \o w \in Seq(Task) /\ Len(ring[c] \o w) = Len(ring[c]) + Len(w)
      /\ Range(ring[c] \o w) = Range(ring[c]) \cup Range(w)
      /\ IsInjective(ring[c]) /\ IsInjective(w) /\ Range(ring[c]) \cap Range(w) = {} => IsInjective(ring[c] \o w)
  BY <1>1, <1>5, ConcatSet
<1>7. r # <<>>
  <2>1. Len(ring[c]) \in Nat \ {0} /\ Len(w) \in Nat
    BY <1>1, <1>5, SMTT(60)
  <2> QED BY <1>3, <1>6, <2>1, SMTT(60)
<1>8. LoadedSleeping(c) \in SUBSET Task
  BY <1>1, <1>2 DEF LoadedSleeping
<1>9. Range(ring[c]) \cap Range(c_pending[c]) = {} => Range(ring[c]) \cap Range(w) = {}
  BY <1>4, <1>5
<1> QED BY <1>2, <1>3, <1>5, <1>6, <1>7, <1>8, <1>9 DEF xs

(* An answer is written to the status word of the sender only.             *)
LEMMA StatusType ==
  ASSUME TypeOK, NEW m \in Ipi, NEW v \in Status, SetStatus(m, v)
  PROVE  /\ status' \in [Task -> Status] /\ m.from \in Task
         /\ \A t \in Task : t # m.from \/ ~Awaits(m) => status'[t] = status[t]
         /\ Awaits(m) => status'[m.from] = v
<1>1. m.from \in Task
  BY DEF Ipi
<1>2. status \in [Task -> Status]
  BY DEF TypeOK
<1> HIDE DEF Awaits
<1> QED BY <1>1, <1>2 DEF SetStatus

(* What a handler may change.                                              *)
QueuesOK ==
  /\ ring \in [Cpu -> Seq(Task)] /\ \A c \in Cpu : ring[c] # <<>>
  /\ c_sleeping \in [Cpu -> SUBSET Task] /\ c_pending \in [Cpu -> Seq(Task)]
  /\ t_state \in [Task -> SUBSET StateFlag]
  /\ unacked \subseteq Cpu /\ status \in [Task -> Status]
  /\ awake \subseteq Task /\ torn \subseteq Task

(* The states that TASK_STATE_FSTARTED is set in.                          *)
LEMMA StartedType ==
  ASSUME TypeOK, NEW xs, t_state' = Started(xs)
  PROVE  /\ t_state' \in [Task -> SUBSET StateFlag]
         /\ \A x \in Task : t_state'[x] \in {t_state[x], t_state[x] \cup {"STARTED"}}
         /\ \A x \in Task : Has(x, "SLEEPING")' <=> Has(x, "SLEEPING")
<1>1. t_state \in [Task -> SUBSET StateFlag]
  BY DEF TypeOK
<1>2. \A x \in Task : t_state'[x] \in {t_state[x], t_state[x] \cup {"STARTED"}}
  BY DEF Started
<1>3. t_state' \in [Task -> SUBSET StateFlag]
  BY <1>1 DEF Started, StateFlag
<1>4. ASSUME NEW x \in Task PROVE Has(x, "SLEEPING")' <=> Has(x, "SLEEPING")
  <2>1. CASE t_state'[x] = t_state[x]
    BY <2>1 DEF Has
  <2>2. CASE t_state'[x] = t_state[x] \cup {"STARTED"}
    BY <2>2 DEF Has
  <2> QED BY <1>2, <2>1, <2>2
<1> QED BY <1>2, <1>3, <1>4

-----------------------------------------------------------------------------
(* What x86_ipi_handle() does with an IPI: it answers without touching a   *)
(* queue, or unschedules the thread, or wakes it.                          *)
Refused(m) ==
  /\ UNCHANGED <<queues, t_state, unacked, awake, torn>>
  /\ \E v \in Status :
       /\ SetStatus(m, v)
       /\ m.type = "UNSCHEDULE" => v # "OK"
       /\ m.type = "WAKETASK" => /\ v = "OK" => ~Has(m.thread, "SLEEPING")
                                 /\ v = "DEAD" => Has(m.thread, "TERMINATED")

Unscheduled(c, m) ==
  /\ m.type = "UNSCHEDULE" /\ t_cpu[m.thread] = c /\ m.thread \notin Idle \cup {m.from}
  /\ ~Has(m.thread, "TERMINATING") /\ UNCHANGED awake
  /\ \/ m.thread = Running(c) /\ UnscheduleCurrent(c, m)
     \/ m.thread # Running(c) /\ UnscheduleOther(c, m)

Woken(c, m) ==
  /\ m.type = "WAKETASK" /\ t_cpu[m.thread] = c /\ ~Has(m.thread, "TERMINATED") /\ Has(m.thread, "SLEEPING")
  /\ x86_scheduler_localwake(c, m.thread) /\ SetStatus(m, "OK") /\ UNCHANGED unacked

(* These are all the cases.                                                *)
LEMMA HandleCases ==
  ASSUME NEW c \in Cpu, NEW m \in Ipi, x86_ipi_handle(c, m)
  PROVE  Refused(m) \/ Unscheduled(c, m) \/ Woken(c, m)
<1> HIDE DEF SetStatus, UnscheduleCurrent, UnscheduleOther, x86_scheduler_localwake, Has, Running
<1>1. CASE m.type = "UNSCHEDULE" /\ HandleUnschedule(c, m)
  <2>0. m.type # "WAKETASK" /\ UNCHANGED awake
    BY <1>1 DEF HandleUnschedule
  <2>1. CASE t_cpu[m.thread] = c /\ m.thread \notin Idle \cup {m.from} /\ ~Has(m.thread, "TERMINATING")
    BY <1>1, <2>0, <2>1 DEF HandleUnschedule, Unscheduled
  <2>2. CASE ~(t_cpu[m.thread] = c /\ m.thread \notin Idle \cup {m.from} /\ ~Has(m.thread, "TERMINATING"))
    <3>1. UNCHANGED <<queues, t_state, unacked, torn>>
      BY <1>1, <2>2 DEF HandleUnschedule
    <3>2. SetStatus(m, "RETRY") \/ SetStatus(m, "KEEP") \/ SetStatus(m, "DEAD")
      <4>1. CASE t_cpu[m.thread] # c
        BY <1>1, <2>2, <4>1 DEF HandleUnschedule
      <4>2. CASE t_cpu[m.thread] = c /\ m.thread \in Idle \cup {m.from}
        BY <1>1, <2>2, <4>2 DEF HandleUnschedule
      <4>3. CASE t_cpu[m.thread] = c /\ m.thread \notin Idle \cup {m.from}
        BY <1>1, <2>2, <4>3 DEF HandleUnschedule
      <4> QED BY <4>1, <4>2, <4>3
    <3>3. {"RETRY", "KEEP", "DEAD"} \subseteq Status \ {"OK"}
      BY DEF Status
    <3>4. \E v \in Status : SetStatus(m, v) /\ v # "OK"
      BY <3>2, <3>3
    <3> QED BY <1>1, <2>0, <3>1, <3>4 DEF Refused
  <2> QED BY <2>1, <2>2
<1>2. CASE m.type = "WAKETASK" /\ HandleWake(c, m)
  <2>0. m.type # "UNSCHEDULE" /\ UNCHANGED unacked
    BY <1>2 DEF HandleWake
  <2>1. CASE t_cpu[m.thread] = c /\ ~Has(m.thread, "TERMINATED") /\ Has(m.thread, "SLEEPING")
    BY <1>2, <2>0, <2>1 DEF HandleWake, Woken
  <2>2. CASE ~(t_cpu[m.thread] = c /\ ~Has(m.thread, "TERMINATED") /\ Has(m.thread, "SLEEPING"))
    <3>1. UNCHANGED <<queues, t_state, awake, torn>>
      BY <1>2, <2>2 DEF HandleWake
    <3>2. \/ SetStatus(m, "RETRY")
          \/ SetStatus(m, "DEAD") /\ Has(m.thread, "TERMINATED")
          \/ SetStatus(m, "OK") /\ ~Has(m.thread, "SLEEPING")
      BY <1>2, <2>2 DEF HandleWake
    <3>3. {"RETRY", "OK", "DEAD"} \subseteq Status /\ "RETRY" # "OK" /\ "RETRY" # "DEAD" /\ "OK" # "DEAD"
      BY DEF Status
    <3>4. \E v \in Status : /\ SetStatus(m, v)
                            /\ v = "OK" => ~Has(m.thread, "SLEEPING")
                            /\ v = "DEAD" => Has(m.thread, "TERMINATED")
      BY <3>2, <3>3
    <3> QED BY <2>0, <3>1, <3>4 DEF Refused
  <2> QED BY <2>1, <2>2
<1> QED BY <1>1, <1>2 DEF x86_ipi_handle

(* The slots in use of a buffer.                                           *)
LEMMA SlotProps ==
  ASSUME TypeOK, NEW c \in Cpu
  PROVE  /\ \A s \in Valid(c) : s \in 1 .. Slots /\ ipi[c][s] \in Ipi
         /\ Free \notin Ipi
<1>6. ASSUME NEW s \in Valid(c) PROVE s \in 1 .. Slots /\ ipi[c][s] \in Ipi
  <2>1. ipi[c] \in [1 .. Slots -> Ipi \cup {Free}]
    BY DEF TypeOK
  <2>2. s \in 1 .. Slots /\ ipi[c][s] # Free
    BY DEF Valid
  <2> QED BY <2>1, <2>2
<1>7. Free \notin Ipi
  BY DEF Free, Ipi, IpiType
<1> QED BY <1>6, <1>7

(* The rest of the state.                                                  *)
PC == {"new", "run", "send", "wait", "own", "place", "sched", "exit", "final", "gone"}

CallsOK ==
  /\ t_cpu \in [Task -> Cpu]
  /\ ipi \in [Cpu -> [1 .. Slots -> Ipi \cup {Free}]]
  /\ pc \in [Task -> PC]
  /\ op \in [Task -> IpiType] /\ target \in [Task -> Task] /\ dest \in [Task -> Cpu]
  /\ calls \in [Task -> Nat] /\ \A t \in Task : calls[t] <= MaxCalls[t]
  /\ resent \subseteq Impatient

(* HelpTermination(): the next task of the ring is unlinked.               *)
LEMMA HelpSet ==
  ASSUME NEW s \in Seq(Task), Len(s) > 1
  PROVE  /\ <<Head(s)>> \o Tail(Tail(s)) \in Seq(Task) /\ <<Head(s)>> \o Tail(Tail(s)) # <<>>
         /\ s[2] \in Range(s) /\ s[2] \in Task
         /\ IsInjective(s) => /\ IsInjective(<<Head(s)>> \o Tail(Tail(s)))
                              /\ s[2] # Head(s)
                              /\ Range(<<Head(s)>> \o Tail(Tail(s))) = Range(s) \ {s[2]}
<1> DEFINE h == Head(s) u == Tail(s) v == Tail(Tail(s))
<1>0. s # <<>> /\ Len(s) \in Nat /\ DOMAIN s = 1 .. Len(s) /\ 2 \in 1 .. Len(s)
  BY SMTT(60)
<1>1. /\ h \in Task /\ u \in Seq(Task) /\ Len(u) = Len(s) - 1 /\ Range(s) = Range(u) \cup {h}
      /\ IsInjective(s) => IsInjective(u) /\ h \notin Range(u)
  BY <1>0, TailSet
<1>2. Head(u) = s[2]
  BY SMTT(60)
<1>3. u # <<>>
  <2>1. Len(u) # 0
    BY <1>0, <1>1, SMTT(60)
  <2> QED BY <1>1, <2>1, NotEmpty
<1> SUFFICES /\ <<h>> \o v \in Seq(Task) /\ <<h>> \o v # <<>>
             /\ s[2] \in Range(s) /\ s[2] \in Task
             /\ IsInjective(s) => /\ IsInjective(<<h>> \o v)
                                  /\ s[2] # h
                                  /\ Range(<<h>> \o v) = Range(s) \ {s[2]}
  OBVIOUS
<1> HIDE DEF h
<1>4. /\ s[2] \in Task /\ v \in Seq(Task) /\ s[2] \in Range(u) /\ Range(u) = Range(v) \cup {s[2]}
      /\ IsInjective(u) => IsInjective(v) /\ s[2] \notin Range(v)
  <2> HIDE DEF u
  <2>1. /\ Head(u) \in Task /\ Tail(u) \in Seq(Task) /\ Head(u) \in Range(u) /\ Range(u) = Range(Tail(u)) \cup {Head(u)}
        /\ IsInjective(u) => IsInjective(Tail(u)) /\ Head(u) \notin Range(Tail(u))
    BY <1>1, <1>3, TailSet
  <2> QED BY <1>2, <2>1 DEF u
<1> HIDE DEF u, v
<1>5. /\ <<h>> \o v \in Seq(Task) /\ <<h>> \o v # <<>>
      /\ Range(<<h>> \o v) = Range(v) \cup {h}
      /\ IsInjective(v) /\ h \notin Range(v) => IsInjective(<<h>> \o v)
  BY <1>1, <1>4, ConsSet
<1>6. s[2] \in Range(s)
  BY <1>1, <1>4
<1>7. ASSUME IsInjective(s)
      PROVE  s[2] # h /\ h \notin Range(v) /\ IsInjective(v) /\ Range(v) \cup {h} = Range(s) \ {s[2]}
  BY <1>1, <1>4, <1>7
<1> QED BY <1>4, <1>5, <1>6, <1>7

(* Every step keeps the types.                                             *)
LEMMA TypeStep ==
  TypeOK /\ [Next]_vars
    => TypeOK'
(* Loading a chain keeps the types.                                        *)
<1>LoadType.
  ASSUME TypeOK, NEW c \in Cpu,
         \E r \in LoadedRing(c) : ring' = [ring EXCEPT ![c] = r],
         c_sleeping' = [c_sleeping EXCEPT ![c] = LoadedSleeping(c)],
         c_pending' = [c_pending EXCEPT ![c] = <<>>],
         t_state' = t_state \/ t_state' = Started(Range(c_pending[c])),
         UNCHANGED <<unacked, status, awake, torn>>
  PROVE  QueuesOK'
  <2> USE <1>LoadType
  <2>0. /\ c_sleeping \in [Cpu -> SUBSET Task] /\ c_pending \in [Cpu -> Seq(Task)]
        /\ t_state \in [Task -> SUBSET StateFlag] /\ status \in [Task -> Status]
    BY DEF TypeOK
  <2>9. unacked \subseteq Cpu /\ awake \subseteq Task /\ torn \subseteq Task
    BY DEF TypeOK
  <2>1. PICK r \in LoadedRing(c) : ring' = [ring EXCEPT ![c] = r]
    OBVIOUS
  <2>2. r \in Seq(Task) /\ r # <<>> /\ LoadedSleeping(c) \in SUBSET Task
    BY LoadedSet
  <2>3. ring' \in [Cpu -> Seq(Task)] /\ \A d \in Cpu : ring'[d] # <<>>
    BY <2>1, <2>2, RingType
  <2>4. t_state' \in [Task -> SUBSET StateFlag]
    <3>1. CASE t_state' = t_state
      BY <2>0, <3>1
    <3>2. CASE t_state' = Started(Range(c_pending[c]))
      BY <3>2, StartedType
    <3> QED BY <3>1, <3>2
  <2>5. c_sleeping' \in [Cpu -> SUBSET Task]
    BY <2>0, <2>2
  <2>6. c_pending' \in [Cpu -> Seq(Task)]
    BY <2>0, SMTT(60)
  <2> QED BY <2>0, <2>3, <2>4, <2>5, <2>6, <2>9 DEF QueuesOK
(* X86_IPI_UNSCHEDULE of a thread that does not run keeps the types.       *)
<1>UnscheduleOtherType.
  ASSUME TypeOK, NEW c \in Cpu, NEW m \in Ipi, m.thread # Running(c), UnscheduleOther(c, m), UNCHANGED awake
  PROVE  QueuesOK'
  <2> USE <1>UnscheduleOtherType
  <2>0. /\ c_sleeping \in [Cpu -> SUBSET Task] /\ c_pending \in [Cpu -> Seq(Task)]
        /\ ring \in [Cpu -> Seq(Task)] /\ \A d \in Cpu : ring[d] # <<>>
    BY DEF TypeOK
  <2>9. unacked \subseteq Cpu /\ awake \subseteq Task /\ torn \subseteq Task
    BY DEF TypeOK
  <2>m. m.thread \in Task /\ "OK" \in Status
    BY DEF Ipi, Status
  <2>1. PICK r \in LoadedRing(c) : \E w \in InOrderOf(r, Range(r) \ {m.thread}) : ring' = [ring EXCEPT ![c] = w]
    BY DEF UnscheduleOther
  <2>2. PICK w \in InOrderOf(r, Range(r) \ {m.thread}) : ring' = [ring EXCEPT ![c] = w]
    BY <2>1
  <2>3. /\ r \in Seq(Task) /\ r # <<>> /\ LoadedSleeping(c) \in SUBSET Task
        /\ Range(ring[c]) \in SUBSET Task /\ Range(ring[c]) \subseteq Range(r) /\ Range(r) \in SUBSET Task
    <3>1. /\ r \in Seq(Task) /\ r # <<>> /\ LoadedSleeping(c) \in SUBSET Task
          /\ Range(c_pending[c]) \in SUBSET Task /\ Range(ring[c]) \in SUBSET Task
          /\ Range(r) = Range(ring[c]) \cup {x \in Range(c_pending[c]) : ~Has(x, "SLEEPING")}
      BY LoadedSet
    <3> QED BY <3>1
  <2>4. w \in Seq(Task) /\ Range(w) = Range(r) \ {m.thread}
    BY <2>3, OrderSet
  <2>5. w # <<>>
    <3>1. Running(c) \in Range(ring[c])
      BY <2>0, TailSet DEF Running
    <3>2. Running(c) \in Range(w)
      BY <2>3, <2>4, <3>1
    <3>3. Range(<<>>) = {}
      BY SMTT(60) DEF Range
    <3> QED BY <3>2, <3>3
  <2>6. ring' \in [Cpu -> Seq(Task)] /\ \A d \in Cpu : ring'[d] # <<>>
    BY <2>2, <2>4, <2>5, RingType
  <2>7. t_state' \in [Task -> SUBSET StateFlag]
    <3>1. t_state' = Started(Range(c_pending[c]))
      BY DEF UnscheduleOther
    <3> QED BY <3>1, StartedType
  <2>8. c_sleeping' \in [Cpu -> SUBSET Task] /\ c_pending' \in [Cpu -> Seq(Task)]
    <3>1. /\ c_sleeping' = [c_sleeping EXCEPT ![c] = LoadedSleeping(c) \ {m.thread}]
          /\ c_pending' = [c_pending EXCEPT ![c] = <<>>]
      BY DEF UnscheduleOther
    <3> QED BY <2>0, <2>3, <3>1, SMTT(60)
  <2>10. status' \in [Task -> Status]
    <3>1. SetStatus(m, "OK")
      BY DEF UnscheduleOther
    <3> QED BY <2>m, <3>1, StatusType
  <2>11. unacked' \subseteq Cpu /\ awake' \subseteq Task /\ torn' \subseteq Task
    <3>1. torn' \in {torn, torn \cup {m.thread}} /\ unacked' = unacked
      BY DEF UnscheduleOther
    <3> QED BY <2>9, <2>m, <3>1
  <2> QED BY <2>6, <2>7, <2>8, <2>10, <2>11 DEF QueuesOK
(* X86_IPI_UNSCHEDULE of the running thread keeps the types.               *)
<1>UnscheduleCurrentType.
  ASSUME TypeOK, NEW c \in Cpu, NEW m \in Ipi, UnscheduleCurrent(c, m), UNCHANGED awake
  PROVE  QueuesOK'
  <2> USE <1>UnscheduleCurrentType
  <2>0. /\ c_sleeping \in [Cpu -> SUBSET Task] /\ c_pending \in [Cpu -> Seq(Task)]
        /\ ring \in [Cpu -> Seq(Task)] /\ (\A d \in Cpu : ring[d] # <<>>)
    BY DEF TypeOK
  <2>9. t_state \in [Task -> SUBSET StateFlag] /\ unacked \subseteq Cpu /\ awake \subseteq Task /\ torn \subseteq Task
    BY DEF TypeOK
  <2>u. UNCHANGED <<c_sleeping, c_pending, t_state, torn>>
    BY DEF UnscheduleCurrent
  <2>1. CASE Len(ring[c]) = 1
    <3>1. SetStatus(m, "LAST") /\ UNCHANGED <<ring, unacked>> /\ "LAST" \in Status
      BY <2>1 DEF UnscheduleCurrent, Status
    <3>2. status' \in [Task -> Status]
      BY <3>1, StatusType
    <3> QED BY <2>0, <2>9, <2>u, <3>1, <3>2 DEF QueuesOK
  <2>2. CASE Len(ring[c]) # 1
    <3>1. /\ SetStatus(m, "OK") /\ ring' = [ring EXCEPT ![c] = Tail(ring[c])] /\ unacked' = unacked \cup {c}
          /\ "OK" \in Status
      BY <2>2 DEF UnscheduleCurrent, Status
    <3>2. status' \in [Task -> Status]
      BY <3>1, StatusType
    <3>3. Tail(ring[c]) \in Seq(Task) /\ Tail(ring[c]) # <<>>
      <4>1. ring[c] \in Seq(Task) /\ ring[c] # <<>> /\ Len(ring[c]) \in Nat
        BY <2>0, SMTT(60)
      <4>2. Tail(ring[c]) \in Seq(Task) /\ Len(Tail(ring[c])) = Len(ring[c]) - 1
        BY <4>1, TailSet
      <4>3. Len(ring[c]) # 0
        BY <4>1, SMTT(60)
      <4>4. Len(Tail(ring[c])) # 0
        BY <2>2, <4>1, <4>2, SMTT(60)
      <4> QED BY <4>2, <4>4, NotEmpty
    <3>4. ring' \in [Cpu -> Seq(Task)] /\ \A d \in Cpu : ring'[d] # <<>>
      BY <3>1, <3>3, RingType
    <3>5. unacked' \subseteq Cpu
      BY <2>9, <3>1
    <3> QED BY <2>0, <2>9, <2>u, <3>2, <3>4, <3>5 DEF QueuesOK
  <2> QED BY <2>1, <2>2
(* x86_scheduler_localwake() keeps the types.                              *)
<1>WakeType.
  ASSUME TypeOK, NEW c \in Cpu, NEW x \in Task, x86_scheduler_localwake(c, x),
         status' \in [Task -> Status], UNCHANGED unacked
  PROVE  QueuesOK'
  <2> USE <1>WakeType
  <2>0. /\ c_sleeping \in [Cpu -> SUBSET Task] /\ c_pending \in [Cpu -> Seq(Task)]
        /\ ring \in [Cpu -> Seq(Task)] /\ (\A d \in Cpu : ring[d] # <<>>)
    BY DEF TypeOK
  <2>9. t_state \in [Task -> SUBSET StateFlag] /\ unacked \subseteq Cpu /\ awake \subseteq Task /\ torn \subseteq Task
    BY DEF TypeOK
  <2>1. \/ ring' = [ring EXCEPT ![c] = Append(ring[c], x)]
        \/ ring' = [ring EXCEPT ![c] = InsertAfter(ring[c], x)]
    <3>1. CASE NoSmp
      BY <3>1 DEF x86_scheduler_localwake
    <3>2. CASE ~NoSmp
      BY <3>2 DEF x86_scheduler_localwake
    <3> QED BY <3>1, <3>2
  <2>2. InsertAfter(ring[c], x) \in Seq(Task) /\ InsertAfter(ring[c], x) # <<>>
    BY <2>0, InsertSet
  <2>n. Append(ring[c], x) \in Seq(Task) /\ Append(ring[c], x) # <<>>
    <3>1. ring[c] \in Seq(Task)
      BY <2>0
    <3>2. Append(ring[c], x) \in Seq(Task) /\ Len(Append(ring[c], x)) = Len(ring[c]) + 1 /\ Len(ring[c]) \in Nat
      BY <3>1, SMTT(60)
    <3>3. Len(Append(ring[c], x)) # 0
      BY <3>2, SMTT(60)
    <3> QED BY <3>2, <3>3, NotEmpty
  <2>3. ring' \in [Cpu -> Seq(Task)] /\ \A d \in Cpu : ring'[d] # <<>>
    BY <2>1, <2>2, <2>n, RingType
  <2>4. c_sleeping' \in [Cpu -> SUBSET Task] /\ c_pending' = c_pending
    BY <2>0 DEF x86_scheduler_localwake
  <2>5. t_state' \in [Task -> SUBSET StateFlag]
    BY <2>9 DEF x86_scheduler_localwake
  <2>6. torn' \subseteq Task /\ awake' \subseteq Task
    BY <2>9 DEF x86_scheduler_localwake, SeenAwake
  <2> QED BY <2>0, <2>3, <2>4, <2>5, <2>6, <2>9 DEF QueuesOK
(* Every handler keeps the types.                                          *)
<1>HandleType.
  ASSUME TypeOK, NEW c \in Cpu, NEW m \in Ipi, x86_ipi_handle(c, m)
  PROVE  QueuesOK'
  <2> USE <1>HandleType
  <2>0. /\ c_sleeping \in [Cpu -> SUBSET Task] /\ c_pending \in [Cpu -> Seq(Task)]
        /\ ring \in [Cpu -> Seq(Task)] /\ (\A d \in Cpu : ring[d] # <<>>)
    BY DEF TypeOK
  <2>9. t_state \in [Task -> SUBSET StateFlag] /\ unacked \subseteq Cpu /\ awake \subseteq Task /\ torn \subseteq Task
    BY DEF TypeOK
  <2>m. m.thread \in Task /\ "OK" \in Status
    BY DEF Ipi, Status
  <2>1. CASE Refused(m)
    <3>1. UNCHANGED <<queues, t_state, unacked, awake, torn>> /\ \E v \in Status : SetStatus(m, v)
      BY <2>1 DEF Refused
    <3>2. status' \in [Task -> Status]
      BY <3>1, StatusType
    <3> QED BY <2>0, <2>9, <3>1, <3>2 DEF QueuesOK, queues
  <2>2. CASE Unscheduled(c, m)
    BY <2>2, <1>UnscheduleCurrentType, <1>UnscheduleOtherType DEF Unscheduled
  <2>3. CASE Woken(c, m)
    <3>1. x86_scheduler_localwake(c, m.thread) /\ SetStatus(m, "OK") /\ UNCHANGED unacked
      BY <2>3 DEF Woken
    <3>2. status' \in [Task -> Status]
      BY <2>m, <3>1, StatusType
    <3> QED BY <2>m, <3>1, <3>2, <1>WakeType
  <2> QED BY <2>1, <2>2, <2>3, HandleCases
(* X86_IPI_SCHEDULE keeps the types.                                       *)
<1>ScheduleType.
  ASSUME TypeOK, NEW c \in Cpu, HandleSchedule(c)
  PROVE  QueuesOK'
  <2> USE <1>ScheduleType
  <2>1. /\ \E r \in LoadedRing(c) : ring' = [ring EXCEPT ![c] = r]
        /\ c_sleeping' = [c_sleeping EXCEPT ![c] = LoadedSleeping(c)]
        /\ c_pending' = [c_pending EXCEPT ![c] = <<>>]
        /\ t_state' = Started(Range(c_pending[c]))
        /\ UNCHANGED <<unacked, status, awake, torn>>
    BY DEF HandleSchedule, x86_scheduler_loadpending
  <2> QED BY <2>1, <1>LoadType
(* TypeOK in two halves: what handlers change, and what calls change.      *)
<1>TypeSplit.      TypeOK <=> QueuesOK /\ CallsOK
  BY DEF TypeOK, QueuesOK, CallsOK, PC
(* x86_ipi_send() fills one free slot and resets the status word.          *)
<1>SendType.
  ASSUME TypeOK, NEW c \in Cpu, NEW to \in Cpu, NEW m \in Ipi, x86_ipi_send(c, to, m)
  PROVE  /\ QueuesOK' /\ ipi' \in [Cpu -> [1 .. Slots -> Ipi \cup {Free}]]
         /\ \E n \in 1 .. Slots \ Valid(to) : ipi' = [ipi EXCEPT ![to][n] = m]
  <2> USE <1>SendType
  <2>1. SetStatus(m, "PENDING") /\ UNCHANGED <<queues, t_state, unacked, awake, torn>>
    BY DEF x86_ipi_send
  <2>2. PICK n \in 1 .. Slots \ Valid(to) : ipi' = [ipi EXCEPT ![to][n] = m]
    BY DEF x86_ipi_send
  <2>3. ipi \in [Cpu -> [1 .. Slots -> Ipi \cup {Free}]]
    BY DEF TypeOK
  <2>4. ipi' \in [Cpu -> [1 .. Slots -> Ipi \cup {Free}]]
    BY <2>2, <2>3
  <2>5. status' \in [Task -> Status]
    <3>1. "PENDING" \in Status
      BY DEF Status
    <3> QED BY <2>1, <3>1, StatusType
  <2>6. QueuesOK
    BY <1>TypeSplit
  <2>7. UNCHANGED <<ring, c_sleeping, c_pending, t_state, unacked, awake, torn>>
    BY <2>1 DEF queues
  <2>8. QueuesOK'
    BY <2>5, <2>6, <2>7 DEF QueuesOK
  <2> QED BY <2>2, <2>4, <2>8
(* x86_ipi_process() keeps the types.                                      *)
<1>TypeProcess.
  ASSUME TypeOK, NEW c \in Cpu, x86_ipi_process(c)
  PROVE  TypeOK'
  <2> USE <1>TypeProcess
  <2>1. PICK s \in Valid(c) :
        /\ s \in 1 .. Slots /\ ipi[c][s] \in Ipi
        /\ ipi' = [ipi EXCEPT ![c][s] = Free]
        /\ HandleSchedule(c) \/ x86_ipi_handle(c, ipi[c][s])
        /\ UNCHANGED <<t_cpu, pc, frame, calls, resent>>
    BY SlotProps DEF x86_ipi_process
  <2>2. QueuesOK'
    BY <2>1, <1>HandleType, <1>ScheduleType
  <2>3. CallsOK
    BY <1>TypeSplit
  <2>4. ipi' \in [Cpu -> [1 .. Slots -> Ipi \cup {Free}]]
    BY <2>1, <2>3 DEF CallsOK
  <2>5. CallsOK'
    BY <2>1, <2>3, <2>4 DEF CallsOK, frame
  <2> QED BY <2>2, <2>5 DEF TypeOK, QueuesOK, CallsOK, PC
(* task_yield(), the timer and the idle loops.                             *)
<1>TypeCpu.
  ASSUME TypeOK, NEW c \in Cpu, task_yield(c) \/ X86_IRQ_PIT(c) \/ x86_cpu_idle(c)
  PROVE  TypeOK'
  <2> USE <1>TypeCpu
  <2>0. QueuesOK /\ CallsOK
    BY <1>TypeSplit
  <2>q. ASSUME QueuesOK', UNCHANGED <<t_cpu, ipi, pc, frame, calls, resent>> PROVE TypeOK'
    BY <2>0, <2>q DEF TypeOK, QueuesOK, CallsOK, PC, frame
  <2>r. ring[c] \in Seq(Task) /\ ring[c] # <<>>
    BY <2>0 DEF QueuesOK
  <2>1. CASE task_yield(c)
    <3>1. Rotate(ring[c]) \in Seq(Task) /\ Rotate(ring[c]) # <<>>
      BY <2>r, RotateSet
    <3>2. ring' = [ring EXCEPT ![c] = Rotate(ring[c])]
      BY <2>1 DEF task_yield
    <3>3. ring' \in [Cpu -> Seq(Task)] /\ \A d \in Cpu : ring'[d] # <<>>
      BY <3>1, <3>2, RingType
    <3>4. /\ UNCHANGED <<c_sleeping, c_pending, t_state, unacked, status, awake, torn>>
          /\ UNCHANGED <<t_cpu, ipi, pc, frame, calls, resent>>
      BY <2>1 DEF task_yield
    <3>5. QueuesOK'
      BY <2>0, <3>3, <3>4 DEF QueuesOK
    <3> QED BY <2>q, <3>4, <3>5
  <2>2. CASE X86_IRQ_PIT(c)
    <3>1. PICK xs \in (SUBSET c_sleeping[c]) \ {{}} : \E w \in Orderings(xs) :
            /\ ring' = [ring EXCEPT ![c] = Rotate(<<Head(ring[c])>> \o w \o Tail(ring[c]))]
            /\ c_sleeping' = [c_sleeping EXCEPT ![c] = c_sleeping[c] \ xs]
            /\ t_state' = [x \in Task |-> IF x \in xs THEN (t_state[x] \ {"SLEEPING"}) \cup {"TIMEDOUT"}
                                          ELSE t_state[x]]
            /\ SeenAwake(xs)
            /\ UNCHANGED <<c_pending, t_cpu, ipi, unacked, pc, frame, status, calls, resent, torn>>
      BY <2>2 DEF X86_IRQ_PIT
    <3>2. PICK w \in Orderings(xs) : ring' = [ring EXCEPT ![c] = Rotate(<<Head(ring[c])>> \o w \o Tail(ring[c]))]
      BY <3>1
    <3>3. xs \in SUBSET Task /\ c_sleeping \in [Cpu -> SUBSET Task]
      BY <2>0 DEF QueuesOK
    <3>4. Rotate(<<Head(ring[c])>> \o w \o Tail(ring[c])) \in Seq(Task) /\ Rotate(<<Head(ring[c])>> \o w \o Tail(ring[c])) # <<>>
      BY <2>r, <3>3, ExpiredSet
    <3>5. ring' \in [Cpu -> Seq(Task)] /\ \A d \in Cpu : ring'[d] # <<>>
      BY <3>2, <3>4, RingType
    <3>6. c_sleeping' \in [Cpu -> SUBSET Task] /\ awake' \subseteq Task
      BY <2>0, <3>1, <3>3, SMTT(60) DEF SeenAwake, QueuesOK
    <3>7. t_state' \in [Task -> SUBSET StateFlag]
      <4>1. t_state \in [Task -> SUBSET StateFlag] /\ "TIMEDOUT" \in StateFlag
        BY <2>0 DEF QueuesOK, StateFlag
      <4> QED BY <3>1, <4>1, SMTT(60)
    <3>8. UNCHANGED <<c_pending, unacked, status, torn>> /\ UNCHANGED <<t_cpu, ipi, pc, frame, calls, resent>>
      BY <3>1
    <3>9. QueuesOK'
      BY <2>0, <3>5, <3>6, <3>7, <3>8 DEF QueuesOK
    <3> QED BY <2>q, <3>8, <3>9
  <2>3. CASE x86_cpu_idle(c)
    <3>1. /\ \E r \in LoadedRing(c) : ring' = [ring EXCEPT ![c] = r]
          /\ c_sleeping' = [c_sleeping EXCEPT ![c] = LoadedSleeping(c)]
          /\ c_pending' = [c_pending EXCEPT ![c] = <<>>]
          /\ t_state' = t_state
          /\ UNCHANGED <<unacked, status, awake, torn>>
          /\ UNCHANGED <<t_cpu, ipi, pc, frame, calls, resent>>
      BY <2>3 DEF x86_cpu_idle, x86_scheduler_loadpending_chain
    <3>2. QueuesOK'
      BY <3>1, <1>LoadType
    <3> QED BY <2>q, <3>1, <3>2
  <2> QED BY <2>1, <2>2, <2>3
(* A step of the running task that is a call of its own.                   *)
<1>TypeCall.
  ASSUME TypeOK, NEW c \in Cpu, NEW t \in Task,
         \/ task_start(c, t) \/ task_wake(c, t) \/ task_setcpu(c, t) \/ AlreadyThere(c, t)
         \/ Answered(c, t) \/ WakeTimeout(c, t) \/ SetTCpu(c, t) \/ PushPending(c, t)
  PROVE  TypeOK'
  <2> USE <1>TypeCall
  <2>0. QueuesOK /\ CallsOK
    BY <1>TypeSplit
  <2>1. /\ ring \in [Cpu -> Seq(Task)] /\ (\A d \in Cpu : ring[d] # <<>>) /\ c_sleeping \in [Cpu -> SUBSET Task]
        /\ c_pending \in [Cpu -> Seq(Task)] /\ t_state \in [Task -> SUBSET StateFlag]
    BY <2>0 DEF QueuesOK
  <2>2. unacked \subseteq Cpu /\ status \in [Task -> Status] /\ awake \subseteq Task /\ torn \subseteq Task
    BY <2>0 DEF QueuesOK
  <2>3. /\ t_cpu \in [Task -> Cpu] /\ pc \in [Task -> PC] /\ op \in [Task -> IpiType]
        /\ target \in [Task -> Task] /\ dest \in [Task -> Cpu]
    BY <2>0 DEF CallsOK
  <2>4. /\ calls \in [Task -> Nat] /\ (\A u \in Task : calls[u] <= MaxCalls[u]) /\ resent \subseteq Impatient
        /\ ipi \in [Cpu -> [1 .. Slots -> Ipi \cup {Free}]]
    BY <2>0 DEF CallsOK
  <2>g. ASSUME NEW u \in Task, NEW l \in PC, GoTo(u, l) PROVE pc' \in [Task -> PC]
    BY <2>3, <2>g DEF GoTo
  <2>m. MaxCalls \in [Task -> Nat] /\ New \subseteq Task /\ Movable \subseteq Task
    BY SchedAssumption
  <2>c. ASSUME calls[t] < MaxCalls[t], calls' = [calls EXCEPT ![t] = calls[t] + 1]
        PROVE  calls' \in [Task -> Nat] /\ \A u \in Task : calls'[u] <= MaxCalls[u]
    <3>1. calls[t] \in Nat /\ MaxCalls[t] \in Nat /\ calls[t] + 1 <= MaxCalls[t]
      <4>1. calls[t] \in Nat /\ MaxCalls[t] \in Nat
        BY <2>4, <2>m
      <4>2. calls[t] < MaxCalls[t]
        BY <2>c
      <4> QED BY <4>1, <4>2, SMTT(60)
    <3>2. calls' \in [Task -> Nat] /\ calls'[t] = calls[t] + 1 /\ \A u \in Task : u # t => calls'[u] = calls[u]
      BY <2>4, <2>c, <3>1, SMTT(60)
    <3>3. ASSUME NEW u \in Task PROVE calls'[u] <= MaxCalls[u]
      <4>1. CASE u = t
        BY <3>1, <3>2, <4>1
      <4>2. CASE u # t
        BY <2>4, <3>2, <4>2
      <4> QED BY <4>1, <4>2
    <3> QED BY <3>2, <3>3
  <2>p. ASSUME NEW d \in Cpu, NEW x \in Task, c_pending' = [c_pending EXCEPT ![d] = <<x>> \o c_pending[d]]
        PROVE  c_pending' \in [Cpu -> Seq(Task)]
    <3>1. <<x>> \o c_pending[d] \in Seq(Task)
      BY <2>1, SMTT(60)
    <3> QED BY <2>1, <2>p, <3>1
  <2>q. ASSUME UNCHANGED <<ring, c_sleeping, t_state, unacked, torn>>, c_pending' \in [Cpu -> Seq(Task)],
               status' \in [Task -> Status], awake' \subseteq Task
        PROVE  QueuesOK'
    BY <2>1, <2>2, <2>q DEF QueuesOK
  <2>r. ASSUME UNCHANGED ipi, t_cpu' \in [Task -> Cpu], pc' \in [Task -> PC], op' \in [Task -> IpiType],
               target' \in [Task -> Task], dest' \in [Task -> Cpu], resent' \subseteq Impatient,
               calls' \in [Task -> Nat], \A u \in Task : calls'[u] <= MaxCalls[u]
        PROVE  CallsOK'
    BY <2>4, <2>r DEF CallsOK
  <2>s. ASSUME QueuesOK', CallsOK' PROVE TypeOK'
    BY <2>s DEF TypeOK, QueuesOK, CallsOK, PC
  <2>5. CASE task_start(c, t)
    <3>1. PICK x \in New : /\ pc[x] = "new"
                           /\ c_pending' = [c_pending EXCEPT ![t_cpu[x]] = <<x>> \o c_pending[t_cpu[x]]]
                           /\ dest' = [dest EXCEPT ![t] = t_cpu[x]]
                           /\ pc' = [pc EXCEPT ![x] = "run", ![t] = "sched"]
      BY <2>5 DEF task_start
    <3>2. x \in Task /\ t_cpu[x] \in Cpu
      BY <2>3, <2>m
    <3>3. c_pending' \in [Cpu -> Seq(Task)]
      BY <2>p, <3>1, <3>2
    <3>4. dest' \in [Task -> Cpu]
      BY <2>3, <3>1, <3>2
    <3>5. pc' \in [Task -> PC]
      BY <2>3, <3>1 DEF PC
    <3>6. /\ calls[t] < MaxCalls[t] /\ calls' = [calls EXCEPT ![t] = calls[t] + 1]
          /\ UNCHANGED <<ring, c_sleeping, t_cpu, t_state, ipi, unacked, op, target, status, awake, resent, torn>>
      BY <2>5 DEF task_start
    <3>7. QueuesOK'
      BY <2>2, <2>q, <3>3, <3>6
    <3>8. CallsOK'
      BY <2>3, <2>4, <2>c, <2>r, <3>4, <3>5, <3>6
    <3> QED BY <2>s, <3>7, <3>8
  <2>6. CASE task_wake(c, t)
    <3>1. PICK x \in Task \ Idle : /\ target' = [target EXCEPT ![t] = x]
                                   /\ awake' = IF Has(x, "SLEEPING") THEN awake \ {t} ELSE awake \cup {t}
      BY <2>6 DEF task_wake
    <3>2. /\ calls[t] < MaxCalls[t] /\ calls' = [calls EXCEPT ![t] = calls[t] + 1]
          /\ op' = [op EXCEPT ![t] = "WAKETASK"] /\ status' = [status EXCEPT ![t] = "PENDING"] /\ GoTo(t, "send")
          /\ UNCHANGED <<queues, t_cpu, t_state, ipi, unacked, dest, resent, torn>>
      BY <2>6 DEF task_wake
    <3>3. target' \in [Task -> Task] /\ awake' \subseteq Task
      BY <2>2, <2>3, <3>1
    <3>4. op' \in [Task -> IpiType] /\ status' \in [Task -> Status]
      BY <2>2, <2>3, <3>2 DEF IpiType, Status
    <3>5. pc' \in [Task -> PC]
      BY <2>g, <3>2 DEF PC
    <3>7. QueuesOK'
      BY <2>1, <2>q, <3>2, <3>3, <3>4 DEF queues
    <3>8. CallsOK'
      BY <2>3, <2>4, <2>c, <2>r, <3>2, <3>3, <3>4, <3>5
    <3> QED BY <2>s, <3>7, <3>8
  <2>7. CASE task_setcpu(c, t)
    <3>1. PICK x \in Movable, to \in Cpu : target' = [target EXCEPT ![t] = x] /\ dest' = [dest EXCEPT ![t] = to]
      BY <2>7 DEF task_setcpu
    <3>2. /\ calls[t] < MaxCalls[t] /\ calls' = [calls EXCEPT ![t] = calls[t] + 1]
          /\ op' = [op EXCEPT ![t] = "UNSCHEDULE"] /\ status' = [status EXCEPT ![t] = "PENDING"] /\ GoTo(t, "send")
          /\ awake' = awake \ {t} /\ UNCHANGED <<queues, t_cpu, t_state, ipi, unacked, resent, torn>>
      BY <2>7 DEF task_setcpu
    <3>3. target' \in [Task -> Task] /\ dest' \in [Task -> Cpu] /\ awake' \subseteq Task
      BY <2>2, <2>3, <2>m, <3>1, <3>2
    <3>4. op' \in [Task -> IpiType] /\ status' \in [Task -> Status]
      BY <2>2, <2>3, <3>2 DEF IpiType, Status
    <3>5. pc' \in [Task -> PC]
      BY <2>g, <3>2 DEF PC
    <3>7. QueuesOK'
      BY <2>1, <2>q, <3>2, <3>3, <3>4 DEF queues
    <3>8. CallsOK'
      BY <2>3, <2>4, <2>c, <2>r, <3>2, <3>3, <3>4, <3>5
    <3> QED BY <2>s, <3>7, <3>8
  <2>8. CASE AlreadyThere(c, t) \/ Answered(c, t) \/ WakeTimeout(c, t)
    <3>1. /\ \E l \in PC : GoTo(t, l)
          /\ resent' \subseteq Impatient
          /\ UNCHANGED <<queues, t_cpu, t_state, ipi, unacked, frame, status, calls, awake, torn>>
      BY <2>4, <2>8 DEF AlreadyThere, Answered, WakeTimeout, PC
    <3>5. pc' \in [Task -> PC]
      BY <2>g, <3>1
    <3>7. QueuesOK'
      BY <2>1, <2>2, <2>q, <3>1 DEF queues
    <3>8. CallsOK'
      BY <2>3, <2>4, <2>r, <3>1, <3>5 DEF frame
    <3> QED BY <2>s, <3>7, <3>8
  <2>9. CASE SetTCpu(c, t)
    <3>1. /\ t_cpu' = [t_cpu EXCEPT ![target[t]] = dest[t]] /\ GoTo(t, "place")
          /\ UNCHANGED <<queues, t_state, ipi, unacked, frame, status, calls, awake, resent, torn>>
      BY <2>9 DEF SetTCpu
    <3>2. t_cpu' \in [Task -> Cpu]
      BY <2>3, <3>1
    <3>5. pc' \in [Task -> PC]
      <4>1. GoTo(t, "place") /\ "place" \in PC
        BY <3>1 DEF PC
      <4> QED BY <2>g, <4>1
    <3>7. QueuesOK'
      BY <2>1, <2>2, <2>q, <3>1 DEF queues
    <3>8. CallsOK'
      BY <2>3, <2>4, <2>r, <3>1, <3>2, <3>5 DEF frame
    <3> QED BY <2>s, <3>7, <3>8
  <2>10. CASE PushPending(c, t)
    <3>1. /\ c_pending' = [c_pending EXCEPT ![dest[t]] = <<target[t]>> \o c_pending[dest[t]]] /\ GoTo(t, "sched")
          /\ UNCHANGED <<ring, c_sleeping, t_cpu, t_state, ipi, unacked, frame, status, calls, awake, resent, torn>>
      BY <2>10 DEF PushPending
    <3>2. dest[t] \in Cpu /\ target[t] \in Task
      BY <2>3
    <3>3. c_pending' \in [Cpu -> Seq(Task)]
      BY <2>p, <3>1, <3>2
    <3>5. pc' \in [Task -> PC]
      BY <2>g, <3>1 DEF PC
    <3>7. QueuesOK'
      BY <2>2, <2>q, <3>1, <3>3
    <3>8. CallsOK'
      BY <2>3, <2>4, <2>r, <3>1, <3>5 DEF frame
    <3> QED BY <2>s, <3>7, <3>8
  <2> QED BY <2>5, <2>6, <2>7, <2>8, <2>9, <2>10
(* A step of the running task that sends an IPI.                           *)
<1>TypeSend.
  ASSUME TypeOK, NEW c \in Cpu, NEW t \in Task, SendSchedule(c, t) \/ SendIpi(c, t)
  PROVE  TypeOK'
  <2> USE <1>TypeSend
  <2>0. QueuesOK /\ CallsOK
    BY <1>TypeSplit
  <2>1. /\ t_cpu \in [Task -> Cpu] /\ pc \in [Task -> PC] /\ op \in [Task -> IpiType]
        /\ target \in [Task -> Task] /\ dest \in [Task -> Cpu]
        /\ ipi \in [Cpu -> [1 .. Slots -> Ipi \cup {Free}]]
    BY <2>0 DEF CallsOK
  <2>g. ASSUME NEW l \in PC, GoTo(t, l) PROVE pc' \in [Task -> PC]
    BY <2>1, <2>g DEF GoTo
  <2>s. ASSUME QueuesOK', ipi' \in [Cpu -> [1 .. Slots -> Ipi \cup {Free}]], pc' \in [Task -> PC],
               UNCHANGED <<t_cpu, frame, calls, resent>>
        PROVE  TypeOK'
    <3>1. UNCHANGED <<op, target, dest>>
      BY <2>s DEF frame
    <3>2. CallsOK'
      BY <2>0, <2>s, <3>1 DEF CallsOK
    <3> QED BY <2>s, <3>2 DEF TypeOK, QueuesOK, CallsOK, PC
  <2>2. CASE SendSchedule(c, t)
    <3> DEFINE m == [type |-> "SCHEDULE", thread |-> t, from |-> t]
    <3>1. m \in Ipi /\ dest[t] \in Cpu
      BY <2>1 DEF Ipi, IpiType
    <3>2. /\ x86_ipi_send(c, dest[t], m) \/ (HandleSchedule(c) /\ UNCHANGED ipi)
          /\ GoTo(t, "run") /\ UNCHANGED <<t_cpu, frame, calls, resent>>
      BY <2>2 DEF SendSchedule
    <3> HIDE DEF m
    <3>3. QueuesOK' /\ ipi' \in [Cpu -> [1 .. Slots -> Ipi \cup {Free}]]
      BY <2>1, <3>1, <3>2, <1>SendType, <1>ScheduleType
    <3>4. pc' \in [Task -> PC]
      BY <2>g, <3>2 DEF PC
    <3> QED BY <2>s, <3>2, <3>3, <3>4
  <2>3. CASE SendIpi(c, t)
    <3> DEFINE m == [type |-> op[t], thread |-> target[t], from |-> t]
    <3>1. m \in Ipi /\ t_cpu[target[t]] \in Cpu
      BY <2>1 DEF Ipi
    <3>2. /\ x86_ipi_send(c, t_cpu[target[t]], m) \/ (x86_ipi_handle(c, m) /\ UNCHANGED ipi)
          /\ GoTo(t, "wait") /\ UNCHANGED <<t_cpu, frame, calls, resent>>
      BY <2>3 DEF SendIpi
    <3> HIDE DEF m
    <3>3. QueuesOK' /\ ipi' \in [Cpu -> [1 .. Slots -> Ipi \cup {Free}]]
      BY <2>1, <3>1, <3>2, <1>SendType, <1>HandleType
    <3>4. pc' \in [Task -> PC]
      BY <2>g, <3>2 DEF PC
    <3> QED BY <2>s, <3>2, <3>3, <3>4
  <2> QED BY <2>2, <2>3
(* A ring of several tasks is not empty without the current one.           *)
<1>TailLong.
  ASSUME NEW s \in Seq(Task), Len(s) > 1
  PROVE  Tail(s) \in Seq(Task) /\ Tail(s) # <<>>
  <2> USE <1>TailLong
  <2>1. Len(s) \in Nat /\ s # <<>>
    BY SMTT(60)
  <2> DEFINE u == Tail(s)
  <2>2. u \in Seq(Task) /\ Len(u) = Len(s) - 1
    BY <2>1, TailSet
  <2> HIDE DEF u
  <2>3. Len(u) # 0
    <3>1. PICK n \in Nat : n = Len(s)
      BY <2>1
    <3>2. n > 1 /\ Len(u) = n - 1
      BY <2>2, <3>1
    <3> QED BY <3>2, SMTT(60)
  <2> QED BY <2>2, <2>3, NotEmpty DEF u
(* The steps of task_sleep() and task_exit().                              *)
<1>TypeEnd.
  ASSUME TypeOK, NEW c \in Cpu, NEW t \in Task,
         \/ task_sleep(c, t) \/ task_exit(c, t) \/ Terminated(c, t)
         \/ FinalDecref(c, t) \/ HelpTermination(c, t) \/ AskTermination(c, t)
  PROVE  TypeOK'
  <2> USE <1>TypeEnd
  <2>0. QueuesOK /\ CallsOK
    BY <1>TypeSplit
  <2>1. /\ ring \in [Cpu -> Seq(Task)] /\ (\A d \in Cpu : ring[d] # <<>>) /\ c_sleeping \in [Cpu -> SUBSET Task]
        /\ t_state \in [Task -> SUBSET StateFlag] /\ pc \in [Task -> PC]
    BY <2>0 DEF QueuesOK, CallsOK
  <2>g. ASSUME NEW u \in Task, NEW l \in PC, GoTo(u, l) PROVE pc' \in [Task -> PC]
    BY <2>1, <2>g DEF GoTo
  <2>s. ASSUME ring' \in [Cpu -> Seq(Task)], \A d \in Cpu : ring'[d] # <<>>, c_sleeping' \in [Cpu -> SUBSET Task],
               t_state' \in [Task -> SUBSET StateFlag], pc' \in [Task -> PC],
               UNCHANGED <<c_pending, t_cpu, ipi, unacked, frame, status, calls, awake, resent, torn>>
        PROVE  TypeOK'
    <3>1. UNCHANGED <<op, target, dest>>
      BY <2>s DEF frame
    <3>2. CallsOK'
      <4>1. pc' \in [Task -> PC] /\ UNCHANGED <<t_cpu, ipi, calls, resent>>
        BY <2>s
      <4> QED BY <2>0, <3>1, <4>1 DEF CallsOK
    <3>3. QueuesOK'
      BY <2>0, <2>s DEF QueuesOK
    <3> QED BY <3>2, <3>3 DEF TypeOK, QueuesOK, CallsOK, PC
  <2>u. ASSUME NEW r \in Seq(Task), r # <<>>, ring' = [ring EXCEPT ![c] = r]
        PROVE  ring' \in [Cpu -> Seq(Task)] /\ \A d \in Cpu : ring'[d] # <<>>
    BY <2>u, RingType
  <2>r. /\ ring[c] \in Seq(Task) /\ ring[c] # <<>>
        /\ Rotate(ring[c]) \in Seq(Task) /\ Rotate(ring[c]) # <<>>
    BY <2>1, RotateSet
  <2>t. ASSUME Len(ring[c]) > 1 PROVE Tail(ring[c]) \in Seq(Task) /\ Tail(ring[c]) # <<>>
    BY <2>r, <2>t, <1>TailLong
  <2>2. CASE task_sleep(c, t)
    <3>1. /\ Len(ring[c]) > 1 /\ ring' = [ring EXCEPT ![c] = Tail(ring[c])]
          /\ c_sleeping' = [c_sleeping EXCEPT ![c] = c_sleeping[c] \cup {t}]
          /\ t_state' = [t_state EXCEPT ![t] = (t_state[t] \ {"TIMEDOUT"}) \cup {"SLEEPING"}]
          /\ UNCHANGED <<c_pending, t_cpu, ipi, unacked, pc, frame, status, calls, awake, resent, torn>>
      BY <2>2 DEF task_sleep
    <3>2. ring' \in [Cpu -> Seq(Task)] /\ \A d \in Cpu : ring'[d] # <<>>
      BY <2>t, <2>u, <3>1
    <3>3. c_sleeping' \in [Cpu -> SUBSET Task]
      BY <2>1, <3>1
    <3>4. t_state' \in [Task -> SUBSET StateFlag]
      BY <2>1, <3>1 DEF StateFlag
    <3> QED BY <2>1, <2>s, <3>1, <3>2, <3>3, <3>4
  <2>3. CASE task_exit(c, t) \/ Terminated(c, t)
    <3>1. /\ \E f \in StateFlag : t_state' = [t_state EXCEPT ![t] = t_state[t] \cup {f}]
          /\ \E l \in PC : GoTo(t, l)
          /\ UNCHANGED <<queues, t_cpu, ipi, unacked, frame, status, calls, awake, resent, torn>>
      <4>1. "TERMINATING" \in StateFlag /\ "TERMINATED" \in StateFlag /\ "exit" \in PC /\ "final" \in PC
        BY DEF StateFlag, PC
      <4> QED BY <2>3, <4>1 DEF task_exit, Terminated
    <3>2. t_state' \in [Task -> SUBSET StateFlag]
      BY <2>1, <3>1, SMTT(60)
    <3>3. pc' \in [Task -> PC]
      BY <2>g, <3>1
    <3> QED BY <2>1, <2>s, <3>1, <3>2, <3>3 DEF queues
  <2>4. CASE FinalDecref(c, t)
    <3>1. /\ Len(ring[c]) > 1 /\ ring' = [ring EXCEPT ![c] = Tail(ring[c])] /\ GoTo(t, "gone")
          /\ UNCHANGED <<c_sleeping, c_pending, t_cpu, t_state, ipi, unacked, frame, status, calls, awake, resent, torn>>
      BY <2>4 DEF FinalDecref
    <3>2. ring' \in [Cpu -> Seq(Task)] /\ \A d \in Cpu : ring'[d] # <<>>
      BY <2>t, <2>u, <3>1
    <3>3. pc' \in [Task -> PC]
      BY <2>g, <3>1 DEF PC
    <3> QED BY <2>1, <2>s, <3>1, <3>2, <3>3
  <2>5. CASE HelpTermination(c, t)
    <3>1. /\ Len(ring[c]) > 1 /\ ring' = [ring EXCEPT ![c] = <<t>> \o Tail(Tail(ring[c]))] /\ GoTo(ring[c][2], "gone")
          /\ t_state' = [t_state EXCEPT ![t] = t_state[t] \ {"HELPMETERM"}] /\ t = Head(ring[c])
          /\ UNCHANGED <<c_sleeping, c_pending, t_cpu, ipi, unacked, frame, status, calls, awake, resent, torn>>
      BY <2>5 DEF HelpTermination, At, Running
    <3>2. /\ <<t>> \o Tail(Tail(ring[c])) \in Seq(Task) /\ <<t>> \o Tail(Tail(ring[c])) # <<>> /\ ring[c][2] \in Task
      BY <2>r, <3>1, HelpSet
    <3>3. ring' \in [Cpu -> Seq(Task)] /\ \A d \in Cpu : ring'[d] # <<>>
      BY <2>u, <3>1, <3>2
    <3>4. pc' \in [Task -> PC]
      <4>1. "gone" \in PC
        BY DEF PC
      <4> QED BY <2>g, <3>1, <3>2, <4>1
    <3>5. t_state' \in [Task -> SUBSET StateFlag]
      BY <2>1, <3>1
    <3> QED BY <2>1, <2>s, <3>1, <3>3, <3>4, <3>5
  <2>6. CASE AskTermination(c, t)
    <3>1. /\ ring' = [ring EXCEPT ![c] = Rotate(ring[c])]
          /\ t_state' = [t_state EXCEPT ![t] = t_state[t] \cup {"HELPMETERM"}]
          /\ UNCHANGED <<c_sleeping, c_pending, t_cpu, ipi, unacked, pc, frame, status, calls, awake, resent, torn>>
      BY <2>6 DEF AskTermination
    <3>2. ring' \in [Cpu -> Seq(Task)] /\ \A d \in Cpu : ring'[d] # <<>>
      BY <2>r, <2>u, <3>1
    <3>3. t_state' \in [Task -> SUBSET StateFlag]
      BY <2>1, <3>1 DEF StateFlag
    <3> QED BY <2>1, <2>s, <3>1, <3>2, <3>3
  <2> QED BY <2>2, <2>3, <2>4, <2>5, <2>6
<1> SUFFICES ASSUME TypeOK, [Next]_vars
             PROVE  TypeOK'
  OBVIOUS
<1>1. CASE UNCHANGED vars
  BY <1>1 DEF vars, queues, frame, TypeOK
<1>2. ASSUME NEW c \in Cpu, TaskStep(c, Running(c)) PROVE TypeOK'
  <2>1. PICK t \in Task : t = Running(c)
    <3>1. ring[c] \in Seq(Task) /\ ring[c] # <<>>
      BY DEF TypeOK
    <3> QED BY <3>1, TailSet DEF Running
  <2>2. TaskStep(c, t)
    BY <1>2, <2>1
  <2> QED BY <2>2, <1>TypeCall, <1>TypeSend, <1>TypeEnd DEF TaskStep
<1> QED BY <1>1, <1>2, <1>TypeProcess, <1>TypeCpu DEF Next

-----------------------------------------------------------------------------
(* What the end of task_exit() relies on: a thread asks for help, and is   *)
(* taken out of its ring by another, only at the very end of its life.     *)
EndInv ==
  \A x \in Task :
    /\ Has(x, "HELPMETERM") => pc[x] \in {"final", "gone"}
    /\ pc[x] \in {"exit", "final", "gone"} => Has(x, "TERMINATING")
    /\ pc[x] \in {"final", "gone"} => Has(x, "TERMINATED")

(* An IPI in flight: its sender waits in the call that sent it, its status *)
(* word is not written yet, and the sender has sent no other.  Only wakers *)
(* that gave up on an earlier IPI are excepted, and not when they unschedule. *)
InScope(m) == m.type = "UNSCHEDULE" \/ (m.type = "WAKETASK" /\ m.from \notin resent)

ScopeInv ==
  \A c \in Cpu : \A s \in Valid(c) : InScope(ipi[c][s]) =>
    /\ pc[ipi[c][s].from] = "wait" /\ status[ipi[c][s].from] = "PENDING"
    /\ op[ipi[c][s].from] = ipi[c][s].type /\ target[ipi[c][s].from] = ipi[c][s].thread
    /\ \A d \in Cpu : \A n \in Valid(d) :
         ipi[d][n].type = ipi[c][s].type /\ ipi[d][n].from = ipi[c][s].from => d = c /\ n = s

(* A waker whose thread was not seen awake yet knows it to sleep.          *)
Truth(t) ==
  pc[t] \in {"send", "wait"} /\ op[t] = "WAKETASK" =>
     /\ t \in awake \/ Has(target[t], "SLEEPING")
     /\ status[t] = "OK" => t \in awake
     /\ status[t] = "DEAD" => Has(target[t], "TERMINATED")

TruthInv == \A t \in Task : Truth(t)

(* Where x is: in a queue of its own CPU, or with the one task that        *)
(* unscheduled it.                                                         *)
Holds(t, x) == Owns(t) /\ target[t] = x
Unqueued(x) == \A c \in Cpu : x \notin Range(ring[c]) /\ x \notin c_sleeping[c] /\ x \notin Range(c_pending[c])

Kept(x) ==
  /\ \A c \in Cpu :
       /\ x \in Range(ring[c]) => t_cpu[x] = c /\ ~Has(x, "SLEEPING") /\ x \notin Range(c_pending[c])
       /\ x \in c_sleeping[c] => t_cpu[x] = c /\ Has(x, "SLEEPING") /\ x \notin Range(c_pending[c])
       /\ x \in Range(c_pending[c]) => t_cpu[x] = c
  /\ \A t \in Task : Holds(t, x) => /\ Unqueued(x) /\ pc[x] \notin {"new", "gone"}
                                    /\ \A u \in Task : Holds(u, x) => u = t
  /\ pc[x] \in {"new", "gone"} => Unqueued(x)
  /\ pc[x] \notin {"new", "gone"} /\ Unqueued(x) => \E t \in Task : Holds(t, x)

HomeInv ==
  /\ \A x \in Task \ torn : Kept(x)
  /\ \A c \in Cpu : IsInjective(ring[c]) /\ IsInjective(c_pending[c])
  /\ \A t \in Task : pc[t] = "place" => t_cpu[target[t]] = dest[t]

-----------------------------------------------------------------------------
(* What a step does to the flags of x: it stays terminating or terminated, *)
(* asks for help only at its end, and when it is woken all who want to     *)
(* wake it have seen it awake.                                             *)
EndFlag == {"TERMINATING", "TERMINATED", "HELPMETERM"}
SameEnd(x) == \A f \in EndFlag : Has(x, f)' <=> Has(x, f)
SeenIfWoken(x) == Has(x, "SLEEPING") => Has(x, "SLEEPING")' \/ \A t \in Task : target[t] = x => t \in awake'

(* The invariants that need no account of the queues.                      *)
CallInv == EndInv /\ PendingAnnounced /\ ScopeInv /\ TruthInv

(* Every step keeps what is said of the calls.                             *)
LEMMA CallStep ==
  TypeOK /\ CallInv /\ [Next]_vars
    => CallInv'
(* The handlers.                                                           *)
<1>HandleEffect.
  ASSUME TypeOK, NEW c \in Cpu, NEW m \in Ipi, x86_ipi_handle(c, m) \/ HandleSchedule(c)
  PROVE  /\ \A d \in Cpu : c_pending'[d] = c_pending[d] \/ c_pending'[d] = <<>>
         /\ \A x \in Task : SameEnd(x) /\ SeenIfWoken(x)
         /\ awake \subseteq awake'
         /\ \A t \in Task : t # m.from \/ ~Awaits(m) => status'[t] = status[t]
         /\ HandleSchedule(c) => c_pending'[c] = <<>> /\ UNCHANGED status
  <2> USE <1>HandleEffect
  <2>0. c_pending \in [Cpu -> Seq(Task)] /\ t_state \in [Task -> SUBSET StateFlag]
    BY DEF TypeOK
  <2>m. m.thread \in Task /\ m.from \in Task
    BY DEF Ipi
  <2>s. ASSUME NEW xs, t_state' = Started(xs), NEW x \in Task PROVE SameEnd(x) /\ SeenIfWoken(x)
    <3>1. t_state'[x] = t_state[x] \/ t_state'[x] = t_state[x] \cup {"STARTED"}
      BY <2>s, StartedType
    <3> QED BY <3>1 DEF SameEnd, SeenIfWoken, Has, EndFlag
  <2>u. ASSUME UNCHANGED t_state, NEW x \in Task PROVE SameEnd(x) /\ SeenIfWoken(x)
    BY <2>u DEF SameEnd, SeenIfWoken, Has
  <2>t. ASSUME NEW v \in Status, SetStatus(m, v) PROVE \A t \in Task : t # m.from \/ ~Awaits(m) => status'[t] = status[t]
    BY <2>t, StatusType
  <2>1. CASE HandleSchedule(c)
    <3>1. /\ t_state' = Started(Range(c_pending[c])) /\ c_pending' = [c_pending EXCEPT ![c] = <<>>]
          /\ UNCHANGED <<status, awake>>
      BY <2>1 DEF HandleSchedule, x86_scheduler_loadpending
    <3>2. c_pending'[c] = <<>> /\ \A d \in Cpu : c_pending'[d] = c_pending[d] \/ c_pending'[d] = <<>>
      BY <2>0, <3>1
    <3>3. \A x \in Task : SameEnd(x) /\ SeenIfWoken(x)
      BY <2>s, <3>1
    <3> QED BY <3>1, <3>2, <3>3
  <2>2. ASSUME ~HandleSchedule(c), x86_ipi_handle(c, m)
        PROVE  /\ \A d \in Cpu : c_pending'[d] = c_pending[d] \/ c_pending'[d] = <<>>
               /\ \A x \in Task : SameEnd(x) /\ SeenIfWoken(x)
               /\ awake \subseteq awake'
               /\ \A t \in Task : t # m.from \/ ~Awaits(m) => status'[t] = status[t]
    <3>0. "OK" \in Status /\ "LAST" \in Status
      BY DEF Status
    <3>1. CASE Refused(m)
      <4>1. UNCHANGED <<c_pending, t_state, awake>> /\ \E v \in Status : SetStatus(m, v)
        BY <3>1 DEF Refused, queues
      <4>2. \A t \in Task : t # m.from \/ ~Awaits(m) => status'[t] = status[t]
        BY <2>t, <4>1
      <4>3. \A x \in Task : SameEnd(x) /\ SeenIfWoken(x)
        BY <2>u, <4>1
      <4> QED BY <4>1, <4>2, <4>3
    <3>2. CASE Unscheduled(c, m) /\ UnscheduleCurrent(c, m)
      <4>1. UNCHANGED <<c_pending, t_state, awake>> /\ (SetStatus(m, "LAST") \/ SetStatus(m, "OK"))
        BY <3>2 DEF Unscheduled, UnscheduleCurrent
      <4>2. \A t \in Task : t # m.from \/ ~Awaits(m) => status'[t] = status[t]
        BY <2>t, <3>0, <4>1
      <4>3. \A x \in Task : SameEnd(x) /\ SeenIfWoken(x)
        BY <2>u, <4>1
      <4> QED BY <4>1, <4>2, <4>3
    <3>3. CASE Unscheduled(c, m) /\ UnscheduleOther(c, m)
      <4>1. /\ t_state' = Started(Range(c_pending[c])) /\ c_pending' = [c_pending EXCEPT ![c] = <<>>]
            /\ UNCHANGED awake /\ SetStatus(m, "OK")
        BY <3>3 DEF Unscheduled, UnscheduleOther
      <4>2. \A t \in Task : t # m.from \/ ~Awaits(m) => status'[t] = status[t]
        BY <2>t, <3>0, <4>1
      <4>3. \A x \in Task : SameEnd(x) /\ SeenIfWoken(x)
        BY <2>s, <4>1
      <4>4. \A d \in Cpu : c_pending'[d] = c_pending[d] \/ c_pending'[d] = <<>>
        BY <2>0, <4>1
      <4> QED BY <4>1, <4>2, <4>3, <4>4
    <3>4. CASE Woken(c, m)
      <4>1. /\ UNCHANGED c_pending /\ SeenAwake({m.thread}) /\ SetStatus(m, "OK")
            /\ \/ t_state' = t_state
               \/ t_state' = [t_state EXCEPT ![m.thread] = t_state[m.thread] \ {"SLEEPING"}]
        <5>1. UNCHANGED c_pending /\ SeenAwake({m.thread}) /\ SetStatus(m, "OK")
          BY <3>4 DEF Woken, x86_scheduler_localwake
        <5>2. CASE NoSmp
          BY <3>4, <5>1, <5>2 DEF Woken, x86_scheduler_localwake
        <5>3. CASE ~NoSmp
          BY <3>4, <5>1, <5>3 DEF Woken, x86_scheduler_localwake
        <5> QED BY <5>2, <5>3
      <4>2. \A t \in Task : t # m.from \/ ~Awaits(m) => status'[t] = status[t]
        BY <2>t, <3>0, <4>1
      <4>3. awake \subseteq awake' /\ \A t \in Task : target[t] = m.thread => t \in awake'
        BY <4>1 DEF SeenAwake
      <4>4. ASSUME NEW x \in Task PROVE SameEnd(x) /\ SeenIfWoken(x)
        <5>1. t_state'[x] = t_state[x] \/ (x = m.thread /\ t_state'[x] = t_state[x] \ {"SLEEPING"})
          BY <2>0, <2>m, <4>1
        <5> QED BY <4>3, <5>1 DEF SameEnd, SeenIfWoken, Has, EndFlag
      <4> QED BY <4>1, <4>2, <4>3, <4>4
    <3> QED BY <2>2, <3>1, <3>2, <3>3, <3>4, HandleCases DEF Unscheduled
  <2> QED BY <2>1, <2>2
(* What a waker knows after a handler ran.                                 *)
<1>HandleTruth.
  ASSUME TypeOK, TruthInv, NEW c \in Cpu, NEW m \in Ipi, x86_ipi_handle(c, m) \/ HandleSchedule(c),
         NEW t \in Task, pc[t] \in {"send", "wait"}, op[t] = "WAKETASK"
  PROVE  /\ t \in awake' \/ "SLEEPING" \in t_state'[target[t]]
         /\ status'[t] = "OK" => t \in awake'
         /\ status'[t] = "DEAD" => "TERMINATED" \in t_state'[target[t]]
  <2> USE <1>HandleTruth
  <2>0. /\ t \in awake \/ Has(target[t], "SLEEPING")
        /\ status[t] = "OK" => t \in awake
        /\ status[t] = "DEAD" => Has(target[t], "TERMINATED")
    BY DEF TruthInv, Truth
  <2>x. PICK x \in Task : x = target[t]
    BY DEF TypeOK
  <2>1. m.from \in Task
    BY DEF Ipi
  <2>2. /\ SameEnd(x) /\ SeenIfWoken(x) /\ awake \subseteq awake'
        /\ t # m.from \/ ~Awaits(m) => status'[t] = status[t]
        /\ HandleSchedule(c) => UNCHANGED status
    BY <2>1, <1>HandleEffect
  <2>3. /\ t \in awake' \/ "SLEEPING" \in t_state'[target[t]]
        /\ Has(target[t], "TERMINATED") => "TERMINATED" \in t_state'[target[t]]
    BY <2>0, <2>x, <2>2 DEF SeenIfWoken, SameEnd, Has, EndFlag
  <2>4. CASE status'[t] = status[t]
    BY <2>0, <2>2, <2>3, <2>4
  <2>5. CASE status'[t] # status[t]
    <3>1. x86_ipi_handle(c, m) /\ t = m.from /\ Awaits(m)
      BY <2>2, <2>5
    <3>2. m.type = "WAKETASK" /\ target[t] = m.thread
      BY <3>1 DEF Awaits
    <3>3. ASSUME NEW v \in Status, SetStatus(m, v) PROVE status'[t] = v
      BY <3>1, <3>3, StatusType
    <3>4. CASE Refused(m)
      <4>1. PICK v \in Status : /\ SetStatus(m, v)
                                /\ v = "OK" => ~Has(m.thread, "SLEEPING")
                                /\ v = "DEAD" => Has(m.thread, "TERMINATED")
        BY <3>2, <3>4 DEF Refused
      <4> QED BY <2>0, <2>2, <2>3, <3>2, <3>3, <4>1
    <3>5. CASE Woken(c, m)
      <4>1. SeenAwake({m.thread}) /\ SetStatus(m, "OK") /\ "OK" \in Status
        BY <3>5 DEF Woken, x86_scheduler_localwake, Status
      <4>2. t \in awake' /\ status'[t] = "OK"
        BY <3>2, <3>3, <4>1 DEF SeenAwake
      <4> QED BY <4>2
    <3>6. ~Unscheduled(c, m)
      BY <3>2 DEF Unscheduled
    <3> QED BY <3>1, <3>4, <3>5, <3>6, HandleCases
  <2> QED BY <2>4, <2>5
(* An interrupt.                                                           *)
<1>CallProcess.
  ASSUME TypeOK, CallInv, NEW c \in Cpu, x86_ipi_process(c)
  PROVE  CallInv'
  <2> USE <1>CallProcess
  <2>i. EndInv /\ PendingAnnounced /\ ScopeInv /\ TruthInv
    BY DEF CallInv
  <2>1. PICK s \in Valid(c) :
        /\ s \in 1 .. Slots /\ ipi[c][s] \in Ipi
        /\ ipi' = [ipi EXCEPT ![c][s] = Free]
        /\ \/ ipi[c][s].type = "SCHEDULE" /\ HandleSchedule(c)
           \/ ipi[c][s].type # "SCHEDULE" /\ x86_ipi_handle(c, ipi[c][s])
        /\ UNCHANGED <<t_cpu, pc, frame, calls, resent>>
    <3>2. PICK s \in Valid(c) :
          /\ ipi' = [ipi EXCEPT ![c][s] = Free]
          /\ (ipi[c][s].type = "SCHEDULE" /\ HandleSchedule(c)) \/ x86_ipi_handle(c, ipi[c][s])
          /\ UNCHANGED <<t_cpu, pc, frame, calls, resent>>
      BY DEF x86_ipi_process
    <3>1. s \in 1 .. Slots /\ ipi[c][s] \in Ipi
      BY SlotProps
    <3>3. x86_ipi_handle(c, ipi[c][s]) => ipi[c][s].type # "SCHEDULE"
      BY DEF x86_ipi_handle
    <3> QED BY <3>1, <3>2, <3>3
  <2>2. PICK m \in Ipi : m = ipi[c][s]
    BY <2>1
  <2>3. x86_ipi_handle(c, m) \/ HandleSchedule(c)
    BY <2>1, <2>2
  <2>4. /\ \A d \in Cpu : c_pending'[d] = c_pending[d] \/ c_pending'[d] = <<>>
        /\ \A x \in Task : SameEnd(x) /\ SeenIfWoken(x)
        /\ awake \subseteq awake'
        /\ \A t \in Task : t # m.from \/ ~Awaits(m) => status'[t] = status[t]
        /\ HandleSchedule(c) => c_pending'[c] = <<>> /\ UNCHANGED status
    BY <2>3, <1>HandleEffect
  <2>5. UNCHANGED <<pc, op, target, dest, resent>>
    BY <2>1 DEF frame
  <2>6. ipi \in [Cpu -> [1 .. Slots -> Ipi \cup {Free}]]
    BY DEF TypeOK
  <2>7. ASSUME NEW d \in Cpu, NEW n
        PROVE  /\ n \in Valid(d)' <=> n \in Valid(d) /\ ~(d = c /\ n = s)
               /\ n \in Valid(d)' => ipi'[d][n] = ipi[d][n]
    <3>1. CASE d = c /\ n = s
      <4>1. s \in 1 .. Slots /\ ipi' = [ipi EXCEPT ![c][s] = Free]
        BY <2>1
      <4>2. ipi'[c][s] = Free
        <5>1. ipi'[c] = [ipi[c] EXCEPT ![s] = Free]
          BY <2>6, <4>1
        <5>2. ipi[c] \in [1 .. Slots -> Ipi \cup {Free}]
          BY <2>6
        <5> QED BY <4>1, <5>1, <5>2
      <4> QED BY <3>1, <4>2 DEF Valid
    <3>2. CASE ~(d = c /\ n = s)
      <4>1. ASSUME n \in 1 .. Slots PROVE ipi'[d][n] = ipi[d][n]
        BY <2>1, <2>6, <3>2, <4>1
      <4> QED BY <3>2, <4>1 DEF Valid
    <3> QED BY <3>1, <3>2
  <2>8. EndInv'
    BY <2>i, <2>4, <2>5 DEF EndInv, SameEnd, EndFlag, Has
  <2>9. PendingAnnounced'
    <3> SUFFICES ASSUME NEW d \in Cpu, c_pending'[d] # <<>>
                 PROVE  \/ \E n \in Valid(d)' : ipi'[d][n].type = "SCHEDULE"
                        \/ \E t \in Task : pc'[t] = "sched" /\ dest'[t] = d
      BY DEF PendingAnnounced
    <3>1. c_pending[d] # <<>>
      BY <2>4
    <3>2. CASE \E t \in Task : pc[t] = "sched" /\ dest[t] = d
      BY <2>5, <3>2
    <3>3. CASE \E n \in Valid(d) : ipi[d][n].type = "SCHEDULE"
      <4>1. PICK n \in Valid(d) : ipi[d][n].type = "SCHEDULE"
        BY <3>3
      <4>2. ~(d = c /\ n = s)
        BY <2>1, <2>4, <4>1
      <4> QED BY <2>7, <4>1, <4>2
    <3> QED BY <2>i, <3>1, <3>2, <3>3 DEF PendingAnnounced
  <2>10. ScopeInv'
    <3> SUFFICES ASSUME NEW d \in Cpu, NEW n \in Valid(d)', InScope(ipi[d][n])'
                 PROVE  /\ pc'[ipi'[d][n].from] = "wait" /\ status'[ipi'[d][n].from] = "PENDING"
                        /\ op'[ipi'[d][n].from] = ipi'[d][n].type /\ target'[ipi'[d][n].from] = ipi'[d][n].thread
                        /\ \A e \in Cpu : \A k \in Valid(e)' :
                             ipi'[e][k].type = ipi'[d][n].type /\ ipi'[e][k].from = ipi'[d][n].from => e = d /\ k = n
      BY DEF ScopeInv
    <3>1. n \in Valid(d) /\ ~(d = c /\ n = s) /\ ipi'[d][n] = ipi[d][n] /\ ipi[d][n] \in Ipi
      <4>1. n \in Valid(d) /\ ~(d = c /\ n = s) /\ ipi'[d][n] = ipi[d][n]
        BY <2>7
      <4> QED BY <4>1, SlotProps
    <3>2. InScope(ipi[d][n])
      BY <2>5, <3>1 DEF InScope
    <3>3. /\ pc[ipi[d][n].from] = "wait" /\ status[ipi[d][n].from] = "PENDING"
          /\ op[ipi[d][n].from] = ipi[d][n].type /\ target[ipi[d][n].from] = ipi[d][n].thread
          /\ \A e \in Cpu : \A k \in Valid(e) :
               ipi[e][k].type = ipi[d][n].type /\ ipi[e][k].from = ipi[d][n].from => e = d /\ k = n
      BY <2>i, <3>1, <3>2, SMTT(60) DEF ScopeInv
    <3>4. ipi[d][n].from # m.from \/ ~Awaits(m)
      BY <2>1, <2>2, <3>1, <3>3 DEF Awaits
    <3>5. ipi[d][n].from \in Task
      BY <3>1 DEF Ipi
    <3>6. status'[ipi[d][n].from] = "PENDING"
      BY <2>4, <3>3, <3>4, <3>5
    <3> QED BY <2>5, <2>7, <3>1, <3>3, <3>6, SMTT(60)
  <2>11. TruthInv'
    <3> SUFFICES ASSUME NEW t \in Task, pc[t] \in {"send", "wait"}, op[t] = "WAKETASK"
                 PROVE  /\ t \in awake' \/ "SLEEPING" \in t_state'[target[t]]
                        /\ status'[t] = "OK" => t \in awake'
                        /\ status'[t] = "DEAD" => "TERMINATED" \in t_state'[target[t]]
      BY <2>5 DEF TruthInv, Truth, Has
    <3> QED BY <2>i, <2>3, <1>HandleTruth
  <2> QED BY <2>8, <2>9, <2>10, <2>11 DEF CallInv
(* Steps that only move tasks between queues.                              *)
<1>CallQuiet.
  ASSUME TypeOK, CallInv, NEW c \in Cpu, NEW t \in Task,
         task_yield(c) \/ X86_IRQ_PIT(c) \/ x86_cpu_idle(c) \/ task_sleep(c, t)
  PROVE  CallInv'
  <2> USE <1>CallQuiet
  <2>i. EndInv /\ PendingAnnounced /\ ScopeInv /\ TruthInv
    BY DEF CallInv
  <2>0. c_pending \in [Cpu -> Seq(Task)] /\ t_state \in [Task -> SUBSET StateFlag] /\ target \in [Task -> Task]
    BY DEF TypeOK
  <2>1. UNCHANGED <<ipi, pc, op, target, dest, status, resent>>
    <3>1. UNCHANGED <<ipi, pc, frame, status, resent>>
      BY DEF task_yield, X86_IRQ_PIT, x86_cpu_idle, task_sleep
    <3> QED BY <3>1 DEF frame
  <2>2. \A d \in Cpu : c_pending'[d] = c_pending[d] \/ c_pending'[d] = <<>>
    <3>1. UNCHANGED c_pending \/ c_pending' = [c_pending EXCEPT ![c] = <<>>]
      BY DEF task_yield, X86_IRQ_PIT, x86_cpu_idle, task_sleep, x86_scheduler_loadpending_chain
    <3> QED BY <2>0, <3>1
  <2>3. awake \subseteq awake' /\ \A x \in Task : SameEnd(x) /\ SeenIfWoken(x)
    <3>1. CASE task_yield(c) \/ x86_cpu_idle(c)
      <4>1. UNCHANGED <<t_state, awake>>
        BY <3>1 DEF task_yield, x86_cpu_idle, x86_scheduler_loadpending_chain
      <4> QED BY <4>1 DEF SameEnd, SeenIfWoken, Has
    <3>2. CASE task_sleep(c, t)
      <4>1. t_state' = [t_state EXCEPT ![t] = (t_state[t] \ {"TIMEDOUT"}) \cup {"SLEEPING"}] /\ UNCHANGED awake
        BY <3>2 DEF task_sleep
      <4>2. ASSUME NEW x \in Task PROVE SameEnd(x) /\ SeenIfWoken(x)
        <5>1. t_state'[x] = t_state[x] \/ t_state'[x] = (t_state[x] \ {"TIMEDOUT"}) \cup {"SLEEPING"}
          BY <2>0, <4>1
        <5> QED BY <5>1 DEF SameEnd, SeenIfWoken, Has, EndFlag
      <4> QED BY <4>1, <4>2
    <3>3. CASE X86_IRQ_PIT(c)
      <4>1. PICK xs \in SUBSET c_sleeping[c] :
              /\ t_state' = [x \in Task |-> IF x \in xs THEN (t_state[x] \ {"SLEEPING"}) \cup {"TIMEDOUT"} ELSE t_state[x]]
              /\ SeenAwake(xs)
        BY <3>3 DEF X86_IRQ_PIT
      <4>2. awake \subseteq awake' /\ \A u \in Task : target[u] \in xs => u \in awake'
        BY <4>1 DEF SeenAwake
      <4>3. ASSUME NEW x \in Task PROVE SameEnd(x) /\ SeenIfWoken(x)
        <5>1. \/ t_state'[x] = t_state[x]
              \/ x \in xs /\ t_state'[x] = (t_state[x] \ {"SLEEPING"}) \cup {"TIMEDOUT"}
          BY <2>0, <4>1
        <5> QED BY <4>2, <5>1 DEF SameEnd, SeenIfWoken, Has, EndFlag
      <4> QED BY <4>2, <4>3
    <3> QED BY <3>1, <3>2, <3>3
  <2>4. EndInv'
    BY <2>i, <2>1, <2>3 DEF EndInv, SameEnd, EndFlag, Has
  <2>5. PendingAnnounced'
    BY <2>i, <2>1, <2>2 DEF PendingAnnounced, Valid
  <2>6. ScopeInv'
    BY <2>i, <2>1, SMTT(60) DEF ScopeInv, Valid, InScope
  <2>7. TruthInv'
    <3> SUFFICES ASSUME NEW u \in Task, pc[u] \in {"send", "wait"}, op[u] = "WAKETASK"
                 PROVE  /\ u \in awake' \/ "SLEEPING" \in t_state'[target[u]]
                        /\ status[u] = "OK" => u \in awake'
                        /\ status[u] = "DEAD" => "TERMINATED" \in t_state'[target[u]]
      BY <2>1 DEF TruthInv, Truth, Has
    <3>1. PICK x \in Task : x = target[u]
      BY <2>0
    <3>2. Truth(u) /\ SameEnd(x) /\ SeenIfWoken(x)
      BY <2>i, <2>3 DEF TruthInv
    <3> QED BY <2>3, <3>1, <3>2 DEF Truth, SeenIfWoken, SameEnd, Has, EndFlag
  <2> QED BY <2>4, <2>5, <2>6, <2>7 DEF CallInv
(* The steps of task_start(), task_wake_ex() and task_setcpu_impl() that   *)
(* send no IPI.                                                            *)
<1>CallCall.
  ASSUME TypeOK, CallInv, NEW c \in Cpu, NEW t \in Task,
         \/ task_start(c, t) \/ task_wake(c, t) \/ task_setcpu(c, t) \/ AlreadyThere(c, t)
         \/ Answered(c, t) \/ WakeTimeout(c, t) \/ SetTCpu(c, t) \/ PushPending(c, t)
  PROVE  CallInv'
  <2> USE <1>CallCall
  <2>i. EndInv /\ PendingAnnounced /\ ScopeInv /\ TruthInv
    BY DEF CallInv
  <2>0. /\ c_pending \in [Cpu -> Seq(Task)] /\ pc \in [Task -> PC] /\ op \in [Task -> IpiType]
        /\ target \in [Task -> Task] /\ dest \in [Task -> Cpu] /\ status \in [Task -> Status]
    BY DEF TypeOK, PC
  <2>1. UNCHANGED <<ipi, t_state>>
    BY DEF task_start, task_wake, task_setcpu, AlreadyThere, Answered, WakeTimeout, SetTCpu, PushPending
  <2>2. ASSUME NEW u \in Task, u # t
        PROVE  /\ UNCHANGED <<op[u], target[u], dest[u], status[u]>> /\ (u \in awake' <=> u \in awake)
               /\ u \in resent' <=> u \in resent
               /\ pc'[u] = pc[u] \/ (pc[u] = "new" /\ pc'[u] = "run")
    <3>1. CASE task_start(c, t)
      <4>1. PICK x \in New : /\ pc[x] = "new" /\ dest' = [dest EXCEPT ![t] = t_cpu[x]]
                             /\ pc' = [pc EXCEPT ![x] = "run", ![t] = "sched"]
        BY <3>1 DEF task_start
      <4>2. UNCHANGED <<op, target, status, awake, resent>>
        BY <3>1 DEF task_start
      <4> QED BY <2>0, <2>2, <4>1, <4>2
    <3>2. CASE task_wake(c, t)
      <4>1. PICK x \in Task : /\ target' = [target EXCEPT ![t] = x]
                              /\ awake' = IF Has(x, "SLEEPING") THEN awake \ {t} ELSE awake \cup {t}
        BY <3>2 DEF task_wake
      <4>2. /\ op' = [op EXCEPT ![t] = "WAKETASK"] /\ status' = [status EXCEPT ![t] = "PENDING"]
            /\ GoTo(t, "send") /\ UNCHANGED <<dest, resent>>
        BY <3>2 DEF task_wake
      <4> QED BY <2>0, <2>2, <4>1, <4>2 DEF GoTo
    <3>3. CASE task_setcpu(c, t)
      <4>1. PICK x \in Task, to \in Cpu : target' = [target EXCEPT ![t] = x] /\ dest' = [dest EXCEPT ![t] = to]
        <5>1. Movable \subseteq Task
          BY SchedAssumption
        <5> QED BY <3>3, <5>1 DEF task_setcpu
      <4>2. /\ op' = [op EXCEPT ![t] = "UNSCHEDULE"] /\ status' = [status EXCEPT ![t] = "PENDING"]
            /\ GoTo(t, "send") /\ awake' = awake \ {t} /\ UNCHANGED resent
        BY <3>3 DEF task_setcpu
      <4> QED BY <2>0, <2>2, <4>1, <4>2 DEF GoTo
    <3>4. CASE AlreadyThere(c, t) \/ Answered(c, t) \/ WakeTimeout(c, t) \/ SetTCpu(c, t) \/ PushPending(c, t)
      <4>1. UNCHANGED <<op, target, dest, status, awake>> /\ (\E l : GoTo(t, l)) /\ (UNCHANGED resent \/ resent' = resent \cup {t})
        BY <3>4 DEF AlreadyThere, Answered, WakeTimeout, SetTCpu, PushPending, frame
      <4> QED BY <2>0, <2>2, <4>1 DEF GoTo
    <3> QED BY <3>1, <3>2, <3>3, <3>4
  <2>3. pc[t] \in {"run", "send", "wait", "own", "place"} /\ pc'[t] \in {"run", "send", "own", "place", "sched"}
    <3>1. CASE task_start(c, t)
      BY <2>0, <3>1 DEF task_start, At
    <3>2. CASE task_wake(c, t) \/ task_setcpu(c, t) \/ AlreadyThere(c, t) \/ WakeTimeout(c, t) \/ SetTCpu(c, t) \/ PushPending(c, t)
      BY <2>0, <3>2 DEF task_wake, task_setcpu, AlreadyThere, WakeTimeout, SetTCpu, PushPending, At, GoTo
    <3>3. CASE Answered(c, t)
      <4>1. pc[t] = "wait" /\ \E l \in {"run", "send", "own"} : GoTo(t, l)
        <5>1. PICK l : l = IF status[t] = "RETRY" THEN "send"
                           ELSE IF op[t] = "UNSCHEDULE" /\ status[t] = "OK" THEN "own" ELSE "run"
          OBVIOUS
        <5>2. l \in {"run", "send", "own"}
          BY <5>1
        <5>3. pc[t] = "wait" /\ GoTo(t, l)
          BY <3>3, <5>1 DEF Answered, At
        <5> QED BY <5>2, <5>3
      <4> QED BY <2>0, <4>1 DEF GoTo
    <3> QED BY <3>1, <3>2, <3>3
  <2>4. EndInv'
    <3> SUFFICES ASSUME NEW x \in Task
                 PROVE  /\ Has(x, "HELPMETERM") => pc'[x] \in {"final", "gone"}
                        /\ pc'[x] \in {"exit", "final", "gone"} => Has(x, "TERMINATING")
                        /\ pc'[x] \in {"final", "gone"} => Has(x, "TERMINATED")
      BY <2>1 DEF EndInv, Has
    <3>1. /\ Has(x, "HELPMETERM") => pc[x] \in {"final", "gone"}
          /\ pc[x] \in {"exit", "final", "gone"} => Has(x, "TERMINATING")
          /\ pc[x] \in {"final", "gone"} => Has(x, "TERMINATED")
      BY <2>i DEF EndInv
    <3>2. CASE x = t
      <4>1. pc[t] \notin {"final", "gone"} /\ pc'[t] \notin {"exit", "final", "gone"}
        BY <2>3
      <4> QED BY <3>1, <3>2, <4>1
    <3>3. CASE x # t
      <4>1. pc'[x] = pc[x] \/ (pc[x] = "new" /\ pc'[x] = "run")
        BY <2>2, <3>3
      <4> QED BY <3>1, <4>1
    <3> QED BY <3>2, <3>3
  <2>5. PendingAnnounced'
    <3> SUFFICES ASSUME NEW d \in Cpu, c_pending'[d] # <<>>
                 PROVE  \/ \E s \in Valid(d) : ipi[d][s].type = "SCHEDULE"
                        \/ \E u \in Task : pc'[u] = "sched" /\ dest'[u] = d
      BY <2>1 DEF PendingAnnounced, Valid
    <3>1. c_pending'[d] = c_pending[d] \/ (pc'[t] = "sched" /\ dest'[t] = d)
      <4>1. CASE task_start(c, t)
        <5>1. PICK x \in New : /\ c_pending' = [c_pending EXCEPT ![t_cpu[x]] = <<x>> \o c_pending[t_cpu[x]]]
                               /\ dest' = [dest EXCEPT ![t] = t_cpu[x]]
                               /\ pc' = [pc EXCEPT ![x] = "run", ![t] = "sched"]
          BY <4>1 DEF task_start
        <5> QED BY <2>0, <5>1
      <4>2. CASE PushPending(c, t)
        <5>1. c_pending' = [c_pending EXCEPT ![dest[t]] = <<target[t]>> \o c_pending[dest[t]]] /\ GoTo(t, "sched") /\ UNCHANGED dest
          BY <4>2 DEF PushPending, frame
        <5> QED BY <2>0, <5>1 DEF GoTo
      <4>3. CASE UNCHANGED c_pending
        BY <4>3
      <4>4. task_start(c, t) \/ PushPending(c, t) \/ UNCHANGED c_pending
        BY DEF task_wake, task_setcpu, AlreadyThere, Answered, WakeTimeout, SetTCpu, queues
      <4> QED BY <4>1, <4>2, <4>3, <4>4
    <3>2. CASE pc'[t] = "sched" /\ dest'[t] = d
      BY <3>2
    <3>3. CASE c_pending'[d] = c_pending[d] /\ \E u \in Task : pc[u] = "sched" /\ dest[u] = d
      <4>1. PICK u \in Task : pc[u] = "sched" /\ dest[u] = d
        BY <3>3
      <4>2. u # t
        BY <2>3, <4>1
      <4> QED BY <2>2, <4>1, <4>2
    <3> QED BY <2>i, <3>1, <3>2, <3>3 DEF PendingAnnounced
  <2>6. ScopeInv'
    <3> SUFFICES ASSUME NEW d \in Cpu, NEW n \in Valid(d)', InScope(ipi[d][n])'
                 PROVE  /\ pc'[ipi'[d][n].from] = "wait" /\ status'[ipi'[d][n].from] = "PENDING"
                        /\ op'[ipi'[d][n].from] = ipi'[d][n].type /\ target'[ipi'[d][n].from] = ipi'[d][n].thread
                        /\ \A e \in Cpu : \A k \in Valid(e)' :
                             ipi'[e][k].type = ipi'[d][n].type /\ ipi'[e][k].from = ipi'[d][n].from => e = d /\ k = n
      BY DEF ScopeInv
    <3>v. UNCHANGED ipi /\ \A e \in Cpu : Valid(e)' = Valid(e)
      BY <2>1 DEF Valid
    <3>n. n \in Valid(d)
      BY <3>v
    <3>0. PICK q \in Task : q = ipi[d][n].from
      <4>1. ipi[d][n] \in Ipi
        BY <3>n, SlotProps
      <4> QED BY <4>1 DEF Ipi
    <3>r. resent \subseteq resent' /\ (WakeTimeout(c, t) => t \in resent')
      BY DEF task_start, task_wake, task_setcpu, AlreadyThere, Answered, WakeTimeout, SetTCpu, PushPending
    <3>2. InScope(ipi[d][n])
      BY <2>1, <3>r DEF InScope
    <3>3. /\ pc[q] = "wait" /\ status[q] = "PENDING"
          /\ op[q] = ipi[d][n].type /\ target[q] = ipi[d][n].thread
          /\ \A e \in Cpu : \A k \in Valid(e) :
               ipi[e][k].type = ipi[d][n].type /\ ipi[e][k].from = ipi[d][n].from => e = d /\ k = n
      BY <2>i, <3>0, <3>2, <3>n, SMTT(60) DEF ScopeInv
    <3>4. q # t
      <4> SUFFICES ASSUME q = t PROVE FALSE
        OBVIOUS
      <4>1. WakeTimeout(c, t)
        BY <3>3 DEF task_start, task_wake, task_setcpu, AlreadyThere, Answered, SetTCpu, PushPending, At
      <4>2. op[t] = "WAKETASK" /\ t \in resent'
        BY <3>r, <4>1 DEF WakeTimeout
      <4> QED BY <2>1, <3>0, <3>3, <4>2 DEF InScope
    <3>5. UNCHANGED <<op[q], target[q], status[q], pc[q]>>
      BY <2>2, <3>3, <3>4
    <3>6. /\ pc'[q] = "wait" /\ status'[q] = "PENDING"
          /\ op'[q] = ipi[d][n].type /\ target'[q] = ipi[d][n].thread
      BY <3>3, <3>5
    <3> QED BY <3>0, <3>3, <3>6, <3>v
  <2>7. TruthInv'
    <3> SUFFICES ASSUME NEW u \in Task, pc'[u] \in {"send", "wait"}, op'[u] = "WAKETASK"
                 PROVE  /\ u \in awake' \/ Has(target'[u], "SLEEPING")
                        /\ status'[u] = "OK" => u \in awake'
                        /\ status'[u] = "DEAD" => Has(target'[u], "TERMINATED")
      BY <2>1 DEF TruthInv, Truth, Has
    <3>1. Truth(u)
      BY <2>i DEF TruthInv
    <3>2. CASE u # t
      <4>1. UNCHANGED <<op[u], target[u], status[u], pc[u]>> /\ (u \in awake' <=> u \in awake)
        BY <2>2, <3>2
      <4> QED BY <3>1, <4>1 DEF Truth
    <3>3. CASE task_wake(c, t) /\ u = t
      <4>1. PICK x \in Task : /\ target' = [target EXCEPT ![t] = x]
                              /\ awake' = IF Has(x, "SLEEPING") THEN awake \ {t} ELSE awake \cup {t}
        BY <3>3 DEF task_wake
      <4>2. status'[t] = "PENDING" /\ target'[t] = x
        BY <2>0, <3>3, <4>1 DEF task_wake
      <4> QED BY <3>3, <4>1, <4>2
    <3>4. CASE task_setcpu(c, t) /\ u = t
      <4>1. op'[t] = "UNSCHEDULE"
        BY <2>0, <3>4 DEF task_setcpu
      <4> QED BY <3>4, <4>1
    <3>5. CASE (Answered(c, t) \/ WakeTimeout(c, t)) /\ u = t
      <4>1. UNCHANGED <<op, target, status, awake>> /\ pc[t] = "wait"
        BY <3>5 DEF Answered, WakeTimeout, frame, At
      <4> QED BY <3>1, <3>5, <4>1 DEF Truth
    <3>6. CASE (task_start(c, t) \/ AlreadyThere(c, t) \/ SetTCpu(c, t) \/ PushPending(c, t)) /\ u = t
      <4>1. pc'[t] \in {"sched", "run", "place"}
        <5>1. CASE task_start(c, t)
          BY <2>0, <5>1 DEF task_start
        <5>2. CASE AlreadyThere(c, t) \/ SetTCpu(c, t) \/ PushPending(c, t)
          BY <2>0, <5>2 DEF AlreadyThere, SetTCpu, PushPending, GoTo
        <5> QED BY <3>6, <5>1, <5>2
      <4> QED BY <3>6, <4>1
    <3> QED BY <3>2, <3>3, <3>4, <3>5, <3>6
  <2> QED BY <2>4, <2>5, <2>6, <2>7 DEF CallInv
(* What a buffer holds once an IPI is sent.                                *)
<1>SendSlot.
  ASSUME TypeOK, NEW c \in Cpu, NEW to \in Cpu, NEW m \in Ipi, x86_ipi_send(c, to, m)
  PROVE  \E s \in 1 .. Slots :
           /\ ipi[to][s] = Free /\ ipi'[to][s] = m /\ m # Free
           /\ \A d \in Cpu : \A n \in 1 .. Slots : ~(d = to /\ n = s) => ipi'[d][n] = ipi[d][n]
  <2> USE <1>SendSlot
  <2>0. PICK s \in 1 .. Slots \ Valid(to) : ipi' = [ipi EXCEPT ![to][s] = m]
    BY DEF x86_ipi_send
  <2>1. ipi' = [ipi EXCEPT ![to][s] = m]
    BY <2>0
  <2>2. ipi \in [Cpu -> [1 .. Slots -> Ipi \cup {Free}]]
    BY DEF TypeOK
  <2>3. ipi'[to][s] = m /\ ipi[to][s] = Free
    <3>1. ipi'[to] = [ipi[to] EXCEPT ![s] = m]
      BY <2>1, <2>2
    <3>2. ipi[to] \in [1 .. Slots -> Ipi \cup {Free}]
      BY <2>2
    <3>3. ipi'[to][s] = m
      BY <2>0, <3>1, <3>2
    <3>4. ipi[to][s] = Free
      BY <2>0 DEF Valid
    <3> QED BY <3>3, <3>4
  <2>4. m # Free
    BY SlotProps
  <2>5. ASSUME NEW d \in Cpu, NEW n \in 1 .. Slots, ~(d = to /\ n = s)
        PROVE  ipi'[d][n] = ipi[d][n]
    BY <2>1, <2>2, <2>5
  <2> QED BY <2>0, <2>3, <2>4, <2>5
(* SendSchedule().                                                         *)
<1>CallSchedule.
  ASSUME TypeOK, CallInv, NEW c \in Cpu, NEW t \in Task, SendSchedule(c, t)
  PROVE  CallInv'
  <2> USE <1>CallSchedule
  <2>i. EndInv /\ PendingAnnounced /\ ScopeInv /\ TruthInv
    BY DEF CallInv
  <2>0. /\ pc \in [Task -> PC] /\ dest \in [Task -> Cpu] /\ status \in [Task -> Status] /\ target \in [Task -> Task]
    BY DEF TypeOK, PC
  <2>m. PICK m \in Ipi : m = [type |-> "SCHEDULE", thread |-> t, from |-> t]
    <3>1. [type |-> "SCHEDULE", thread |-> t, from |-> t] \in Ipi
      BY DEF Ipi, IpiType
    <3> QED BY <3>1
  <2>1. m.type = "SCHEDULE" /\ m.from = t /\ dest[t] \in Cpu
    BY <2>0, <2>m
  <2>d. PICK to \in Cpu : to = dest[t]
    BY <2>1
  <2>2. /\ x86_ipi_send(c, to, m) \/ (to = c /\ HandleSchedule(c) /\ UNCHANGED ipi)
        /\ pc[t] = "sched" /\ GoTo(t, "run") /\ UNCHANGED <<frame, resent>>
    BY <2>d, <2>m DEF SendSchedule, At
  <2>3. UNCHANGED <<op, target, dest, resent>>
    BY <2>2 DEF frame
  <2>4. pc'[t] = "run" /\ \A u \in Task \ {t} : pc'[u] = pc[u]
    BY <2>0, <2>2 DEF GoTo
  <2>5. /\ \A d \in Cpu : c_pending'[d] = c_pending[d] \/ c_pending'[d] = <<>>
        /\ \A x \in Task : SameEnd(x) /\ SeenIfWoken(x)
        /\ awake \subseteq awake'
        /\ \A u \in Task : status'[u] = status[u]
    <3>1. CASE x86_ipi_send(c, to, m)
      <4>1. UNCHANGED <<queues, t_state, awake>> /\ SetStatus(m, "PENDING")
        BY <3>1 DEF x86_ipi_send
      <4>2. ~Awaits(m) /\ "PENDING" \in Status
        BY <2>1, <2>2 DEF Awaits, Status
      <4>3. \A u \in Task : status'[u] = status[u]
        BY <2>1, <4>1, <4>2, StatusType
      <4> QED BY <4>1, <4>3 DEF queues, SameEnd, SeenIfWoken, Has
    <3>2. CASE HandleSchedule(c)
      <4>1. /\ \A d \in Cpu : c_pending'[d] = c_pending[d] \/ c_pending'[d] = <<>>
            /\ \A x \in Task : SameEnd(x) /\ SeenIfWoken(x)
            /\ awake \subseteq awake'
            /\ UNCHANGED status
        BY <2>1, <3>2, <1>HandleEffect
      <4> QED BY <4>1
    <3> QED BY <2>2, <3>1, <3>2
  <2>6. ASSUME NEW d \in Cpu, NEW n
        PROVE  /\ n \in Valid(d) => n \in Valid(d)' /\ ipi'[d][n] = ipi[d][n]
               /\ n \in Valid(d)' => (n \in Valid(d) /\ ipi'[d][n] = ipi[d][n]) \/ ipi'[d][n].type = "SCHEDULE"
    <3>1. CASE x86_ipi_send(c, to, m)
      <4>1. PICK s \in 1 .. Slots :
             /\ ipi[to][s] = Free /\ ipi'[to][s] = m /\ m # Free
             /\ \A e \in Cpu : \A k \in 1 .. Slots : ~(e = to /\ k = s) => ipi'[e][k] = ipi[e][k]
        BY <2>1, <3>1, <1>SendSlot, SMTT(60)
      <4>2. CASE d = to /\ n = s
        BY <2>1, <4>1, <4>2 DEF Valid
      <4>3. CASE ~(d = to /\ n = s)
        BY <4>1, <4>3 DEF Valid
      <4> QED BY <4>2, <4>3
    <3>2. CASE UNCHANGED ipi
      BY <3>2 DEF Valid
    <3> QED BY <2>2, <3>1, <3>2
  <2>7. EndInv'
    <3> SUFFICES ASSUME NEW x \in Task
                 PROVE  /\ Has(x, "HELPMETERM")' => pc'[x] \in {"final", "gone"}
                        /\ pc'[x] \in {"exit", "final", "gone"} => Has(x, "TERMINATING")'
                        /\ pc'[x] \in {"final", "gone"} => Has(x, "TERMINATED")'
      BY DEF EndInv
    <3>1. /\ Has(x, "HELPMETERM") => pc[x] \in {"final", "gone"}
          /\ pc[x] \in {"exit", "final", "gone"} => Has(x, "TERMINATING")
          /\ pc[x] \in {"final", "gone"} => Has(x, "TERMINATED")
      BY <2>i DEF EndInv
    <3>2. \A f \in EndFlag : Has(x, f)' <=> Has(x, f)
      BY <2>5 DEF SameEnd
    <3>3. pc'[x] = pc[x] \/ (pc[x] = "sched" /\ pc'[x] = "run")
      BY <2>2, <2>4
    <3> QED BY <3>1, <3>2, <3>3 DEF EndFlag
  <2>8. PendingAnnounced'
    <3> SUFFICES ASSUME NEW d \in Cpu, c_pending'[d] # <<>>
                 PROVE  \/ \E n \in Valid(d)' : ipi'[d][n].type = "SCHEDULE"
                        \/ \E u \in Task : pc'[u] = "sched" /\ dest'[u] = d
      BY DEF PendingAnnounced
    <3>1. c_pending[d] # <<>>
      BY <2>5
    <3>2. CASE \E n \in Valid(d) : ipi[d][n].type = "SCHEDULE"
      BY <2>6, <3>2
    <3>3. CASE \E u \in Task \ {t} : pc[u] = "sched" /\ dest[u] = d
      BY <2>3, <2>4, <3>3
    <3>4. CASE to = d
      <4>1. CASE x86_ipi_send(c, to, m)
        <5>1. PICK s \in 1 .. Slots : ipi'[to][s] = m /\ m # Free
          BY <2>1, <4>1, <1>SendSlot, SMTT(60)
        <5>2. s \in Valid(to)'
          BY <5>1 DEF Valid
        <5> QED BY <2>1, <3>4, <5>1, <5>2
      <4>2. CASE to = c /\ HandleSchedule(c)
        <5>1. c_pending'[c] = <<>>
          BY <2>1, <4>2, <1>HandleEffect
        <5> QED BY <3>4, <4>2, <5>1
      <4> QED BY <2>2, <4>1, <4>2
    <3> QED BY <2>d, <2>i, <3>1, <3>2, <3>3, <3>4 DEF PendingAnnounced
  <2>9. ScopeInv'
    <3> SUFFICES ASSUME NEW d \in Cpu, NEW n \in Valid(d)', InScope(ipi[d][n])'
                 PROVE  /\ pc'[ipi'[d][n].from] = "wait" /\ status'[ipi'[d][n].from] = "PENDING"
                        /\ op'[ipi'[d][n].from] = ipi'[d][n].type /\ target'[ipi'[d][n].from] = ipi'[d][n].thread
                        /\ \A e \in Cpu : \A k \in Valid(e)' :
                             ipi'[e][k].type = ipi'[d][n].type /\ ipi'[e][k].from = ipi'[d][n].from => e = d /\ k = n
      BY DEF ScopeInv
    <3>1. ipi'[d][n].type # "SCHEDULE"
      BY DEF InScope
    <3>2. n \in Valid(d) /\ ipi'[d][n] = ipi[d][n] /\ ipi[d][n] \in Ipi
      <4>1. n \in Valid(d) /\ ipi'[d][n] = ipi[d][n]
        BY <2>6, <3>1
      <4> QED BY <4>1, SlotProps
    <3>3. InScope(ipi[d][n])
      BY <2>3, <3>2 DEF InScope
    <3>4. PICK q \in Task : q = ipi[d][n].from
      BY <3>2 DEF Ipi
    <3>5. /\ pc[q] = "wait" /\ status[q] = "PENDING"
          /\ op[q] = ipi[d][n].type /\ target[q] = ipi[d][n].thread
          /\ \A e \in Cpu : \A k \in Valid(e) :
               ipi[e][k].type = ipi[d][n].type /\ ipi[e][k].from = ipi[d][n].from => e = d /\ k = n
      BY <2>i, <3>2, <3>3, <3>4, SMTT(60) DEF ScopeInv
    <3>6. pc'[q] = "wait" /\ status'[q] = "PENDING"
      BY <2>2, <2>4, <2>5, <3>5
    <3>7. ASSUME NEW e \in Cpu, NEW k \in Valid(e)', ipi'[e][k].type = ipi'[d][n].type, ipi'[e][k].from = ipi'[d][n].from
          PROVE  e = d /\ k = n
      <4>1. k \in Valid(e) /\ ipi'[e][k] = ipi[e][k]
        BY <2>6, <3>1, <3>7
      <4> QED BY <3>2, <3>5, <3>7, <4>1
    <3> QED BY <2>3, <3>2, <3>4, <3>5, <3>6, <3>7
  <2>10. TruthInv'
    <3> SUFFICES ASSUME NEW u \in Task, pc'[u] \in {"send", "wait"}, op[u] = "WAKETASK"
                 PROVE  /\ u \in awake' \/ "SLEEPING" \in t_state'[target[u]]
                        /\ status'[u] = "OK" => u \in awake'
                        /\ status'[u] = "DEAD" => "TERMINATED" \in t_state'[target[u]]
      BY <2>3 DEF TruthInv, Truth, Has
    <3>1. PICK x \in Task : x = target[u]
      BY <2>0
    <3>2. Truth(u) /\ SameEnd(x) /\ SeenIfWoken(x) /\ pc'[u] = pc[u]
      BY <2>i, <2>4, <2>5 DEF TruthInv
    <3> QED BY <2>5, <3>1, <3>2 DEF Truth, SeenIfWoken, SameEnd, Has, EndFlag
  <2> QED BY <2>7, <2>8, <2>9, <2>10 DEF CallInv
(* SendIpi(): the IPI goes to another CPU, or is handled at once.          *)
<1>CallSend.
  ASSUME TypeOK, CallInv, NEW c \in Cpu, NEW t \in Task, SendIpi(c, t)
  PROVE  CallInv'
  <2> USE <1>CallSend
  <2>i. EndInv /\ PendingAnnounced /\ ScopeInv /\ TruthInv
    BY DEF CallInv
  <2>0. /\ pc \in [Task -> PC] /\ t_cpu \in [Task -> Cpu] /\ status \in [Task -> Status]
        /\ op \in [Task -> IpiType] /\ target \in [Task -> Task]
    BY DEF TypeOK, PC
  <2>m. PICK m \in Ipi : m = [type |-> op[t], thread |-> target[t], from |-> t]
    <3>1. [type |-> op[t], thread |-> target[t], from |-> t] \in Ipi
      BY <2>0 DEF Ipi
    <3> QED BY <3>1
  <2>d. PICK to \in Cpu : to = t_cpu[target[t]]
    BY <2>0
  <2>1. m.type = op[t] /\ m.thread = target[t] /\ m.from = t
    BY <2>m
  <2>2. /\ x86_ipi_send(c, to, m) \/ (x86_ipi_handle(c, m) /\ UNCHANGED ipi)
        /\ pc[t] = "send" /\ GoTo(t, "wait") /\ UNCHANGED <<frame, resent>>
    BY <2>d, <2>m DEF SendIpi, At
  <2>3. UNCHANGED <<op, target, dest, resent>>
    BY <2>2 DEF frame
  <2>4. pc'[t] = "wait" /\ \A u \in Task \ {t} : pc'[u] = pc[u]
    BY <2>0, <2>2 DEF GoTo
  <2>5. Awaits(m)
    BY <2>1, <2>2 DEF Awaits
  <2>s. ASSUME x86_ipi_send(c, to, m)
        PROVE  /\ UNCHANGED <<c_pending, t_state, awake>> /\ status'[t] = "PENDING"
               /\ \A u \in Task \ {t} : status'[u] = status[u]
    <3>1. UNCHANGED <<queues, t_state, awake>> /\ SetStatus(m, "PENDING") /\ "PENDING" \in Status
      BY <2>s DEF x86_ipi_send, Status
    <3>2. /\ \A u \in Task : u # m.from \/ ~Awaits(m) => status'[u] = status[u]
          /\ Awaits(m) => status'[m.from] = "PENDING"
      BY <3>1, StatusType
    <3> QED BY <2>1, <2>5, <3>1, <3>2 DEF queues
  <2>6. /\ \A d \in Cpu : c_pending'[d] = c_pending[d] \/ c_pending'[d] = <<>>
        /\ \A x \in Task : SameEnd(x) /\ SeenIfWoken(x)
        /\ awake \subseteq awake'
        /\ \A u \in Task \ {t} : status'[u] = status[u]
    <3>1. CASE x86_ipi_send(c, to, m)
      BY <2>s, <3>1 DEF SameEnd, SeenIfWoken, Has
    <3>2. CASE x86_ipi_handle(c, m)
      <4>1. /\ \A d \in Cpu : c_pending'[d] = c_pending[d] \/ c_pending'[d] = <<>>
            /\ \A x \in Task : SameEnd(x) /\ SeenIfWoken(x)
            /\ awake \subseteq awake'
            /\ \A u \in Task : u # m.from \/ ~Awaits(m) => status'[u] = status[u]
        BY <3>2, <1>HandleEffect
      <4> QED BY <2>1, <4>1
    <3> QED BY <2>2, <3>1, <3>2
  <2>7. ASSUME NEW d \in Cpu, NEW n
        PROVE  /\ n \in Valid(d) => n \in Valid(d)' /\ ipi'[d][n] = ipi[d][n]
               /\ n \in Valid(d)' => \/ n \in Valid(d) /\ ipi'[d][n] = ipi[d][n]
                                     \/ x86_ipi_send(c, to, m) /\ ipi'[d][n] = m /\ n \notin Valid(d)
               /\ \A e \in Cpu : \A k :
                    n \in Valid(d)' /\ n \notin Valid(d) /\ k \in Valid(e)' /\ k \notin Valid(e) => e = d /\ k = n
    <3>1. CASE x86_ipi_send(c, to, m)
      <4>1. PICK s \in 1 .. Slots :
             /\ ipi[to][s] = Free /\ ipi'[to][s] = m /\ m # Free
             /\ \A e \in Cpu : \A k \in 1 .. Slots : ~(e = to /\ k = s) => ipi'[e][k] = ipi[e][k]
        BY <3>1, <1>SendSlot, SMTT(60)
      <4>2. ASSUME NEW e \in Cpu, NEW k, k \in Valid(e)', k \notin Valid(e) PROVE e = to /\ k = s
        BY <4>1, <4>2 DEF Valid
      <4>3. CASE d = to /\ n = s
        <5>1. n \notin Valid(d) /\ n \in Valid(d)' /\ ipi'[d][n] = m
          BY <4>1, <4>3 DEF Valid
        <5> QED BY <3>1, <4>2, <4>3, <5>1
      <4>4. CASE ~(d = to /\ n = s)
        <5>1. n \in Valid(d)' <=> n \in Valid(d)
          BY <4>1, <4>4 DEF Valid
        <5>2. n \in Valid(d) => ipi'[d][n] = ipi[d][n]
          BY <4>1, <4>4 DEF Valid
        <5> QED BY <5>1, <5>2
      <4> QED BY <4>3, <4>4
    <3>2. CASE UNCHANGED ipi
      <4>1. Valid(d)' = Valid(d) /\ ipi'[d][n] = ipi[d][n]
        BY <3>2 DEF Valid
      <4>2. (n \in Valid(d)' <=> n \in Valid(d)) /\ ipi'[d][n] = ipi[d][n]
        BY <4>1
      <4> QED BY <4>2
    <3> QED BY <2>2, <3>1, <3>2
  <2>8. EndInv'
    <3> SUFFICES ASSUME NEW x \in Task
                 PROVE  /\ Has(x, "HELPMETERM")' => pc'[x] \in {"final", "gone"}
                        /\ pc'[x] \in {"exit", "final", "gone"} => Has(x, "TERMINATING")'
                        /\ pc'[x] \in {"final", "gone"} => Has(x, "TERMINATED")'
      BY DEF EndInv
    <3>1. /\ Has(x, "HELPMETERM") => pc[x] \in {"final", "gone"}
          /\ pc[x] \in {"exit", "final", "gone"} => Has(x, "TERMINATING")
          /\ pc[x] \in {"final", "gone"} => Has(x, "TERMINATED")
      BY <2>i DEF EndInv
    <3>2. \A f \in EndFlag : Has(x, f)' <=> Has(x, f)
      BY <2>6 DEF SameEnd
    <3>3. pc'[x] = pc[x] \/ (pc[x] = "send" /\ pc'[x] = "wait")
      BY <2>2, <2>4
    <3> QED BY <3>1, <3>2, <3>3 DEF EndFlag
  <2>9. PendingAnnounced'
    <3> SUFFICES ASSUME NEW d \in Cpu, c_pending'[d] # <<>>
                 PROVE  \/ \E n \in Valid(d)' : ipi'[d][n].type = "SCHEDULE"
                        \/ \E u \in Task : pc'[u] = "sched" /\ dest'[u] = d
      BY DEF PendingAnnounced
    <3>1. c_pending[d] # <<>>
      BY <2>6
    <3>2. CASE \E n \in Valid(d) : ipi[d][n].type = "SCHEDULE"
      BY <2>7, <3>2
    <3>3. CASE \E u \in Task : pc[u] = "sched" /\ dest[u] = d
      BY <2>2, <2>3, <2>4, <3>3
    <3> QED BY <2>i, <3>1, <3>2, <3>3 DEF PendingAnnounced
  <2>10. ScopeInv'
    <3> SUFFICES ASSUME NEW d \in Cpu, NEW n \in Valid(d)', InScope(ipi[d][n])'
                 PROVE  /\ pc'[ipi'[d][n].from] = "wait" /\ status'[ipi'[d][n].from] = "PENDING"
                        /\ op'[ipi'[d][n].from] = ipi'[d][n].type /\ target'[ipi'[d][n].from] = ipi'[d][n].thread
                        /\ \A e \in Cpu : \A k \in Valid(e)' :
                             ipi'[e][k].type = ipi'[d][n].type /\ ipi'[e][k].from = ipi'[d][n].from => e = d /\ k = n
      BY DEF ScopeInv
    <3>1. ASSUME NEW e \in Cpu, NEW k \in Valid(e), InScope(ipi[e][k])
          PROVE  ipi[e][k].from \in Task \ {t}
      <4>1. ipi[e][k] \in Ipi
        BY <3>1, SlotProps
      <4>2. pc[ipi[e][k].from] = "wait"
        BY <2>i, <3>1 DEF ScopeInv
      <4> QED BY <2>2, <4>1, <4>2 DEF Ipi
    <3>2. CASE n \in Valid(d) /\ ipi'[d][n] = ipi[d][n]
      <4>1. InScope(ipi[d][n])
        BY <2>3, <3>2 DEF InScope
      <4>2. PICK q \in Task \ {t} : q = ipi[d][n].from
        BY <3>1, <3>2, <4>1
      <4>3. /\ pc[q] = "wait" /\ status[q] = "PENDING"
            /\ op[q] = ipi[d][n].type /\ target[q] = ipi[d][n].thread
            /\ \A e \in Cpu : \A k \in Valid(e) :
                 ipi[e][k].type = ipi[d][n].type /\ ipi[e][k].from = ipi[d][n].from => e = d /\ k = n
        BY <2>i, <3>2, <4>1, <4>2, SMTT(60) DEF ScopeInv
      <4>4. pc'[q] = "wait" /\ status'[q] = "PENDING"
        BY <2>4, <2>6, <4>3
      <4>5. ASSUME NEW e \in Cpu, NEW k \in Valid(e)', ipi'[e][k].type = ipi'[d][n].type, ipi'[e][k].from = ipi'[d][n].from
            PROVE  e = d /\ k = n
        <5>1. ipi'[e][k] # m
          BY <2>1, <3>2, <4>2, <4>5
        <5>2. k \in Valid(e) /\ ipi'[e][k] = ipi[e][k]
          BY <2>7, <4>5, <5>1
        <5> QED BY <3>2, <4>3, <4>5, <5>2
      <4> QED BY <2>3, <3>2, <4>2, <4>3, <4>4, <4>5
    <3>3. CASE x86_ipi_send(c, to, m) /\ ipi'[d][n] = m /\ n \notin Valid(d)
      <4>1. pc'[t] = "wait" /\ status'[t] = "PENDING"
        BY <2>4, <2>s, <3>3
      <4>2. InScope(m)
        BY <2>3, <3>3 DEF InScope
      <4>3. ASSUME NEW e \in Cpu, NEW k \in Valid(e)', ipi'[e][k].type = m.type, ipi'[e][k].from = m.from
            PROVE  e = d /\ k = n
        <5>1. k \notin Valid(e)
          <6> SUFFICES ASSUME k \in Valid(e) PROVE FALSE
            OBVIOUS
          <6>1. ipi'[e][k] = ipi[e][k]
            BY <2>7
          <6>2. InScope(ipi[e][k])
            BY <4>2, <4>3, <6>1 DEF InScope
          <6> QED BY <2>1, <3>1, <4>3, <6>1, <6>2
        <5> QED BY <2>7, <3>3, <4>3, <5>1
      <4> QED BY <2>1, <2>3, <3>3, <4>1, <4>3
    <3> QED BY <2>7, <3>2, <3>3
  <2>11. TruthInv'
    <3> SUFFICES ASSUME NEW u \in Task, pc'[u] \in {"send", "wait"}, op[u] = "WAKETASK"
                 PROVE  /\ u \in awake' \/ "SLEEPING" \in t_state'[target[u]]
                        /\ status'[u] = "OK" => u \in awake'
                        /\ status'[u] = "DEAD" => "TERMINATED" \in t_state'[target[u]]
      BY <2>3 DEF TruthInv, Truth, Has
    <3>1. pc[u] \in {"send", "wait"}
      BY <2>2, <2>4
    <3>2. CASE x86_ipi_handle(c, m)
      BY <2>i, <3>1, <3>2, <1>HandleTruth
    <3>3. CASE x86_ipi_send(c, to, m)
      <4>1. Truth(u)
        BY <2>i DEF TruthInv
      <4> QED BY <2>s, <3>1, <3>3, <4>1 DEF Truth, Has
    <3> QED BY <2>2, <3>2, <3>3
  <2> QED BY <2>8, <2>9, <2>10, <2>11 DEF CallInv
(* The end of a thread: whoever is taken out of a ring there has nothing   *)
(* left to do.                                                             *)
<1>CallEnd.
  ASSUME TypeOK, CallInv, NEW c \in Cpu, NEW t \in Task,
         \/ task_exit(c, t) \/ Terminated(c, t)
         \/ FinalDecref(c, t) \/ HelpTermination(c, t) \/ AskTermination(c, t)
  PROVE  CallInv'
  <2> USE <1>CallEnd
  <2>i. EndInv /\ PendingAnnounced /\ ScopeInv /\ TruthInv
    BY DEF CallInv
  <2>0. pc \in [Task -> PC] /\ t_state \in [Task -> SUBSET StateFlag] /\ target \in [Task -> Task]
    BY DEF TypeOK, PC
  <2>1. UNCHANGED <<c_pending, ipi, op, target, dest, status, awake, resent>>
    <3>1. UNCHANGED <<c_pending, ipi, frame, status, awake, resent>>
      BY DEF task_exit, Terminated, FinalDecref, HelpTermination, AskTermination, queues
    <3> QED BY <3>1 DEF frame
  <2>e. ASSUME NEW x \in Task
        PROVE  /\ Has(x, "HELPMETERM") => pc[x] \in {"final", "gone"}
               /\ pc[x] \in {"exit", "final", "gone"} => Has(x, "TERMINATING")
               /\ pc[x] \in {"final", "gone"} => Has(x, "TERMINATED")
    BY <2>i DEF EndInv
  <2>2. ASSUME NEW x \in Task
        PROVE  /\ pc'[x] = pc[x] \/ (pc[x] \in {"run", "exit", "final", "gone"} /\ pc'[x] \in {"exit", "final", "gone"})
               /\ Has(x, "HELPMETERM")' => pc'[x] \in {"final", "gone"}
               /\ pc'[x] \in {"exit", "final", "gone"} => Has(x, "TERMINATING")'
               /\ pc'[x] \in {"final", "gone"} => Has(x, "TERMINATED")'
               /\ Has(x, "SLEEPING") => Has(x, "SLEEPING")'
               /\ Has(x, "TERMINATED") => Has(x, "TERMINATED")'
    <3>1. CASE task_exit(c, t)
      <4>1. /\ pc[t] = "run" /\ pc' = [pc EXCEPT ![t] = "exit"]
            /\ t_state' = [t_state EXCEPT ![t] = t_state[t] \cup {"TERMINATING"}]
        BY <3>1 DEF task_exit, At, GoTo
      <4>2. CASE x = t
        <5>1. pc'[x] = "exit" /\ t_state'[x] = t_state[x] \cup {"TERMINATING"}
          BY <2>0, <4>1, <4>2
        <5> QED BY <2>e, <4>1, <4>2, <5>1 DEF Has
      <4>3. CASE x # t
        <5>1. pc'[x] = pc[x] /\ t_state'[x] = t_state[x]
          BY <2>0, <4>1, <4>3
        <5> QED BY <2>e, <5>1 DEF Has
      <4> QED BY <4>2, <4>3
    <3>2. CASE Terminated(c, t)
      <4>1. /\ pc[t] = "exit" /\ pc' = [pc EXCEPT ![t] = "final"]
            /\ t_state' = [t_state EXCEPT ![t] = t_state[t] \cup {"TERMINATED"}]
        BY <3>2 DEF Terminated, At, GoTo
      <4>2. CASE x = t
        <5>1. pc'[x] = "final" /\ t_state'[x] = t_state[x] \cup {"TERMINATED"}
          BY <2>0, <4>1, <4>2
        <5> QED BY <2>e, <4>1, <4>2, <5>1 DEF Has
      <4>3. CASE x # t
        <5>1. pc'[x] = pc[x] /\ t_state'[x] = t_state[x]
          BY <2>0, <4>1, <4>3
        <5> QED BY <2>e, <5>1 DEF Has
      <4> QED BY <4>2, <4>3
    <3>3. CASE FinalDecref(c, t)
      <4>1. pc[t] = "final" /\ pc' = [pc EXCEPT ![t] = "gone"] /\ t_state' = t_state
        BY <3>3 DEF FinalDecref, At, GoTo
      <4>2. t_state'[x] = t_state[x] /\ (pc'[x] = pc[x] \/ (pc[x] = "final" /\ pc'[x] = "gone"))
        BY <2>0, <4>1
      <4> QED BY <2>e, <4>2 DEF Has
    <3>4. CASE HelpTermination(c, t)
      <4>1. PICK y \in Task : y = ring[c][2]
        <5>1. ring[c] \in Seq(Task) /\ Len(ring[c]) > 1
          BY <3>4 DEF TypeOK, HelpTermination
        <5> QED BY <5>1, HelpSet
      <4>2. /\ pc[t] = "final" /\ pc' = [pc EXCEPT ![y] = "gone"] /\ Has(y, "HELPMETERM")
            /\ t_state' = [t_state EXCEPT ![t] = t_state[t] \ {"HELPMETERM"}]
        BY <3>4, <4>1 DEF HelpTermination, At, GoTo
      <4>3. pc[y] \in {"final", "gone"}
        BY <2>e, <4>2
      <4>4. pc'[x] = pc[x] \/ (pc[x] \in {"final", "gone"} /\ pc'[x] = "gone")
        BY <2>0, <4>2, <4>3
      <4>5. t_state'[x] = t_state[x] \/ t_state'[x] = t_state[x] \ {"HELPMETERM"}
        BY <2>0, <4>2
      <4> QED BY <2>e, <4>4, <4>5 DEF Has
    <3>5. CASE AskTermination(c, t)
      <4>1. /\ pc[t] = "final" /\ pc' = pc
            /\ t_state' = [t_state EXCEPT ![t] = t_state[t] \cup {"HELPMETERM"}]
        BY <3>5 DEF AskTermination, At
      <4>2. t_state'[x] = t_state[x] \/ (x = t /\ t_state'[x] = t_state[x] \cup {"HELPMETERM"})
        BY <2>0, <4>1
      <4> QED BY <2>e, <4>1, <4>2 DEF Has
    <3> QED BY <3>1, <3>2, <3>3, <3>4, <3>5
  <2>3. EndInv'
    BY <2>2 DEF EndInv
  <2>4. PendingAnnounced'
    <3> SUFFICES ASSUME NEW d \in Cpu, c_pending'[d] # <<>>
                 PROVE  \/ \E n \in Valid(d)' : ipi'[d][n].type = "SCHEDULE"
                        \/ \E u \in Task : pc'[u] = "sched" /\ dest'[u] = d
      BY DEF PendingAnnounced
    <3>1. c_pending[d] # <<>> /\ Valid(d)' = Valid(d)
      BY <2>1 DEF Valid
    <3>2. CASE \E n \in Valid(d) : ipi[d][n].type = "SCHEDULE"
      BY <2>1, <3>1, <3>2
    <3>3. CASE \E u \in Task : pc[u] = "sched" /\ dest[u] = d
      BY <2>1, <2>2, <3>3
    <3> QED BY <2>i, <3>1, <3>2, <3>3 DEF PendingAnnounced
  <2>5. ScopeInv'
    <3> SUFFICES ASSUME NEW d \in Cpu, NEW n \in Valid(d)', InScope(ipi[d][n])'
                 PROVE  /\ pc'[ipi'[d][n].from] = "wait" /\ status'[ipi'[d][n].from] = "PENDING"
                        /\ op'[ipi'[d][n].from] = ipi'[d][n].type /\ target'[ipi'[d][n].from] = ipi'[d][n].thread
                        /\ \A e \in Cpu : \A k \in Valid(e)' :
                             ipi'[e][k].type = ipi'[d][n].type /\ ipi'[e][k].from = ipi'[d][n].from => e = d /\ k = n
      BY DEF ScopeInv
    <3>v. \A e \in Cpu : Valid(e)' = Valid(e)
      BY <2>1 DEF Valid
    <3>1. n \in Valid(d) /\ InScope(ipi[d][n])
      BY <2>1, <3>v DEF InScope
    <3>2. PICK q \in Task : q = ipi[d][n].from
      <4>1. ipi[d][n] \in Ipi
        BY <3>1, SlotProps
      <4> QED BY <4>1 DEF Ipi
    <3>3. /\ pc[q] = "wait" /\ status[q] = "PENDING"
          /\ op[q] = ipi[d][n].type /\ target[q] = ipi[d][n].thread
          /\ \A e \in Cpu : \A k \in Valid(e) :
               ipi[e][k].type = ipi[d][n].type /\ ipi[e][k].from = ipi[d][n].from => e = d /\ k = n
      BY <2>i, <3>1, <3>2, SMTT(60) DEF ScopeInv
    <3>4. pc'[q] = "wait"
      BY <2>2, <3>3
    <3> QED BY <2>1, <3>v, <3>2, <3>3, <3>4
  <2>6. TruthInv'
    <3> SUFFICES ASSUME NEW u \in Task, pc'[u] \in {"send", "wait"}, op[u] = "WAKETASK"
                 PROVE  /\ u \in awake \/ "SLEEPING" \in t_state'[target[u]]
                        /\ status[u] = "OK" => u \in awake
                        /\ status[u] = "DEAD" => "TERMINATED" \in t_state'[target[u]]
      BY <2>1 DEF TruthInv, Truth, Has
    <3>1. PICK x \in Task : x = target[u]
      BY <2>0
    <3>2. Truth(u)
      BY <2>i DEF TruthInv
    <3>3. /\ Has(x, "SLEEPING") => Has(x, "SLEEPING")'
          /\ Has(x, "TERMINATED") => Has(x, "TERMINATED")'
          /\ pc[u] \in {"send", "wait"}
      BY <2>2
    <3> QED BY <3>1, <3>2, <3>3 DEF Truth, Has
  <2> QED BY <2>3, <2>4, <2>5, <2>6 DEF CallInv
<1> SUFFICES ASSUME TypeOK, CallInv, [Next]_vars
             PROVE  CallInv'
  OBVIOUS
<1>1. CASE UNCHANGED vars
  <2>1. UNCHANGED <<c_pending, t_state, ipi, pc, op, target, dest, status, awake, resent>>
    BY <1>1 DEF vars, queues, frame
  <2>2. EndInv' /\ PendingAnnounced'
    BY <2>1 DEF CallInv, EndInv, PendingAnnounced, Has, Valid
  <2>3. ScopeInv'
    BY <2>1, SMTT(60) DEF CallInv, ScopeInv, Valid, InScope
  <2>4. TruthInv'
    BY <2>1 DEF CallInv, TruthInv, Truth, Has
  <2> QED BY <2>2, <2>3, <2>4 DEF CallInv
<1>t. ASSUME NEW c \in Cpu PROVE Running(c) \in Task
  <2>1. ring[c] \in Seq(Task) /\ ring[c] # <<>>
    BY DEF TypeOK
  <2> QED BY <2>1, TailSet DEF Running
<1>2. ASSUME NEW c \in Cpu, TaskStep(c, Running(c)) PROVE CallInv'
  <2>1. PICK t \in Task : t = Running(c)
    BY <1>t
  <2>2. TaskStep(c, t)
    BY <1>2, <2>1
  <2> QED BY <2>2, <1>CallQuiet, <1>CallCall, <1>CallSchedule, <1>CallSend, <1>CallEnd DEF TaskStep
<1>3. ASSUME NEW c \in Cpu, task_yield(c) \/ X86_IRQ_PIT(c) \/ x86_cpu_idle(c) PROVE CallInv'
  BY <1>3, <1>t, <1>CallQuiet
<1> QED BY <1>1, <1>2, <1>3, <1>CallProcess DEF Next

-----------------------------------------------------------------------------
(* What a step may leave alone for the sake of x: its places, its keeper.  *)
SameQueues(x) ==
  \A d \in Cpu : /\ x \in Range(ring'[d]) <=> x \in Range(ring[d])
                 /\ x \in c_sleeping'[d] <=> x \in c_sleeping[d]
                 /\ x \in Range(c_pending'[d]) <=> x \in Range(c_pending[d])
SameHolds(x) == \A t \in Task : Holds(t, x)' <=> Holds(t, x)
SameLife(x) == (pc'[x] \in {"new", "gone"} <=> pc[x] \in {"new", "gone"}) /\ t_cpu'[x] = t_cpu[x]
SameSleep(x) == Has(x, "SLEEPING")' <=> Has(x, "SLEEPING")

(* x is in a queue of c.                                                   *)
InQueue(x, c) == x \in Range(ring[c]) \/ x \in c_sleeping[c] \/ x \in Range(c_pending[c])

(* A thread in a queue of c is in none of another CPU, and nobody holds it. *)
LEMMA QueuedIn ==
  ASSUME NEW x \in Task, Kept(x), NEW c \in Cpu, InQueue(x, c)
  PROVE  /\ t_cpu[x] = c /\ pc[x] \notin {"new", "gone"}
         /\ \A d \in Cpu : InQueue(x, d) => d = c
         /\ \A t \in Task : ~Holds(t, x)
<1>1. ~Unqueued(x)
  BY DEF InQueue, Unqueued
<1>2. \A d \in Cpu : InQueue(x, d) => t_cpu[x] = d
  BY DEF Kept, InQueue
<1> QED BY <1>1, <1>2 DEF Kept

(* The tasks that hold a thread at a place of its own keep doing so.       *)
SamePlace ==
  \A t \in Task : pc'[t] = "place" =>
    pc[t] = "place" /\ target'[t] = target[t] /\ dest'[t] = dest[t] /\ t_cpu'[target[t]] = t_cpu[target[t]]

(* Around a handler: nothing else changes but that its caller goes on to   *)
(* wait; a task that unschedules a thread is still there to be told so.    *)
Around(m) ==
  /\ UNCHANGED <<t_cpu, op, target, dest>>
  /\ \A u \in Task : pc'[u] = pc[u] \/ (u = m.from /\ pc[u] = "send" /\ pc'[u] = "wait" /\ Awaits(m))
  /\ m.type = "UNSCHEDULE" => /\ Awaits(m) /\ pc'[m.from] = "wait"
                              /\ pc[m.from] = "wait" => status[m.from] = "PENDING"

(* Every step keeps every thread in its one place.                         *)
LEMMA HomeStep ==
  TypeOK /\ CallInv /\ HomeInv /\ ~NoSmp /\ [Next]_vars
    => HomeInv'
(* A thread that is left alone is kept as before.                          *)
<1>KeptSame.
  ASSUME NEW x \in Task, Kept(x), SameQueues(x), SameHolds(x), SameLife(x), SameSleep(x)
  PROVE  Kept(x)'
  <2> USE <1>KeptSame
  <2>1. Unqueued(x)' <=> Unqueued(x)
    BY DEF Unqueued, SameQueues
  <2>2. ASSUME NEW c \in Cpu
        PROVE  /\ x \in Range(ring'[c]) => t_cpu'[x] = c /\ ~Has(x, "SLEEPING")' /\ x \notin Range(c_pending'[c])
               /\ x \in c_sleeping'[c] => t_cpu'[x] = c /\ Has(x, "SLEEPING")' /\ x \notin Range(c_pending'[c])
               /\ x \in Range(c_pending'[c]) => t_cpu'[x] = c
    BY DEF Kept, SameQueues, SameLife, SameSleep
  <2>3. ASSUME NEW t \in Task, Holds(t, x)'
        PROVE  Unqueued(x)' /\ pc'[x] \notin {"new", "gone"} /\ \A u \in Task : Holds(u, x)' => u = t
    <3>1. Holds(t, x)
      BY <2>3 DEF SameHolds
    <3>2. Unqueued(x) /\ pc[x] \notin {"new", "gone"} /\ \A u \in Task : Holds(u, x) => u = t
      BY <3>1 DEF Kept
    <3> QED BY <2>1, <3>2 DEF SameHolds, SameLife
  <2>4. pc'[x] \in {"new", "gone"} => Unqueued(x)'
    BY <2>1 DEF Kept, SameLife
  <2>5. pc'[x] \notin {"new", "gone"} /\ Unqueued(x)' => \E t \in Task : Holds(t, x)'
    BY <2>1 DEF Kept, SameLife, SameHolds
  <2> QED BY <2>2, <2>3, <2>4, <2>5 DEF Kept
(* It is kept when it is in one queue of its CPU.                          *)
<1>KeptHere.
  ASSUME NEW x \in Task, NEW c \in Cpu, t_cpu'[x] = c, pc'[x] \notin {"new", "gone"},
         \A d \in Cpu : InQueue(x, d)' => d = c, InQueue(x, c)',
         \A t \in Task : ~Holds(t, x)',
         x \in Range(ring'[c]) => ~Has(x, "SLEEPING")' /\ x \notin Range(c_pending'[c]),
         x \in c_sleeping'[c] => Has(x, "SLEEPING")' /\ x \notin Range(c_pending'[c])
  PROVE  Kept(x)'
  <2> USE <1>KeptHere
  <2>1. ~Unqueued(x)'
    BY DEF InQueue, Unqueued
  <2>2. ASSUME NEW d \in Cpu
        PROVE  /\ x \in Range(ring'[d]) => t_cpu'[x] = d /\ ~Has(x, "SLEEPING")' /\ x \notin Range(c_pending'[d])
               /\ x \in c_sleeping'[d] => t_cpu'[x] = d /\ Has(x, "SLEEPING")' /\ x \notin Range(c_pending'[d])
               /\ x \in Range(c_pending'[d]) => t_cpu'[x] = d
    <3>1. CASE d = c
      BY <3>1
    <3>2. CASE d # c
      BY <3>2 DEF InQueue
    <3> QED BY <3>1, <3>2
  <2> QED BY <2>1, <2>2 DEF Kept
(* It is kept when it is in no queue and one task holds it.                *)
<1>KeptHeld.
  ASSUME NEW x \in Task, NEW q \in Task, Unqueued(x)', pc'[x] \notin {"new", "gone"}, Holds(q, x)',
         \A t \in Task : Holds(t, x)' => t = q
  PROVE  Kept(x)'
  <2> USE <1>KeptHeld
  <2>1. \A d \in Cpu : x \notin Range(ring'[d]) /\ x \notin c_sleeping'[d] /\ x \notin Range(c_pending'[d])
    BY DEF Unqueued
  <2>2. \A t \in Task : Holds(t, x)' => Unqueued(x)' /\ pc'[x] \notin {"new", "gone"} /\ \A u \in Task : Holds(u, x)' => u = t
    OBVIOUS
  <2> QED BY <2>1, <2>2 DEF Kept
(* It is kept when it is nowhere, before its start or after its end.       *)
<1>KeptNowhere.
  ASSUME NEW x \in Task, Unqueued(x)', pc'[x] \in {"new", "gone"}, \A t \in Task : ~Holds(t, x)'
  PROVE  Kept(x)'
  <2> USE <1>KeptNowhere
  <2>1. \A d \in Cpu : x \notin Range(ring'[d]) /\ x \notin c_sleeping'[d] /\ x \notin Range(c_pending'[d])
    BY DEF Unqueued
  <2> QED BY <2>1 DEF Kept
(* Before a step nothing is torn, so every thread is kept.                 *)
<1>AllKept.
  ASSUME HomeInv, torn = {}
  PROVE  /\ \A x \in Task : Kept(x)
         /\ \A c \in Cpu : IsInjective(ring[c]) /\ IsInjective(c_pending[c])
         /\ \A t \in Task : pc[t] = "place" => t_cpu[target[t]] = dest[t]
  BY <1>AllKept DEF HomeInv
(* A step that moves no thread from one queue to another.                  *)
<1>HomeSame.
  ASSUME HomeInv, torn = {}, SamePlace,
         \A x \in Task : SameQueues(x) /\ SameHolds(x) /\ SameLife(x) /\ SameSleep(x),
         \A c \in Cpu : IsInjective(ring'[c]) /\ IsInjective(c_pending'[c])
  PROVE  HomeInv'
  <2> USE <1>HomeSame
  <2>1. \A x \in Task : Kept(x)'
    BY <1>AllKept, <1>KeptSame
  <2>2. \A t \in Task : pc'[t] = "place" => t_cpu'[target'[t]] = dest'[t]
    BY <1>AllKept DEF SamePlace
  <2> QED BY <2>1, <2>2 DEF HomeInv
(* A step that moves some: the moved ones need a look.                     *)
<1>HomeMoved.
  ASSUME HomeInv, torn = {}, SamePlace, NEW M \in SUBSET Task,
         \A x \in Task \ M : SameQueues(x) /\ SameHolds(x) /\ SameLife(x) /\ SameSleep(x),
         \A x \in M \ torn' : Kept(x)',
         \A c \in Cpu : IsInjective(ring'[c]) /\ IsInjective(c_pending'[c])
  PROVE  HomeInv'
  <2> USE <1>HomeMoved
  <2>1. \A x \in Task \ M : Kept(x)'
    BY <1>AllKept, <1>KeptSame
  <2>2. \A t \in Task : pc'[t] = "place" => t_cpu'[target'[t]] = dest'[t]
    BY <1>AllKept DEF SamePlace
  <2>3. \A x \in Task \ torn' : Kept(x)'
    BY <2>1
  <2> QED BY <2>2, <2>3 DEF HomeInv
(* The chain of a CPU is loaded.                                           *)
<1>HomeLoad.
  ASSUME TypeOK, HomeInv, torn = {}, SamePlace, NEW c \in Cpu,
         \E r \in LoadedRing(c) : ring' = [ring EXCEPT ![c] = r],
         c_sleeping' = [c_sleeping EXCEPT ![c] = LoadedSleeping(c)],
         c_pending' = [c_pending EXCEPT ![c] = <<>>],
         \A x \in Task : SameHolds(x) /\ SameLife(x) /\ SameSleep(x)
  PROVE  HomeInv'
  <2> USE <1>HomeLoad
  <2>0. c_sleeping \in [Cpu -> SUBSET Task] /\ c_pending \in [Cpu -> Seq(Task)]
    BY DEF TypeOK
  <2>1. PICK r \in LoadedRing(c) : ring' = [ring EXCEPT ![c] = r]
    OBVIOUS
  <2>2. /\ r \in Seq(Task) /\ r # <<>> /\ Range(c_pending[c]) \in SUBSET Task
        /\ Range(r) = Range(ring[c]) \cup {x \in Range(c_pending[c]) : ~Has(x, "SLEEPING")}
        /\ IsInjective(ring[c]) /\ Range(ring[c]) \cap Range(c_pending[c]) = {} => IsInjective(r)
    BY LoadedSet
  <2>3. ring'[c] = r /\ \A d \in Cpu : d # c => ring'[d] = ring[d]
    BY <2>1, <2>2, RingType
  <2>4. /\ c_sleeping'[c] = LoadedSleeping(c) /\ c_pending'[c] = <<>>
        /\ \A d \in Cpu : d # c => c_sleeping'[d] = c_sleeping[d] /\ c_pending'[d] = c_pending[d]
    BY <2>0
  <2>e. Range(<<>>) = {} /\ IsInjective(<<>>)
    BY SMTT(60) DEF Range, IsInjective
  <2> DEFINE M == Range(c_pending[c])
  <2>5. \A d \in Cpu : IsInjective(ring'[d]) /\ IsInjective(c_pending'[d])
    <3>1. Range(ring[c]) \cap Range(c_pending[c]) = {}
      <4>1. ASSUME NEW x \in Range(c_pending[c]) PROVE x \notin Range(ring[c])
        BY <2>2, <1>AllKept DEF Kept
      <4> QED BY <4>1
    <3> QED BY <2>2, <2>3, <2>4, <2>e, <3>1, <1>AllKept
  <2>6. ASSUME NEW x \in Task \ M PROVE SameQueues(x)
    <3>1. \A d \in Cpu : d # c => /\ x \in Range(ring'[d]) <=> x \in Range(ring[d])
                                  /\ x \in c_sleeping'[d] <=> x \in c_sleeping[d]
                                  /\ x \in Range(c_pending'[d]) <=> x \in Range(c_pending[d])
      BY <2>3, <2>4
    <3>2. /\ x \in Range(ring'[c]) <=> x \in Range(ring[c])
          /\ x \in c_sleeping'[c] <=> x \in c_sleeping[c]
          /\ x \in Range(c_pending'[c]) <=> x \in Range(c_pending[c])
      BY <2>2, <2>3, <2>4, <2>6, <2>e DEF LoadedSleeping
    <3> QED BY <3>1, <3>2 DEF SameQueues
  <2>7. ASSUME NEW x \in M PROVE Kept(x)'
    <3>0. x \in Task /\ Kept(x) /\ InQueue(x, c)
      BY <2>2, <2>7, <1>AllKept DEF InQueue
    <3>1. /\ t_cpu[x] = c /\ pc[x] \notin {"new", "gone"}
          /\ \A d \in Cpu : InQueue(x, d) => d = c
          /\ \A t \in Task : ~Holds(t, x)
      BY <3>0, QueuedIn
    <3>2. t_cpu'[x] = c /\ pc'[x] \notin {"new", "gone"} /\ \A t \in Task : ~Holds(t, x)'
      BY <3>0, <3>1 DEF SameLife, SameHolds
    <3>3. x \notin Range(ring[c]) /\ x \notin c_sleeping[c]
      BY <2>7, <3>0 DEF Kept
    <3>4. /\ x \in Range(ring'[c]) <=> ~Has(x, "SLEEPING")
          /\ x \in c_sleeping'[c] <=> Has(x, "SLEEPING")
          /\ x \notin Range(c_pending'[c])
      BY <2>2, <2>3, <2>4, <2>e, <2>7, <3>3 DEF LoadedSleeping
    <3>5. /\ x \in Range(ring'[c]) => ~Has(x, "SLEEPING")' /\ x \notin Range(c_pending'[c])
          /\ x \in c_sleeping'[c] => Has(x, "SLEEPING")' /\ x \notin Range(c_pending'[c])
      BY <3>0, <3>4 DEF SameSleep
    <3>6. InQueue(x, c)'
      BY <3>4 DEF InQueue
    <3>7. ASSUME NEW d \in Cpu, InQueue(x, d)' PROVE d = c
      BY <2>3, <2>4, <3>1, <3>7 DEF InQueue
    <3> QED BY <3>0, <3>2, <3>5, <3>6, <3>7, <1>KeptHere
  <2>8. M \in SUBSET Task
    BY <2>2
  <2> QED BY <2>5, <2>6, <2>7, <2>8, <1>HomeMoved
(* A sleeping thread is woken.                                             *)
<1>HomeWake.
  ASSUME TypeOK, HomeInv, torn = {}, SamePlace, ~NoSmp, NEW c \in Cpu, NEW x \in Task,
         t_cpu[x] = c, Has(x, "SLEEPING"), x86_scheduler_localwake(c, x),
         \A y \in Task : SameHolds(y) /\ SameLife(y)
  PROVE  HomeInv'
  <2> USE <1>HomeWake
  <2>0. /\ c_sleeping \in [Cpu -> SUBSET Task] /\ ring \in [Cpu -> Seq(Task)] /\ (\A d \in Cpu : ring[d] # <<>>)
        /\ t_state \in [Task -> SUBSET StateFlag]
    BY DEF TypeOK
  <2>1. /\ ring' = [ring EXCEPT ![c] = InsertAfter(ring[c], x)]
        /\ c_sleeping' = [c_sleeping EXCEPT ![c] = c_sleeping[c] \ {x}]
        /\ t_state' = [t_state EXCEPT ![x] = t_state[x] \ {"SLEEPING"}]
        /\ torn' = (IF x \in c_sleeping[c] THEN torn ELSE torn \cup {x})
        /\ UNCHANGED c_pending
    BY DEF x86_scheduler_localwake
  <2>2. /\ InsertAfter(ring[c], x) \in Seq(Task) /\ InsertAfter(ring[c], x) # <<>>
        /\ Range(InsertAfter(ring[c], x)) = Range(ring[c]) \cup {x}
        /\ IsInjective(ring[c]) /\ x \notin Range(ring[c]) => IsInjective(InsertAfter(ring[c], x))
    BY <2>0, InsertSet
  <2>3. ring'[c] = InsertAfter(ring[c], x) /\ \A d \in Cpu : d # c => ring'[d] = ring[d]
    BY <2>1, <2>2, RingType
  <2>4. c_sleeping'[c] = c_sleeping[c] \ {x} /\ \A d \in Cpu : d # c => c_sleeping'[d] = c_sleeping[d]
    BY <2>0, <2>1
  <2>5. \A d \in Cpu : IsInjective(ring'[d]) /\ IsInjective(c_pending'[d])
    <3>1. x \notin Range(ring[c])
      BY <1>AllKept DEF Kept
    <3> QED BY <2>1, <2>2, <2>3, <3>1, <1>AllKept
  <2>6. ASSUME NEW y \in Task \ {x} PROVE SameQueues(y) /\ SameSleep(y)
    <3>1. t_state'[y] = t_state[y]
      BY <2>0, <2>1
    <3>2. \A d \in Cpu : /\ y \in Range(ring'[d]) <=> y \in Range(ring[d])
                         /\ y \in c_sleeping'[d] <=> y \in c_sleeping[d]
      BY <2>2, <2>3, <2>4
    <3> QED BY <2>1, <3>1, <3>2 DEF SameQueues, SameSleep, Has
  <2>7. ASSUME x \notin torn' PROVE Kept(x)'
    <3>0. x \in c_sleeping[c] /\ Kept(x) /\ InQueue(x, c)
      BY <2>1, <2>7, <1>AllKept DEF InQueue
    <3>1. /\ t_cpu[x] = c /\ pc[x] \notin {"new", "gone"}
          /\ \A d \in Cpu : InQueue(x, d) => d = c
          /\ \A t \in Task : ~Holds(t, x)
      BY <3>0, QueuedIn
    <3>2. t_cpu'[x] = c /\ pc'[x] \notin {"new", "gone"} /\ \A t \in Task : ~Holds(t, x)'
      BY <3>1 DEF SameLife, SameHolds
    <3>3. x \notin Range(c_pending[c])
      BY <3>0 DEF Kept
    <3>4. x \in Range(ring'[c]) /\ x \notin c_sleeping'[c] /\ x \notin Range(c_pending'[c])
      BY <2>1, <2>2, <2>3, <2>4, <3>3
    <3>5. ~Has(x, "SLEEPING")'
      <4>1. t_state'[x] = t_state[x] \ {"SLEEPING"}
        BY <2>0, <2>1
      <4> QED BY <4>1 DEF Has
    <3>6. InQueue(x, c)'
      BY <3>4 DEF InQueue
    <3>7. ASSUME NEW d \in Cpu, InQueue(x, d)' PROVE d = c
      BY <2>1, <2>3, <2>4, <3>1, <3>7 DEF InQueue
    <3> QED BY <3>2, <3>4, <3>5, <3>6, <3>7, <1>KeptHere
  <2>8. PICK M \in SUBSET Task : M = {x}
    OBVIOUS
  <2>9. \A y \in M \ torn' : Kept(y)'
    BY <2>7, <2>8
  <2>10. \A y \in Task \ M : SameQueues(y) /\ SameHolds(y) /\ SameLife(y) /\ SameSleep(y)
    BY <2>6, <2>8
  <2> QED BY <2>5, <2>9, <2>10, <1>HomeMoved
(* A handler starts and ends no thread, and places none.                   *)
<1>AroundLife.
  ASSUME TypeOK, NEW m \in Ipi, Around(m)
  PROVE  SamePlace /\ \A x \in Task : SameLife(x)
  <2> USE <1>AroundLife
  <2>1. \A u \in Task : pc'[u] = pc[u] \/ (pc[u] = "send" /\ pc'[u] = "wait")
    BY DEF Around
  <2>2. UNCHANGED <<t_cpu, target, dest>>
    BY DEF Around
  <2>3. ASSUME NEW x \in Task PROVE SameLife(x)
    BY <2>1, <2>2 DEF SameLife
  <2> QED BY <2>1, <2>2, <2>3 DEF SamePlace
(* An answer other than the OK of an UNSCHEDULE changes no keeper.         *)
<1>AroundHolds.
  ASSUME TypeOK, NEW m \in Ipi, Around(m), NEW v \in Status, SetStatus(m, v),
         m.type = "UNSCHEDULE" => v # "OK"
  PROVE  \A x \in Task : SameHolds(x)
  <2> USE <1>AroundHolds
  <2>1. /\ m.from \in Task /\ \A t \in Task : t # m.from \/ ~Awaits(m) => status'[t] = status[t]
        /\ Awaits(m) => status'[m.from] = v
    BY StatusType
  <2>2. UNCHANGED <<op, target>>
    BY DEF Around
  <2>3. ASSUME NEW t \in Task PROVE Owns(t)' <=> Owns(t)
    <3>1. CASE pc'[t] = pc[t] /\ status'[t] = status[t]
      BY <2>2, <3>1 DEF Owns
    <3>2. CASE t = m.from /\ Awaits(m)
      <4>1. pc[t] \in {"send", "wait"} /\ op[t] = m.type /\ status'[t] = v
        BY <2>1, <3>2 DEF Awaits
      <4>2. pc'[t] = pc[t] \/ (pc[t] = "send" /\ pc'[t] = "wait")
        BY DEF Around
      <4>3. CASE m.type = "UNSCHEDULE"
        <5>1. v # "OK" /\ (pc[t] = "wait" => status[t] = "PENDING")
          BY <3>2, <4>3 DEF Around
        <5> QED BY <2>2, <4>1, <4>2, <5>1 DEF Owns
      <4>4. CASE m.type # "UNSCHEDULE"
        BY <2>2, <4>1, <4>2, <4>4 DEF Owns
      <4> QED BY <4>3, <4>4
    <3>3. t # m.from \/ ~Awaits(m) => pc'[t] = pc[t] /\ status'[t] = status[t]
      BY <2>1 DEF Around
    <3> QED BY <3>1, <3>2, <3>3
  <2> QED BY <2>2, <2>3 DEF SameHolds, Holds
(* The OK of an UNSCHEDULE makes its sender the keeper of the thread.      *)
<1>AroundOwner.
  ASSUME TypeOK, NEW m \in Ipi, Around(m), SetStatus(m, "OK"), m.type = "UNSCHEDULE"
  PROVE  /\ Holds(m.from, m.thread)' /\ \A x \in Task : ~Holds(m.from, x)
         /\ \A x \in Task, t \in Task : t # m.from \/ x # m.thread => (Holds(t, x)' <=> Holds(t, x))
  <2> USE <1>AroundOwner
  <2>0. "OK" \in Status
    BY DEF Status
  <2>1. /\ m.from \in Task /\ \A t \in Task : t # m.from \/ ~Awaits(m) => status'[t] = status[t]
        /\ Awaits(m) => status'[m.from] = "OK"
    BY <2>0, StatusType
  <2>2. UNCHANGED <<op, target>> /\ Awaits(m) /\ pc'[m.from] = "wait" /\ (pc[m.from] = "wait" => status[m.from] = "PENDING")
    BY DEF Around
  <2>3. pc[m.from] \in {"send", "wait"} /\ op[m.from] = "UNSCHEDULE" /\ target[m.from] = m.thread
    BY <2>2 DEF Awaits
  <2>4. ~Owns(m.from)
    BY <2>2, <2>3 DEF Owns
  <2>5. op'[m.from] = "UNSCHEDULE" /\ target'[m.from] = m.thread /\ status'[m.from] = "OK" /\ pc'[m.from] = "wait"
    BY <2>1, <2>2, <2>3
  <2>6. PICK q \in Task : q = m.from
    BY <2>1
  <2>7. Holds(q, m.thread)'
    BY <2>2, <2>5, <2>6 DEF Holds, Owns
  <2>8. ASSUME NEW x \in Task, NEW t \in Task, t # m.from \/ x # m.thread PROVE Holds(t, x)' <=> Holds(t, x)
    <3>1. CASE t # m.from
      <4>1. pc'[t] = pc[t] /\ status'[t] = status[t]
        BY <2>1, <3>1 DEF Around
      <4> QED BY <2>2, <4>1 DEF Holds, Owns
    <3>2. CASE t = m.from /\ x # m.thread
      BY <2>2, <2>3, <3>2 DEF Holds
    <3> QED BY <2>8, <3>1, <3>2
  <2> QED BY <2>4, <2>6, <2>7, <2>8 DEF Holds
(* The interrupted thread is unscheduled.                                  *)
<1>HomeCurrent.
  ASSUME TypeOK, HomeInv, torn = {}, NEW c \in Cpu, NEW m \in Ipi, Around(m), m.type = "UNSCHEDULE",
         t_cpu[m.thread] = c, m.thread = Running(c), m.thread # m.from, UnscheduleCurrent(c, m)
  PROVE  HomeInv'
  <2> USE <1>HomeCurrent
  <2>0. /\ ring \in [Cpu -> Seq(Task)] /\ \A d \in Cpu : ring[d] # <<>>
    BY DEF TypeOK
  <2>1. UNCHANGED <<c_sleeping, c_pending, t_state, torn>>
    BY DEF UnscheduleCurrent
  <2>2. SamePlace /\ \A x \in Task : SameLife(x)
    BY <1>AroundLife
  <2>3. \A x \in Task : SameSleep(x)
    BY <2>1 DEF SameSleep, Has
  <2>4. CASE Len(ring[c]) = 1
    <3>1. SetStatus(m, "LAST") /\ UNCHANGED ring /\ "LAST" \in Status /\ "LAST" # "OK"
      BY <2>4 DEF UnscheduleCurrent, Status
    <3>2. \A x \in Task : SameHolds(x)
      BY <3>1, <1>AroundHolds
    <3>3. \A x \in Task : SameQueues(x)
      BY <2>1, <3>1 DEF SameQueues
    <3>4. \A d \in Cpu : IsInjective(ring'[d]) /\ IsInjective(c_pending'[d])
      BY <2>1, <3>1, <1>AllKept
    <3> QED BY <2>2, <2>3, <3>2, <3>3, <3>4, <1>HomeSame
  <2>5. CASE Len(ring[c]) # 1
    <3>1. SetStatus(m, "OK") /\ ring' = [ring EXCEPT ![c] = Tail(ring[c])]
      BY <2>5 DEF UnscheduleCurrent
    <3>2. PICK x \in Task : x = m.thread
      BY DEF Ipi
    <3>3. /\ Tail(ring[c]) \in Seq(Task) /\ x \in Range(ring[c]) /\ Range(ring[c]) = Range(Tail(ring[c])) \cup {x}
          /\ IsInjective(ring[c]) => IsInjective(Tail(ring[c])) /\ x \notin Range(Tail(ring[c]))
      <4>1. ring[c] \in Seq(Task) /\ ring[c] # <<>> /\ x = Head(ring[c])
        BY <2>0, <3>2 DEF Running
      <4> QED BY <4>1, TailSet
    <3>4. IsInjective(Tail(ring[c])) /\ x \notin Range(Tail(ring[c]))
      BY <3>3, <1>AllKept
    <3>5. ring'[c] = Tail(ring[c]) /\ \A d \in Cpu : d # c => ring'[d] = ring[d]
      BY <2>0, <3>1, <3>3
    <3>6. \A d \in Cpu : IsInjective(ring'[d]) /\ IsInjective(c_pending'[d])
      BY <2>1, <3>4, <3>5, <1>AllKept
    <3>7. PICK q \in Task : q = m.from
      BY DEF Ipi
    <3>8. /\ Holds(q, x)'
          /\ \A y \in Task, t \in Task : t # q \/ y # x => (Holds(t, y)' <=> Holds(t, y))
      BY <3>1, <3>2, <3>7, <1>AroundOwner
    <3>9. ASSUME NEW y \in Task, y # x PROVE SameQueues(y) /\ SameHolds(y)
      <4>1. \A d \in Cpu : y \in Range(ring'[d]) <=> y \in Range(ring[d])
        BY <3>3, <3>5, <3>9
      <4> QED BY <2>1, <3>8, <3>9, <4>1 DEF SameQueues, SameHolds
    <3>10. Kept(x)'
      <4>1. Kept(x) /\ InQueue(x, c)
        BY <3>3, <1>AllKept DEF InQueue
      <4>2. /\ pc[x] \notin {"new", "gone"} /\ (\A d \in Cpu : InQueue(x, d) => d = c) /\ \A t \in Task : ~Holds(t, x)
        BY <4>1, QueuedIn
      <4>3. x \notin c_sleeping[c] /\ x \notin Range(c_pending[c])
        BY <3>3, <4>1 DEF Kept
      <4>4. Unqueued(x)'
        <5>1. ASSUME NEW d \in Cpu PROVE x \notin Range(ring'[d]) /\ x \notin c_sleeping'[d] /\ x \notin Range(c_pending'[d])
          BY <2>1, <3>4, <3>5, <4>2, <4>3 DEF InQueue
        <5> QED BY <5>1 DEF Unqueued
      <4>5. pc'[x] \notin {"new", "gone"}
        BY <2>2, <4>2 DEF SameLife
      <4>6. \A t \in Task : Holds(t, x)' => t = q
        BY <3>8, <4>2
      <4> QED BY <3>8, <4>4, <4>5, <4>6, <1>KeptHeld
    <3>11. PICK M \in SUBSET Task : M = {x}
      OBVIOUS
    <3>12. /\ \A y \in M \ torn' : Kept(y)'
           /\ \A y \in Task \ M : SameQueues(y) /\ SameHolds(y) /\ SameLife(y) /\ SameSleep(y)
      BY <2>2, <2>3, <3>9, <3>10, <3>11
    <3> QED BY <2>2, <3>6, <3>12, <1>HomeMoved
  <2> QED BY <2>4, <2>5
(* Another thread of the CPU is unscheduled, once its chain is loaded.     *)
<1>HomeOther.
  ASSUME TypeOK, HomeInv, torn = {}, NEW c \in Cpu, NEW m \in Ipi, Around(m), m.type = "UNSCHEDULE",
         t_cpu[m.thread] = c, m.thread # Running(c), m.thread # m.from, UnscheduleOther(c, m)
  PROVE  HomeInv'
  <2> USE <1>HomeOther
  <2>0. c_sleeping \in [Cpu -> SUBSET Task] /\ c_pending \in [Cpu -> Seq(Task)] /\ ring \in [Cpu -> Seq(Task)]
    BY DEF TypeOK
  <2>x. PICK x \in Task : x = m.thread
    BY DEF Ipi
  <2>q. PICK q \in Task : q = m.from
    BY DEF Ipi
  <2>1. PICK r \in LoadedRing(c) : \E w \in InOrderOf(r, Range(r) \ {x}) : ring' = [ring EXCEPT ![c] = w]
    BY <2>x DEF UnscheduleOther
  <2>2. PICK w \in InOrderOf(r, Range(r) \ {x}) : ring' = [ring EXCEPT ![c] = w]
    BY <2>1
  <2>3. /\ Range(c_pending[c]) \in SUBSET Task /\ Range(r) \in SUBSET Task
        /\ Range(r) = Range(ring[c]) \cup {y \in Range(c_pending[c]) : ~Has(y, "SLEEPING")}
    <3>1. /\ Range(c_pending[c]) \in SUBSET Task /\ Range(ring[c]) \in SUBSET Task
          /\ Range(r) = Range(ring[c]) \cup {y \in Range(c_pending[c]) : ~Has(y, "SLEEPING")}
      BY LoadedSet
    <3> QED BY <3>1
  <2>4. w \in Seq(Task) /\ Range(w) = Range(r) \ {x} /\ IsInjective(w)
    BY <2>3, OrderSet
  <2>5. ring'[c] = w /\ \A d \in Cpu : d # c => ring'[d] = ring[d]
    BY <2>0, <2>2, <2>4
  <2>6. /\ c_sleeping' = [c_sleeping EXCEPT ![c] = LoadedSleeping(c) \ {x}]
        /\ c_pending' = [c_pending EXCEPT ![c] = <<>>] /\ t_state' = Started(Range(c_pending[c])) /\ SetStatus(m, "OK")
    BY <2>x DEF UnscheduleOther
  <2>7. /\ c_sleeping'[c] = LoadedSleeping(c) \ {x} /\ c_pending'[c] = <<>>
        /\ \A d \in Cpu : d # c => c_sleeping'[d] = c_sleeping[d] /\ c_pending'[d] = c_pending[d]
    BY <2>0, <2>6
  <2>e. Range(<<>>) = {} /\ IsInjective(<<>>)
    BY SMTT(60) DEF Range, IsInjective
  <2>8. SamePlace /\ (\A y \in Task : SameLife(y)) /\ \A y \in Task : SameSleep(y)
    <3>1. \A y \in Task : Has(y, "SLEEPING")' <=> Has(y, "SLEEPING")
      BY <2>6, StartedType
    <3> QED BY <3>1, <1>AroundLife DEF SameSleep
  <2>9. \A d \in Cpu : IsInjective(ring'[d]) /\ IsInjective(c_pending'[d])
    BY <2>4, <2>5, <2>7, <2>e, <1>AllKept
  <2>10. /\ Holds(q, x)'
         /\ \A y \in Task, t \in Task : t # q \/ y # x => (Holds(t, y)' <=> Holds(t, y))
    BY <2>6, <2>q, <2>x, <1>AroundOwner
  <2>11. ASSUME NEW y \in Task, y # x PROVE SameHolds(y)
    BY <2>10, <2>11 DEF SameHolds
  <2> DEFINE P == Range(c_pending[c])
  <2>12. ASSUME NEW y \in Task, y # x, y \notin P PROVE SameQueues(y)
    <3>1. \A d \in Cpu : d # c => /\ y \in Range(ring'[d]) <=> y \in Range(ring[d])
                                  /\ y \in c_sleeping'[d] <=> y \in c_sleeping[d]
                                  /\ y \in Range(c_pending'[d]) <=> y \in Range(c_pending[d])
      BY <2>5, <2>7
    <3>2. /\ y \in Range(ring'[c]) <=> y \in Range(ring[c])
          /\ y \in c_sleeping'[c] <=> y \in c_sleeping[c]
          /\ y \in Range(c_pending'[c]) <=> y \in Range(c_pending[c])
      BY <2>3, <2>4, <2>5, <2>7, <2>12, <2>e DEF LoadedSleeping
    <3> QED BY <3>1, <3>2 DEF SameQueues
  <2>13. ASSUME NEW y \in P, y # x PROVE Kept(y)'
    <3>0. y \in Task /\ Kept(y) /\ InQueue(y, c)
      BY <2>3, <2>13, <1>AllKept DEF InQueue
    <3>1. /\ t_cpu[y] = c /\ pc[y] \notin {"new", "gone"}
          /\ \A d \in Cpu : InQueue(y, d) => d = c
          /\ \A t \in Task : ~Holds(t, y)
      BY <3>0, QueuedIn
    <3>2. t_cpu'[y] = c /\ pc'[y] \notin {"new", "gone"} /\ \A t \in Task : ~Holds(t, y)'
      BY <2>8, <2>11, <2>13, <3>0, <3>1 DEF SameLife, SameHolds
    <3>3. y \notin Range(ring[c]) /\ y \notin c_sleeping[c]
      BY <2>13, <3>0 DEF Kept
    <3>4. /\ y \in Range(ring'[c]) <=> ~Has(y, "SLEEPING")
          /\ y \in c_sleeping'[c] <=> Has(y, "SLEEPING")
          /\ y \notin Range(c_pending'[c])
      BY <2>3, <2>4, <2>5, <2>7, <2>e, <2>13, <3>3 DEF LoadedSleeping
    <3>5. /\ y \in Range(ring'[c]) => ~Has(y, "SLEEPING")' /\ y \notin Range(c_pending'[c])
          /\ y \in c_sleeping'[c] => Has(y, "SLEEPING")' /\ y \notin Range(c_pending'[c])
      BY <2>8, <3>0, <3>4 DEF SameSleep
    <3>6. InQueue(y, c)'
      BY <3>4 DEF InQueue
    <3>7. ASSUME NEW d \in Cpu, InQueue(y, d)' PROVE d = c
      BY <2>5, <2>7, <3>1, <3>7 DEF InQueue
    <3> QED BY <3>0, <3>2, <3>5, <3>6, <3>7, <1>KeptHere
  <2>14. ASSUME x \notin torn' PROVE Kept(x)'
    <3>1. InQueue(x, c)
      <4>1. x \in IF Has(x, "SLEEPING") THEN LoadedSleeping(c) ELSE Range(ring[c]) \cup Range(c_pending[c])
        BY <2>14, <2>x DEF UnscheduleOther
      <4>2. CASE Has(x, "SLEEPING")
        BY <4>1, <4>2 DEF LoadedSleeping, InQueue
      <4>3. CASE ~Has(x, "SLEEPING")
        BY <4>1, <4>3 DEF InQueue
      <4> QED BY <4>2, <4>3
    <3>2. Kept(x)
      BY <1>AllKept
    <3>3. /\ pc[x] \notin {"new", "gone"} /\ (\A d \in Cpu : InQueue(x, d) => d = c) /\ \A t \in Task : ~Holds(t, x)
      BY <3>1, <3>2, QueuedIn
    <3>4. Unqueued(x)'
      <4>1. ASSUME NEW d \in Cpu, d # c PROVE x \notin Range(ring'[d]) /\ x \notin c_sleeping'[d] /\ x \notin Range(c_pending'[d])
        BY <2>5, <2>7, <3>3, <4>1 DEF InQueue
      <4>2. x \notin Range(ring'[c]) /\ x \notin c_sleeping'[c] /\ x \notin Range(c_pending'[c])
        BY <2>4, <2>5, <2>7, <2>e
      <4> QED BY <4>1, <4>2 DEF Unqueued
    <3>5. pc'[x] \notin {"new", "gone"}
      BY <2>8, <3>3 DEF SameLife
    <3>6. \A t \in Task : Holds(t, x)' => t = q
      BY <2>10, <3>3
    <3> QED BY <2>10, <3>4, <3>5, <3>6, <1>KeptHeld
  <2>15. PICK M \in SUBSET Task : M = P \cup {x}
    BY <2>3
  <2>16. /\ \A y \in M \ torn' : Kept(y)'
         /\ \A y \in Task \ M : SameQueues(y) /\ SameHolds(y) /\ SameLife(y) /\ SameSleep(y)
    BY <2>8, <2>11, <2>12, <2>13, <2>14, <2>15
  <2> QED BY <2>8, <2>9, <2>16, <1>HomeMoved
(* Steps that leave the queues alone, and the one ring or chain they change. *)
<1>HomeStill.
  ASSUME HomeInv, torn = {}, SamePlace, UNCHANGED queues,
         \A x \in Task : SameHolds(x) /\ SameLife(x) /\ SameSleep(x)
  PROVE  HomeInv'
  <2> USE <1>HomeStill
  <2>1. UNCHANGED <<ring, c_sleeping, c_pending>>
    BY DEF queues
  <2>2. \A x \in Task : SameQueues(x)
    BY <2>1 DEF SameQueues
  <2>3. \A c \in Cpu : IsInjective(ring'[c]) /\ IsInjective(c_pending'[c])
    BY <2>1, <1>AllKept
  <2> QED BY <2>2, <2>3, <1>HomeSame
(* A ring changes: the tasks in it before and after stay where they are.   *)
<1>RingOnly.
  ASSUME TypeOK, NEW c \in Cpu, NEW w, ring' = [ring EXCEPT ![c] = w], UNCHANGED <<c_sleeping, c_pending>>
  PROVE  /\ ring'[c] = w /\ \A d \in Cpu : d # c => ring'[d] = ring[d]
         /\ \A x \in Task : (x \in Range(w) <=> x \in Range(ring[c])) => SameQueues(x)
  <2> USE <1>RingOnly
  <2>1. ring \in [Cpu -> Seq(Task)]
    BY DEF TypeOK
  <2>2. ring'[c] = w /\ \A d \in Cpu : d # c => ring'[d] = ring[d]
    BY <2>1
  <2>3. ASSUME NEW x \in Task, x \in Range(w) <=> x \in Range(ring[c]) PROVE SameQueues(x)
    BY <2>2, <2>3 DEF SameQueues
  <2> QED BY <2>2, <2>3
(* A chain changes: the tasks in it before and after stay where they are.  *)
<1>ChainOnly.
  ASSUME TypeOK, NEW c \in Cpu, NEW w, c_pending' = [c_pending EXCEPT ![c] = w], UNCHANGED <<ring, c_sleeping>>
  PROVE  /\ c_pending'[c] = w /\ \A d \in Cpu : d # c => c_pending'[d] = c_pending[d]
         /\ \A x \in Task : (x \in Range(w) <=> x \in Range(c_pending[c])) => SameQueues(x)
  <2> USE <1>ChainOnly
  <2>1. c_pending \in [Cpu -> Seq(Task)]
    BY DEF TypeOK
  <2>2. c_pending'[c] = w /\ \A d \in Cpu : d # c => c_pending'[d] = c_pending[d]
    BY <2>1
  <2>3. ASSUME NEW x \in Task, x \in Range(w) <=> x \in Range(c_pending[c]) PROVE SameQueues(x)
    BY <2>2, <2>3 DEF SameQueues
  <2> QED BY <2>2, <2>3
(* The tasks that own their threads are the same, and the threads too.     *)
<1>StillHolds.
  ASSUME \A u \in Task : (Owns(u)' <=> Owns(u)) /\ (Owns(u) => target'[u] = target[u])
  PROVE  \A x \in Task : SameHolds(x)
  BY <1>StillHolds DEF SameHolds, Holds
(* An IPI is handled.                                                      *)
<1>HomeHandle.
  ASSUME TypeOK, HomeInv, torn = {}, ~NoSmp, NEW c \in Cpu, NEW m \in Ipi, Around(m), x86_ipi_handle(c, m)
  PROVE  HomeInv'
  <2> USE <1>HomeHandle
  <2>1. SamePlace /\ \A x \in Task : SameLife(x)
    BY <1>AroundLife
  <2>2. m.thread \in Task
    BY DEF Ipi
  <2>3. CASE Refused(m)
    <3>1. UNCHANGED queues /\ UNCHANGED t_state
      BY <2>3 DEF Refused
    <3>2. PICK v \in Status : SetStatus(m, v) /\ (m.type = "UNSCHEDULE" => v # "OK")
      BY <2>3 DEF Refused
    <3>3. \A x \in Task : SameHolds(x)
      BY <3>2, <1>AroundHolds
    <3>4. \A x \in Task : SameSleep(x)
      BY <3>1 DEF SameSleep, Has
    <3> QED BY <2>1, <3>1, <3>3, <3>4, <1>HomeStill
  <2>4. CASE Unscheduled(c, m)
    <3>1. /\ m.type = "UNSCHEDULE" /\ t_cpu[m.thread] = c /\ m.thread # m.from
          /\ \/ m.thread = Running(c) /\ UnscheduleCurrent(c, m)
             \/ m.thread # Running(c) /\ UnscheduleOther(c, m)
      BY <2>4 DEF Unscheduled
    <3> QED BY <3>1, <1>HomeCurrent, <1>HomeOther
  <2>5. CASE Woken(c, m)
    <3>1. /\ m.type = "WAKETASK" /\ t_cpu[m.thread] = c /\ Has(m.thread, "SLEEPING")
          /\ x86_scheduler_localwake(c, m.thread) /\ SetStatus(m, "OK")
      BY <2>5 DEF Woken
    <3>2. "OK" \in Status /\ m.type # "UNSCHEDULE"
      BY <3>1 DEF Status
    <3>3. \A x \in Task : SameHolds(x)
      BY <3>1, <3>2, <1>AroundHolds
    <3> QED BY <2>1, <2>2, <3>1, <3>3, <1>HomeWake
  <2> QED BY <2>3, <2>4, <2>5, HandleCases
(* The SCHEDULE IPI is handled; its sender, when local, is through.        *)
<1>HomeSchedule.
  ASSUME TypeOK, HomeInv, torn = {}, NEW c \in Cpu, HandleSchedule(c), UNCHANGED <<t_cpu, op, target, dest>>,
         \A u \in Task : pc'[u] = pc[u] \/ (pc[u] = "sched" /\ pc'[u] = "run")
  PROVE  HomeInv'
  <2> USE <1>HomeSchedule
  <2>1. /\ \E r \in LoadedRing(c) : ring' = [ring EXCEPT ![c] = r]
        /\ c_sleeping' = [c_sleeping EXCEPT ![c] = LoadedSleeping(c)]
        /\ c_pending' = [c_pending EXCEPT ![c] = <<>>]
        /\ t_state' = Started(Range(c_pending[c])) /\ UNCHANGED status
    BY DEF HandleSchedule, x86_scheduler_loadpending
  <2>2. \A x \in Task : SameSleep(x)
    BY <2>1, StartedType DEF SameSleep
  <2>3. \A x \in Task : SameHolds(x)
    <3>1. \A u \in Task : (Owns(u)' <=> Owns(u)) /\ (Owns(u) => target'[u] = target[u])
      BY <2>1 DEF Owns
    <3> QED BY <3>1, <1>StillHolds
  <2>4. SamePlace /\ \A x \in Task : SameLife(x)
    BY DEF SamePlace, SameLife
  <2> QED BY <2>1, <2>2, <2>3, <2>4, <1>HomeLoad
(* An interrupt: the sender of an UNSCHEDULE waits for its answer.         *)
<1>HomeProcess.
  ASSUME TypeOK, ScopeInv, HomeInv, torn = {}, ~NoSmp, NEW c \in Cpu, x86_ipi_process(c)
  PROVE  HomeInv'
  <2> USE <1>HomeProcess
  <2>1. PICK s \in Valid(c) :
          /\ ipi[c][s] \in Ipi
          /\ (ipi[c][s].type = "SCHEDULE" /\ HandleSchedule(c)) \/ x86_ipi_handle(c, ipi[c][s])
    BY SlotProps DEF x86_ipi_process
  <2>2. PICK m \in Ipi : m = ipi[c][s]
    BY <2>1
  <2>3. (m.type = "SCHEDULE" /\ HandleSchedule(c)) \/ x86_ipi_handle(c, m)
    BY <2>1, <2>2
  <2>4. UNCHANGED <<t_cpu, pc, op, target, dest>>
    BY DEF x86_ipi_process, frame
  <2>5. ASSUME m.type = "UNSCHEDULE" PROVE pc[m.from] = "wait" /\ status[m.from] = "PENDING" /\ Awaits(m)
    <3>1. InScope(ipi[c][s])
      BY <2>2, <2>5 DEF InScope
    <3>2. pc[m.from] = "wait" /\ status[m.from] = "PENDING" /\ op[m.from] = m.type /\ target[m.from] = m.thread
      BY <2>2, <3>1 DEF ScopeInv
    <3> QED BY <3>2 DEF Awaits
  <2>6. Around(m)
    BY <2>4, <2>5 DEF Around
  <2> QED BY <2>3, <2>4, <2>6, <1>HomeSchedule, <1>HomeHandle
(* The SCHEDULE IPI is sent, or handled at once.                           *)
<1>HomeSendSchedule.
  ASSUME TypeOK, HomeInv, torn = {}, NEW c \in Cpu, NEW t \in Task, SendSchedule(c, t)
  PROVE  HomeInv'
  <2> USE <1>HomeSendSchedule
  <2>0. pc \in [Task -> PC] /\ dest \in [Task -> Cpu]
    BY DEF TypeOK, PC
  <2>m. PICK m \in Ipi : m = [type |-> "SCHEDULE", thread |-> t, from |-> t]
    <3>1. [type |-> "SCHEDULE", thread |-> t, from |-> t] \in Ipi
      BY DEF Ipi, IpiType
    <3> QED BY <3>1
  <2>1. /\ x86_ipi_send(c, dest[t], m) \/ HandleSchedule(c)
        /\ pc[t] = "sched" /\ GoTo(t, "run") /\ UNCHANGED <<t_cpu, op, target, dest>>
    BY <2>m DEF SendSchedule, At, frame
  <2>2. \A u \in Task : pc'[u] = pc[u] \/ (pc[u] = "sched" /\ pc'[u] = "run")
    BY <2>0, <2>1 DEF GoTo
  <2>3. CASE x86_ipi_send(c, dest[t], m)
    <3>1. UNCHANGED queues /\ UNCHANGED t_state /\ SetStatus(m, "PENDING") /\ "PENDING" \in Status
      BY <2>3 DEF x86_ipi_send, Status
    <3>2. m.from = t /\ ~Awaits(m)
      BY <2>1, <2>m DEF Awaits
    <3>3. \A u \in Task : status'[u] = status[u]
      BY <3>1, <3>2, StatusType
    <3>4. \A x \in Task : SameHolds(x)
      <4>1. \A u \in Task : (Owns(u)' <=> Owns(u)) /\ (Owns(u) => target'[u] = target[u])
        BY <2>1, <2>2, <3>3 DEF Owns
      <4> QED BY <4>1, <1>StillHolds
    <3>5. SamePlace /\ \A x \in Task : SameLife(x) /\ SameSleep(x)
      BY <2>1, <2>2, <3>1 DEF SamePlace, SameLife, SameSleep, Has
    <3> QED BY <3>1, <3>4, <3>5, <1>HomeStill
  <2>4. CASE HandleSchedule(c)
    BY <2>1, <2>2, <2>4, <1>HomeSchedule
  <2> QED BY <2>1, <2>3, <2>4
(* A WAKETASK or UNSCHEDULE is sent, or handled at once.                   *)
<1>HomeSendIpi.
  ASSUME TypeOK, HomeInv, torn = {}, ~NoSmp, NEW c \in Cpu, NEW t \in Task, SendIpi(c, t)
  PROVE  HomeInv'
  <2> USE <1>HomeSendIpi
  <2>0. pc \in [Task -> PC] /\ op \in [Task -> IpiType] /\ target \in [Task -> Task]
    BY DEF TypeOK, PC
  <2>m. PICK m \in Ipi : m = [type |-> op[t], thread |-> target[t], from |-> t]
    <3>1. [type |-> op[t], thread |-> target[t], from |-> t] \in Ipi
      BY <2>0 DEF Ipi
    <3> QED BY <3>1
  <2>1. /\ x86_ipi_send(c, t_cpu[target[t]], m) \/ x86_ipi_handle(c, m)
        /\ pc[t] = "send" /\ GoTo(t, "wait") /\ UNCHANGED <<t_cpu, op, target, dest>>
    BY <2>m DEF SendIpi, At, frame
  <2>2. pc'[t] = "wait" /\ \A u \in Task : u # t => pc'[u] = pc[u]
    BY <2>0, <2>1 DEF GoTo
  <2>3. m.from = t /\ Awaits(m)
    BY <2>1, <2>m DEF Awaits
  <2>4. Around(m)
    BY <2>1, <2>2, <2>3 DEF Around
  <2>5. CASE x86_ipi_send(c, t_cpu[target[t]], m)
    <3>1. UNCHANGED queues /\ UNCHANGED t_state /\ SetStatus(m, "PENDING") /\ "PENDING" \in Status /\ "PENDING" # "OK"
      BY <2>5 DEF x86_ipi_send, Status
    <3>2. \A x \in Task : SameHolds(x)
      BY <2>4, <3>1, <1>AroundHolds
    <3>3. \A x \in Task : SameSleep(x)
      BY <3>1 DEF SameSleep, Has
    <3> QED BY <2>4, <3>1, <3>2, <3>3, <1>AroundLife, <1>HomeStill
  <2> QED BY <2>1, <2>4, <2>5, <1>HomeHandle
(* task_wake(), task_setcpu(), the waits and returns of both, and the      *)
(* first steps of task_exit(): no task leaves its queue, none becomes an   *)
(* owner or ceases to be one.                                              *)
<1>HomeCall.
  ASSUME TypeOK, HomeInv, torn = {}, NEW c \in Cpu, NEW t \in Task,
         \/ task_wake(c, t) \/ task_setcpu(c, t) \/ AlreadyThere(c, t) \/ Answered(c, t)
         \/ WakeTimeout(c, t) \/ task_exit(c, t) \/ Terminated(c, t)
  PROVE  HomeInv'
  <2> USE <1>HomeCall
  <2>0. /\ pc \in [Task -> PC] /\ op \in [Task -> IpiType] /\ target \in [Task -> Task] /\ dest \in [Task -> Cpu]
        /\ status \in [Task -> Status]
    BY DEF TypeOK, PC
  <2>s. t_state \in [Task -> SUBSET StateFlag]
    BY DEF TypeOK
  <2>1. UNCHANGED queues /\ UNCHANGED t_cpu
    BY DEF task_wake, task_setcpu, AlreadyThere, Answered, WakeTimeout, task_exit, Terminated
  <2>2. \A x \in Task : SameSleep(x)
    <3>1. UNCHANGED t_state \/ \E f \in EndFlag : t_state' = [t_state EXCEPT ![t] = @ \cup {f}]
      BY DEF task_wake, task_setcpu, AlreadyThere, Answered, WakeTimeout, task_exit, Terminated, EndFlag
    <3> QED BY <2>s, <3>1, SMTT(60) DEF SameSleep, Has, EndFlag
  <2>3. \A u \in Task : u # t => /\ pc'[u] = pc[u] /\ op'[u] = op[u] /\ target'[u] = target[u] /\ dest'[u] = dest[u]
                                 /\ status'[u] = status[u]
    BY <2>0, SMTT(60) DEF task_wake, task_setcpu, AlreadyThere, Answered, WakeTimeout, task_exit, Terminated, GoTo, frame
  <2>4. /\ pc[t] \notin {"new", "gone", "place"} /\ pc'[t] \notin {"new", "gone", "place"}
        /\ (Owns(t)' <=> Owns(t)) /\ (Owns(t) => target'[t] = target[t])
    <3>1. CASE task_wake(c, t) \/ task_setcpu(c, t) \/ AlreadyThere(c, t) \/ task_exit(c, t) \/ Terminated(c, t)
      <4>1. pc[t] \in {"run", "send", "exit"}
        BY <3>1 DEF task_wake, task_setcpu, AlreadyThere, task_exit, Terminated, At
      <4>2. \E l \in {"run", "send", "exit", "final"} : GoTo(t, l)
        BY <3>1 DEF task_wake, task_setcpu, AlreadyThere, task_exit, Terminated
      <4>3. pc'[t] \in {"run", "send", "exit", "final"}
        BY <2>0, <4>2 DEF GoTo
      <4> QED BY <4>1, <4>3 DEF Owns
    <3>2. CASE WakeTimeout(c, t)
      <4>1. pc[t] = "wait" /\ op[t] = "WAKETASK" /\ pc'[t] = "send"
        BY <2>0, <3>2 DEF WakeTimeout, GoTo, At
      <4> QED BY <4>1 DEF Owns
    <3>3. CASE Answered(c, t)
      <4>1. /\ pc[t] = "wait" /\ UNCHANGED <<op, target, status>>
            /\ pc'[t] = IF status[t] = "RETRY" THEN "send" ELSE IF op[t] = "UNSCHEDULE" /\ status[t] = "OK" THEN "own" ELSE "run"
        BY <2>0, <3>3 DEF Answered, GoTo, At, frame
      <4> QED BY <4>1 DEF Owns
    <3> QED BY <3>1, <3>2, <3>3
  <2>5. \A x \in Task : SameHolds(x)
    <3>1. ASSUME NEW u \in Task PROVE (Owns(u)' <=> Owns(u)) /\ (Owns(u) => target'[u] = target[u])
      BY <2>3, <2>4 DEF Owns
    <3> QED BY <3>1, <1>StillHolds
  <2>6. SamePlace /\ \A x \in Task : SameLife(x)
    BY <2>1, <2>3, <2>4 DEF SamePlace, SameLife
  <2> QED BY <2>1, <2>2, <2>5, <2>6, <1>HomeStill
(* The ring is rotated.                                                    *)
<1>HomeRotate.
  ASSUME TypeOK, HomeInv, torn = {}, NEW c \in Cpu, ring' = [ring EXCEPT ![c] = Rotate(@)],
         UNCHANGED <<c_sleeping, c_pending, t_cpu, pc, op, target, dest, status>>,
         \A x \in Task : SameSleep(x)
  PROVE  HomeInv'
  <2> USE <1>HomeRotate
  <2>1. ring[c] \in Seq(Task) /\ ring[c] # <<>> /\ IsInjective(ring[c])
    BY <1>AllKept DEF TypeOK
  <2>2. PICK w \in Seq(Task) : w = Rotate(ring[c]) /\ Range(w) = Range(ring[c]) /\ IsInjective(w)
    BY <2>1, RotateSet
  <2>3. ring' = [ring EXCEPT ![c] = w]
    BY <2>2
  <2>4. /\ ring'[c] = w /\ \A d \in Cpu : d # c => ring'[d] = ring[d]
        /\ \A x \in Task : SameQueues(x)
    BY <2>2, <2>3, <1>RingOnly
  <2>5. \A d \in Cpu : IsInjective(ring'[d]) /\ IsInjective(c_pending'[d])
    BY <2>2, <2>4, <1>AllKept
  <2>6. SamePlace /\ \A x \in Task : SameLife(x) /\ SameHolds(x)
    BY DEF SamePlace, SameLife, SameHolds, Holds, Owns
  <2> QED BY <2>4, <2>5, <2>6, <1>HomeSame
(* An idle loop loads the chain.                                           *)
<1>HomeIdle.
  ASSUME TypeOK, HomeInv, torn = {}, NEW c \in Cpu, x86_cpu_idle(c)
  PROVE  HomeInv'
  <2> USE <1>HomeIdle
  <2>1. /\ \E r \in LoadedRing(c) : ring' = [ring EXCEPT ![c] = r]
        /\ c_sleeping' = [c_sleeping EXCEPT ![c] = LoadedSleeping(c)]
        /\ c_pending' = [c_pending EXCEPT ![c] = <<>>]
        /\ UNCHANGED <<t_state, t_cpu, pc, op, target, dest, status>>
    BY DEF x86_cpu_idle, x86_scheduler_loadpending_chain, frame
  <2>2. SamePlace /\ \A x \in Task : SameHolds(x) /\ SameLife(x) /\ SameSleep(x)
    BY <2>1 DEF SamePlace, SameHolds, Holds, Owns, SameLife, SameSleep, Has
  <2> QED BY <2>1, <2>2, <1>HomeLoad
(* The timer: sleepers whose time is up go on the ring.                    *)
<1>HomeExpire.
  ASSUME TypeOK, HomeInv, torn = {}, NEW c \in Cpu, X86_IRQ_PIT(c)
  PROVE  HomeInv'
  <2> USE <1>HomeExpire
  <2>0. /\ ring \in [Cpu -> Seq(Task)] /\ c_sleeping \in [Cpu -> SUBSET Task]
        /\ ring[c] \in Seq(Task) /\ ring[c] # <<>> /\ IsInjective(ring[c])
    <3>1. ring \in [Cpu -> Seq(Task)] /\ c_sleeping \in [Cpu -> SUBSET Task] /\ \A d \in Cpu : ring[d] # <<>>
      BY DEF TypeOK
    <3> QED BY <3>1, <1>AllKept
  <2>s. t_state \in [Task -> SUBSET StateFlag]
    BY DEF TypeOK
  <2>1. PICK xs \in (SUBSET c_sleeping[c]) \ {{}} : \E w \in Orderings(xs) :
          /\ ring' = [ring EXCEPT ![c] = Rotate(<<Head(ring[c])>> \o w \o Tail(ring[c]))]
          /\ c_sleeping' = [c_sleeping EXCEPT ![c] = c_sleeping[c] \ xs]
          /\ t_state' = [x \in Task |-> IF x \in xs THEN (t_state[x] \ {"SLEEPING"}) \cup {"TIMEDOUT"} ELSE t_state[x]]
          /\ UNCHANGED <<c_pending, t_cpu, pc, op, target, dest, status>>
    BY DEF X86_IRQ_PIT, frame
  <2>2. PICK w \in Orderings(xs) :
          /\ ring' = [ring EXCEPT ![c] = Rotate(<<Head(ring[c])>> \o w \o Tail(ring[c]))]
          /\ c_sleeping' = [c_sleeping EXCEPT ![c] = c_sleeping[c] \ xs]
          /\ t_state' = [x \in Task |-> IF x \in xs THEN (t_state[x] \ {"SLEEPING"}) \cup {"TIMEDOUT"} ELSE t_state[x]]
          /\ UNCHANGED <<c_pending, t_cpu, pc, op, target, dest, status>>
    BY <2>1
  <2>3. xs \in SUBSET Task /\ xs \in SUBSET c_sleeping[c]
    BY <2>0
  <2>4. Range(ring[c]) \cap xs = {}
    BY <2>3, <1>AllKept DEF Kept
  <2>5. PICK r \in Seq(Task) : r = Rotate(<<Head(ring[c])>> \o w \o Tail(ring[c])) /\ Range(r) = Range(ring[c]) \cup xs /\ IsInjective(r)
    BY <2>0, <2>3, <2>4, ExpiredSet
  <2>6. /\ ring'[c] = r /\ c_sleeping'[c] = c_sleeping[c] \ xs
        /\ \A d \in Cpu : d # c => ring'[d] = ring[d] /\ c_sleeping'[d] = c_sleeping[d]
    BY <2>0, <2>2, <2>5
  <2>7. /\ \A x \in xs : ~Has(x, "SLEEPING")'
        /\ \A x \in Task \ xs : SameSleep(x)
    BY <2>s, <2>2, <2>3 DEF SameSleep, Has
  <2>8. SamePlace /\ \A x \in Task : SameHolds(x) /\ SameLife(x)
    BY <2>2 DEF SamePlace, SameHolds, Holds, Owns, SameLife
  <2>9. \A x \in Task \ xs : SameQueues(x)
    BY <2>2, <2>5, <2>6 DEF SameQueues
  <2>10. \A d \in Cpu : IsInjective(ring'[d]) /\ IsInjective(c_pending'[d])
    BY <2>2, <2>5, <2>6, <1>AllKept
  <2>11. ASSUME NEW x \in xs PROVE Kept(x)'
    <3>1. x \in Task /\ Kept(x) /\ InQueue(x, c) /\ x \in c_sleeping[c] /\ x \notin Range(c_pending[c])
      BY <2>3, <1>AllKept DEF InQueue, Kept
    <3>2. /\ t_cpu[x] = c /\ pc[x] \notin {"new", "gone"} /\ (\A d \in Cpu : InQueue(x, d) => d = c)
          /\ \A t \in Task : ~Holds(t, x)
      BY <3>1, QueuedIn
    <3>3. t_cpu'[x] = c /\ pc'[x] \notin {"new", "gone"} /\ \A t \in Task : ~Holds(t, x)'
      BY <2>8, <3>1, <3>2 DEF SameHolds, SameLife
    <3>4. x \in Range(ring'[c]) /\ x \notin c_sleeping'[c] /\ x \notin Range(c_pending'[c])
      BY <2>2, <2>5, <2>6, <3>1
    <3>5. InQueue(x, c)'
      BY <3>4 DEF InQueue
    <3>6. ASSUME NEW d \in Cpu, InQueue(x, d)' PROVE d = c
      BY <2>2, <2>6, <3>2, <3>6 DEF InQueue
    <3> QED BY <2>7, <3>1, <3>3, <3>4, <3>5, <3>6, <1>KeptHere
  <2> QED BY <2>3, <2>7, <2>8, <2>9, <2>10, <2>11, <1>HomeMoved
(* task_sleep(): from the ring to the list.                                *)
<1>HomeSleep.
  ASSUME TypeOK, HomeInv, torn = {}, NEW c \in Cpu, NEW t \in Task, task_sleep(c, t)
  PROVE  HomeInv'
  <2> USE <1>HomeSleep
  <2>0. /\ ring \in [Cpu -> Seq(Task)] /\ c_sleeping \in [Cpu -> SUBSET Task]
        /\ ring[c] \in Seq(Task) /\ ring[c] # <<>> /\ IsInjective(ring[c])
    <3>1. ring \in [Cpu -> Seq(Task)] /\ c_sleeping \in [Cpu -> SUBSET Task] /\ \A d \in Cpu : ring[d] # <<>>
      BY DEF TypeOK
    <3> QED BY <3>1, <1>AllKept
  <2>s. t_state \in [Task -> SUBSET StateFlag]
    BY DEF TypeOK
  <2>1. /\ t = Head(ring[c]) /\ pc[t] = "run"
        /\ ring' = [ring EXCEPT ![c] = Tail(ring[c])] /\ c_sleeping' = [c_sleeping EXCEPT ![c] = c_sleeping[c] \cup {t}]
        /\ t_state' = [t_state EXCEPT ![t] = (t_state[t] \ {"TIMEDOUT"}) \cup {"SLEEPING"}]
        /\ UNCHANGED <<c_pending, t_cpu, pc, op, target, dest, status>>
    BY DEF task_sleep, At, Running, frame
  <2>2. PICK u \in Seq(Task) : u = Tail(ring[c]) /\ Range(ring[c]) = Range(u) \cup {t} /\ IsInjective(u) /\ t \notin Range(u)
    BY <2>0, <2>1, TailSet
  <2>3. /\ ring'[c] = u /\ c_sleeping'[c] = c_sleeping[c] \cup {t}
        /\ \A d \in Cpu : d # c => ring'[d] = ring[d] /\ c_sleeping'[d] = c_sleeping[d]
    BY <2>0, <2>1, <2>2
  <2>4. Has(t, "SLEEPING")' /\ \A x \in Task \ {t} : SameSleep(x)
    BY <2>s, <2>1 DEF SameSleep, Has
  <2>5. SamePlace /\ \A x \in Task : SameHolds(x) /\ SameLife(x)
    BY <2>1 DEF SamePlace, SameHolds, Holds, Owns, SameLife
  <2>6. \A x \in Task \ {t} : SameQueues(x)
    BY <2>1, <2>2, <2>3 DEF SameQueues
  <2>7. \A d \in Cpu : IsInjective(ring'[d]) /\ IsInjective(c_pending'[d])
    BY <2>1, <2>2, <2>3, <1>AllKept
  <2>8. Kept(t)'
    <3>1. Kept(t) /\ InQueue(t, c) /\ t \in Range(ring[c]) /\ t \notin Range(c_pending[c])
      BY <2>2, <1>AllKept DEF InQueue, Kept
    <3>2. /\ t_cpu[t] = c /\ pc[t] \notin {"new", "gone"} /\ (\A d \in Cpu : InQueue(t, d) => d = c)
          /\ \A q \in Task : ~Holds(q, t)
      BY <3>1, QueuedIn
    <3>3. t_cpu'[t] = c /\ pc'[t] \notin {"new", "gone"} /\ \A q \in Task : ~Holds(q, t)'
      BY <2>5, <3>2 DEF SameHolds, SameLife
    <3>4. t \notin Range(ring'[c]) /\ t \in c_sleeping'[c] /\ t \notin Range(c_pending'[c])
      BY <2>1, <2>2, <2>3, <3>1
    <3>5. InQueue(t, c)'
      BY <3>4 DEF InQueue
    <3>6. ASSUME NEW d \in Cpu, InQueue(t, d)' PROVE d = c
      BY <2>1, <2>3, <3>2, <3>6 DEF InQueue
    <3> QED BY <2>4, <3>3, <3>4, <3>5, <3>6, <1>KeptHere
  <2>9. PICK M \in SUBSET Task : M = {t}
    OBVIOUS
  <2>10. /\ \A x \in M \ torn' : Kept(x)'
         /\ \A x \in Task \ M : SameQueues(x) /\ SameHolds(x) /\ SameLife(x) /\ SameSleep(x)
    BY <2>4, <2>5, <2>6, <2>8, <2>9
  <2> QED BY <2>5, <2>7, <2>10, <1>HomeMoved
(* A thread is put on the chain of its CPU, which nobody holds any more.   *)
<1>HomeChained.
  ASSUME TypeOK, HomeInv, torn = {}, SamePlace, NEW d \in Cpu, NEW x \in Task, Unqueued(x), t_cpu'[x] = d,
         c_pending' = [c_pending EXCEPT ![d] = <<x>> \o @], UNCHANGED <<ring, c_sleeping>>,
         pc'[x] \notin {"new", "gone"}, \A t \in Task : ~Holds(t, x)',
         \A y \in Task : y # x => SameHolds(y) /\ SameLife(y) /\ SameSleep(y)
  PROVE  HomeInv'
  <2> USE <1>HomeChained
  <2>1. /\ c_pending[d] \in Seq(Task) /\ IsInjective(c_pending[d]) /\ x \notin Range(c_pending[d])
    BY <1>AllKept DEF TypeOK, Unqueued
  <2>2. PICK w \in Seq(Task) : w = <<x>> \o c_pending[d] /\ Range(w) = Range(c_pending[d]) \cup {x} /\ IsInjective(w)
    BY <2>1, ConsSet
  <2>3. c_pending' = [c_pending EXCEPT ![d] = w]
    BY <2>2
  <2>4. /\ c_pending'[d] = w /\ \A e \in Cpu : e # d => c_pending'[e] = c_pending[e]
        /\ \A y \in Task : (y \in Range(w) <=> y \in Range(c_pending[d])) => SameQueues(y)
    BY <2>3, <1>ChainOnly
  <2>5. \A y \in Task : y # x => SameQueues(y)
    BY <2>2, <2>4
  <2>6. \A e \in Cpu : IsInjective(ring'[e]) /\ IsInjective(c_pending'[e])
    BY <2>2, <2>4, <1>AllKept
  <2>7. Kept(x)'
    <3>1. x \in Range(c_pending'[d]) /\ x \notin Range(ring'[d]) /\ x \notin c_sleeping'[d]
      BY <2>2, <2>4 DEF Unqueued
    <3>2. InQueue(x, d)'
      BY <3>1 DEF InQueue
    <3>3. ASSUME NEW e \in Cpu, InQueue(x, e)' PROVE e = d
      BY <2>4, <3>3 DEF InQueue, Unqueued
    <3> QED BY <3>1, <3>2, <3>3, <1>KeptHere
  <2>8. PICK M \in SUBSET Task : M = {x}
    OBVIOUS
  <2>9. /\ \A y \in M \ torn' : Kept(y)'
        /\ \A y \in Task \ M : SameQueues(y) /\ SameHolds(y) /\ SameLife(y) /\ SameSleep(y)
    BY <2>5, <2>7, <2>8
  <2> QED BY <2>6, <2>9, <1>HomeMoved
(* task_start()                                                            *)
<1>HomeStart.
  ASSUME TypeOK, HomeInv, torn = {}, NEW c \in Cpu, NEW t \in Task, task_start(c, t)
  PROVE  HomeInv'
  <2> USE <1>HomeStart
  <2>0. /\ pc \in [Task -> PC] /\ dest \in [Task -> Cpu] /\ t_cpu \in [Task -> Cpu] /\ New \in SUBSET Task
    BY SchedAssumption DEF TypeOK, PC
  <2>1. PICK x \in Task :
          /\ pc[x] = "new" /\ pc[t] = "run" /\ c_pending' = [c_pending EXCEPT ![t_cpu[x]] = <<x>> \o @]
          /\ dest' = [dest EXCEPT ![t] = t_cpu[x]] /\ pc' = [pc EXCEPT ![x] = "run", ![t] = "sched"]
    BY <2>0 DEF task_start, At
  <2>2. UNCHANGED <<ring, c_sleeping, t_cpu, t_state, op, target, status>>
    BY DEF task_start
  <2>3. PICK d \in Cpu : d = t_cpu[x]
    BY <2>0
  <2>p. pc[x] = "new" /\ pc[t] = "run" /\ c_pending' = [c_pending EXCEPT ![t_cpu[x]] = <<x>> \o @]
    BY <2>1
  <2>4. /\ x # t /\ pc'[x] = "run" /\ pc'[t] = "sched"
        /\ \A u \in Task : u # x /\ u # t => pc'[u] = pc[u] /\ dest'[u] = dest[u]
    BY <2>0, <2>1
  <2>5. Kept(x) /\ Unqueued(x) /\ \A u \in Task : ~Holds(u, x)
    BY <2>1, <1>AllKept DEF Kept
  <2>6. \A y \in Task : SameHolds(y)
    <3>1. ASSUME NEW u \in Task PROVE (Owns(u)' <=> Owns(u)) /\ (Owns(u) => target'[u] = target[u])
      BY <2>p, <2>2, <2>4 DEF Owns
    <3> QED BY <3>1, <1>StillHolds
  <2>7. SamePlace /\ \A y \in Task : y # x => SameLife(y) /\ SameSleep(y)
    BY <2>p, <2>2, <2>4 DEF SamePlace, SameLife, SameSleep, Has
  <2>8. \A u \in Task : ~Holds(u, x)'
    BY <2>5, <2>6 DEF SameHolds
  <2>9. c_pending' = [c_pending EXCEPT ![d] = <<x>> \o @] /\ t_cpu'[x] = d /\ pc'[x] \notin {"new", "gone"}
    BY <2>p, <2>2, <2>3, <2>4
  <2> QED BY <2>2, <2>5, <2>6, <2>7, <2>8, <2>9, <1>HomeChained
(* The chain of the CPU it moves to.                                       *)
<1>HomePush.
  ASSUME TypeOK, HomeInv, torn = {}, NEW c \in Cpu, NEW t \in Task, PushPending(c, t)
  PROVE  HomeInv'
  <2> USE <1>HomePush
  <2>0. /\ pc \in [Task -> PC] /\ dest \in [Task -> Cpu] /\ target \in [Task -> Task]
    BY DEF TypeOK, PC
  <2>1. /\ pc[t] = "place" /\ c_pending' = [c_pending EXCEPT ![dest[t]] = <<target[t]>> \o @] /\ GoTo(t, "sched")
        /\ UNCHANGED <<ring, c_sleeping, t_cpu, t_state, op, target, dest, status>>
    BY DEF PushPending, At, frame
  <2>2. PICK d \in Cpu : d = dest[t]
    BY <2>0
  <2>3. PICK x \in Task : x = target[t]
    BY <2>0
  <2>4. t_cpu[x] = d
    BY <2>1, <2>2, <2>3, <1>AllKept
  <2>5. pc'[t] = "sched" /\ \A u \in Task : u # t => pc'[u] = pc[u]
    BY <2>0, <2>1 DEF GoTo
  <2>6. Holds(t, x) /\ Kept(x)
    BY <2>1, <2>3, <1>AllKept DEF Holds, Owns
  <2>7. Unqueued(x) /\ pc[x] \notin {"new", "gone"} /\ \A u \in Task : Holds(u, x) => u = t
    BY <2>6 DEF Kept
  <2>8. \A u \in Task, y \in Task : Holds(u, y)' <=> Holds(u, y) /\ u # t
    BY <2>1, <2>5 DEF Holds, Owns
  <2>9. \A u \in Task : ~Holds(u, x)'
    BY <2>7, <2>8
  <2>10. \A y \in Task : y # x => SameHolds(y)
    BY <2>3, <2>8 DEF SameHolds, Holds
  <2>11. SamePlace /\ \A y \in Task : SameLife(y) /\ SameSleep(y)
    BY <2>1, <2>5 DEF SamePlace, SameLife, SameSleep, Has
  <2>12. c_pending' = [c_pending EXCEPT ![d] = <<x>> \o @] /\ t_cpu'[x] = d /\ pc'[x] \notin {"new", "gone"}
    BY <2>1, <2>2, <2>3, <2>4, <2>5, <2>7
  <2> QED BY <2>1, <2>7, <2>9, <2>10, <2>11, <2>12, <1>HomeChained
(* The thread a task holds gets its new CPU: no other task holds it, and   *)
(* so none is about to place it elsewhere.                                 *)
<1>HomeSetTCpu.
  ASSUME TypeOK, HomeInv, torn = {}, NEW c \in Cpu, NEW t \in Task, SetTCpu(c, t)
  PROVE  HomeInv'
  <2> USE <1>HomeSetTCpu
  <2>0. /\ pc \in [Task -> PC] /\ dest \in [Task -> Cpu] /\ target \in [Task -> Task] /\ t_cpu \in [Task -> Cpu]
    BY DEF TypeOK, PC
  <2>1. /\ pc[t] = "own" /\ t_cpu' = [t_cpu EXCEPT ![target[t]] = dest[t]] /\ GoTo(t, "place")
        /\ UNCHANGED <<ring, c_sleeping, c_pending, t_state, op, target, dest, status, torn>>
    BY DEF SetTCpu, At, frame, queues
  <2>2. PICK x \in Task : x = target[t]
    BY <2>0
  <2>3. t_cpu'[x] = dest[t] /\ \A y \in Task : y # x => t_cpu'[y] = t_cpu[y]
    BY <2>0, <2>1, <2>2
  <2>4. pc'[t] = "place" /\ \A u \in Task : u # t => pc'[u] = pc[u]
    BY <2>0, <2>1 DEF GoTo
  <2>5. Holds(t, x) /\ Kept(x)
    BY <2>1, <2>2, <1>AllKept DEF Holds, Owns
  <2>6. Unqueued(x) /\ pc[x] \notin {"new", "gone"} /\ \A u \in Task : Holds(u, x) => u = t
    BY <2>5 DEF Kept
  <2>7. \A y \in Task : SameHolds(y)
    <3>1. ASSUME NEW u \in Task PROVE (Owns(u)' <=> Owns(u)) /\ (Owns(u) => target'[u] = target[u])
      BY <2>1, <2>4 DEF Owns
    <3> QED BY <3>1, <1>StillHolds
  <2>8. \A y \in Task : SameQueues(y) /\ SameSleep(y)
    BY <2>1 DEF SameQueues, SameSleep, Has
  <2>9. \A y \in Task : y # x => SameLife(y)
    BY <2>1, <2>3, <2>4 DEF SameLife
  <2>10. \A y \in Task : y # x => Kept(y)'
    BY <2>7, <2>8, <2>9, <1>AllKept, <1>KeptSame
  <2>11. Kept(x)'
    <3>1. Unqueued(x)' /\ pc'[x] \notin {"new", "gone"}
      BY <2>1, <2>4, <2>6 DEF Unqueued
    <3>2. Holds(t, x)' /\ \A u \in Task : Holds(u, x)' => u = t
      BY <2>5, <2>6, <2>7 DEF SameHolds
    <3> QED BY <3>1, <3>2, <1>KeptHeld
  <2>12. \A d \in Cpu : IsInjective(ring'[d]) /\ IsInjective(c_pending'[d])
    BY <2>1, <1>AllKept
  <2>13. ASSUME NEW u \in Task, pc'[u] = "place" PROVE t_cpu'[target'[u]] = dest'[u]
    <3>1. CASE u = t
      BY <2>1, <2>2, <2>3, <3>1
    <3>2. CASE u # t
      <4>1. pc[u] = "place" /\ t_cpu[target[u]] = dest[u]
        BY <2>4, <2>13, <3>2, <1>AllKept
      <4>2. target[u] # x
        BY <2>6, <3>2, <4>1 DEF Holds, Owns
      <4> QED BY <2>0, <2>1, <2>3, <4>1, <4>2
    <3> QED BY <3>1, <3>2
  <2> QED BY <2>10, <2>11, <2>12, <2>13 DEF HomeInv
(* A thread at its end is taken out of its ring, for good.                 *)
<1>HomeRemoved.
  ASSUME TypeOK, HomeInv, torn = {}, NEW c \in Cpu, NEW x \in Task, NEW w \in Seq(Task), pc[x] = "final",
         x \in Range(ring[c]), Range(w) = Range(ring[c]) \ {x}, IsInjective(w),
         ring' = [ring EXCEPT ![c] = w], pc' = [pc EXCEPT ![x] = "gone"],
         UNCHANGED <<c_sleeping, c_pending, t_cpu, op, target, dest, status>>,
         \A y \in Task : SameSleep(y)
  PROVE  HomeInv'
  <2> USE <1>HomeRemoved
  <2>0. pc \in [Task -> PC]
    BY DEF TypeOK, PC
  <2>1. pc'[x] = "gone" /\ \A u \in Task : u # x => pc'[u] = pc[u]
    BY <2>0
  <2>2. /\ ring'[c] = w /\ \A d \in Cpu : d # c => ring'[d] = ring[d]
        /\ \A y \in Task : (y \in Range(w) <=> y \in Range(ring[c])) => SameQueues(y)
    BY <1>RingOnly
  <2>3. \A y \in Task : y # x => SameQueues(y)
    BY <2>2
  <2>4. Kept(x) /\ InQueue(x, c) /\ x \notin Range(c_pending[c]) /\ x \notin c_sleeping[c]
    BY <1>AllKept DEF InQueue, Kept
  <2>5. (\A d \in Cpu : InQueue(x, d) => d = c) /\ \A u \in Task : ~Holds(u, x)
    BY <2>4, QueuedIn
  <2>6. \A y \in Task : SameHolds(y)
    <3>1. ASSUME NEW u \in Task PROVE (Owns(u)' <=> Owns(u)) /\ (Owns(u) => target'[u] = target[u])
      BY <2>1 DEF Owns
    <3> QED BY <3>1, <1>StillHolds
  <2>7. SamePlace /\ \A y \in Task : y # x => SameLife(y)
    BY <2>1 DEF SamePlace, SameLife
  <2>8. Kept(x)'
    <3>1. ASSUME NEW d \in Cpu PROVE x \notin Range(ring'[d]) /\ x \notin c_sleeping'[d] /\ x \notin Range(c_pending'[d])
      BY <2>2, <2>4, <2>5 DEF InQueue
    <3>2. Unqueued(x)'
      BY <3>1 DEF Unqueued
    <3>3. \A u \in Task : ~Holds(u, x)'
      BY <2>5, <2>6 DEF SameHolds
    <3> QED BY <2>1, <3>2, <3>3, <1>KeptNowhere
  <2>9. \A d \in Cpu : IsInjective(ring'[d]) /\ IsInjective(c_pending'[d])
    BY <2>2, <1>AllKept
  <2>10. PICK M \in SUBSET Task : M = {x}
    OBVIOUS
  <2>11. /\ \A y \in M \ torn' : Kept(y)'
         /\ \A y \in Task \ M : SameQueues(y) /\ SameHolds(y) /\ SameLife(y) /\ SameSleep(y)
    BY <2>3, <2>6, <2>7, <2>8, <2>10
  <2> QED BY <2>7, <2>9, <2>11, <1>HomeMoved
(* The end of task_exit().                                                 *)
<1>HomeEnd.
  ASSUME TypeOK, EndInv, HomeInv, torn = {}, NEW c \in Cpu, NEW t \in Task,
         FinalDecref(c, t) \/ HelpTermination(c, t) \/ AskTermination(c, t)
  PROVE  HomeInv'
  <2> USE <1>HomeEnd
  <2>0. ring[c] \in Seq(Task) /\ ring[c] # <<>> /\ IsInjective(ring[c])
    <3>1. ring \in [Cpu -> Seq(Task)] /\ \A d \in Cpu : ring[d] # <<>>
      BY DEF TypeOK
    <3> QED BY <3>1, <1>AllKept
  <2>s. t_state \in [Task -> SUBSET StateFlag]
    BY DEF TypeOK
  <2>1. CASE FinalDecref(c, t)
    <3>1. /\ t = Head(ring[c]) /\ pc[t] = "final" /\ ring' = [ring EXCEPT ![c] = Tail(ring[c])]
          /\ pc' = [pc EXCEPT ![t] = "gone"]
          /\ UNCHANGED <<c_sleeping, c_pending, t_cpu, t_state, op, target, dest, status>>
      BY <2>1 DEF FinalDecref, At, Running, GoTo, frame
    <3>2. /\ Tail(ring[c]) \in Seq(Task) /\ IsInjective(Tail(ring[c])) /\ t \in Range(ring[c])
          /\ Range(ring[c]) = Range(Tail(ring[c])) \cup {t} /\ t \notin Range(Tail(ring[c]))
      BY <2>0, <3>1, TailSet
    <3>3. PICK w \in Seq(Task) : w = Tail(ring[c])
      BY <3>2
    <3>4. Range(w) = Range(ring[c]) \ {t} /\ IsInjective(w) /\ ring' = [ring EXCEPT ![c] = w]
      BY <3>1, <3>2, <3>3
    <3>5. \A y \in Task : SameSleep(y)
      BY <3>1 DEF SameSleep, Has
    <3> QED BY <3>1, <3>2, <3>4, <3>5, <1>HomeRemoved
  <2>2. CASE HelpTermination(c, t)
    <3>1. /\ t = Head(ring[c]) /\ Len(ring[c]) > 1 /\ Has(ring[c][2], "HELPMETERM")
          /\ t_state' = [t_state EXCEPT ![t] = t_state[t] \ {"HELPMETERM"}]
          /\ ring' = [ring EXCEPT ![c] = <<t>> \o Tail(Tail(ring[c]))] /\ pc' = [pc EXCEPT ![ring[c][2]] = "gone"]
          /\ UNCHANGED <<c_sleeping, c_pending, t_cpu, op, target, dest, status>>
      BY <2>2 DEF HelpTermination, At, Running, GoTo, frame
    <3>2. /\ <<t>> \o Tail(Tail(ring[c])) \in Seq(Task) /\ ring[c][2] \in Range(ring[c]) /\ ring[c][2] \in Task
          /\ IsInjective(<<t>> \o Tail(Tail(ring[c]))) /\ Range(<<t>> \o Tail(Tail(ring[c]))) = Range(ring[c]) \ {ring[c][2]}
      BY <2>0, <3>1, HelpSet
    <3>3. PICK w \in Seq(Task) : w = <<t>> \o Tail(Tail(ring[c]))
      BY <3>2
    <3>4. PICK y \in Task : y = ring[c][2]
      BY <3>2
    <3>5. /\ y \in Range(ring[c]) /\ Range(w) = Range(ring[c]) \ {y} /\ IsInjective(w)
          /\ ring' = [ring EXCEPT ![c] = w] /\ pc' = [pc EXCEPT ![y] = "gone"]
      BY <3>1, <3>2, <3>3, <3>4
    <3>6. pc[y] = "final"
      <4>1. pc[y] \in {"final", "gone"}
        BY <3>1, <3>4 DEF EndInv
      <4>2. Kept(y) /\ ~Unqueued(y)
        BY <3>5, <1>AllKept DEF Unqueued
      <4> QED BY <4>1, <4>2 DEF Kept
    <3>7. \A z \in Task : SameSleep(z)
      BY <2>s, <3>1 DEF SameSleep, Has
    <3> QED BY <3>1, <3>5, <3>6, <3>7, <1>HomeRemoved
  <2>3. CASE AskTermination(c, t)
    <3>1. /\ t_state' = [t_state EXCEPT ![t] = t_state[t] \cup {"HELPMETERM"}] /\ ring' = [ring EXCEPT ![c] = Rotate(@)]
          /\ UNCHANGED <<c_sleeping, c_pending, t_cpu, pc, op, target, dest, status>>
      BY <2>3 DEF AskTermination, frame
    <3>2. \A y \in Task : SameSleep(y)
      BY <2>s, <3>1 DEF SameSleep, Has
    <3> QED BY <3>1, <3>2, <1>HomeRotate
  <2> QED BY <2>1, <2>2, <2>3
<1> SUFFICES ASSUME TypeOK, CallInv, HomeInv, ~NoSmp, [Next]_vars
             PROVE  HomeInv'
  OBVIOUS
<1>i. EndInv /\ ScopeInv
  BY DEF CallInv
<1>1. CASE UNCHANGED vars
  <2>1. UNCHANGED <<ring, c_sleeping, c_pending, t_cpu, t_state, pc, op, target, dest, status, torn>>
    BY <1>1 DEF vars, queues, frame
  <2>2. \A x \in Task : SameQueues(x) /\ SameHolds(x) /\ SameLife(x) /\ SameSleep(x)
    BY <2>1 DEF SameQueues, SameHolds, Holds, Owns, SameLife, SameSleep, Has
  <2>3. \A x \in Task \ torn' : Kept(x)'
    BY <2>1, <2>2, <1>KeptSame DEF HomeInv
  <2> QED BY <2>1, <2>3 DEF HomeInv
<1>2. ASSUME torn = {}, NEW c \in Cpu, TaskStep(c, Running(c)) PROVE HomeInv'
  <2>1. PICK t \in Task : t = Running(c)
    <3>1. ring[c] \in Seq(Task) /\ ring[c] # <<>>
      BY DEF TypeOK
    <3> QED BY <3>1, TailSet DEF Running
  <2>2. TaskStep(c, t)
    BY <1>2, <2>1
  <2>3. CASE task_sleep(c, t) \/ task_start(c, t) \/ SendSchedule(c, t) \/ SendIpi(c, t)
    BY <1>2, <2>3, <1>HomeSleep, <1>HomeStart, <1>HomeSendSchedule, <1>HomeSendIpi
  <2>4. CASE SetTCpu(c, t) \/ PushPending(c, t)
    BY <1>2, <2>4, <1>HomeSetTCpu, <1>HomePush
  <2>5. CASE FinalDecref(c, t) \/ HelpTermination(c, t) \/ AskTermination(c, t)
    BY <1>2, <1>i, <2>5, <1>HomeEnd
  <2>6. CASE \/ task_wake(c, t) \/ task_setcpu(c, t) \/ AlreadyThere(c, t) \/ Answered(c, t)
             \/ WakeTimeout(c, t) \/ task_exit(c, t) \/ Terminated(c, t)
    BY <1>2, <2>6, <1>HomeCall
  <2> QED BY <2>2, <2>3, <2>4, <2>5, <2>6 DEF TaskStep
<1>3. ASSUME torn = {}, NEW c \in Cpu, task_yield(c) PROVE HomeInv'
  <2>1. /\ ring' = [ring EXCEPT ![c] = Rotate(@)]
        /\ UNCHANGED <<c_sleeping, c_pending, t_cpu, t_state, pc, op, target, dest, status>>
    BY <1>3 DEF task_yield, frame
  <2>2. \A x \in Task : SameSleep(x)
    BY <2>1 DEF SameSleep, Has
  <2> QED BY <1>3, <2>1, <2>2, <1>HomeRotate
<1>4. ASSUME torn = {}, NEW c \in Cpu, x86_ipi_process(c) \/ X86_IRQ_PIT(c) \/ x86_cpu_idle(c) PROVE HomeInv'
  BY <1>4, <1>i, <1>HomeProcess, <1>HomeExpire, <1>HomeIdle
<1> QED BY <1>1, <1>2, <1>3, <1>4 DEF Next

-----------------------------------------------------------------------------
(* The inductive invariant of the scheduler, in the initial states: every  *)
(* started task is in the ring of its CPU.                                 *)
LEMMA InitSched ==
  ASSUME Init
  PROVE  TypeOK /\ CallInv /\ HomeInv
<1>0. /\ BootCpu \in Cpu /\ Home \in [Task -> Cpu] /\ New \in SUBSET Task
      /\ \A c \in Cpu : \E t \in Task \ New : Home[t] = c
  BY SchedAssumption
<1>n. MaxCalls \in [Task -> Nat] /\ Slots \in Nat
  BY SchedAssumption
<1>1. ASSUME NEW c \in Cpu
      PROVE  ring[c] \in Seq(Task) /\ Range(ring[c]) = StartsOn(c) /\ IsInjective(ring[c]) /\ ring[c] # <<>>
  <2>1. ring[c] \in Orderings(StartsOn(c))
    BY DEF Init
  <2>2. StartsOn(c) \in SUBSET Task /\ StartsOn(c) # {}
    BY <1>0 DEF StartsOn
  <2>4. ring[c] \in Seq(StartsOn(c)) /\ Range(ring[c]) = StartsOn(c) /\ IsInjective(ring[c])
    BY <2>1, PermSet
  <2>5. ring[c] \in Seq(Task)
    BY <2>2, <2>4, SMTT(60)
  <2>6. Range(<<>>) = {}
    BY SMTT(60) DEF Range
  <2> QED BY <2>2, <2>4, <2>5, <2>6
<1>2. ring \in [Cpu -> Seq(Task)]
  <2>1. ring \in [Cpu -> UNION {Orderings(StartsOn(c)) : c \in Cpu}]
    BY DEF Init
  <2> QED BY <1>1, <2>1
<1>3. /\ t_cpu = Home /\ c_sleeping = [c \in Cpu |-> {}] /\ c_pending = [c \in Cpu |-> <<>>]
      /\ t_state = [t \in Task |-> IF t \in New THEN {} ELSE {"STARTED"}]
      /\ ipi = [c \in Cpu |-> [s \in 1 .. Slots |-> Free]] /\ torn = {}
      /\ pc = [t \in Task |-> IF t \in New THEN "new" ELSE "run"]
  BY DEF Init
<1>4. /\ op = [t \in Task |-> "WAKETASK"] /\ target = [t \in Task |-> t] /\ dest = Home
      /\ status = [t \in Task |-> "PENDING"] /\ calls = [t \in Task |-> 0] /\ awake = {} /\ resent = {} /\ unacked = {}
  BY DEF Init
<1>5. TypeOK
  <2>1. /\ c_sleeping \in [Cpu -> SUBSET Task] /\ c_pending \in [Cpu -> Seq(Task)] /\ t_cpu \in [Task -> Cpu]
        /\ t_state \in [Task -> SUBSET StateFlag]
    BY <1>0, <1>3, SMTT(60) DEF StateFlag
  <2>2. ipi \in [Cpu -> [1 .. Slots -> Ipi \cup {Free}]] /\ pc \in [Task -> PC]
    BY <1>3 DEF PC
  <2>3. /\ op \in [Task -> IpiType] /\ target \in [Task -> Task] /\ dest \in [Task -> Cpu] /\ status \in [Task -> Status]
        /\ calls \in [Task -> Nat]
    BY <1>0, <1>4 DEF IpiType, Status
  <2>4. \A t \in Task : calls[t] <= MaxCalls[t]
    BY <1>n, <1>4, SMTT(60)
  <2>5. unacked \subseteq Cpu /\ awake \subseteq Task /\ resent \subseteq Impatient /\ torn \subseteq Task
    BY <1>3, <1>4
  <2> QED BY <1>1, <1>2, <2>1, <2>2, <2>3, <2>4, <2>5 DEF TypeOK, PC
<1>6. \A t \in Task : pc[t] = IF t \in New THEN "new" ELSE "run"
  BY <1>3
<1>7. \A c \in Cpu : Valid(c) = {} /\ c_pending[c] = <<>> /\ c_sleeping[c] = {}
  BY <1>3 DEF Valid
<1>8. CallInv
  <2>1. EndInv
    BY <1>3, <1>6 DEF EndInv, Has
  <2>2. PendingAnnounced /\ ScopeInv
    BY <1>7 DEF PendingAnnounced, ScopeInv
  <2>3. TruthInv
    BY <1>6 DEF TruthInv, Truth
  <2> QED BY <2>1, <2>2, <2>3 DEF CallInv
<1>9. HomeInv
  <2>1. \A t \in Task, x \in Task : ~Holds(t, x)
    BY <1>6 DEF Holds, Owns
  <2>2. Range(<<>>) = {} /\ IsInjective(<<>>)
    BY SMTT(60) DEF Range, IsInjective
  <2>3. ASSUME NEW x \in Task PROVE Kept(x)
    <3>1. ASSUME NEW c \in Cpu
          PROVE  /\ x \notin c_sleeping[c] /\ x \notin Range(c_pending[c])
                 /\ x \in Range(ring[c]) <=> x \notin New /\ Home[x] = c
      BY <1>1, <1>7, <2>2 DEF StartsOn
    <3>2. x \in New <=> Unqueued(x)
      BY <1>0, <3>1 DEF Unqueued
    <3>3. ~Has(x, "SLEEPING") /\ t_cpu[x] = Home[x] /\ (pc[x] \in {"new", "gone"} <=> x \in New)
      BY <1>3, <1>6 DEF Has
    <3> QED BY <2>1, <3>1, <3>2, <3>3 DEF Kept
  <2>4. \A c \in Cpu : IsInjective(ring[c]) /\ IsInjective(c_pending[c])
    BY <1>1, <1>7, <2>2
  <2>5. \A t \in Task : pc[t] # "place"
    BY <1>6
  <2> QED BY <2>3, <2>4, <2>5 DEF HomeInv
<1> QED BY <1>5, <1>8, <1>9

(* The invariant of the calls and the IPIs is inductive.                   *)
LEMMA CallInvariant == Spec => [](TypeOK /\ CallInv)
<1>1. Init => TypeOK /\ CallInv
  BY InitSched
<1>2. TypeOK /\ CallInv /\ [Next]_vars => (TypeOK /\ CallInv)'
  BY TypeStep, CallStep
<1> QED BY <1>1, <1>2, PTL DEF Spec

(* task_start() and task_setcpu_impl(): a thread on the c_pending chain of *)
(* a CPU is never forgotten; the SCHEDULE IPI is in the buffer of the CPU, *)
(* or yet to be sent by the task that put the thread there.                *)
THEOREM ChainsAnnounced == Spec => [](TypeOK /\ PendingAnnounced)
<1>1. CallInv => PendingAnnounced
  BY DEF CallInv
<1> QED BY <1>1, CallInvariant, PTL

(* x86_ipi_handle(): the answer task_wake() waits for is the truth, also   *)
(* when the thread moved to another CPU meanwhile or timed out of its      *)
(* sleep by itself.                                                        *)
THEOREM WakesTruly == Spec => []WakeTruth
<1>1. CallInv => WakeTruth
  BY DEF CallInv, TruthInv, Truth, WakeTruth
<1> QED BY <1>1, CallInvariant, PTL

(* x86_ipi_send(): the status word that an IPI in the buffer of a CPU      *)
(* points to is on the stack of a caller that still waits for it, unless   *)
(* the caller is a waker that gave up on an IPI before.                    *)
THEOREM StatusWordsLive == Spec => []StatusInScope
<1>1. TypeOK /\ CallInv => StatusInScope
  <2> SUFFICES ASSUME TypeOK, CallInv, NEW c \in Cpu, NEW s \in Valid(c), ipi[c][s].type # "SCHEDULE",
                      ipi[c][s].from \notin resent
               PROVE  pc[ipi[c][s].from] = "wait" /\ Awaits(ipi[c][s])
    BY DEF StatusInScope
  <2>1. ipi[c][s] \in Ipi
    BY SlotProps
  <2>2. InScope(ipi[c][s])
    BY <2>1 DEF InScope, Ipi, IpiType
  <2>3. /\ pc[ipi[c][s].from] = "wait" /\ op[ipi[c][s].from] = ipi[c][s].type
        /\ target[ipi[c][s].from] = ipi[c][s].thread
    BY <2>2 DEF CallInv, ScopeInv
  <2> QED BY <2>3 DEF Awaits
<1> QED BY <1>1, CallInvariant, PTL

-----------------------------------------------------------------------------
INSTANCE FiniteSetTheorems

(* One place at most, and one exactly from start to end.                   *)
LEMMA HomesOne ==
  ASSUME NEW x \in Task, Kept(x)
  PROVE  Cardinality(Homes(x)) = IF pc[x] \in {"new", "gone"} THEN 0 ELSE 1
<1>1. ASSUME NEW h
      PROVE  h \in Homes(x) <=> \/ \E c \in Cpu : h = <<"run", c>> /\ x \in Range(ring[c])
                                \/ \E c \in Cpu : h = <<"sleep", c>> /\ x \in c_sleeping[c]
                                \/ \E c \in Cpu : h = <<"pending", c>> /\ x \in Range(c_pending[c])
                                \/ \E t \in Task : h = <<"mover", t>> /\ Holds(t, x)
  BY DEF Homes, Holds
<1>2. CASE pc[x] \in {"new", "gone"}
  <2>1. Unqueued(x) /\ \A t \in Task : ~Holds(t, x)
    BY <1>2 DEF Kept
  <2>2. Homes(x) = {}
    BY <1>1, <2>1 DEF Unqueued
  <2> QED BY <1>2, <2>2, FS_EmptySet
<1>3. ASSUME pc[x] \notin {"new", "gone"}, NEW c \in Cpu, InQueue(x, c) PROVE \E h : Homes(x) = {h}
  <2>1. (\A d \in Cpu : InQueue(x, d) => d = c) /\ \A t \in Task : ~Holds(t, x)
    BY <1>3, QueuedIn
  <2>2. /\ x \in Range(ring[c]) => ~Has(x, "SLEEPING") /\ x \notin Range(c_pending[c])
        /\ x \in c_sleeping[c] => Has(x, "SLEEPING") /\ x \notin Range(c_pending[c])
    BY DEF Kept
  <2>3. CASE x \in Range(ring[c])
    <3>1. Homes(x) = {<<"run", c>>}
      BY <1>1, <2>1, <2>2, <2>3 DEF InQueue
    <3> QED BY <3>1
  <2>4. CASE x \in c_sleeping[c]
    <3>1. Homes(x) = {<<"sleep", c>>}
      BY <1>1, <2>1, <2>2, <2>4 DEF InQueue
    <3> QED BY <3>1
  <2>5. CASE x \notin Range(ring[c]) /\ x \notin c_sleeping[c]
    <3>1. x \in Range(c_pending[c])
      BY <1>3, <2>5 DEF InQueue
    <3>2. Homes(x) = {<<"pending", c>>}
      BY <1>1, <2>1, <2>5, <3>1 DEF InQueue
    <3> QED BY <3>2
  <2> QED BY <2>3, <2>4, <2>5
<1>4. ASSUME pc[x] \notin {"new", "gone"}, Unqueued(x) PROVE \E h : Homes(x) = {h}
  <2>1. PICK t \in Task : Holds(t, x)
    BY <1>4 DEF Kept
  <2>2. \A u \in Task : Holds(u, x) => u = t
    BY <2>1 DEF Kept
  <2>3. Homes(x) = {<<"mover", t>>}
    BY <1>1, <1>4, <2>1, <2>2 DEF Unqueued
  <2> QED BY <2>3
<1>5. ASSUME pc[x] \notin {"new", "gone"} PROVE Cardinality(Homes(x)) = 1
  <2>1. \E h : Homes(x) = {h}
    BY <1>3, <1>4, <1>5 DEF Unqueued, InQueue
  <2>2. PICK h : Homes(x) = {h}
    BY <2>1
  <2> QED BY <2>2, FS_Singleton
<1> QED BY <1>2, <1>5

(* What HomeInv says of the places ScheduledOnce names.                    *)
LEMMA HomeOnce ==
  ASSUME HomeInv
  PROVE  ScheduledOnce
<1> SUFFICES ASSUME NEW x \in Task \ torn
             PROVE  /\ Cardinality(Homes(x)) = IF pc[x] \in {"new", "gone"} THEN 0 ELSE 1
                    /\ \A c \in Cpu :
                         /\ <<"run", c>> \in Homes(x) => ~Has(x, "SLEEPING")
                         /\ <<"sleep", c>> \in Homes(x) => Has(x, "SLEEPING")
                         /\ Homes(x) \cap ({"run", "sleep", "pending"} \X {c}) # {} => t_cpu[x] = c
                         /\ IsInjective(ring[c]) /\ IsInjective(c_pending[c])
  BY DEF ScheduledOnce
<1>1. x \in Task /\ Kept(x)
  BY DEF HomeInv
<1>2. ASSUME NEW c \in Cpu
      PROVE  /\ <<"run", c>> \in Homes(x) => x \in Range(ring[c])
             /\ <<"sleep", c>> \in Homes(x) => x \in c_sleeping[c]
             /\ <<"pending", c>> \in Homes(x) => x \in Range(c_pending[c])
  BY DEF Homes
<1>3. ASSUME NEW c \in Cpu, Homes(x) \cap ({"run", "sleep", "pending"} \X {c}) # {} PROVE t_cpu[x] = c
  <2>1. <<"run", c>> \in Homes(x) \/ <<"sleep", c>> \in Homes(x) \/ <<"pending", c>> \in Homes(x)
    BY <1>3, SMTT(60)
  <2>2. x \in Range(ring[c]) \/ x \in c_sleeping[c] \/ x \in Range(c_pending[c])
    BY <1>2, <2>1
  <2> QED BY <1>1, <2>2 DEF Kept
<1>4. \A c \in Cpu : /\ <<"run", c>> \in Homes(x) => ~Has(x, "SLEEPING")
                     /\ <<"sleep", c>> \in Homes(x) => Has(x, "SLEEPING")
  BY <1>1, <1>2 DEF Kept
<1>5. \A c \in Cpu : IsInjective(ring[c]) /\ IsInjective(c_pending[c])
  BY DEF HomeInv
<1> QED BY <1>1, <1>3, <1>4, <1>5, HomesOne

(* The queues of the scheduler: with SMP a started thread is always kept   *)
(* in exactly one place, once, and on the CPU its t_cpu names, however     *)
(* starting, sleeping, waking, timing out, moving and ending overlap.      *)
(* (CONFIG_NO_SMP is excepted: there task_wake_ex() leaves the SLEEPING    *)
(* flag of the thread it puts back on the ring.)                           *)
THEOREM KeptOnce ==
  ASSUME ~NoSmp
  PROVE  Spec => []ScheduledOnce
<1>1. Init => TypeOK /\ CallInv /\ HomeInv
  BY InitSched
<1>2. TypeOK /\ CallInv /\ HomeInv /\ [Next]_vars => (TypeOK /\ CallInv /\ HomeInv)'
  BY TypeStep, CallStep, HomeStep
<1>3. HomeInv => ScheduledOnce
  BY HomeOnce
<1> QED BY <1>1, <1>2, <1>3, PTL DEF Spec
=============================================================================
