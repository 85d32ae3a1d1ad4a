-------------------------- MODULE TaskSignalProofs --------------------------
(***************************************************************************)
(* Facts about the calls of TaskSignal, for the proofs about the blocking  *)
(* primitives that use them.                                               *)
(***************************************************************************)
EXTENDS TaskSignal, TLAPS

(* Unlinking the connection of a task leaves a chain of connections.       *)
LEMMA UnlinkType ==
  ASSUME NEW q \in Seq(Connection), NEW t
  PROVE  Unlink(q, t) \in Seq(Connection)
<1>1. CASE \E i \in DOMAIN q : q[i].task = t
  <2> DEFINE k == CHOOSE i \in DOMAIN q : q[i].task = t
             r == [i \in 1 .. Len(q) - 1 |-> IF i < k THEN q[i] ELSE q[i + 1]]
  <2>1. k \in 1 .. Len(q)
    BY <1>1
  <2>2. Len(q) - 1 \in Nat
    BY <2>1
  <2>3. \A i \in 1 .. Len(q) - 1 : r[i] \in Connection
    BY <2>1
  <2>4. r \in [1 .. Len(q) - 1 -> Connection]
    BY <2>3
  <2>5. r \in Seq(Connection)
    BY <2>2, <2>4
  <2> QED BY <1>1, <2>5 DEF Unlink
<1>2. CASE ~ \E i \in DOMAIN q : q[i].task = t
  BY <1>2 DEF Unlink
<1> QED BY <1>1, <1>2

(* Every call on a signal keeps the types of the signal state.             *)
LEMMA SigCallsType ==
  ASSUME SigTypeOK, NEW t \in Task, NEW s \in Sig, NEW g \in BOOLEAN
  PROVE  /\ Connect(t, s, g) => SigTypeOK'
         /\ Disconnect(t) => SigTypeOK'
         /\ SendOne(s) => SigTypeOK'
         /\ RelocateConnections(t) => SigTypeOK'
         /\ CopySignal(t) => SigTypeOK'
         /\ PopConnections(t) => SigTypeOK'
         /\ UNCHANGED sigVars => SigTypeOK'
<1>1. Connect(t, s, g) => SigTypeOK'
  <2>1. [task |-> t, ghost |-> g] \in Connection
    BY DEF Connection
  <2>2. Append(chain[s], [task |-> t, ghost |-> g]) \in Seq(Connection)
    BY <2>1 DEF SigTypeOK
  <2> QED BY <2>2 DEF SigTypeOK, Connect
<1>2. Disconnect(t) => SigTypeOK'
  <2>1. \A x \in Sig : Unlink(chain[x], t) \in Seq(Connection)
    BY UnlinkType DEF SigTypeOK
  <2> QED BY <2>1 DEF SigTypeOK, Disconnect
<1>3. SendOne(s) => SigTypeOK'
  <2> SUFFICES ASSUME SendOne(s) PROVE SigTypeOK'
    OBVIOUS
  <2>1. chain[s] \in Seq(Connection) /\ chain[s] # <<>>
    BY DEF SigTypeOK, SendOne
  <2>2. Tail(chain[s]) \in Seq(Connection)
    BY <2>1
  <2>3. chain' \in [Sig -> Seq(Connection)]
    BY <2>2 DEF SigTypeOK, SendOne
  <2>4. tcs_sig' \in [Task -> Sig \cup {NoSig}]
    BY DEF SigTypeOK, SendOne
  <2> QED BY <2>3, <2>4 DEF SigTypeOK, SendOne
<1>4. /\ RelocateConnections(t) => SigTypeOK'
      /\ CopySignal(t) => SigTypeOK'
      /\ PopConnections(t) => SigTypeOK'
  BY DEF SigTypeOK, RelocateConnections, CopySignal, PopConnections
<1>5. UNCHANGED sigVars => SigTypeOK'
  BY DEF SigTypeOK, sigVars
<1> QED BY <1>1, <1>2, <1>3, <1>4, <1>5

-----------------------------------------------------------------------------
(* The connections of a chain, and that no task has two of them.           *)
Conns(q) == {q[i] : i \in DOMAIN q}

OncePerTask(q) == \A i, j \in DOMAIN q : q[i].task = q[j].task => i = j

(* The empty chain. *)
LEMMA ConnsEmpty == Conns(<<>>) = {} /\ OncePerTask(<<>>)
BY DEF Conns, OncePerTask

(* task_connect() adds the connection of a task that has none.             *)
LEMMA ConnsAppend ==
  ASSUME NEW q \in Seq(Connection), OncePerTask(q), NEW c \in Connection,
         \A d \in Conns(q) : d.task # c.task
  PROVE  /\ Conns(Append(q, c)) = Conns(q) \cup {c}
         /\ OncePerTask(Append(q, c))
<1> DEFINE r == Append(q, c)
<1>1. /\ DOMAIN r = 1 .. Len(q) + 1
      /\ \A i \in 1 .. Len(q) : r[i] = q[i]
      /\ r[Len(q) + 1] = c
      /\ DOMAIN q = 1 .. Len(q)
      /\ Len(q) \in Nat
  OBVIOUS
<1> HIDE DEF r
<1>2. Conns(r) = Conns(q) \cup {c}
  BY <1>1 DEF Conns
<1>3. OncePerTask(r)
  BY <1>1 DEF OncePerTask, Conns
<1> QED BY <1>2, <1>3 DEF r

(* A send removes the first connection and no other.                       *)
LEMMA ConnsTail ==
  ASSUME NEW q \in Seq(Connection), OncePerTask(q), q # <<>>
  PROVE  /\ Head(q) \in Conns(q)
         /\ Conns(Tail(q)) = Conns(q) \ {Head(q)}
         /\ OncePerTask(Tail(q))
<1> DEFINE r == Tail(q)
<1>1. /\ Len(q) \in Nat \ {0}
      /\ DOMAIN q = 1 .. Len(q)
      /\ DOMAIN r = 1 .. Len(q) - 1
      /\ \A i \in 1 .. Len(q) - 1 : r[i] = q[i + 1]
      /\ Head(q) = q[1]
  OBVIOUS
<1> HIDE DEF r
<1>2. Head(q) \in Conns(q)
  BY <1>1 DEF Conns
<1>3. OncePerTask(r)
  <2> SUFFICES ASSUME NEW i \in DOMAIN r, NEW j \in DOMAIN r, r[i].task = r[j].task
               PROVE  i = j
    BY DEF OncePerTask
  <2>1. /\ i \in Nat /\ j \in Nat
        /\ i + 1 \in DOMAIN q /\ r[i] = q[i + 1]
        /\ j + 1 \in DOMAIN q /\ r[j] = q[j + 1]
    BY <1>1
  <2>2. i + 1 = j + 1
    BY <2>1 DEF OncePerTask
  <2> QED BY <2>1, <2>2
<1>4. Conns(r) \subseteq Conns(q) \ {Head(q)}
  <2> SUFFICES ASSUME NEW i \in DOMAIN r PROVE r[i] \in Conns(q) \ {Head(q)}
    BY DEF Conns
  <2>1. i + 1 \in DOMAIN q /\ r[i] = q[i + 1] /\ i + 1 # 1 /\ 1 \in DOMAIN q
    BY <1>1
  <2> QED BY <2>1, <1>1 DEF Conns, OncePerTask
<1>5. Conns(q) \ {Head(q)} \subseteq Conns(r)
  <2> SUFFICES ASSUME NEW j \in DOMAIN q, q[j] # Head(q) PROVE q[j] \in Conns(r)
    BY DEF Conns
  <2>1. j # 1 /\ j - 1 \in DOMAIN r /\ r[j - 1] = q[j]
    BY <1>1
  <2> QED BY <2>1 DEF Conns
<1> QED BY <1>2, <1>3, <1>4, <1>5 DEF r

(* task_disconnect() removes the connection of the task and no other.      *)
LEMMA ConnsUnlink ==
  ASSUME NEW q \in Seq(Connection), OncePerTask(q), NEW t
  PROVE  /\ Conns(Unlink(q, t)) = {c \in Conns(q) : c.task # t}
         /\ OncePerTask(Unlink(q, t))
<1>1. CASE \E i \in DOMAIN q : q[i].task = t
  <2> DEFINE k == CHOOSE i \in DOMAIN q : q[i].task = t
             r == [i \in 1 .. Len(q) - 1 |-> IF i < k THEN q[i] ELSE q[i + 1]]
  <2>1. /\ k \in 1 .. Len(q) /\ q[k].task = t
        /\ DOMAIN q = 1 .. Len(q)
        /\ Len(q) \in Nat
    BY <1>1
  <2>2. \A i \in 1 .. Len(q) : q[i].task = t => i = k
    BY <2>1 DEF OncePerTask
  <2>3. /\ DOMAIN r = 1 .. Len(q) - 1
        /\ \A i \in 1 .. Len(q) - 1 : r[i] = IF i < k THEN q[i] ELSE q[i + 1]
    OBVIOUS
  <2>4. r = Unlink(q, t)
    BY <1>1 DEF Unlink
  <2> HIDE DEF k, r
  <2>5. OncePerTask(r)
    <3> SUFFICES ASSUME NEW i \in DOMAIN r, NEW j \in DOMAIN r,
                        r[i].task = r[j].task
                 PROVE  i = j
      BY DEF OncePerTask
    <3> DEFINE At(n) == IF n < k THEN n ELSE n + 1
    <3>1. /\ At(i) \in DOMAIN q /\ r[i] = q[At(i)]
          /\ At(j) \in DOMAIN q /\ r[j] = q[At(j)]
      BY <2>1, <2>3
    <3>2. At(i) = At(j)
      BY <3>1 DEF OncePerTask
    <3> QED BY <3>2, <2>1, <2>3
  <2>6. ASSUME NEW i \in DOMAIN r
        PROVE  r[i] \in Conns(q) /\ r[i].task # t
    <3> DEFINE j == IF i < k THEN i ELSE i + 1
    <3>1. j \in DOMAIN q /\ j # k /\ r[i] = q[j]
      BY <2>1, <2>3
    <3> QED BY <3>1, <2>1, <2>2 DEF Conns
  <2>7. ASSUME NEW j \in DOMAIN q, q[j].task # t
        PROVE  q[j] \in Conns(r)
    <3> DEFINE i == IF j < k THEN j ELSE j - 1
    <3>1. i \in DOMAIN r /\ r[i] = q[j]
      BY <2>1, <2>3, <2>7
    <3> QED BY <3>1 DEF Conns
  <2>8. Conns(r) = {c \in Conns(q) : c.task # t}
    <3>1. \A c \in Conns(r) : c \in Conns(q) /\ c.task # t
      BY <2>6 DEF Conns
    <3>2. \A c \in Conns(q) : c.task # t => c \in Conns(r)
      BY <2>7 DEF Conns
    <3> QED BY <3>1, <3>2
  <2> QED BY <2>4, <2>5, <2>8
<1>2. CASE ~ \E i \in DOMAIN q : q[i].task = t
  BY <1>2 DEF Unlink, Conns
<1> QED BY <1>1, <1>2
=============================================================================
