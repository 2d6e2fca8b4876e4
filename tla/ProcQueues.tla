----------------------------- MODULE ProcQueues ------------------------------
(***************************************************************************)
(* The run queues of Proc: the inductive invariant Placed(p), which says   *)
(* for one process where its queue entries are and which core owns it; how *)
(* entries move; every action preserves it.                                *)
(***************************************************************************)
EXTENDS ProcTypes

\* c is about to insert p in the table.
Inserting(c, p) == pc[c] = "insert" /\ new[c].pid = p

\* p has left c, or is leaving it, with no deferred transition: it is to be dead.
Parting(c, p) == pc[c] \in {"switch", "out"} /\ post_switch[c] = 0 /\ cur[c] = p

\* The inductive invariant, for one process.
Placed(p) ==
  /\ status[p] = "Runnable" => Queued(p) /\ AtMostOnce(p)
  /\ status[p] \in {"none", "alloc", "Running", "Waiting"} => ~Queued(p)
  /\ status[p] = "Dead" => Queued(p) \/ \E c \in Cores : Owns(c, p)
  /\ status[p] = "Running" => \E c \in Cores : Owns(c, p)
  /\ \A c \in Cores : /\ Owns(c, p) => status[p] \in {"Running", "Dead"} /\ ~Queued(p)
                      /\ Parting(c, p) => status[p] = "Dead"
                      /\ Inserting(c, p) => status[p] = "alloc"
  /\ \A c, d \in Cores : /\ Owns(c, p) /\ Owns(d, p) => c = d
                         /\ Inserting(c, p) /\ Inserting(d, p) => c = d

AllPlaced == \A p \in Pids : Placed(p)

-----------------------------------------------------------------------------
(* How queue entries move. *)

\* No entry moves.
LEMMA TicketsSame ==
  ASSUME NEW p, UNCHANGED runq, \A d \in Cores : Holds(d, p)' <=> Holds(d, p)
  PROVE  /\ Queued(p)' <=> Queued(p)
         /\ AtMostOnce(p)' <=> AtMostOnce(p)
BY DEF Queued, AtMostOnce, Ticket, Places

\* The pids of s are pushed on the queue of c.
LEMMA TicketsPushed ==
  ASSUME TypeInv, NEW p \in Pids, NEW c \in Cores, NEW s \in Seq(Pids),
         runq' = [runq EXCEPT ![c] = @ \o s],
         \A d \in Cores : Holds(d, p)' <=> Holds(d, p)
  PROVE  /\ Queued(p) => Queued(p)'
         /\ (\E i \in 1 .. Len(s) : s[i] = p) => Queued(p)'
         /\ (\A i \in 1 .. Len(s) : s[i] # p) =>
              (Queued(p)' => Queued(p)) /\ (AtMostOnce(p) => AtMostOnce(p)')
         /\ ~Queued(p) /\ (\A i, j \in 1 .. Len(s) : s[i] = p /\ s[j] = p => i = j)
              => AtMostOnce(p)'
<1> DEFINE n == Len(runq[c])
<1>1. /\ \A d \in Cores : runq[d] \in Seq(Pids) /\ Len(runq[d]) \in Nat
      /\ \A d \in Cores : d # c => runq'[d] = runq[d]
      /\ runq'[c] = runq[c] \o s /\ Len(s) \in Nat
  BY DEF TypeInv, TypeOK, QueueOK
<1>2. /\ Len(runq'[c]) = n + Len(s)
      /\ \A i \in 1 .. n : runq'[c][i] = runq[c][i]
      /\ \A i \in 1 .. Len(s) : runq'[c][n + i] = s[i]
  BY <1>1
<1>3. ASSUME NEW d \in Cores, NEW i \in Places(d), Ticket(d, i, p)
      PROVE  i \in Places(d)' /\ Ticket(d, i, p)'
  BY <1>1, <1>2, <1>3 DEF Places, Ticket
<1>4. ASSUME NEW d \in Cores, NEW i \in Places(d)', Ticket(d, i, p)'
      PROVE  \/ i \in Places(d) /\ Ticket(d, i, p)
             \/ d = c /\ i - n \in 1 .. Len(s) /\ s[i - n] = p
  <2>1. CASE d = c /\ i > n
    BY <1>1, <1>4, <2>1, <1>2, SMTT(30) DEF Ticket, Places
  <2>2. CASE ~(d = c /\ i > n)
    BY <1>1, <1>2, <1>4, <2>2, SMTT(30) DEF Places, Ticket
  <2> QED
    BY <2>1, <2>2, ZenonT(30)
<1>5. ASSUME NEW i \in 1 .. Len(s), s[i] = p PROVE Queued(p)'
  <2>1. PICK k \in Nat : k = n + i
    BY <1>1
  <2>2. k \in Places(c)' /\ Ticket(c, k, p)'
    BY <1>1, <1>2, <1>5, <2>1 DEF Places, Ticket
  <2> QED
    BY <2>2, ZenonT(30) DEF Queued
<1>6. ASSUME \A i \in 1 .. Len(s) : s[i] # p
      PROVE  (Queued(p)' => Queued(p)) /\ (AtMostOnce(p) => AtMostOnce(p)')
  BY <1>4, <1>6, SMTT(30) DEF Queued, AtMostOnce
<1>7. ASSUME ~Queued(p), \A i, j \in 1 .. Len(s) : s[i] = p /\ s[j] = p => i = j
      PROVE  AtMostOnce(p)'
  <2>1. SUFFICES ASSUME NEW a \in Cores, NEW b \in Cores, NEW i \in Places(a)', NEW j \in Places(b)',
                        Ticket(a, i, p)', Ticket(b, j, p)'
                 PROVE  a = b /\ i = j
    BY DEF AtMostOnce
  <2>2. /\ a = c /\ i - n \in 1 .. Len(s) /\ s[i - n] = p
        /\ b = c /\ j - n \in 1 .. Len(s) /\ s[j - n] = p
    BY <1>4, <1>7, <2>1, ZenonT(30) DEF Queued
  <2>3. i - n = j - n
    BY <1>7, <2>2, ZenonT(30)
  <2> QED
    BY <2>2, <2>3, <1>1, <1>2, SMTT(30) DEF Places
<1> QED
  BY <1>3, <1>5, <1>6, <1>7, ZenonT(30) DEF Queued

LEMMA SeqTail ==
  ASSUME NEW S, NEW s \in Seq(S), s # <<>>
  PROVE  /\ Len(Tail(s)) = Len(s) - 1
         /\ \A i \in 1 .. Len(s) - 1 : Tail(s)[i] = s[i + 1]
         /\ Head(s) = s[1]
OBVIOUS

\* The steps of a scheduler that take the front of its own queue, or the back of
\* another's, move one entry into the hands of c.
LEMMA TicketPopped ==
  ASSUME TypeInv, NEW p \in Pids, NEW c \in Cores, runq[c] # <<>>,
         runq' = [runq EXCEPT ![c] = Tail(@)],
         \A d \in Cores \ {c} : Holds(d, p)' <=> Holds(d, p),
         ~Holds(c, p), Holds(c, p)' <=> p = Head(runq[c])
  PROVE  (Queued(p)' <=> Queued(p)) /\ (AtMostOnce(p) => AtMostOnce(p)')
<1> DEFINE old(d, i) == IF d = c THEN i + 1 ELSE i
<1>1. /\ \A d \in Cores : runq[d] \in Seq(Pids) /\ Len(runq[d]) \in Nat
      /\ \A d \in Cores : d # c => runq'[d] = runq[d]
      /\ runq'[c] = Tail(runq[c]) /\ Len(runq[c]) > 0
  BY DEF TypeInv, TypeOK, QueueOK
<1>2. /\ Len(runq'[c]) = Len(runq[c]) - 1
      /\ \A i \in 1 .. Len(runq[c]) - 1 : runq'[c][i] = runq[c][i + 1]
      /\ Head(runq[c]) = runq[c][1]
  BY <1>1, SeqTail, ZenonT(30)
<1>3. ASSUME NEW d \in Cores, NEW i \in Places(d)', Ticket(d, i, p)'
      PROVE  i \in Nat /\ old(d, i) \in Places(d) /\ Ticket(d, old(d, i), p)
  <2>1. CASE d = c
    BY <1>1, <1>2, <1>3, <2>1 DEF Places, Ticket
  <2>2. CASE d # c
    BY <1>1, <1>3, <2>2 DEF Places, Ticket
  <2> QED
    BY <2>1, <2>2, ZenonT(30)
<1>4. ASSUME NEW d \in Cores, NEW i \in Places(d), Ticket(d, i, p)
      PROVE  \E j \in Places(d)' : Ticket(d, j, p)'
  <2>1. CASE d = c
    <3>1. i - 1 \in Places(c)' /\ Ticket(c, i - 1, p)'
      BY <1>1, <1>2, <1>4, <2>1, SMTT(30) DEF Places, Ticket
    <3> QED
      BY <2>1, <3>1
  <2>2. CASE d # c
    BY <1>1, <1>4, <2>2, ZenonT(30) DEF Places, Ticket
  <2> QED
    BY <2>1, <2>2
<1>5. ASSUME AtMostOnce(p), NEW a \in Cores, NEW b \in Cores,
             NEW i \in Places(a)', NEW j \in Places(b)', Ticket(a, i, p)', Ticket(b, j, p)'
      PROVE  a = b /\ i = j
  <2>1. a = b /\ old(a, i) = old(b, j)
    <3> HIDE DEF old
    <3> QED
      BY <1>5, <1>3, SMTT(30) DEF AtMostOnce
  <2> QED
    BY <2>1, <1>3, <1>5, SMTT(30)
<1> QED
  BY <1>3, <1>4, <1>5, SMTT(30) DEF AtMostOnce, Queued

LEMMA TicketStolen ==
  ASSUME TypeInv, NEW p \in Pids, NEW c \in Cores, NEW v \in Cores, runq[v] # <<>>,
         runq' = [runq EXCEPT ![v] = Stolen(@)],
         \A d \in Cores \ {c} : Holds(d, p)' <=> Holds(d, p),
         ~Holds(c, p), Holds(c, p)' <=> p = runq[v][Len(runq[v])]
  PROVE  (Queued(p)' <=> Queued(p)) /\ (AtMostOnce(p) => AtMostOnce(p)')
<1> DEFINE n == Len(runq[v])
           moved(d, i) == d = c /\ i = 0
<1>1. /\ \A d \in Cores : runq[d] \in Seq(Pids) /\ Len(runq[d]) \in Nat
      /\ \A d \in Cores : d # v => runq'[d] = runq[d]
      /\ runq'[v] = SubSeq(runq[v], 1, n - 1) /\ n > 0
  BY DEF TypeInv, TypeOK, QueueOK, Stolen
<1>2. /\ Len(runq'[v]) = n - 1
      /\ \A i \in 1 .. n - 1 : runq'[v][i] = runq[v][i]
  BY <1>1
<1>3. ASSUME NEW d \in Cores, NEW i \in Places(d)', Ticket(d, i, p)'
      PROVE  \/ moved(d, i) /\ n \in Places(v) /\ Ticket(v, n, p)
             \/ ~moved(d, i) /\ i \in Places(d) /\ Ticket(d, i, p) /\ ~(d = v /\ i = n)
  <2>1. CASE moved(d, i)
    BY <1>1, <1>3, <2>1, SMTT(30) DEF Places, Ticket
  <2>2. CASE ~moved(d, i) /\ d = v
    BY <1>1, <1>2, <1>3, <2>2, SMTT(30) DEF Places, Ticket
  <2>3. CASE ~moved(d, i) /\ d # v
    BY <1>1, <1>3, <2>3, ZenonT(30) DEF Places, Ticket
  <2> QED
    BY <2>1, <2>2, <2>3, ZenonT(30)
<1>4. ASSUME NEW d \in Cores, NEW i \in Places(d), Ticket(d, i, p)
      PROVE  Queued(p)'
  <2>1. CASE d = v /\ i = n
    BY <1>1, <1>2, <1>4, <2>1, SMTT(30) DEF Queued, Places, Ticket
  <2>2. CASE ~(d = v /\ i = n)
    BY <1>1, <1>2, <1>4, <2>2, SMTT(30) DEF Queued, Places, Ticket
  <2> QED
    BY <2>1, <2>2, SMTT(30)
<1>5. ASSUME AtMostOnce(p), NEW a \in Cores, NEW b \in Cores,
             NEW i \in Places(a)', NEW j \in Places(b)', Ticket(a, i, p)', Ticket(b, j, p)'
      PROVE  a = b /\ i = j
  <2>1. CASE moved(a, i) /\ moved(b, j)
    BY <2>1
  <2>2. CASE ~moved(a, i) /\ ~moved(b, j)
    BY <1>5, <1>3, <2>2, SMTT(30) DEF AtMostOnce
  <2>3. CASE moved(a, i) /\ ~moved(b, j)
    <3>1. n \in Places(v) /\ Ticket(v, n, p)
      BY <1>3, <1>5, <2>3, ZenonT(30)
    <3> HIDE DEF n
    <3> QED
      BY <1>5, <3>1, <1>3, <2>3, SMTT(30) DEF AtMostOnce
  <2>4. CASE ~moved(a, i) /\ moved(b, j)
    <3>1. n \in Places(v) /\ Ticket(v, n, p)
      BY <1>3, <1>5, <2>4, ZenonT(30)
    <3> HIDE DEF n
    <3> QED
      BY <1>5, <3>1, <1>3, <2>4, SMTT(30) DEF AtMostOnce
  <2> QED
    BY <2>1, <2>2, <2>3, <2>4, SMTT(30)
<1> QED
  BY <1>3, <1>4, <1>5, SMTT(30) DEF AtMostOnce, Queued

\* spawn_inner's push: the entry c held goes to the back of its queue.
LEMMA TicketPushed ==
  ASSUME TypeInv, NEW p \in Pids, NEW c \in Cores, runq' = [runq EXCEPT ![c] = @ \o <<p>>],
         \A d \in Cores \ {c} : Holds(d, p)' <=> Holds(d, p),
         Holds(c, p), ~Holds(c, p)'
  PROVE  (Queued(p)' <=> Queued(p)) /\ (AtMostOnce(p) => AtMostOnce(p)')
<1>1. PICK n \in Nat : n = Len(runq[c])
  BY DEF TypeInv, TypeOK, QueueOK
<1> DEFINE old(d, i) == IF d = c /\ i = n + 1 THEN 0 ELSE i
<1>2. /\ \A d \in Cores : runq[d] \in Seq(Pids) /\ Len(runq[d]) \in Nat
      /\ \A d \in Cores : d # c => runq'[d] = runq[d]
      /\ runq'[c] = runq[c] \o <<p>>
  BY DEF TypeInv, TypeOK, QueueOK
<1>3. ASSUME NEW d \in Cores, NEW i \in Places(d)', Ticket(d, i, p)'
      PROVE  /\ i \in Nat /\ old(d, i) \in Places(d) /\ Ticket(d, old(d, i), p)
             /\ d = c => i # 0
  <2>1. CASE d = c
    BY <1>1, <1>2, <1>3, <2>1, SMTT(30) DEF Places, Ticket
  <2>2. CASE d # c
    BY <1>2, <1>3, <2>2, SMTT(30) DEF Places, Ticket
  <2> QED
    BY <2>1, <2>2, ZenonT(30)
<1>4. Queued(p)
  BY <1>2, SMTT(30) DEF Queued, Places, Ticket
<1>5. Queued(p)'
  BY <1>1, <1>2 DEF Queued, Places, Ticket
<1>6. ASSUME AtMostOnce(p), NEW a \in Cores, NEW b \in Cores,
             NEW i \in Places(a)', NEW j \in Places(b)', Ticket(a, i, p)', Ticket(b, j, p)'
      PROVE  a = b /\ i = j
  <2>1. a = b /\ old(a, i) = old(b, j)
    <3> HIDE DEF old
    <3> QED
      BY <1>6, <1>3, SMTT(30) DEF AtMostOnce
  <2> QED
    BY <2>1, <1>3, <1>6, ZenonT(30)
<1> QED
  BY <1>4, <1>5, <1>6, ZenonT(30) DEF AtMostOnce

\* The only entry of a process is consumed by c.
LEMMA TicketConsumed ==
  ASSUME TypeInv, NEW p \in Pids, NEW c \in Cores, UNCHANGED runq,
         \A d \in Cores \ {c} : Holds(d, p)' <=> Holds(d, p),
         Holds(c, p), ~Holds(c, p)', AtMostOnce(p)
  PROVE  ~Queued(p)'
<1>1. SUFFICES ASSUME NEW d \in Cores, NEW i \in Places(d)', Ticket(d, i, p)'
               PROVE  FALSE
  BY DEF Queued
<1>2. 0 \in Places(c) /\ Ticket(c, 0, p)
  BY DEF TypeInv, TypeOK, QueueOK, Places, Ticket
<1> QED
  BY <1>2, <1>1 DEF AtMostOnce, Places, Ticket

\* A process that was queued nowhere gets its first entry, in the hands of c.
LEMMA TicketMade ==
  ASSUME TypeInv, NEW p \in Pids, NEW c \in Cores, UNCHANGED runq, ~Queued(p),
         \A d \in Cores \ {c} : Holds(d, p)' <=> Holds(d, p), Holds(c, p)'
  PROVE  Queued(p)' /\ AtMostOnce(p)'
<1>1. ASSUME NEW d \in Cores, NEW i \in Places(d)', Ticket(d, i, p)'
      PROVE  d = c /\ i = 0
  <2>1. CASE d = c /\ i = 0
    BY <2>1
  <2>2. CASE ~(d = c /\ i = 0)
    BY <1>1, <2>2 DEF Queued, Places, Ticket
  <2> QED
    BY <2>1, <2>2
<1> QED
  BY <1>1 DEF Queued, AtMostOnce, TypeInv, TypeOK, QueueOK, Places, Ticket

-----------------------------------------------------------------------------
(* What a step leaves alone. *)

\* Nothing changes between core d and process p.
SameAt(d, p) == /\ Holds(d, p)' <=> Holds(d, p)
                /\ Owns(d, p)' <=> Owns(d, p)
                /\ Parting(d, p)' => Parting(d, p)
                /\ Inserting(d, p)' => Inserting(d, p)

LEMMA Elsewhere ==
  ASSUME NEW c \in Cores, StepOf(c), NEW d \in Cores \ {c}, NEW p
  PROVE  SameAt(d, p)
BY ZenonT(30) DEF StepOf, SameAt, Holds, Owns, Parting, Inserting

\* A core whose point of execution does not change does nothing to anyone.
LEMMA StaysPut ==
  ASSUME NEW c \in Cores, UNCHANGED <<pc, cur, new, post_switch>>, NEW d, NEW p
  PROVE  SameAt(d, p)
BY ZenonT(30) DEF SameAt, Holds, Owns, Parting, Inserting

\* A process whose state, entries and owner stay as they are.
LEMMA Untouched ==
  ASSUME NEW p \in Pids, Placed(p), status'[p] = status[p],
         Queued(p)' <=> Queued(p), AtMostOnce(p) => AtMostOnce(p)',
         \A d \in Cores : /\ Owns(d, p)' <=> Owns(d, p)
                          /\ Parting(d, p)' => Parting(d, p)
                          /\ Inserting(d, p)' => Inserting(d, p)
  PROVE  Placed(p)'
BY ZenonT(30) DEF Placed

\* A step of c in which no process and no queue entry moves.
LEMMA QuietStep ==
  ASSUME AllPlaced, NEW c \in Cores, StepOf(c), UNCHANGED <<status, runq>>,
         \A p \in Pids : SameAt(c, p)
  PROVE  AllPlaced'
<1> SUFFICES ASSUME NEW p \in Pids PROVE Placed(p)'
  BY DEF AllPlaced
<1> QED
  BY Elsewhere, TicketsSame, Untouched, ZenonT(30) DEF AllPlaced, SameAt

\* What the places of p in s and in t say of its places in u.
Joins(s, t, u, p) ==
  /\ (\E i \in 1 .. Len(s) : s[i] = p) \/ (\E i \in 1 .. Len(t) : t[i] = p)
       => \E i \in 1 .. Len(u) : u[i] = p
  /\ (\A i \in 1 .. Len(s) : s[i] # p) /\ (\A i \in 1 .. Len(t) : t[i] # p)
       => \A i \in 1 .. Len(u) : u[i] # p
  /\ (\A i, j \in 1 .. Len(s) : s[i] = p /\ s[j] = p => i = j) /\ (\A i \in 1 .. Len(t) : t[i] # p)
       => \A i, j \in 1 .. Len(u) : u[i] = p /\ u[j] = p => i = j

\* One queue of pids after another.
LEMMA Appended ==
  ASSUME NEW s \in Seq(Pids), NEW t \in Seq(Pids), NEW u, u = s \o t, NEW p
  PROVE  u \in Seq(Pids) /\ Joins(s, t, u, p)
<1>1. u \in Seq(Pids)
  OBVIOUS
<1>2. /\ Len(u) = Len(s) + Len(t) /\ Len(s) \in Nat /\ Len(t) \in Nat
      /\ \A i \in 1 .. Len(s) : u[i] = s[i]
      /\ \A i \in 1 .. Len(t) : u[Len(s) + i] = t[i]
  BY <1>1, SMTT(30)
<1>3. ASSUME NEW i \in 1 .. Len(u)
      PROVE  \/ i \in 1 .. Len(s) /\ u[i] = s[i]
             \/ i - Len(s) \in 1 .. Len(t) /\ u[i] = t[i - Len(s)]
  <2>1. CASE i <= Len(s)
    BY <1>2, <2>1, SMTT(30)
  <2>2. CASE i > Len(s)
    BY <1>2, <2>2
  <2> QED
    BY <1>2, <2>1, <2>2, SMTT(30)
<1>4. (\E i \in 1 .. Len(s) : s[i] = p) \/ (\E i \in 1 .. Len(t) : t[i] = p)
        => \E i \in 1 .. Len(u) : u[i] = p
  <2>1. ASSUME NEW i \in 1 .. Len(s), s[i] = p PROVE \E k \in 1 .. Len(u) : u[k] = p
    BY <1>2, <2>1, SMTT(30)
  <2>2. ASSUME NEW i \in 1 .. Len(t), t[i] = p PROVE \E k \in 1 .. Len(u) : u[k] = p
    <3>1. Len(s) + i \in 1 .. Len(u) /\ u[Len(s) + i] = p
      BY <1>2, <2>2
    <3> QED
      BY <3>1, ZenonT(30)
  <2> QED
    BY <2>1, <2>2, ZenonT(30)
<1>5. (\A i \in 1 .. Len(t) : t[i] # p) => \A i \in 1 .. Len(u) : u[i] = p => i \in 1 .. Len(s) /\ s[i] = p
  BY <1>3, ZenonT(30)
<1> QED
  BY <1>1, <1>4, <1>5, ZenonT(30) DEF Joins

-----------------------------------------------------------------------------
(* The actions that move nothing. *)

\* A step from one point of the loop to another that is empty-handed too.
Idle == {"top", "wheel", "pop", "steal", "halting", "halted", "woken", "finalize"}
\* Points in the body of a process with no deferred transition and no new process.
Busy == {"enter", "user", "spawn", "recv", "quota", "park"}

LEMMA EmptyHanded ==
  ASSUME NEW c, NEW p
  PROVE  /\ pc[c] \in Idle => ~Holds(c, p) /\ ~Owns(c, p) /\ ~Parting(c, p) /\ ~Inserting(c, p)
         /\ pc'[c] \in Idle => ~Holds(c, p)' /\ ~Owns(c, p)' /\ ~Parting(c, p)' /\ ~Inserting(c, p)'
BY PcFacts, SMTT(30) DEF Idle, Holds, Owns, Parting, Inserting

LEMMA Dispatching ==
  ASSUME TypeInv, NEW c \in Cores, NEW p, pc[c] = "dispatch"
  PROVE  /\ ~Owns(c, p) /\ ~Parting(c, p) /\ ~Inserting(c, p)
         /\ Holds(c, p) <=> cur[c] = p
         /\ Holds(c, p) => Queued(p)
<1>1. Len(runq[c]) \in Nat
  BY DEF TypeInv, TypeOK, QueueOK
<1>2. 0 \in Places(c)
  BY <1>1 DEF Places
<1> QED
  BY <1>2, PcFacts, SMTT(30) DEF Owns, Parting, Inserting, Holds, Queued, Ticket

LEMMA EntersNext ==
  ASSUME NEW c, NEW p, pc'[c] = "enter"
  PROVE  /\ ~Holds(c, p)' /\ ~Parting(c, p)' /\ ~Inserting(c, p)'
         /\ Owns(c, p)' <=> cur'[c] = p
BY PcFacts DEF Owns, Parting, Inserting, Holds

LEMMA SwitchedOut ==
  ASSUME NEW c, NEW p, pc[c] = "out"
  PROVE  ~Holds(c, p) /\ ~Inserting(c, p) /\ (Owns(c, p) <=> cur[c] = p) /\ (Parting(c, p) => Owns(c, p))
BY PcFacts DEF Owns, Parting, Inserting, Holds

LEMMA PartingOwns ==
  ASSUME NEW c, NEW p, Parting(c, p)
  PROVE  Owns(c, p)
BY PcFacts, SMTT(30) DEF Parting, Owns

LEMMA IdleStep ==
  ASSUME TypeInv, NEW c \in Cores, NEW l \in Idle, pc[c] \in Idle, Goto(c, l), NEW p
  PROVE  SameAt(c, p)
BY PcFacts, SMTT(30) DEF TypeInv, TypeOK, CoreOK, Goto, SameAt, Holds, Owns, Parting, Inserting, Idle

LEMMA BusyStep ==
  ASSUME TypeInv, NEW c \in Cores, NEW l \in Busy, pc[c] \in Busy, Goto(c, l),
         cur'[c] = cur[c], NEW p
  PROVE  SameAt(c, p)
BY PcFacts DEF TypeInv, TypeOK, CoreOK, Goto, SameAt, Holds, Owns, Parting, Inserting, Busy

LEMMA IdleActions ==
  ASSUME TypeInv, AllPlaced, NEW c \in Cores,
         \/ CheckWheel(c)
         \/ Halt(c)
         \/ Resume(c)
         \/ Finalize(c)
  PROVE  AllPlaced'
<1> SUFFICES StepOf(c) /\ UNCHANGED <<status, runq>> /\ \A p \in Pids : SameAt(c, p)
  BY QuietStep
<1> USE DEF local_vars, core_vars, table_vars, queue_vars
<1>1. CASE CheckWheel(c)
  BY <1>1, GotoStep, IdleStep, ZenonT(30) DEF CheckWheel, Idle
<1>2. CASE Halt(c)
  BY <1>2, GotoStep, IdleStep, ZenonT(30) DEF Halt, Idle
<1>3. CASE Resume(c)
  BY <1>3, GotoStep, IdleStep, PcFacts, ZenonT(30) DEF Resume, Idle
<1>4. CASE Finalize(c)
  BY <1>4, GotoStep, IdleStep, PcFacts, ZenonT(30) DEF Finalize, Idle
<1> QED
  BY <1>1, <1>2, <1>3, <1>4, SMTT(30)

LEMMA BusyActions ==
  ASSUME TypeInv, AllPlaced, NEW c \in Cores,
         \/ SwitchIn(c)
         \/ \E link \in BOOLEAN : Spawn(c, link)
         \/ SpawnMonitor(c)
         \/ \E k \in Preds, t \in Timeouts \cup {NoDeadline} : RecvCall(c, k, t)
         \/ RecvMatch(c)
         \/ RecvQuota(c)
         \/ RecvTimeout(c)
         \/ RecvBlock(c)
  PROVE  AllPlaced'
<1> SUFFICES StepOf(c) /\ UNCHANGED <<status, runq>> /\ \A p \in Pids : SameAt(c, p)
  BY QuietStep
<1> USE DEF local_vars, core_vars, table_vars, queue_vars
<1>1. CASE SwitchIn(c)
  BY <1>1, GotoStep, BusyStep, ZenonT(30) DEF SwitchIn, Busy
<1>2. CASE \E link \in BOOLEAN : Spawn(c, link)
  BY <1>2, GotoStep, BusyStep, ZenonT(30) DEF Spawn, Busy, InBody
<1>3. CASE SpawnMonitor(c)
  BY <1>3, GotoStep, BusyStep, ZenonT(30) DEF SpawnMonitor, Busy, InBody
<1>4. CASE \E k \in Preds, t \in Timeouts \cup {NoDeadline} : RecvCall(c, k, t)
  BY <1>4, GotoStep, BusyStep, ZenonT(30) DEF RecvCall, Busy, InBody
<1>5. CASE RecvMatch(c)
  BY <1>5, GotoStep, BusyStep, ZenonT(30) DEF RecvMatch, Busy
<1>6. CASE RecvQuota(c)
  BY <1>6, GotoStep, BusyStep, ZenonT(30) DEF RecvQuota, Busy
<1>7. CASE RecvTimeout(c)
  BY <1>7, GotoStep, BusyStep, ZenonT(30) DEF RecvTimeout, Busy, NoMatch
<1>8. CASE RecvBlock(c)
  BY <1>8, GotoStep, BusyStep, ZenonT(30) DEF RecvBlock, Busy, NoMatch
<1> QED
  BY <1>1, <1>2, <1>3, <1>4, <1>5, <1>6, <1>7, <1>8, ZenonT(30)

\* The steps that leave a process's code, and the interrupts.
LEMMA LeavingActions ==
  ASSUME TypeInv, AllPlaced, NEW c \in Cores, SwitchOut(c) \/ Yield(c) \/ Park(c)
  PROVE  AllPlaced'
<1> SUFFICES StepOf(c) /\ UNCHANGED <<status, runq>> /\ \A p \in Pids : SameAt(c, p)
  BY QuietStep
<1> USE DEF local_vars, table_vars, queue_vars
<1>1. CASE SwitchOut(c)
  <2>1. StepOf(c) /\ UNCHANGED <<status, runq>>
    BY <1>1, GotoStep, ZenonT(30) DEF SwitchOut
  <2> QED
    BY <1>1, <2>1, PcFacts, ZenonT(30) DEF SwitchOut, TypeInv, TypeOK, CoreOK, Goto, SameAt, Holds, Owns,
       Parting, Inserting
<1>2. CASE Yield(c)
  <2>1. StepOf(c) /\ UNCHANGED <<status, runq>>
    BY <1>2, GotoStep, ZenonT(30) DEF Yield
  <2> QED
    BY <1>2, <2>1, PcFacts, SMTT(30) DEF Yield, TypeInv, TypeOK, CoreOK, Goto, SameAt, Holds, Owns,
       Parting, Inserting
<1>3. CASE Park(c)
  <2>1. StepOf(c) /\ UNCHANGED <<status, runq>>
    BY <1>3, GotoStep, ZenonT(30) DEF Park
  <2> QED
    BY <1>3, <2>1, PcFacts, SMTT(30) DEF Park, TypeInv, TypeOK, CoreOK, Goto, SameAt, Holds, Owns,
       Parting, Inserting
<1> QED
  BY <1>1, <1>2, <1>3, SMTT(30)

LEMMA InterruptActions ==
  ASSUME TypeInv, AllPlaced, NEW c \in Cores, Tick(c) \/ WakeIpi(c)
  PROVE  AllPlaced'
<1>1. /\ UNCHANGED <<status, runq, cur, new, post_switch>> /\ Goto(c, AfterInterrupt(c))
  BY ZenonT(30) DEF Tick, WakeIpi, table_vars, queue_vars, local_vars
<1>2. CASE pc[c] = "halted"
  BY <1>1, GotoStep, <1>2, IdleStep, QuietStep, ZenonT(30) DEF AfterInterrupt, Idle
<1>3. CASE pc[c] # "halted"
  <2>1. pc' = pc
    BY <1>1, <1>3, SMTT(30) DEF AfterInterrupt, Goto, TypeInv, TypeOK, CoreOK
  <2> QED
    BY <1>1, GotoStep, <2>1, StaysPut, QuietStep, SMTT(30)
<1> QED
  BY <1>2, <1>3

-----------------------------------------------------------------------------
(* The actions that move a queue entry. *)

LEMMA PopFront_Placed ==
  ASSUME TypeInv, AllPlaced, NEW c \in Cores, PopFront(c)
  PROVE  AllPlaced'
<1>1. UNCHANGED <<status, new, post_switch>> /\ StepOf(c)
  BY GotoStep, ZenonT(30) DEF PopFront, table_vars
<1>2. CASE runq[c] = <<>>
  BY <1>1, <1>2, IdleStep, QuietStep, ZenonT(30) DEF PopFront, Idle
<1>3. CASE runq[c] # <<>>
  <2> SUFFICES ASSUME NEW p \in Pids PROVE Placed(p)'
    BY SMTT(30) DEF AllPlaced
  <2>1. /\ ~Holds(c, p) /\ (Holds(c, p)' <=> p = Head(runq[c]))
        /\ ~Owns(c, p)' /\ ~Owns(c, p) /\ ~Parting(c, p)' /\ ~Inserting(c, p)'
    BY <1>3, PcFacts, SMTT(30) DEF Holds, Owns, Parting, Inserting, PopFront, Goto, TypeInv, TypeOK, CoreOK
  <2>2. \A d \in Cores \ {c} : SameAt(d, p)
    BY <1>1, Elsewhere, SMTT(30)
  <2>3. (Queued(p)' <=> Queued(p)) /\ (AtMostOnce(p) => AtMostOnce(p)')
    BY <1>3, <2>1, <2>2, TicketPopped, ZenonT(30) DEF SameAt, PopFront, Goto, TypeInv, TypeOK, CoreOK
  <2> QED
    BY <1>1, <2>1, <2>2, <2>3, Untouched, ZenonT(30) DEF SameAt, AllPlaced
<1> QED
  BY <1>2, <1>3, SMTT(30)

LEMMA Steal_Placed ==
  ASSUME TypeInv, AllPlaced, NEW c \in Cores, Steal(c)
  PROVE  AllPlaced'
<1>1. UNCHANGED <<status, new, post_switch>> /\ StepOf(c)
  BY GotoStep, ZenonT(30) DEF Steal, table_vars
<1>2. PICK v \in Cores : v = scan[c]
  BY DEF TypeInv, TypeOK, CoreOK
<1>3. CASE runq[v] = <<>>
  BY <1>1, <1>2, <1>3, IdleStep, QuietStep, ZenonT(30) DEF Steal, Idle
<1>4. CASE runq[v] # <<>>
  <2>1. pc'[c] = "dispatch" /\ cur'[c] = runq[v][Len(runq[v])] /\ pc[c] = "steal"
        /\ runq' = [runq EXCEPT ![v] = Stolen(@)]
    BY <1>2, <1>4, SMTT(30) DEF Steal, Goto, TypeInv, TypeOK, CoreOK
  <2> SUFFICES ASSUME NEW p \in Pids PROVE Placed(p)'
    BY DEF AllPlaced
  <2>2. /\ ~Holds(c, p) /\ (Holds(c, p)' <=> p = runq[v][Len(runq[v])])
        /\ ~Owns(c, p)' /\ ~Owns(c, p) /\ ~Parting(c, p)' /\ ~Inserting(c, p)'
    BY <2>1, PcFacts, ZenonT(30) DEF Holds, Owns, Parting, Inserting
  <2>3. \A d \in Cores \ {c} : SameAt(d, p)
    BY <1>1, Elsewhere, SMTT(30)
  <2> QED
    BY <1>1, <2>2, <2>3, <1>4, <2>1, TicketStolen, Untouched, ZenonT(30) DEF SameAt, AllPlaced
<1> QED
  BY <1>3, <1>4, SMTT(30)

LEMMA SpawnEnqueue_Placed ==
  ASSUME TypeInv, AllPlaced, NEW c \in Cores, SpawnEnqueue(c)
  PROVE  AllPlaced'
<1>1. UNCHANGED <<status, cur, post_switch>> /\ StepOf(c)
  BY GotoStep, ZenonT(30) DEF SpawnEnqueue, table_vars
<1>2. PICK x \in Pids : x = new[c].pid
  BY ZenonT(30) DEF SpawnEnqueue, TypeInv, CurOK
<1>3. pc[c] = "enqueue" /\ pc'[c] = "user" /\ runq' = [runq EXCEPT ![c] = @ \o <<x>>]
  BY <1>2, ZenonT(30) DEF SpawnEnqueue, Enqueue, Goto, TypeInv, TypeOK, CoreOK
<1> SUFFICES ASSUME NEW p \in Pids PROVE Placed(p)'
  BY DEF AllPlaced
<1>4. /\ Holds(c, p) <=> p = x
      /\ ~Holds(c, p)' /\ (Owns(c, p)' <=> Owns(c, p)) /\ ~Parting(c, p)' /\ ~Inserting(c, p)'
  BY <1>1, <1>2, <1>3, PcFacts, ZenonT(30) DEF Holds, Owns, Parting, Inserting
<1>5. \A d \in Cores \ {c} : SameAt(d, p)
  BY <1>1, Elsewhere, SMTT(30)
<1>6. (Queued(p)' <=> Queued(p)) /\ (AtMostOnce(p) => AtMostOnce(p)')
  <2>1. CASE p = x
    BY <1>3, <1>4, <1>5, <2>1, TicketPushed, ZenonT(30) DEF SameAt
  <2>2. CASE p # x
    <3>1. <<x>> \in Seq(Pids) /\ \A i \in 1 .. Len(<<x>>) : <<x>>[i] # p
      BY <2>2, SMTT(30)
    <3> QED
      BY <1>3, <3>1, <1>4, <1>5, <2>2, TicketsPushed, ZenonT(30) DEF SameAt
  <2> QED
    BY <2>1, <2>2
<1> QED
  BY <1>1, <1>4, <1>5, <1>6, Untouched, ZenonT(30) DEF SameAt, AllPlaced

-----------------------------------------------------------------------------
(* The actions that change the state of a process and no queue. *)

\* exit, fatal_current and recv_where's kill check: the process on c is Dead and
\* c is about to leave it.
LEMMA Dies ==
  ASSUME TypeInv, AllPlaced, NEW c \in Cores,
         pc[c] \in {"user", "recv", "quota", "switch"}, Goto(c, "switch"),
         status' = [status EXCEPT ![cur[c]] = "Dead"],
         UNCHANGED <<runq, cur, new, post_switch>>
  PROVE  AllPlaced'
<1>1. PICK x \in Pids : x = cur[c]
  BY PcFacts, SMTT(30) DEF TypeInv, CurOK
<1>2. /\ StepOf(c) /\ pc'[c] = "switch"
      /\ status'[x] = "Dead" /\ \A p \in Pids \ {x} : status'[p] = status[p]
  BY <1>1, GotoStep, ZenonT(30) DEF TypeInv, TypeOK, CoreOK, TableOK, Goto
<1> SUFFICES ASSUME NEW p \in Pids PROVE Placed(p)'
  BY SMTT(30) DEF AllPlaced
<1>3. /\ ~Holds(c, p) /\ ~Holds(c, p)'
      /\ (Owns(c, p)' <=> p = x) /\ (Owns(c, p) <=> p = x)
      /\ (Parting(c, p)' => p = x) /\ ~Inserting(c, p)'
  BY <1>1, <1>2, PcFacts, SMTT(30) DEF Holds, Owns, Parting, Inserting
<1>4. \A d \in Cores \ {c} : SameAt(d, p)
  BY <1>2, Elsewhere, SMTT(30)
<1>5. CASE p = x
  BY <1>2, <1>3, <1>4, <1>5, TicketsSame, ZenonT(30) DEF SameAt, AllPlaced, Placed
<1>6. CASE p # x
  BY <1>2, <1>3, <1>4, <1>6, TicketsSame, Untouched, ZenonT(30) DEF SameAt, AllPlaced
<1> QED
  BY <1>5, <1>6, SMTT(30)

LEMMA DyingActions ==
  ASSUME TypeInv, AllPlaced, NEW c \in Cores,
         (\E why \in Reasons : Exit(c, why)) \/ Fatal(c) \/ RecvKilled(c)
  PROVE  AllPlaced'
BY Dies, ZenonT(30) DEF Exit, Fatal, RecvKilled, InBody, local_vars, queue_vars

LEMMA SpawnTake_Placed ==
  ASSUME TypeInv, AllPlaced, NEW c \in Cores, NEW x \in Pids, SpawnTake(c, x)
  PROVE  AllPlaced'
<1>1. UNCHANGED <<runq, cur, post_switch>> /\ StepOf(c)
  BY GotoStep, ZenonT(30) DEF SpawnTake, queue_vars
<1>2. /\ pc[c] = "spawn" /\ pc'[c] = "insert" /\ new'[c].pid = x
      /\ status[x] = "none" /\ status'[x] = "alloc"
      /\ \A p \in Pids \ {x} : status'[p] = status[p]
  BY ZenonT(30) DEF SpawnTake, Goto, TypeInv, TypeOK, CoreOK, TableOK
<1> SUFFICES ASSUME NEW p \in Pids PROVE Placed(p)'
  BY SMTT(30) DEF AllPlaced
<1>3. /\ ~Holds(c, p) /\ ~Holds(c, p)' /\ (Owns(c, p)' <=> Owns(c, p))
      /\ ~Parting(c, p)' /\ (Inserting(c, p)' <=> p = x)
  BY <1>1, <1>2, PcFacts, SMTT(30) DEF Holds, Owns, Parting, Inserting
<1>4. \A d \in Cores \ {c} : SameAt(d, p)
  BY <1>1, Elsewhere, SMTT(30)
<1>5. CASE p = x
  BY <1>2, <1>3, <1>4, <1>1, TicketsSame, <1>5, ZenonT(30) DEF SameAt, AllPlaced, Placed
<1>6. CASE p # x
  BY <1>2, <1>3, <1>4, <1>1, TicketsSame, <1>6, Untouched, ZenonT(30) DEF SameAt, AllPlaced
<1> QED
  BY <1>5, <1>6, SMTT(30)

LEMMA SpawnInsert_Placed ==
  ASSUME TypeInv, AllPlaced, NEW c \in Cores, SpawnInsert(c)
  PROVE  AllPlaced'
<1>1. UNCHANGED <<runq, cur, new, post_switch>> /\ StepOf(c)
  BY GotoStep, ZenonT(30) DEF SpawnInsert, queue_vars, local_vars
<1>2. PICK x \in Pids : x = new[c].pid
  BY ZenonT(30) DEF SpawnInsert, TypeInv, CurOK
<1>3. /\ pc[c] = "insert" /\ pc'[c] = "enqueue" /\ status'[x] = "Runnable"
      /\ \A p \in Pids \ {x} : status'[p] = status[p]
  BY <1>2, ZenonT(30) DEF SpawnInsert, Goto, TypeInv, TypeOK, CoreOK, TableOK
<1> SUFFICES ASSUME NEW p \in Pids PROVE Placed(p)'
  BY DEF AllPlaced
<1>4. /\ ~Holds(c, p) /\ (Holds(c, p)' <=> p = x) /\ (Owns(c, p)' <=> Owns(c, p))
      /\ ~Parting(c, p)' /\ (Inserting(c, p) <=> p = x) /\ ~Inserting(c, p)'
  BY <1>1, <1>2, <1>3, PcFacts, ZenonT(30) DEF Holds, Owns, Parting, Inserting
<1>5. \A d \in Cores \ {c} : SameAt(d, p)
  BY <1>1, Elsewhere, SMTT(30)
<1>6. CASE p = x
  BY <1>3, <1>4, <1>5, <1>6, <1>1, TicketMade, ZenonT(30) DEF SameAt, AllPlaced, Placed
<1>7. CASE p # x
  BY <1>3, <1>4, <1>5, <1>7, <1>1, TicketsSame, Untouched, ZenonT(30) DEF SameAt, AllPlaced
<1> QED
  BY <1>6, <1>7, SMTT(30)

-----------------------------------------------------------------------------
(* The actions that queue processes. *)

\* A process is left alone, woken and queued, or killed and queued.
LEMMA Pushed ==
  ASSUME TypeInv, NEW p \in Pids, Placed(p), NEW c \in Cores, NEW s \in Seq(Pids),
         runq' = [runq EXCEPT ![c] = @ \o s], \A d \in Cores : SameAt(d, p),
         \/ /\ status'[p] = status[p] /\ \A i \in 1 .. Len(s) : s[i] # p
         \/ /\ status[p] = "Waiting" /\ status'[p] = "Runnable"
            /\ \E i \in 1 .. Len(s) : s[i] = p
            /\ \A i, j \in 1 .. Len(s) : s[i] = p /\ s[j] = p => i = j
         \/ /\ status[p] \in {"Runnable", "Waiting"} /\ status'[p] = "Dead"
            /\ \E i \in 1 .. Len(s) : s[i] = p
  PROVE  Placed(p)'
<1>1. /\ Queued(p) => Queued(p)'
      /\ (\E i \in 1 .. Len(s) : s[i] = p) => Queued(p)'
      /\ (\A i \in 1 .. Len(s) : s[i] # p) =>
           (Queued(p)' => Queued(p)) /\ (AtMostOnce(p) => AtMostOnce(p)')
      /\ ~Queued(p) /\ (\A i, j \in 1 .. Len(s) : s[i] = p /\ s[j] = p => i = j)
           => AtMostOnce(p)'
  <2>1. \A d \in Cores : Holds(d, p)' <=> Holds(d, p)
    BY ZenonT(30) DEF SameAt
  <2> QED
    BY <2>1, TicketsPushed, ZenonT(30)
<1>2. \A d \in Cores : /\ Owns(d, p)' <=> Owns(d, p)
                       /\ Parting(d, p)' => Parting(d, p)
                       /\ Inserting(d, p)' => Inserting(d, p)
  BY ZenonT(30) DEF SameAt
<1>3. CASE status'[p] = status[p] /\ \A i \in 1 .. Len(s) : s[i] # p
  BY <1>1, <1>2, <1>3, Untouched, ZenonT(30)
<1>4. CASE /\ status[p] = "Waiting" /\ status'[p] = "Runnable"
           /\ \E i \in 1 .. Len(s) : s[i] = p
           /\ \A i, j \in 1 .. Len(s) : s[i] = p /\ s[j] = p => i = j
  BY <1>2, <1>4, <1>1, ZenonT(30) DEF Placed
<1>5. CASE /\ status[p] \in {"Runnable", "Waiting"} /\ status'[p] = "Dead"
           /\ \E i \in 1 .. Len(s) : s[i] = p
  BY <1>2, <1>5, <1>1, ZenonT(30) DEF Placed
<1> QED
  BY <1>3, <1>4, <1>5, ZenonT(30)

\* deliver_fragment
LEMMA Deliver_Placed ==
  ASSUME TypeInv, AllPlaced, NEW c \in Cores, NEW to \in Pids, NEW m, Deliver(c, to, m),
         UNCHANGED core_vars
  PROVE  AllPlaced'
<1> SUFFICES ASSUME NEW p \in Pids PROVE Placed(p)'
  BY DEF AllPlaced
<1>1. PICK s \in Seq(Pids) : s = IF status[to] = "Waiting" THEN <<to>> ELSE <<>>
  <2>1. <<to>> \in Seq(Pids) /\ <<>> \in Seq(Pids)
    OBVIOUS
  <2> QED
    BY <2>1, ZenonT(30)
<1>2. \A d \in Cores : SameAt(d, p)
  BY StaysPut, SMTT(30) DEF core_vars, local_vars
<1>3. \/ status'[p] = status[p] /\ \A i \in 1 .. Len(s) : s[i] # p
      \/ status[p] = "Waiting" /\ status'[p] = "Runnable" /\ s = <<p>>
  BY <1>1, SMTT(30) DEF Deliver, TypeInv, TypeOK, TableOK
<1>4. s = <<p>> => /\ \E i \in 1 .. Len(s) : s[i] = p
                   /\ \A i, j \in 1 .. Len(s) : s[i] = p /\ s[j] = p => i = j
  OBVIOUS
<1> QED
  BY <1>1, <1>2, <1>3, <1>4, Pushed, ZenonT(30) DEF AllPlaced, Deliver, Enqueue

LEMMA BodyActions ==
  ASSUME TypeInv, AllPlaced, NEW c \in Cores, NEW p \in Pids,
         (\E k \in Kinds : Send(c, p, k)) \/ Monitor(c, p) \/ Grow(c)
  PROVE  AllPlaced'
<1>1. PICK x \in Pids : Monitor(c, p) => x = cur[c]
  BY PcFacts, ZenonT(30) DEF Monitor, InBody, TypeInv, CurOK
<1>2. CASE UNCHANGED <<status, runq>>
  BY <1>2, StaysPut, QuietStep, ZenonT(30) DEF core_vars, local_vars, StepOf, Send, Monitor, Grow
<1>3. \/ UNCHANGED <<status, runq>>
      \/ \E to \in Pids : \E m : Deliver(c, to, m)
  <2>1. CASE \E k \in Kinds : Send(c, p, k)
    BY <2>1, ZenonT(30) DEF Send
  <2>2. CASE Monitor(c, p)
    BY <1>1, <2>2, ZenonT(30) DEF Monitor, queue_vars
  <2>3. CASE Grow(c)
    BY <2>3, ZenonT(30) DEF Grow, table_vars, queue_vars
  <2> QED
    BY <2>1, <2>2, <2>3, SMTT(30)
<1> QED
  BY <1>2, <1>3, Deliver_Placed, ZenonT(30) DEF Send, Monitor, Grow

LEMMA Kill_Placed ==
  ASSUME TypeInv, AllPlaced, NEW c \in Cores, NEW x \in Pids, Kill(c, x)
  PROVE  AllPlaced'
<1> SUFFICES ASSUME NEW p \in Pids PROVE Placed(p)'
  BY DEF AllPlaced
<1>1. PICK s \in Seq(Pids) : s = IF OffCpu(x) THEN <<x>> ELSE <<>>
  <2>1. <<x>> \in Seq(Pids) /\ <<>> \in Seq(Pids)
    BY SMTT(30)
  <2> QED
    BY <2>1, ZenonT(30)
<1>2. \/ status'[p] = status[p] /\ \A i \in 1 .. Len(s) : s[i] # p
      \/ status[p] \in {"Runnable", "Waiting"} /\ status'[p] = "Dead" /\ s = <<p>>
  BY <1>1, SMTT(30) DEF Kill, MarkDead, OffCpu, TypeInv, TypeOK, TableOK
<1>3. s = <<p>> => \E i \in 1 .. Len(s) : s[i] = p
  OBVIOUS
<1> QED
  BY <1>1, StaysPut, <1>2, <1>3, Pushed, ZenonT(30) DEF AllPlaced, Kill, MarkDead, Enqueue, core_vars, local_vars

LEMMA WakeSleepers_Placed ==
  ASSUME SetFacts, TypeInv, AllPlaced, NEW c \in Cores, WakeSleepers(c)
  PROVE  AllPlaced'
<1> SUFFICES ASSUME NEW p \in Pids PROVE Placed(p)'
  BY DEF AllPlaced
<1>1. PICK S \in SUBSET Pids : S = {q \in due : status[q] = "Waiting"}
  BY ZenonT(30) DEF TypeInv, TypeOK, TimerOK
<1>2. PICK s \in Orders(S) : Enqueue(c, s)
  BY <1>1, ZenonT(30) DEF WakeSleepers
<1>3. StepOf(c) /\ \A d \in Cores : SameAt(d, p)
  BY GotoStep, IdleStep, Elsewhere, ZenonT(30) DEF WakeSleepers, local_vars, Idle
<1>4. \/ status'[p] = status[p] /\ p \notin S
      \/ status[p] = "Waiting" /\ status'[p] = "Runnable" /\ p \in S
  BY <1>1, ZenonT(30) DEF WakeSleepers, TypeInv, TypeOK, TableOK
<1>5. /\ p \notin S => \A i \in 1 .. Len(s) : s[i] # p
      /\ p \in S => /\ \E i \in 1 .. Len(s) : s[i] = p
                    /\ \A i, j \in 1 .. Len(s) : s[i] = p /\ s[j] = p => i = j
  BY SeqMonotone, SMTT(30) DEF SetFacts, Ordered
<1> QED
  BY <1>3, <1>4, <1>2, <1>5, SeqMonotone, Pushed, ZenonT(30) DEF Enqueue, AllPlaced, SetFacts, Ordered

-----------------------------------------------------------------------------
(* The actions that reap, dispatch or requeue a process. *)

\* reap removes x, wakes the watchers and kills the linked processes.
LEMMA Reap_Placed ==
  ASSUME SetFacts, TypeInv, AllPlaced, NEW c \in Cores, NEW x \in Pids, Reap(c, x),
         NEW p \in Pids \ {x}, \A d \in Cores : SameAt(d, p)
  PROVE  Placed(p)'
<1>1. PICK W \in SUBSET Pids, K \in SUBSET Pids : W = Woken(x) /\ K = Slain(x)
  BY ZenonT(30) DEF Woken, Slain, Watching, Linked, TypeInv, TypeOK, TableOK
<1>2. PICK s \in Orders(W), t \in Orders(K) : Enqueue(c, s \o t)
  BY <1>1, ZenonT(30) DEF Reap
<1>3. /\ s \in Seq(Pids) /\ \A i \in 1 .. Len(s) : s[i] \in W
      /\ \A i, j \in 1 .. Len(s) : s[i] = s[j] => i = j
      /\ \A y \in W : \E i \in 1 .. Len(s) : s[i] = y
  BY SeqMonotone, SMTT(30) DEF SetFacts, Ordered
<1>4. /\ t \in Seq(Pids) /\ \A i \in 1 .. Len(t) : t[i] \in K
      /\ \A y \in K : \E i \in 1 .. Len(t) : t[i] = y
  BY SeqMonotone DEF SetFacts, Ordered
<1>5. PICK u \in Seq(Pids) : u = s \o t
  BY <1>3, <1>4, Appended, ZenonT(30)
<1>6. Joins(s, t, u, p)
  BY <1>3, <1>4, <1>5, Appended, ZenonT(30)
<1>7. /\ p \notin W => \A i \in 1 .. Len(s) : s[i] # p
      /\ p \notin K => \A i \in 1 .. Len(t) : t[i] # p
      /\ \A i, j \in 1 .. Len(s) : s[i] = p /\ s[j] = p => i = j
  BY <1>3, <1>4, SMTT(30)
<1>8. p \notin W \cup K => \A i \in 1 .. Len(u) : u[i] # p
  BY <1>6, <1>7, ZenonT(30) DEF Joins
<1>9. p \in W \cup K => \E i \in 1 .. Len(u) : u[i] = p
  BY <1>3, <1>4, <1>6, ZenonT(30) DEF Joins
<1>10. p \notin K => \A i, j \in 1 .. Len(u) : u[i] = p /\ u[j] = p => i = j
  BY <1>6, <1>7, ZenonT(30) DEF Joins
<1>11. \/ status'[p] = status[p] /\ p \notin W \cup K
       \/ status[p] = "Waiting" /\ status'[p] = "Runnable" /\ p \in W /\ p \notin K
       \/ status[p] \in {"Runnable", "Waiting"} /\ status'[p] = "Dead" /\ p \in K
  BY <1>1, ZenonT(30) DEF Reap, Woken, Slain, OffCpu, TypeInv, TypeOK, TableOK
<1> QED
  BY <1>8, <1>9, <1>10, <1>11, <1>2, <1>5, Pushed, ZenonT(30) DEF Enqueue, AllPlaced

LEMMA Dispatch_Placed ==
  ASSUME SetFacts, TypeInv, AllPlaced, NEW c \in Cores, Dispatch(c)
  PROVE  AllPlaced'
<1>1. PICK x \in Pids : x = cur[c]
  BY PcFacts, ZenonT(30) DEF Dispatch, TypeInv, CurOK
<1>2. pc[c] = "dispatch" /\ StepOf(c) /\ UNCHANGED new
  <2>1. CASE status[x] = "Runnable"
    BY <1>1, <2>1, GotoStep, ZenonT(30) DEF Dispatch
  <2>2. CASE status[x] = "Dead"
    BY <1>1, <2>2, GotoStep, ZenonT(30) DEF Dispatch
  <2>3. CASE status[x] \notin {"Runnable", "Dead"}
    BY <1>1, <2>3, GotoStep, ZenonT(30) DEF Dispatch
  <2> QED
    BY <2>1, <2>2, <2>3, ZenonT(30) DEF Dispatch
<1>3. Holds(c, x) /\ Queued(x)
  BY <1>1, <1>2, Dispatching, ZenonT(30)
<1> SUFFICES ASSUME NEW p \in Pids PROVE Placed(p)'
  BY DEF AllPlaced
<1>4. ~Owns(c, p) /\ ~Parting(c, p) /\ ~Inserting(c, p) /\ (p # x => ~Holds(c, p))
  BY <1>1, <1>2, Dispatching, ZenonT(30)
<1>5. \A d \in Cores \ {c} : SameAt(d, p)
  BY <1>2, Elsewhere, SMTT(30)
<1>6. CASE status[x] = "Runnable"
  <2>1. /\ pc'[c] = "enter" /\ cur' = cur /\ UNCHANGED runq /\ status'[x] = "Running"
        /\ \A q \in Pids \ {x} : status'[q] = status[q]
    <3>1. /\ status' = [status EXCEPT ![x] = "Running"] /\ Goto(c, "enter")
          /\ UNCHANGED <<cur, runq>>
      BY <1>1, <1>6, ZenonT(30) DEF Dispatch, queue_vars
    <3> QED
      BY <3>1, ZenonT(30) DEF Goto, TypeInv, TypeOK, CoreOK, TableOK
  <2>2. /\ ~Holds(c, p)' /\ (Owns(c, p)' <=> p = x) /\ ~Parting(c, p)' /\ ~Inserting(c, p)'
    BY <1>1, <2>1, EntersNext, ZenonT(30)
  <2>3. CASE p = x
    <3>1. ~Queued(p)'
      BY <1>3, <1>5, <1>6, <2>1, <2>2, <2>3, TicketConsumed, ZenonT(30) DEF SameAt, AllPlaced, Placed
    <3>2. \A d \in Cores : ~Owns(d, p)
      BY <1>3, <2>3, SMTT(30) DEF AllPlaced, Placed
    <3> QED
      BY <1>5, <1>6, <2>1, <2>2, <2>3, <3>1, <3>2, ZenonT(30) DEF SameAt, AllPlaced, Placed
  <2>4. CASE p # x
    BY <1>4, <1>5, <2>1, <2>2, <2>4, TicketsSame, Untouched, ZenonT(30) DEF SameAt, AllPlaced
  <2> QED
    BY <2>3, <2>4, SMTT(30)
<1>7. CASE status[x] = "Dead"
  <2>1. pc'[c] = "finalize" /\ Reap(c, x)
    BY <1>1, <1>7, ZenonT(30) DEF Dispatch, Goto, TypeInv, TypeOK, CoreOK
  <2>2. CASE p = x
    <3>1. \A d \in Cores : ~Owns(d, p)' /\ ~Inserting(d, p)' /\ ~Parting(d, p)'
      <4>1. ~Owns(c, p)' /\ ~Inserting(c, p)' /\ ~Parting(c, p)'
        BY <2>1, EmptyHanded, ZenonT(30) DEF Idle
      <4>2. \A d \in Cores : ~Owns(d, p) /\ ~Inserting(d, p)
        BY <1>3, <1>7, <2>2, SMTT(30) DEF AllPlaced, Placed
      <4> QED
        BY <1>5, <4>1, <4>2, PartingOwns, ZenonT(30) DEF SameAt
    <3> QED
      BY <2>1, <2>2, <3>1, ZenonT(30) DEF Placed, Reap
  <2>3. CASE p # x
    <3>1. SameAt(c, p)
      BY <1>4, <2>1, <2>3, EmptyHanded, ZenonT(30) DEF SameAt, Idle
    <3> QED
      BY <2>1, <2>3, <1>5, <3>1, Reap_Placed, ZenonT(30)
  <2> QED
    BY <2>2, <2>3
<1>8. CASE status[x] \notin {"Runnable", "Dead"}
  <2>1. /\ pc'[c] \in {"top", "pop"} /\ UNCHANGED <<runq, status>> /\ status[x] = "gone"
    <3>1. status[x] = "gone"
      BY <1>3, <1>8, ZenonT(30) DEF AllPlaced, Placed, TypeInv, TypeOK, TableOK, Present
    <3> QED
      <4>1. Goto(c, Top(c)) /\ UNCHANGED <<runq, status>>
        BY <1>1, <1>8, ZenonT(30) DEF Dispatch, queue_vars, table_vars
      <4> QED
        BY <3>1, <4>1, PcFacts, ZenonT(30) DEF Goto, TypeInv, TypeOK, CoreOK
  <2>2. ~Holds(c, p)' /\ ~Owns(c, p)' /\ ~Parting(c, p)' /\ ~Inserting(c, p)'
    BY <2>1, EmptyHanded, ZenonT(30) DEF Idle
  <2>3. CASE p = x
    BY <1>5, <2>1, <2>2, <2>3, ZenonT(30) DEF SameAt, AllPlaced, Placed
  <2>4. CASE p # x
    BY <1>4, <1>5, <2>1, <2>2, <2>4, TicketsSame, Untouched, ZenonT(30) DEF SameAt, AllPlaced
  <2> QED
    BY <2>3, <2>4
<1> QED
  BY <1>6, <1>7, <1>8, SMTT(30)

LEMMA Singleton ==
  ASSUME NEW p
  PROVE  /\ \E i \in 1 .. Len(<<p>>) : <<p>>[i] = p
         /\ \A i, j \in 1 .. Len(<<p>>) : <<p>>[i] = p /\ <<p>>[j] = p => i = j
OBVIOUS

LEMMA PostSwitch_Placed ==
  ASSUME SetFacts, TypeInv, AllPlaced, NEW c \in Cores, PostSwitch(c)
  PROVE  AllPlaced'
<1>1. PICK x \in Pids : x = cur[c]
  BY PcFacts, ZenonT(30) DEF PostSwitch, TypeInv, CurOK
<1>2. pc[c] = "out" /\ StepOf(c)
  <2>1. CASE Doomed(c)
    BY <2>1, GotoStep, ZenonT(30) DEF PostSwitch
  <2>2. CASE ~Doomed(c)
    BY <2>2, GotoStep, ZenonT(30) DEF PostSwitch
  <2> QED
    BY <2>1, <2>2, ZenonT(30) DEF PostSwitch
<1>3. /\ Owns(c, x) /\ status[x] \in {"Running", "Dead"} /\ ~Queued(x)
      /\ (Parting(c, x) => status[x] = "Dead")
      /\ \A d \in Cores \ {c} : ~Owns(d, x) /\ ~Inserting(d, x)
  <2>1. Owns(c, x)
    BY <1>1, <1>2, SwitchedOut, ZenonT(30)
  <2>2. Placed(x)
    BY ZenonT(30) DEF AllPlaced
  <2> QED
    BY <2>1, <2>2, SMTT(30) DEF Placed
<1> SUFFICES ASSUME NEW p \in Pids PROVE Placed(p)'
  BY DEF AllPlaced
<1>4. pc'[c] \in {"finalize", "top", "pop"}
  <2>1. Goto(c, "finalize") \/ Goto(c, Top(c))
    BY ZenonT(30) DEF PostSwitch
  <2> QED
    BY <2>1, PcFacts, ZenonT(30) DEF Goto, TypeInv, TypeOK, CoreOK
<1>5. ~Holds(c, p)' /\ ~Owns(c, p)' /\ ~Parting(c, p)' /\ ~Inserting(c, p)'
  BY <1>4, EmptyHanded, ZenonT(30) DEF Idle
<1>6. \A d \in Cores \ {c} : SameAt(d, p)
  BY <1>2, Elsewhere, SMTT(30)
<1>7. p # x => \A d \in Cores : SameAt(d, p)
  BY <1>1, <1>2, <1>5, <1>6, SwitchedOut, ZenonT(30) DEF SameAt
<1>8. p = x => \A d \in Cores : ~Owns(d, p)' /\ ~Inserting(d, p)' /\ ~Parting(d, p)'
  BY <1>3, <1>5, <1>6, PartingOwns, ZenonT(30) DEF SameAt
<1>9. CASE Doomed(c)
  <2>1. CASE p = x
    BY <1>8, <2>1, <1>1, <1>9, ZenonT(30) DEF Placed, Reap, PostSwitch
  <2>2. CASE p # x
    BY <1>7, <1>1, <1>9, <2>2, Reap_Placed, ZenonT(30) DEF PostSwitch
  <2> QED
    BY <2>1, <2>2
<1>10. CASE ~Doomed(c)
  <2>1. PICK s \in Seq(Pids) : s = Requeued(c)
    <3>1. <<x>> \in Seq(Pids) /\ <<>> \in Seq(Pids)
      OBVIOUS
    <3> QED
      BY <1>1, <3>1, ZenonT(30) DEF Requeued
  <2>2. status' = [status EXCEPT ![x] = Deferred(c)] /\ Enqueue(c, s)
    BY <1>1, <1>10, <1>2, <1>3, <2>1, ZenonT(30) DEF PostSwitch, Doomed, Parting
  <2>3. /\ runq' = [runq EXCEPT ![c] = @ \o s] /\ status'[x] = Deferred(c)
        /\ (p # x => status'[p] = status[p])
    BY <2>2, ZenonT(30) DEF Enqueue, TypeInv, TypeOK, TableOK
  <2>4. \/ Deferred(c) = "Runnable" /\ s = <<x>>
        \/ Deferred(c) = "Waiting" /\ s = <<>>
    BY <1>1, <2>1, ZenonT(30) DEF Deferred, Requeued
  <2>5. CASE p = x
    <3>1. \A d \in Cores : Holds(d, p)' <=> Holds(d, p)
      BY <1>1, <1>2, <1>5, <1>6, SwitchedOut, ZenonT(30) DEF SameAt
    <3>2. Deferred(c) = "Runnable" => Queued(p)' /\ AtMostOnce(p)'
      <4>1. Deferred(c) = "Runnable" => /\ \E i \in 1 .. Len(s) : s[i] = p
                                        /\ \A i, j \in 1 .. Len(s) : s[i] = p /\ s[j] = p => i = j
        BY <2>4, <2>5, Singleton, ZenonT(30)
      <4>2. ~Queued(p)
        BY <1>3, <2>5, SMTT(30)
      <4> QED
        BY <2>3, <3>1, <4>1, <4>2, TicketsPushed, ZenonT(30)
    <3>3. Deferred(c) = "Waiting" => ~Queued(p)'
      <4>1. Deferred(c) = "Waiting" => \A i \in 1 .. Len(s) : s[i] # p
        BY <2>4
      <4> QED
        BY <2>3, <3>1, <4>1, <1>3, <2>5, TicketsPushed, ZenonT(30)
    <3> QED
      BY <1>8, <2>3, <2>4, <2>5, <3>2, <3>3, ZenonT(30) DEF Placed
  <2>6. CASE p # x
    <3>1. \A i \in 1 .. Len(s) : s[i] # p
      BY <2>4, <2>6
    <3> QED
      BY <1>7, <2>3, <2>6, <3>1, Pushed, ZenonT(30) DEF AllPlaced
  <2> QED
    BY <2>5, <2>6, SMTT(30)
<1> QED
  BY <1>9, <1>10, SMTT(30)
=============================================================================
