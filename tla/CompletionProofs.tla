--------------------------- MODULE CompletionProofs ---------------------------
(***************************************************************************)
(* What a run that ends with search_finished has saved and searched, for   *)
(* any number of workers, runs and faults.                                 *)
(*                                                                         *)
(* The argument: a run is started with one payload per worker, and each    *)
(* payload becomes at most one FINISHED message, whichever worker takes    *)
(* it.  Payloads on their way, workers that serve one, FINISHED messages   *)
(* sent and those counted are the tickets of the run, and they never       *)
(* outnumber the pool (TicketInv).  So when the listener has counted one   *)
(* per worker, nobody serves the run any more and, as a worker flushes     *)
(* before it finishes, no batch of the run is on its way.  While no ticket *)
(* is lost, no claim of the ledger is lost either: WholeInv, for a         *)
(* user who waits for the end of a run before the next one.                *)
(*                                                                         *)
(* What it has searched: a feeder puts its work units before the None      *)
(* sentinels, so a sentinel is only ever followed by sentinels, and a      *)
(* worker that takes one leaves no unit behind it.  A worker leaves the    *)
(* units of a run only over a sentinel or over the cancel event (CalmInv), *)
(* and the event is set only by the user, by a new run or at the result    *)
(* limit.  Every unit fed is in the queue, with a worker that serves the   *)
(* run, or searched (PlacedInv), as long as no ticket is lost.             *)
(***************************************************************************)
EXTENDS SchedulerPoolProofs

-----------------------------------------------------------------------------
(* The tickets of a run *)

\* The tuples only abbreviate UNCHANGED.
USE DEF guiVars, sharedVars, queueVars, workerVars, listenerVars, feederVars, historyVars

TicketIds == {"payload", "serving", "sent", "counted"} \X (Nat \cup Producers) \X Nat

PayloadTicket(t, r) ==
    t[1] = "payload" /\ t[2] \in 1 .. Len(controlQ) /\ t[3] = 0 /\ controlQ[t[2]] = r
ServingTicket(t, r) ==
    t[1] = "serving" /\ t[2] \in Workers /\ t[3] = 0 /\ wpc[t[2]] \in Serving /\ wrun[t[2]] = r
SentTicket(t, r) ==
    /\ t[1] = "sent" /\ t[2] \in Producers /\ t[3] \in 1 .. Len(resultQ[t[2]])
    /\ resultQ[t[2]][t[3]].type = "FINISHED" /\ resultQ[t[2]][t[3]].tag = r
CountedTicket(t, r) ==
    t[1] = "counted" /\ t[2] \in 1 .. finishes[r] /\ t[3] = 0

TicketsOf(r) ==
    {t \in TicketIds : PayloadTicket(t, r) \/ ServingTicket(t, r)
                       \/ SentTicket(t, r) \/ CountedTicket(t, r)}

\* No run has more tickets than it was given payloads.
TicketInv ==
    \A r \in Runs : IsFiniteSet(TicketsOf(r)) /\ Cardinality(TicketsOf(r)) <= PoolSize

\* A run that was not started yet has left no trace.
FreshInv ==
    /\ \A r \in Runs : r > runIdHolder => listener[r] = "none" /\ finishes[r] = 0 /\ feeder[r] = "none"
    /\ \A p \in Producers : \A k \in 1 .. Len(resultQ[p]) : resultQ[p][k].tag <= runIdHolder

-----------------------------------------------------------------------------
(* Moving tickets *)

\* A step loses tickets at most when every ticket after it can be traced to one
\* before it, no two of them to one; if there are as many as before, none was lost.
LEMMA TicketsMove ==
  ASSUME NEW r, IsFiniteSet(TicketsOf(r)),
         NEW from \in [TicketsOf(r)' -> TicketsOf(r)],
         \A t, u \in TicketsOf(r)' : from[t] = from[u] => t = u
  PROVE  /\ IsFiniteSet(TicketsOf(r)')
         /\ Cardinality(TicketsOf(r)') <= Cardinality(TicketsOf(r))
         /\ Cardinality(TicketsOf(r)') = Cardinality(TicketsOf(r))
              => \A t \in TicketsOf(r) : \E u \in TicketsOf(r)' : from[u] = t
  <1>1. from \in Injection(TicketsOf(r)', TicketsOf(r))
    BY Fun_IsInj
  <1>2. from \in Surjection(TicketsOf(r)', TicketsOf(r))
          => \A t \in TicketsOf(r) : \E u \in TicketsOf(r)' : from[u] = t
    BY Fun_SurjectionProperties
  <1> QED BY <1>1, <1>2, FS_Injection

\* What a step may do to the tickets of a run; the third is for a ticket that is lost.
FewerTickets(r) ==
    IsFiniteSet(TicketsOf(r)') /\ Cardinality(TicketsOf(r)') <= Cardinality(TicketsOf(r))
LostTicket(r) == Cardinality(TicketsOf(r)') # Cardinality(TicketsOf(r))

\* When tickets are only given up, having as many means having the same.
LEMMA TicketsGoneBy ==
  ASSUME NEW r, IsFiniteSet(TicketsOf(r)), TicketsOf(r)' \subseteq TicketsOf(r)
  PROVE  FewerTickets(r) /\ (LostTicket(r) \/ TicketsOf(r)' = TicketsOf(r))
  <1>1. TicketsOf(r)' \in SUBSET TicketsOf(r)
    OBVIOUS
  <1> QED BY <1>1, FS_Subset DEF FewerTickets, LostTicket

\* The workers that go on serving.
ServingKept ==
    \A w \in Workers : wpc'[w] \in Serving => wpc[w] \in Serving /\ wrun'[w] = wrun[w]

\* The payloads of a run stay where they are.
NoPayloadAdded(r) ==
    \A i \in 1 .. Len(controlQ') : controlQ'[i] = r => i \in 1 .. Len(controlQ) /\ controlQ[i] = r

\* A step that touches neither result queue nor count.
LEMMA QuietTickets ==
  ASSUME ServingKept, UNCHANGED <<resultQ, finishes>>,
         NEW r, IsFiniteSet(TicketsOf(r)), NoPayloadAdded(r)
  PROVE  FewerTickets(r) /\ (LostTicket(r) \/ TicketsOf(r)' = TicketsOf(r))
  <1>1. ASSUME NEW t \in TicketsOf(r)' PROVE t \in TicketsOf(r)
    <2>1. CASE PayloadTicket(t, r)' \/ SentTicket(t, r)' \/ CountedTicket(t, r)'
      BY <2>1 DEF TicketsOf, PayloadTicket, SentTicket, CountedTicket, NoPayloadAdded
    <2>2. CASE ServingTicket(t, r)'
      BY <2>2 DEF TicketsOf, ServingTicket, ServingKept
    <2> QED BY <2>1, <2>2 DEF TicketsOf
  <1> QED BY <1>1, TicketsGoneBy

\* A drain loses the tickets that were sent.
LEMMA DrainTickets ==
  ASSUME TypeOK, ServingKept, DrainResults, UNCHANGED finishes,
         NEW r \in Runs, IsFiniteSet(TicketsOf(r)), NoPayloadAdded(r)
  PROVE  FewerTickets(r)
  <1>1. resultQ \in [Producers -> Seq(Messages)]
    BY DEF TypeOK, QueueTypeOK
  <1>2. PICK skip \in [Producers -> 0 .. QueueCap] :
          /\ \A p \in Producers : skip[p] <= Len(resultQ[p])
          /\ resultQ' = [p \in Producers |-> SubSeq(resultQ[p], skip[p] + 1, Len(resultQ[p]))]
    BY DEF DrainResults
  <1>3. ASSUME NEW p \in Producers
        PROVE  /\ skip[p] \in Nat
               /\ Len(resultQ'[p]) = Len(resultQ[p]) - skip[p]
               /\ \A k \in 1 .. Len(resultQ'[p]) :
                     /\ resultQ'[p][k] = resultQ[p][k + skip[p]]
                     /\ k + skip[p] \in 1 .. Len(resultQ[p])
    <2>1. /\ skip[p] \in Nat /\ Len(resultQ[p]) \in Nat
          /\ Len(resultQ'[p]) = Len(resultQ[p]) - skip[p]
          /\ \A k \in 1 .. Len(resultQ'[p]) : resultQ'[p][k] = resultQ[p][k + skip[p]]
      BY <1>1, <1>2, PoolAssumption
    <2> QED BY <2>1
  <1> DEFINE From(t) == IF t[1] = "sent" THEN <<"sent", t[2], t[3] + skip[t[2]]>> ELSE t
             from == [t \in TicketsOf(r)' |-> From(t)]
  <1>4. ASSUME NEW t \in TicketsOf(r)' PROVE From(t) \in TicketsOf(r)
    <2>1. CASE PayloadTicket(t, r)' \/ CountedTicket(t, r)'
      BY <2>1 DEF TicketsOf, PayloadTicket, CountedTicket, NoPayloadAdded
    <2>2. CASE ServingTicket(t, r)'
      BY <2>2 DEF TicketsOf, ServingTicket, ServingKept
    <2>3. CASE SentTicket(t, r)'
      <3>1. t[1] = "sent" /\ t[2] \in Producers /\ t[3] \in 1 .. Len(resultQ'[t[2]]) /\ t[3] \in Nat
            /\ resultQ'[t[2]][t[3]].type = "FINISHED" /\ resultQ'[t[2]][t[3]].tag = r
        BY <2>3 DEF SentTicket, TicketsOf, TicketIds
      <3>2. /\ skip[t[2]] \in Nat /\ t[3] + skip[t[2]] \in 1 .. Len(resultQ[t[2]])
            /\ resultQ'[t[2]][t[3]] = resultQ[t[2]][t[3] + skip[t[2]]]
        BY <3>1, <1>3
      <3> QED BY <3>1, <3>2 DEF SentTicket, TicketsOf, TicketIds
    <2> QED BY <2>1, <2>2, <2>3 DEF TicketsOf
  <1>5. ASSUME NEW t \in TicketsOf(r)', NEW u \in TicketsOf(r)', From(t) = From(u) PROVE t = u
    <2>1. t \in TicketIds /\ u \in TicketIds
      BY DEF TicketsOf
    <2>2. t[1] = u[1] /\ t[2] = u[2]
      BY <1>5, <2>1 DEF TicketIds
    <2>3. CASE t[1] = "sent"
      <3>1. t[2] \in Producers
        BY <2>3 DEF TicketsOf, PayloadTicket, ServingTicket, SentTicket, CountedTicket
      <3>2. skip[t[2]] \in Nat /\ t[3] \in Nat /\ u[3] \in Nat
        BY <3>1, <1>3, <2>1 DEF TicketIds
      <3>3. t[3] + skip[t[2]] = u[3] + skip[t[2]]
        BY <1>5, <2>2, <2>3
      <3>4. t[3] = u[3]
        BY <3>2, <3>3
      <3> QED BY <2>1, <2>2, <3>4 DEF TicketIds
    <2>4. CASE t[1] # "sent"
      BY <1>5, <2>2, <2>4
    <2> QED BY <2>3, <2>4
  <1>6. from \in [TicketsOf(r)' -> TicketsOf(r)]
    BY <1>4
  <1>7. \A t, u \in TicketsOf(r)' : from[t] = from[u] => t = u
    BY <1>5
  <1> HIDE DEF from, From
  <1> QED BY <1>6, <1>7, TicketsMove DEF FewerTickets

\* A message that is no FINISHED, or a FINISHED by the worker that served the run.
LEMMA SendTickets ==
  ASSUME TypeOK, UNCHANGED <<controlQ, finishes>>,
         NEW p \in Producers, NEW m \in Messages, Send(p, m),
         NEW r, IsFiniteSet(TicketsOf(r)),
         \A w \in Workers \ {p} : wpc'[w] \in Serving => wpc[w] \in Serving /\ wrun'[w] = wrun[w],
         \/ /\ m.type # "FINISHED"
            /\ p \in Workers /\ wpc'[p] \in Serving => wpc[p] \in Serving /\ wrun'[p] = wrun[p]
         \/ p \in Workers /\ wpc[p] \in Serving /\ wrun[p] = m.tag /\ wpc'[p] \notin Serving
  PROVE  /\ FewerTickets(r)
         /\ p \in Workers /\ wpc[p] \in Serving /\ wrun[p] = r /\ wpc'[p] \notin Serving
              /\ m.type # "FINISHED" => LostTicket(r)
  <1> DEFINE last == Len(resultQ[p]) + 1
  <1>1. /\ resultQ \in [Producers -> Seq(Messages)]
        /\ resultQ' = [resultQ EXCEPT ![p] = Append(@, m)]
    BY DEF TypeOK, QueueTypeOK, Send
  <1>2. /\ resultQ'[p] = Append(resultQ[p], m) /\ resultQ[p] \in Seq(Messages)
        /\ last \in Nat /\ last >= 1
        /\ \A q \in Producers : q # p => resultQ'[q] = resultQ[q]
    BY <1>1
  <1>3. Len(resultQ'[p]) = last /\ resultQ'[p][last] = m
        /\ \A k \in 1 .. last : k # last => k \in 1 .. Len(resultQ[p]) /\ resultQ'[p][k] = resultQ[p][k]
    BY <1>2
  <1> DEFINE From(t) == IF t[1] = "sent" /\ t[2] = p /\ t[3] = last THEN <<"serving", p, 0>> ELSE t
             from == [t \in TicketsOf(r)' |-> From(t)]
  <1>4. ASSUME NEW t \in TicketsOf(r)'
        PROVE  /\ From(t) \in TicketsOf(r)
               /\ t[1] = "serving" /\ t[2] = p => m.type # "FINISHED"
               /\ t[1] = "serving" => t[3] = 0
    <2>1. CASE PayloadTicket(t, r)' \/ CountedTicket(t, r)'
      BY <2>1 DEF TicketsOf, PayloadTicket, CountedTicket
    <2>2. CASE ServingTicket(t, r)'
      BY <2>2 DEF TicketsOf, ServingTicket
    <2>3. CASE SentTicket(t, r)'
      <3>1. t[1] = "sent" /\ t[2] \in Producers /\ t[3] \in 1 .. Len(resultQ'[t[2]]) /\ t[3] \in Nat
            /\ resultQ'[t[2]][t[3]].type = "FINISHED" /\ resultQ'[t[2]][t[3]].tag = r
        BY <2>3 DEF SentTicket, TicketsOf, TicketIds
      <3>2. CASE t[2] = p /\ t[3] = last
        <4>1. From(t) = <<"serving", p, 0>> /\ m.type = "FINISHED" /\ m.tag = r
          BY <1>3, <3>1, <3>2
        <4> QED BY <3>1, <4>1 DEF ServingTicket, TicketsOf, TicketIds
      <3>3. CASE ~(t[2] = p /\ t[3] = last)
        <4>1. /\ From(t) = t
              /\ t[3] \in 1 .. Len(resultQ[t[2]]) /\ resultQ'[t[2]][t[3]] = resultQ[t[2]][t[3]]
          BY <1>2, <1>3, <3>1, <3>3
        <4> QED BY <3>1, <4>1 DEF SentTicket, TicketsOf, TicketIds
      <3> QED BY <3>2, <3>3
    <2> QED BY <2>1, <2>2, <2>3 DEF TicketsOf
  <1>5. ASSUME NEW t \in TicketsOf(r)', NEW u \in TicketsOf(r)', From(t) = From(u) PROVE t = u
    <2>1. t \in TicketIds /\ u \in TicketIds
      BY DEF TicketsOf
    <2>2. ASSUME NEW v \in TicketsOf(r)', v[1] = "sent" /\ v[2] = p /\ v[3] = last
          PROVE  m.type = "FINISHED"
      BY <1>3, <2>2 DEF TicketsOf, PayloadTicket, ServingTicket, SentTicket, CountedTicket
    <2> QED BY <1>4, <1>5, <2>1, <2>2 DEF TicketIds
  <1>6. from \in [TicketsOf(r)' -> TicketsOf(r)]
    BY <1>4
  <1>7. \A t, u \in TicketsOf(r)' : from[t] = from[u] => t = u
    BY <1>5
  <1>8. ASSUME p \in Workers, wpc[p] \in Serving, wrun[p] = r, wpc'[p] \notin Serving,
               m.type # "FINISHED"
        PROVE  /\ <<"serving", p, 0>> \in TicketsOf(r)
               /\ \A u \in TicketsOf(r)' : from[u] # <<"serving", p, 0>>
    <2>1. <<"serving", p, 0>> \in TicketsOf(r)
      BY <1>8 DEF TicketsOf, TicketIds, ServingTicket
    <2>2. ASSUME NEW u \in TicketsOf(r)', from[u] = <<"serving", p, 0>> PROVE FALSE
      <3>1. (u[1] = "sent" /\ u[2] = p /\ u[3] = last) \/ u = <<"serving", p, 0>>
        BY <2>2
      <3> QED BY <1>3, <1>8, <3>1 DEF TicketsOf, PayloadTicket, ServingTicket, SentTicket, CountedTicket
    <2> QED BY <2>1, <2>2
  <1> HIDE DEF from, From
  <1> QED BY <1>6, <1>7, <1>8, TicketsMove DEF FewerTickets, LostTicket

\* A message is taken from the front of a queue: a FINISHED of the run is counted or
\* lost, nothing else happens to its tickets.
LEMMA TakeTickets ==
  ASSUME TypeOK, UNCHANGED <<controlQ, wpc, wrun>>,
         NEW p \in Producers, resultQ[p] # <<>>, resultQ' = [resultQ EXCEPT ![p] = Tail(@)],
         NEW r \in Runs, IsFiniteSet(TicketsOf(r)),
         \/ finishes'[r] = finishes[r]
         \/ /\ finishes'[r] = finishes[r] + 1
            /\ Head(resultQ[p]).type = "FINISHED" /\ Head(resultQ[p]).tag = r
  PROVE  FewerTickets(r)
  <1>1. resultQ \in [Producers -> Seq(Messages)] /\ finishes[r] \in Nat
    BY DEF TypeOK, QueueTypeOK, ListenerTypeOK
  <1>2. /\ Len(resultQ'[p]) = Len(resultQ[p]) - 1 /\ Len(resultQ[p]) \in Nat /\ Len(resultQ[p]) >= 1
        /\ \A k \in 1 .. Len(resultQ'[p]) : resultQ'[p][k] = resultQ[p][k + 1]
        /\ Head(resultQ[p]) = resultQ[p][1]
        /\ \A q \in Producers : q # p => resultQ'[q] = resultQ[q]
    BY <1>1
  <1> DEFINE next == <<"counted", finishes[r] + 1, 0>>
             From(t) == IF t = next THEN <<"sent", p, 1>>
                        ELSE IF t[1] = "sent" /\ t[2] = p THEN <<"sent", p, t[3] + 1>> ELSE t
             from == [t \in TicketsOf(r)' |-> From(t)]
  <1>4. ASSUME NEW t \in TicketsOf(r)' PROVE From(t) \in TicketsOf(r)
    <2>0. t \in TicketIds
      BY DEF TicketsOf
    <2>1. CASE PayloadTicket(t, r)' \/ ServingTicket(t, r)'
      BY <2>1 DEF TicketsOf, PayloadTicket, ServingTicket
    <2>2. CASE CountedTicket(t, r)' /\ t # next
      <3>1. t[1] = "counted" /\ t[3] = 0 /\ t[2] \in 1 .. finishes'[r]
        BY <2>2 DEF CountedTicket
      <3>2. t[2] # finishes[r] + 1
        BY <2>0, <2>2, <3>1 DEF TicketIds
      <3>3. t[2] \in 1 .. finishes[r] /\ From(t) = t
        BY <1>1, <2>2, <3>1, <3>2
      <3> QED BY <2>0, <3>1, <3>3 DEF CountedTicket, TicketsOf
    <2>3. CASE CountedTicket(t, r)' /\ t = next
      <3>1. finishes[r] + 1 \in 1 .. finishes'[r]
        BY <2>3 DEF CountedTicket
      <3>2. Head(resultQ[p]).type = "FINISHED" /\ Head(resultQ[p]).tag = r
        BY <1>1, <3>1
      <3>3. 1 \in 1 .. Len(resultQ[p]) /\ From(t) = <<"sent", p, 1>>
        BY <1>2, <2>3
      <3> QED BY <1>2, <3>2, <3>3 DEF SentTicket, TicketsOf, TicketIds
    <2>4. CASE SentTicket(t, r)'
      <3>1. t[1] = "sent" /\ t[2] \in Producers /\ t[3] \in 1 .. Len(resultQ'[t[2]]) /\ t[3] \in Nat
            /\ resultQ'[t[2]][t[3]].type = "FINISHED" /\ resultQ'[t[2]][t[3]].tag = r
        BY <2>0, <2>4 DEF SentTicket, TicketIds
      <3>2. CASE t[2] # p
        BY <1>2, <2>0, <3>1, <3>2 DEF SentTicket, TicketsOf
      <3>3. CASE t[2] = p
        <4>1. t[3] \in 1 .. Len(resultQ'[p])
          BY <3>1, <3>3
        <4>2. t[3] + 1 \in 1 .. Len(resultQ[p]) /\ resultQ'[p][t[3]] = resultQ[p][t[3] + 1]
          BY <1>2, <4>1
        <4>3. From(t) = <<"sent", p, t[3] + 1>>
          BY <3>1, <3>3
        <4> QED BY <3>1, <3>3, <4>2, <4>3 DEF SentTicket, TicketsOf, TicketIds
      <3> QED BY <3>2, <3>3
    <2> QED BY <2>1, <2>2, <2>3, <2>4 DEF TicketsOf
  <1>5. ASSUME NEW t \in TicketsOf(r)', NEW u \in TicketsOf(r)', From(t) = From(u) PROVE t = u
    <2>1. t \in TicketIds /\ u \in TicketIds
      BY DEF TicketsOf
    <2>2. ASSUME NEW v \in TicketsOf(r)', v[1] = "sent" PROVE v[3] >= 1 /\ v[3] \in Nat
      <3>1. v \in TicketIds /\ SentTicket(v, r)'
        BY <2>2 DEF TicketsOf, PayloadTicket, ServingTicket, CountedTicket
      <3>2. v[3] \in Nat
        BY <3>1 DEF TicketIds
      <3>3. v[2] \in Producers /\ v[3] \in 1 .. Len(resultQ'[v[2]])
        BY <3>1 DEF SentTicket
      <3>4. Len(resultQ'[v[2]]) \in Nat
        BY <1>1, <3>3
      <3> QED BY <3>2, <3>3, <3>4
    <2>3. ASSUME NEW v \in TicketsOf(r)', NEW x \in TicketsOf(r)', v = next, x # next,
                 From(v) = From(x)
          PROVE  FALSE
      <3>1. From(v) = <<"sent", p, 1>>
        BY <2>3
      <3>2. CASE x[1] = "sent" /\ x[2] = p
        <4>1. x[3] + 1 = 1
          BY <2>3, <3>1, <3>2
        <4> QED BY <2>2, <3>2, <4>1
      <3>3. CASE ~(x[1] = "sent" /\ x[2] = p)
        <4>1. From(x) = x
          BY <2>3, <3>3
        <4> QED BY <2>3, <3>1, <3>3, <4>1
      <3> QED BY <3>2, <3>3
    <2>4. CASE t # next /\ u # next
      <3>1. t[1] = u[1] /\ t[2] = u[2]
        BY <1>5, <2>1, <2>4 DEF TicketIds
      <3>2. t[3] = u[3]
        <4>1. CASE t[1] = "sent" /\ t[2] = p
          <5>1. t[3] + 1 = u[3] + 1 /\ t[3] \in Nat /\ u[3] \in Nat
            BY <1>5, <2>2, <2>4, <3>1, <4>1
          <5> QED BY <5>1
        <4>2. CASE ~(t[1] = "sent" /\ t[2] = p)
          BY <1>5, <2>4, <3>1, <4>2
        <4> QED BY <4>1, <4>2
      <3> QED BY <2>1, <3>1, <3>2 DEF TicketIds
    <2> QED BY <1>5, <2>3, <2>4
  <1>6. from \in [TicketsOf(r)' -> TicketsOf(r)]
    BY <1>4
  <1>7. \A t, u \in TicketsOf(r)' : from[t] = from[u] => t = u
    BY <1>5
  <1> HIDE DEF from, From
  <1> QED BY <1>6, <1>7, TicketsMove DEF FewerTickets

\* A worker takes a payload: it serves the run, or leaves the loop.
LEMMA PayloadTickets ==
  ASSUME TypeOK, NEW w \in Workers, controlQ # <<>>, controlQ' = Tail(controlQ),
         UNCHANGED <<resultQ, finishes>>, wpc[w] \notin Serving,
         \A v \in Workers \ {w} : wpc'[v] = wpc[v] /\ wrun'[v] = wrun[v],
         wpc'[w] \in Serving => wrun'[w] = Head(controlQ),
         NEW r \in Runs, IsFiniteSet(TicketsOf(r))
  PROVE  FewerTickets(r)
  <1>1. controlQ \in Seq(0 .. NumRuns)
    BY DEF TypeOK, QueueTypeOK
  <1>2. /\ Len(controlQ') = Len(controlQ) - 1 /\ Len(controlQ) \in Nat /\ Len(controlQ) >= 1
        /\ \A i \in 1 .. Len(controlQ') : controlQ'[i] = controlQ[i + 1]
        /\ Head(controlQ) = controlQ[1]
    BY <1>1
  <1> DEFINE mine == <<"serving", w, 0>>
             From(t) == IF t = mine THEN <<"payload", 1, 0>>
                        ELSE IF t[1] = "payload" THEN <<"payload", t[2] + 1, 0>> ELSE t
             from == [t \in TicketsOf(r)' |-> From(t)]
  <1>4. ASSUME NEW t \in TicketsOf(r)' PROVE From(t) \in TicketsOf(r)
    <2>0. t \in TicketIds
      BY DEF TicketsOf
    <2>1. CASE SentTicket(t, r)' \/ CountedTicket(t, r)'
      BY <2>1 DEF TicketsOf, SentTicket, CountedTicket
    <2>2. CASE ServingTicket(t, r)'
      <3>1. t[1] = "serving" /\ t[2] \in Workers /\ t[3] = 0 /\ wpc'[t[2]] \in Serving /\ wrun'[t[2]] = r
        BY <2>2 DEF ServingTicket
      <3>2. CASE t[2] # w
        BY <2>0, <3>1, <3>2 DEF TicketsOf, ServingTicket
      <3>3. CASE t[2] = w
        <4>1. t = mine
          BY <2>0, <3>1, <3>3 DEF TicketIds
        <4>2. controlQ[1] = r /\ 1 \in 1 .. Len(controlQ)
          BY <1>2, <3>1, <3>3
        <4> QED BY <4>1, <4>2 DEF TicketsOf, TicketIds, PayloadTicket
      <3> QED BY <3>2, <3>3
    <2>3. CASE PayloadTicket(t, r)'
      <3>1. t[1] = "payload" /\ t[2] \in 1 .. Len(controlQ') /\ t[3] = 0 /\ controlQ'[t[2]] = r
        BY <2>3 DEF PayloadTicket
      <3>2. /\ t[2] + 1 \in 1 .. Len(controlQ) /\ controlQ[t[2] + 1] = r /\ t[2] + 1 \in Nat
        BY <1>2, <3>1
      <3>3. From(t) = <<"payload", t[2] + 1, 0>>
        BY <3>1
      <3> QED BY <3>2, <3>3 DEF TicketsOf, TicketIds, PayloadTicket
    <2> QED BY <2>1, <2>2, <2>3 DEF TicketsOf
  <1>5. ASSUME NEW t \in TicketsOf(r)', NEW u \in TicketsOf(r)', From(t) = From(u) PROVE t = u
    <2>1. t \in TicketIds /\ u \in TicketIds
      BY DEF TicketsOf
    <2>2. ASSUME NEW v \in TicketsOf(r)', v[1] = "payload" PROVE v[2] >= 1 /\ v[2] \in Nat /\ v[3] = 0
      <3>1. v[2] \in 1 .. Len(controlQ') /\ v[3] = 0
        BY <2>2 DEF TicketsOf, PayloadTicket, ServingTicket, SentTicket, CountedTicket
      <3> QED BY <1>2, <3>1
    <2>3. ASSUME NEW v \in TicketsOf(r)', NEW x \in TicketsOf(r)', v = mine, x # mine,
                 From(v) = From(x)
          PROVE  FALSE
      <3>1. From(v) = <<"payload", 1, 0>>
        BY <2>3
      <3>2. CASE x[1] = "payload"
        <4>1. x[2] + 1 = 1
          BY <2>3, <3>1, <3>2
        <4> QED BY <2>2, <3>2, <4>1
      <3>3. CASE x[1] # "payload"
        <4>1. From(x) = x
          BY <2>3, <3>3
        <4> QED BY <2>3, <3>1, <3>3, <4>1
      <3> QED BY <3>2, <3>3
    <2>4. CASE t # mine /\ u # mine
      <3>1. t[1] = u[1]
        BY <1>5, <2>1, <2>4 DEF TicketIds
      <3>2. CASE t[1] = "payload"
        <4>1. t[2] + 1 = u[2] + 1
          BY <1>5, <2>4, <3>1, <3>2
        <4>2. t[2] \in Nat /\ u[2] \in Nat /\ t[3] = u[3]
          <5>1. t[2] \in Nat /\ t[3] = 0
            BY <2>2, <3>2
          <5>2. u[1] = "payload"
            BY <3>1, <3>2
          <5>3. u[2] \in Nat /\ u[3] = 0
            BY <2>2, <5>2
          <5> QED BY <5>1, <5>3
        <4>3. t[2] = u[2]
          BY <4>1, <4>2
        <4> QED BY <2>1, <3>1, <4>2, <4>3 DEF TicketIds
      <3>3. CASE t[1] # "payload"
        BY <1>5, <2>4, <3>1, <3>3
      <3> QED BY <3>2, <3>3
    <2> QED BY <1>5, <2>3, <2>4
  <1>6. from \in [TicketsOf(r)' -> TicketsOf(r)]
    BY <1>4
  <1>7. \A t, u \in TicketsOf(r)' : from[t] = from[u] => t = u
    BY <1>5
  <1> HIDE DEF from, From
  <1> QED BY <1>6, <1>7, TicketsMove DEF FewerTickets

\* A process dies, and messages it sent with it.
LEMMA FailTickets ==
  ASSUME TypeOK, NEW w \in Workers, UNCHANGED <<controlQ, finishes>>, ServingKept,
         NEW n \in Nat, n <= Len(resultQ[w]),
         resultQ' = [resultQ EXCEPT ![w] = SubSeq(@, 1, n)],
         NEW r, IsFiniteSet(TicketsOf(r))
  PROVE  FewerTickets(r) /\ (LostTicket(r) \/ TicketsOf(r)' = TicketsOf(r))
  <1>1. resultQ \in [Producers -> Seq(Messages)] /\ w \in Producers
    BY DEF TypeOK, QueueTypeOK, Producers
  <1>2. /\ Len(resultQ'[w]) = n
        /\ \A k \in 1 .. n : k \in 1 .. Len(resultQ[w]) /\ resultQ'[w][k] = resultQ[w][k]
        /\ \A p \in Producers : p # w => resultQ'[p] = resultQ[p]
    BY <1>1
  <1>3. ASSUME NEW t \in TicketsOf(r)' PROVE t \in TicketsOf(r)
    <2>1. CASE PayloadTicket(t, r)' \/ CountedTicket(t, r)'
      BY <2>1 DEF TicketsOf, PayloadTicket, CountedTicket
    <2>2. CASE ServingTicket(t, r)'
      BY <2>2 DEF TicketsOf, ServingTicket, ServingKept
    <2>3. CASE SentTicket(t, r)'
      BY <1>2, <2>3 DEF TicketsOf, SentTicket
    <2> QED BY <2>1, <2>2, <2>3 DEF TicketsOf
  <1> QED BY <1>3, TicketsGoneBy

\* The start of a run over an idle pool: one payload per worker, and nothing else.
LEMMA StartTickets ==
  ASSUME NEW r \in Runs, finishes'[r] = 0,
         controlQ' = [i \in 1 .. PoolSize |-> r],
         \A w \in Workers : wpc'[w] \notin Serving,
         \A p \in Producers : \A k \in 1 .. Len(resultQ'[p]) : resultQ'[p][k].tag # r
  PROVE  IsFiniteSet(TicketsOf(r)') /\ Cardinality(TicketsOf(r)') = PoolSize
  <1> DEFINE ticket(i) == <<"payload", i, 0>>
             f == [i \in 1 .. PoolSize |-> ticket(i)]
  <1>1. PoolSize \in Nat /\ Len(controlQ') = PoolSize
        /\ \A i \in 1 .. PoolSize : controlQ'[i] = r
    BY PoolSizeType
  <1>2. ASSUME NEW i \in 1 .. PoolSize PROVE ticket(i) \in TicketsOf(r)'
    BY <1>1 DEF TicketsOf, TicketIds, PayloadTicket
  <1>3. ASSUME NEW t \in TicketsOf(r)' PROVE \E i \in 1 .. PoolSize : f[i] = t
    <2>1. t \in TicketIds
      BY DEF TicketsOf
    <2>2. ~ServingTicket(t, r)' /\ ~SentTicket(t, r)' /\ ~CountedTicket(t, r)'
      BY DEF ServingTicket, SentTicket, CountedTicket
    <2>3. t[1] = "payload" /\ t[2] \in 1 .. PoolSize /\ t[3] = 0
      BY <1>1, <2>2 DEF TicketsOf, PayloadTicket
    <2>4. t = ticket(t[2])
      BY <2>1, <2>3 DEF TicketIds
    <2> QED BY <2>3, <2>4
  <1>4. f \in [1 .. PoolSize -> TicketsOf(r)'] /\ \A i, j \in 1 .. PoolSize : f[i] = f[j] => i = j
    BY <1>2
  <1>5. f \in Bijection(1 .. PoolSize, TicketsOf(r)')
    BY <1>3, <1>4, Fun_IsBij
  <1>6. IsFiniteSet(1 .. PoolSize) /\ Cardinality(1 .. PoolSize) = PoolSize
    BY <1>1, FS_Interval
  <1> QED BY <1>5, <1>6, FS_Bijection DEF ExistsBijection

-----------------------------------------------------------------------------
(* The invariants that hold whatever the user does *)

\* A message other than a batch carries no schedules.
SignalInv ==
    \A p \in Producers : \A k \in 1 .. Len(resultQ[p]) :
        resultQ[p][k].type # "SCHEDULE_BATCH" => resultQ[p][k].count = 0

\* A run has finished only once a FINISHED per worker was counted.
OutcomeInv ==
    \A r \in Runs :
        outcome[r] = "finished" => listener[r] \in {"closing", "done"} /\ finishes[r] >= PoolSize

\* What holds of tickets, messages and listeners at every step.
CourseInv == PoolInv /\ FreshInv /\ SignalInv /\ OutcomeInv /\ TicketInv

\* Where the messages of a queue come from.
LEMMA QueueGrows ==
  ASSUME PoolInv, Next, NEW p \in Producers, NEW k \in 1 .. Len(resultQ'[p])
  PROVE  \/ \E j \in 1 .. Len(resultQ[p]) : resultQ'[p][k] = resultQ[p][j]
         \/ \E w \in Workers : /\ wpc[w] \in Tagged
                               /\ resultQ'[p][k] \in {Batch(wtag[w], wbuf[w]), Finished(wtag[w]), Error(wtag[w])}
                               /\ resultQ'[p][k].type = "FINISHED" => wpc[w] = "flush"
         \/ \E r \in Runs : feeder[r] = "failed" /\ resultQ'[p][k] = Error(r)
  <1>1. resultQ \in [Producers -> Seq(Messages)] /\ \A w \in Workers : w \in Producers
    BY DEF PoolInv, TypeOK, QueueTypeOK, Producers
  <1>2. CASE UNCHANGED resultQ
    BY <1>2
  <1>3. CASE DrainResults
    <2>1. PICK skip \in [Producers -> 0 .. QueueCap] :
            /\ \A q \in Producers : skip[q] <= Len(resultQ[q])
            /\ resultQ' = [q \in Producers |-> SubSeq(resultQ[q], skip[q] + 1, Len(resultQ[q]))]
      BY <1>3 DEF DrainResults
    <2>0. /\ resultQ[p] \in Seq(Messages) /\ skip[p] \in Nat /\ skip[p] <= Len(resultQ[p])
          /\ resultQ'[p] = SubSeq(resultQ[p], skip[p] + 1, Len(resultQ[p]))
      <3>1. skip[p] \in 0 .. QueueCap /\ QueueCap \in Nat
        BY <2>1, PoolAssumption
      <3>2. resultQ[p] \in Seq(Messages)
        BY <1>1
      <3>3. skip[p] <= Len(resultQ[p])
        BY <2>1
      <3>4. resultQ'[p] = SubSeq(resultQ[p], skip[p] + 1, Len(resultQ[p]))
        BY <2>1
      <3> QED BY <3>1, <3>2, <3>3, <3>4
    <2>2. /\ skip[p] \in Nat /\ Len(resultQ[p]) \in Nat
          /\ Len(resultQ'[p]) = Len(resultQ[p]) - skip[p]
          /\ resultQ'[p][k] = resultQ[p][k + skip[p]]
      BY <2>0
    <2>3. k + skip[p] \in 1 .. Len(resultQ[p])
      BY <2>2
    <2> QED BY <2>2, <2>3
  <1>4. ASSUME NEW q \in Producers, NEW m, resultQ' = [resultQ EXCEPT ![q] = Append(@, m)]
        PROVE  resultQ'[p][k] = m \/ \E j \in 1 .. Len(resultQ[p]) : resultQ'[p][k] = resultQ[p][j]
    <2>1. CASE p # q
      BY <1>1, <1>4, <2>1
    <2>2. CASE p = q
      <3>1. resultQ'[p] = Append(resultQ[p], m) /\ resultQ[p] \in Seq(Messages)
        BY <1>1, <1>4, <2>2
      <3>2. k = Len(resultQ[p]) + 1 \/ k \in 1 .. Len(resultQ[p])
        BY <3>1
      <3> QED BY <3>1, <3>2
    <2> QED BY <2>1, <2>2
  <1>5. ASSUME NEW q \in Producers, resultQ[q] # <<>>, resultQ' = [resultQ EXCEPT ![q] = Tail(@)]
        PROVE  \E j \in 1 .. Len(resultQ[p]) : resultQ'[p][k] = resultQ[p][j]
    <2>1. CASE p # q
      BY <1>1, <1>5, <2>1
    <2>2. CASE p = q
      <3>1. resultQ'[p] = Tail(resultQ[p]) /\ resultQ[p] \in Seq(Messages) /\ resultQ[p] # <<>>
        BY <1>1, <1>5, <2>2
      <3>2. k + 1 \in 1 .. Len(resultQ[p]) /\ resultQ'[p][k] = resultQ[p][k + 1]
        BY <3>1
      <3> QED BY <3>2
    <2> QED BY <2>1, <2>2
  <1>6. ASSUME NEW w \in Workers, Crash(w)
        PROVE  \E j \in 1 .. Len(resultQ[p]) : resultQ'[p][k] = resultQ[p][j]
    <2>1. PICK n \in 0 .. QueueCap :
            n <= Len(resultQ[w]) /\ resultQ' = [resultQ EXCEPT ![w] = SubSeq(@, 1, n)]
      BY <1>6 DEF Crash
    <2>2. CASE p # w
      BY <1>1, <2>1, <2>2
    <2>3. CASE p = w
      <3>1. resultQ'[p] = SubSeq(resultQ[p], 1, n) /\ resultQ[p] \in Seq(Messages) /\ n \in Nat
        BY <1>1, <2>1, <2>3, PoolAssumption
      <3>2. k \in 1 .. Len(resultQ[p]) /\ resultQ'[p][k] = resultQ[p][k]
        BY <2>1, <2>3, <3>1
      <3> QED BY <3>2
    <2> QED BY <2>2, <2>3
  <1>7. ASSUME NEW w \in Workers, FlushBuffer(w) \/ SendFinished(w) \/ SendError(w)
        PROVE  /\ wpc[w] \in Tagged
               /\ \E m \in {Batch(wtag[w], wbuf[w]), Finished(wtag[w]), Error(wtag[w])} :
                     /\ m.type = "FINISHED" => wpc[w] = "flush"
                     /\ resultQ' = [resultQ EXCEPT ![w] = Append(@, m)]
    <2>1. Batch(wtag[w], wbuf[w]).type # "FINISHED" /\ Error(wtag[w]).type # "FINISHED"
      BY DEF Batch, Error
    <2> QED BY <1>7, <2>1 DEF FlushBuffer, SendFinished, SendError, Send, WorkerAt, Tagged
  <1>8. ASSUME NEW w \in Workers, WorkerMoves(w), ~(FlushBuffer(w) \/ SendFinished(w) \/ SendError(w))
        PROVE  UNCHANGED resultQ
    BY <1>8 DEF WorkerMoves, Announce, TakePayload, TakeShutdown, ReadRunId, CheckCancel, GetEmpty,
           GetItem, ReachSchedule, RecordSchedule, DropSchedule, FinishUnit, AbandonUnit
  <1>9. ASSUME NEW r \in Runs, ListenerMoves(r)
        PROVE  \/ UNCHANGED resultQ \/ DrainResults
               \/ \E q \in Producers : resultQ[q] # <<>> /\ resultQ' = [resultQ EXCEPT ![q] = Tail(@)]
    BY <1>9 DEF ListenerMoves, DropStale, HandleBatch, HandleFinished, HandleError, NoticeCrash,
           Shutdown, ReceiveOwn, Receive
  <1>10. ASSUME NEW r \in Runs, FeederMoves(r)
         PROVE  \/ UNCHANGED resultQ
                \/ feeder[r] = "failed" /\ resultQ' = [resultQ EXCEPT ![Main] = Append(@, Error(r))]
    BY <1>10 DEF FeederMoves, Partition, ReportPartitionError, FeedUnit, StopFeeding, FeedSentinels,
           FeederAt, Send
  <1>11. CASE GuiMoves \/ Clicks
    BY <1>2, <1>3, <1>11 DEF GuiMoves, Clicks, CancelDrains, WaitReturns, RejectInfeasible, AskPool,
           CollectReady, ReadyTimesOut, PoolStartRun, ClickGenerate, ClickCancel, Close
  <1>12. CASE Mishaps
    BY <1>2, <1>6, <1>12 DEF Mishaps, WorkerRaises, Terminate, PartitionRaises
  <1>13. ASSUME NEW w \in Workers, WorkerMoves(w)
         PROVE  \/ \E j \in 1 .. Len(resultQ[p]) : resultQ'[p][k] = resultQ[p][j]
                \/ /\ wpc[w] \in Tagged
                   /\ resultQ'[p][k] \in {Batch(wtag[w], wbuf[w]), Finished(wtag[w]), Error(wtag[w])}
                   /\ resultQ'[p][k].type = "FINISHED" => wpc[w] = "flush"
    <2>1. CASE FlushBuffer(w) \/ SendFinished(w) \/ SendError(w)
      BY <1>1, <1>4, <1>7, <2>1
    <2>2. CASE ~(FlushBuffer(w) \/ SendFinished(w) \/ SendError(w))
      BY <1>2, <1>8, <1>13, <2>2
    <2> QED BY <2>1, <2>2
  <1>14. ASSUME NEW r \in Runs, ListenerMoves(r) \/ FeederMoves(r)
         PROVE  \/ \E j \in 1 .. Len(resultQ[p]) : resultQ'[p][k] = resultQ[p][j]
                \/ feeder[r] = "failed" /\ resultQ'[p][k] = Error(r)
                \/ DrainResults \/ UNCHANGED resultQ
    <2>1. Main \in Producers
      BY DEF Producers
    <2> QED BY <1>4, <1>5, <1>9, <1>10, <1>14, <2>1
  <1> QED BY <1>2, <1>3, <1>11, <1>12, <1>13, <1>14 DEF Next

\* Every message is a signal or a batch of a run that was started.
LEMMA QueueStep ==
  ASSUME PoolInv, FreshInv, SignalInv, Next, runIdHolder <= runIdHolder'
  PROVE  /\ SignalInv'
         /\ \A p \in Producers : \A k \in 1 .. Len(resultQ'[p]) : resultQ'[p][k].tag <= runIdHolder'
  <1> SUFFICES ASSUME NEW p \in Producers, NEW k \in 1 .. Len(resultQ'[p])
               PROVE  /\ resultQ'[p][k].type # "SCHEDULE_BATCH" => resultQ'[p][k].count = 0
                      /\ resultQ'[p][k].tag <= runIdHolder'
    BY DEF SignalInv
  <1>1. runIdHolder \in Nat /\ runIdHolder' \in Nat /\ resultQ \in [Producers -> Seq(Messages)]
    BY InvStep, PoolAssumption DEF PoolInv, TypeOK, SharedTypeOK, QueueTypeOK
  <1>2. ASSUME NEW j \in 1 .. Len(resultQ[p]), resultQ'[p][k] = resultQ[p][j]
        PROVE  /\ resultQ'[p][k].type # "SCHEDULE_BATCH" => resultQ'[p][k].count = 0
               /\ resultQ'[p][k].tag <= runIdHolder'
    <2>1. resultQ[p][j] \in Messages
      BY <1>1
    <2>2. resultQ[p][j].tag \in Nat /\ resultQ[p][j].tag <= runIdHolder
      BY <2>1, PoolAssumption DEF Messages, FreshInv
    <2> QED BY <1>1, <1>2, <2>2 DEF SignalInv
  <1>3. ASSUME NEW w \in Workers, wpc[w] \in Tagged,
               resultQ'[p][k] \in {Batch(wtag[w], wbuf[w]), Finished(wtag[w]), Error(wtag[w])}
        PROVE  /\ resultQ'[p][k].type # "SCHEDULE_BATCH" => resultQ'[p][k].count = 0
               /\ resultQ'[p][k].tag <= runIdHolder'
    <2>1. wtag[w] = runIdHolder
      BY <1>3 DEF PoolInv, ServeInv
    <2> QED BY <1>1, <1>3, <2>1 DEF Batch, Finished, Error
  <1>4. ASSUME NEW r \in Runs, feeder[r] = "failed", resultQ'[p][k] = Error(r)
        PROVE  /\ resultQ'[p][k].type # "SCHEDULE_BATCH" => resultQ'[p][k].count = 0
               /\ resultQ'[p][k].tag <= runIdHolder'
    <2>1. r <= runIdHolder /\ r \in Nat
      BY <1>1, <1>4 DEF FreshInv, Runs
    <2> QED BY <1>1, <1>4, <2>1 DEF Error
  <1> QED BY <1>2, <1>3, <1>4, QueueGrows

-----------------------------------------------------------------------------
(* Every step but the start of a run keeps its tickets, or loses some *)

\* The GUI thread gives tickets to no run but the one it starts; its drains lose some.
LEMMA TicketsGui ==
  ASSUME PoolInv, GuiMoves \/ Clicks,
         NEW r \in Runs, IsFiniteSet(TicketsOf(r)), ~(PoolStartRun /\ r = run)
  PROVE  FewerTickets(r)
  <1>1. TypeOK /\ UNCHANGED <<wpc, wrun, finishes>>
    BY DEF PoolInv, GuiMoves, Clicks, CancelDrains, WaitReturns, RejectInfeasible, AskPool,
           CollectReady, ReadyTimesOut, PoolStartRun, ClickGenerate, ClickCancel, Close
  <1>2. ServingKept
    BY <1>1 DEF ServingKept
  <1>3. DrainResults \/ UNCHANGED resultQ
    BY DEF GuiMoves, Clicks, CancelDrains, WaitReturns, RejectInfeasible, AskPool,
           CollectReady, ReadyTimesOut, PoolStartRun, ClickGenerate, ClickCancel, Close
  <1>4. NoPayloadAdded(r)
    <2>0. controlQ \in Seq(0 .. NumRuns) /\ PoolSize \in Nat
      BY PoolSizeType DEF PoolInv, TypeOK, QueueTypeOK
    <2>1. CASE UNCHANGED controlQ
      BY <2>1 DEF NoPayloadAdded
    <2>2. CASE PoolStartRun
      <3>1. controlQ = <<>>
        BY <2>2, AllTokensMeansIdle DEF PoolStartRun, TokensNeeded
      <3>2. controlQ' = [i \in 1 .. PoolSize |-> run]
        BY <2>0, <2>2, <3>1 DEF PoolStartRun
      <3> QED BY <2>0, <2>2, <3>2 DEF NoPayloadAdded
    <2>3. CASE Close
      <3> DEFINE zeros == [i \in 1 .. PoolSize |-> 0]
      <3>1. controlQ' = controlQ \o zeros /\ zeros \in Seq({0}) /\ Len(zeros) = PoolSize
        BY <2>0, <2>3 DEF Close, ShutdownPayloads
      <3>2. ASSUME NEW i \in 1 .. Len(controlQ')
            PROVE  (i \in 1 .. Len(controlQ) /\ controlQ'[i] = controlQ[i]) \/ controlQ'[i] = 0
        BY <2>0, <3>1
      <3> QED BY <3>2 DEF NoPayloadAdded, Runs
    <2> QED BY <2>1, <2>2, <2>3
            DEF GuiMoves, Clicks, CancelDrains, WaitReturns, RejectInfeasible, AskPool,
                CollectReady, ReadyTimesOut, ClickGenerate, ClickCancel
  <1> QED BY <1>1, <1>2, <1>3, <1>4, DrainTickets, QuietTickets

\* A worker passes its ticket on; an ERROR sent is a ticket lost.
LEMMA TicketsWorker ==
  ASSUME PoolInv, NEW w \in Workers, WorkerMoves(w),
         NEW r \in Runs, IsFiniteSet(TicketsOf(r))
  PROVE  /\ FewerTickets(r)
         /\ SendError(w) /\ wrun[w] = r => LostTicket(r)
  <1>1. /\ TypeOK /\ wpc \in [Workers -> WorkerPcs] /\ wrun \in [Workers -> 0 .. NumRuns]
        /\ wtag[w] \in 0 .. NumRuns /\ wbuf[w] \in 0 .. BatchSize /\ w \in Producers
    BY DEF PoolInv, TypeOK, WorkerTypeOK, Producers
  <1>2. CASE SendFinished(w) \/ SendError(w) \/ FlushBuffer(w)
    <2>1. /\ UNCHANGED <<controlQ, finishes, wrun>>
          /\ wpc[w] \in Serving /\ wrun[w] = wtag[w]
          /\ \E to \in {"announce", "search", "flush"} : wpc' = [wpc EXCEPT ![w] = to]
      BY <1>2 DEF SendFinished, SendError, FlushBuffer, WorkerAt, Serving, Tagged, PoolInv, ServeInv
    <2>2. \A v \in Workers \ {w} : wpc'[v] = wpc[v] /\ wrun'[v] = wrun[v]
      BY <1>1, <2>1
    <2>3. CASE FlushBuffer(w)
      <3>1. Batch(wtag[w], wbuf[w]) \in Messages /\ Send(w, Batch(wtag[w], wbuf[w]))
        BY <1>1, <2>3, MessageType DEF FlushBuffer
      <3>2. Batch(wtag[w], wbuf[w]).type # "FINISHED"
        BY DEF Batch
      <3>3. ~SendError(w)
        BY <2>3 DEF FlushBuffer, SendError, WorkerAt
      <3> QED BY <1>1, <2>1, <2>2, <3>1, <3>2, <3>3, SendTickets
    <2>4. CASE SendFinished(w)
      <3>1. Finished(wtag[w]) \in Messages /\ Send(w, Finished(wtag[w]))
        BY <1>1, <2>4, MessageType, PoolAssumption DEF SendFinished
      <3>2. Finished(wtag[w]).tag = wtag[w] /\ wpc'[w] \notin Serving /\ ~SendError(w)
        BY <1>1, <2>4 DEF Finished, SendFinished, SendError, WorkerAt, Serving, Tagged
      <3> QED BY <1>1, <2>1, <2>2, <3>1, <3>2, SendTickets
    <2>5. CASE SendError(w)
      <3>1. Error(wtag[w]) \in Messages /\ Send(w, Error(wtag[w]))
        BY <1>1, <2>5, MessageType, PoolAssumption DEF SendError
      <3>2. Error(wtag[w]).type # "FINISHED" /\ wpc'[w] \notin Serving
        BY <1>1, <2>5 DEF Error, SendError, WorkerAt, Serving, Tagged
      <3> QED BY <1>1, <2>1, <2>2, <3>1, <3>2, SendTickets
    <2> QED BY <1>2, <2>3, <2>4, <2>5
  <1>3. CASE TakePayload(w) \/ TakeShutdown(w)
    <2>1. /\ UNCHANGED <<resultQ, finishes>> /\ ~SendError(w) /\ wpc[w] \notin Serving
          /\ controlQ # <<>> /\ controlQ' = Tail(controlQ)
          /\ \E to \in {"tag", "exited"} : wpc' = [wpc EXCEPT ![w] = to]
          /\ \A v \in Workers \ {w} : wrun'[v] = wrun[v]
          /\ wpc'[w] \in Serving => wrun'[w] = Head(controlQ)
      BY <1>1, <1>3 DEF TakePayload, TakeShutdown, SendError, WorkerAt, Serving, Tagged
    <2>2. \A v \in Workers \ {w} : wpc'[v] = wpc[v]
      BY <1>1, <2>1
    <2> QED BY <1>1, <2>1, <2>2, PayloadTickets
  <1>4. CASE \/ Announce(w) \/ ReadRunId(w) \/ CheckCancel(w) \/ GetEmpty(w) \/ GetItem(w)
             \/ ReachSchedule(w) \/ RecordSchedule(w) \/ DropSchedule(w) \/ FinishUnit(w)
             \/ AbandonUnit(w)
    <2>0. UNCHANGED <<controlQ, resultQ, finishes, wrun>>
      BY <1>4 DEF Announce, ReadRunId, CheckCancel, GetEmpty, GetItem, ReachSchedule, RecordSchedule,
                  DropSchedule, FinishUnit, AbandonUnit
    <2>1. /\ \/ wpc[w] \in {"tag", "pull", "getting", "search", "record"}
             \/ wpc[w] = "announce" /\ wpc' = [wpc EXCEPT ![w] = "parked"]
          /\ \E to : wpc' = [wpc EXCEPT ![w] = to]
      <3>1. CASE Announce(w)
        BY <3>1 DEF Announce, WorkerAt
      <3>2. CASE ~Announce(w)
        BY <1>4, <3>2 DEF ReadRunId, CheckCancel, GetEmpty, GetItem, ReachSchedule, RecordSchedule,
                  DropSchedule, FinishUnit, AbandonUnit, WorkerAt
      <3> QED BY <3>1, <3>2
    <2>4. ~SendError(w)
      BY <2>1 DEF SendError, WorkerAt
    <2>2. ServingKept
      BY <1>1, <2>0, <2>1 DEF ServingKept, Serving, Tagged
    <2>3. NoPayloadAdded(r)
      BY <2>0 DEF NoPayloadAdded
    <2> QED BY <2>0, <2>2, <2>3, <2>4, QuietTickets
  <1> QED BY <1>2, <1>3, <1>4 DEF WorkerMoves

\* The listener counts a FINISHED of its own run; a feeder touches no ticket.
LEMMA TicketsOthers ==
  ASSUME PoolInv, NEW q \in Runs, ListenerMoves(q) \/ FeederMoves(q) \/ PartitionRaises(q),
         NEW r \in Runs, IsFiniteSet(TicketsOf(r))
  PROVE  FewerTickets(r)
  <1>1. /\ TypeOK /\ UNCHANGED <<controlQ, wpc, wrun>> /\ finishes \in [Runs -> Nat]
    BY DEF PoolInv, TypeOK, ListenerTypeOK, ListenerMoves, DropStale, HandleBatch, HandleFinished,
           HandleError, NoticeCrash, Shutdown, ReceiveOwn, Receive, FeederMoves, Partition,
           ReportPartitionError, FeedUnit, StopFeeding, FeedSentinels, PartitionRaises
  <1>2. ServingKept /\ NoPayloadAdded(r)
    BY <1>1 DEF ServingKept, NoPayloadAdded
  <1>3. ASSUME NEW p \in Producers,
               DropStale(q, p) \/ HandleBatch(q, p) \/ HandleFinished(q, p) \/ HandleError(q, p)
        PROVE  FewerTickets(r)
    <2>1. resultQ[p] # <<>> /\ resultQ' = [resultQ EXCEPT ![p] = Tail(@)]
      BY <1>3 DEF DropStale, HandleBatch, HandleFinished, HandleError, ReceiveOwn, Receive
    <2>2. CASE HandleFinished(q, p) /\ q = r
      <3>1. /\ finishes'[r] = finishes[r] + 1
            /\ Head(resultQ[p]).type = "FINISHED" /\ Head(resultQ[p]).tag = r
        BY <1>1, <2>2 DEF HandleFinished, ReceiveOwn, Stale
      <3> QED BY <1>1, <2>1, <3>1, TakeTickets
    <2>3. CASE ~(HandleFinished(q, p) /\ q = r)
      <3>1. finishes'[r] = finishes[r]
        BY <1>1, <1>3, <2>3 DEF DropStale, HandleBatch, HandleFinished, HandleError
      <3> QED BY <1>1, <2>1, <3>1, TakeTickets
    <2> QED BY <2>2, <2>3
  <1>4. CASE Shutdown(q)
    BY <1>1, <1>2, <1>4, DrainTickets DEF Shutdown
  <1>5. CASE ReportPartitionError(q)
    <2>1. /\ Error(q) \in Messages /\ Error(q).type # "FINISHED" /\ Main \in Producers
          /\ Send(Main, Error(q)) /\ UNCHANGED finishes
      BY <1>5, MessageType, PoolAssumption DEF Runs, Producers, Error, ReportPartitionError
    <2> QED BY <1>1, <2>1, SendTickets
  <1>6. CASE NoticeCrash(q) \/ Partition(q) \/ FeedUnit(q) \/ StopFeeding(q) \/ FeedSentinels(q)
             \/ PartitionRaises(q)
    <2>1. UNCHANGED <<resultQ, finishes>>
      BY <1>6 DEF NoticeCrash, Partition, FeedUnit, StopFeeding, FeedSentinels, PartitionRaises
    <2> QED BY <1>2, <2>1, QuietTickets
  <1> QED BY <1>3, <1>4, <1>5, <1>6 DEF ListenerMoves, FeederMoves

\* A failure adds no ticket, and one that takes away none changes none.
LEMMA TicketsFailure ==
  ASSUME PoolInv, NEW w \in Workers, WorkerRaises(w) \/ Crash(w) \/ Terminate(w),
         NEW r \in Runs, IsFiniteSet(TicketsOf(r))
  PROVE  FewerTickets(r) /\ (LostTicket(r) \/ TicketsOf(r)' = TicketsOf(r))
  <1>1. TypeOK /\ wpc \in [Workers -> WorkerPcs] /\ UNCHANGED <<controlQ, finishes, wrun>>
    BY DEF PoolInv, TypeOK, WorkerTypeOK, WorkerRaises, Crash, Terminate
  <1>2. \/ wpc[w] \in Serving /\ \E to : wpc' = [wpc EXCEPT ![w] = to]
        \/ wpc' = [wpc EXCEPT ![w] = "dead"]
    BY DEF WorkerRaises, Crash, Terminate, WorkerAt, Serving, Tagged
  <1>3. ServingKept /\ NoPayloadAdded(r)
    BY <1>1, <1>2 DEF ServingKept, NoPayloadAdded, Serving, Tagged
  <1>4. CASE Crash(w)
    <2>1. PICK n \in 0 .. QueueCap :
            n <= Len(resultQ[w]) /\ resultQ' = [resultQ EXCEPT ![w] = SubSeq(@, 1, n)]
      BY <1>4 DEF Crash
    <2>2. n \in Nat
      BY PoolAssumption
    <2> QED BY <1>1, <1>3, <2>1, <2>2, FailTickets
  <1>5. CASE WorkerRaises(w) \/ Terminate(w)
    <2>1. UNCHANGED resultQ
      BY <1>5 DEF WorkerRaises, Terminate
    <2> QED BY <1>1, <1>3, <2>1, QuietTickets
  <1> QED BY <1>4, <1>5

\* A step that starts no run gives it no ticket.
LEMMA TicketStep ==
  ASSUME PoolInv, Next, NEW r \in Runs, IsFiniteSet(TicketsOf(r)), ~(PoolStartRun /\ r = run)
  PROVE  FewerTickets(r)
  BY TicketsGui, TicketsWorker, TicketsOthers, TicketsFailure DEF Next, Mishaps

-----------------------------------------------------------------------------
(* The course of a run, whatever the user does *)

\* Where a run stands changes only with its listener's steps or its start.
LEMMA ListenerStep ==
  ASSUME PoolInv, Next, NEW r \in Runs
  PROVE  \/ /\ UNCHANGED runIdHolder
            /\ listener'[r] = listener[r] /\ finishes'[r] = finishes[r]
            /\ outcome'[r] = "finished" => outcome[r] = "finished"
         \/ /\ PoolStartRun /\ runIdHolder' = run /\ runIdHolder < run /\ run \in Runs
            /\ UNCHANGED <<finishes, outcome>>
            /\ listener' = [listener EXCEPT ![run] = "running"]
         \/ /\ UNCHANGED runIdHolder /\ listener[r] = "running"
            /\ finishes'[r] \in {finishes[r], finishes[r] + 1}
            /\ \/ outcome'[r] = outcome[r] /\ listener'[r] = listener[r]
               \/ listener'[r] = "closing" /\ outcome'[r] = "error"
               \/ listener'[r] = "closing" /\ outcome'[r] = "finished" /\ finishes'[r] >= PoolSize
         \/ /\ UNCHANGED <<runIdHolder, finishes, outcome>>
            /\ listener[r] = "closing" /\ listener'[r] = "done"
  <1>0. /\ listener \in [Runs -> {"none", "running", "closing", "done"}]
        /\ finishes \in [Runs -> Nat]
        /\ outcome \in [Runs -> {"none", "finished", "error", "infeasible", "notReady"}]
        /\ run \in 0 .. NumRuns /\ runIdHolder \in 0 .. NumRuns
    BY DEF PoolInv, TypeOK, ListenerTypeOK, GuiTypeOK, SharedTypeOK
  <1>1. CASE PoolStartRun
    <2>1. runIdHolder < run /\ guiPc = "collect"
      BY <1>1 DEF PoolStartRun, PoolInv, RunInv
    <2>2. run \in Runs
      BY <1>0, <2>1, PoolAssumption DEF Runs
    <2> QED BY <1>1, <2>1, <2>2 DEF PoolStartRun
  <1>2. CASE (GuiMoves \/ Clicks) /\ ~PoolStartRun
    <2>1. UNCHANGED <<runIdHolder, listener, finishes>>
      BY <1>2 DEF GuiMoves, Clicks, CancelDrains, WaitReturns, RejectInfeasible, AskPool,
             CollectReady, ReadyTimesOut, ClickGenerate, ClickCancel, Close
    <2>2. \/ UNCHANGED outcome
          \/ \E q, how : outcome' = [outcome EXCEPT ![q] = how] /\ how \in {"infeasible", "notReady"}
      BY <1>2 DEF GuiMoves, Clicks, CancelDrains, WaitReturns, RejectInfeasible, AskPool,
             CollectReady, ReadyTimesOut, ClickGenerate, ClickCancel, Close
    <2>3. outcome'[r] = "finished" => outcome[r] = "finished"
      BY <1>0, <2>2
    <2> QED BY <2>1, <2>3
  <1>3. ASSUME NEW q \in Runs, ListenerMoves(q), q # r
        PROVE  /\ UNCHANGED runIdHolder
               /\ listener'[r] = listener[r] /\ finishes'[r] = finishes[r] /\ outcome'[r] = outcome[r]
    BY <1>0, <1>3 DEF ListenerMoves, DropStale, HandleBatch, HandleFinished, HandleError, Ends,
                      NoticeCrash, Shutdown, ReceiveOwn, Receive
  <1>4. ASSUME NEW p \in Producers, HandleFinished(r, p)
        PROVE  /\ UNCHANGED runIdHolder /\ listener[r] = "running" /\ finishes'[r] = finishes[r] + 1
               /\ \/ listener'[r] = listener[r] /\ outcome'[r] = outcome[r]
                  \/ finishes'[r] >= PoolSize /\ listener'[r] = "closing" /\ outcome'[r] = "finished"
    <2>1. /\ UNCHANGED runIdHolder /\ listener[r] = "running" /\ finishes'[r] = finishes[r] + 1
      BY <1>0, <1>4 DEF HandleFinished, ReceiveOwn, Receive
    <2>2. CASE finishes[r] + 1 >= ExpectedFinishes
      BY <1>0, <1>4, <2>1, <2>2 DEF HandleFinished, Ends, ExpectedFinishes
    <2>3. CASE ~(finishes[r] + 1 >= ExpectedFinishes)
      BY <1>4, <2>1, <2>3 DEF HandleFinished
    <2> QED BY <2>1, <2>2, <2>3
  <1>5. ASSUME NEW p \in Producers, HandleError(r, p)
        PROVE  /\ UNCHANGED runIdHolder /\ listener[r] = "running" /\ finishes'[r] = finishes[r]
               /\ listener'[r] = "closing" /\ outcome'[r] = "error"
    BY <1>0, <1>5 DEF HandleError, Ends, ReceiveOwn, Receive
  <1>6. CASE NoticeCrash(r)
    BY <1>0, <1>6 DEF NoticeCrash, Ends
  <1>7. CASE Shutdown(r)
    BY <1>0, <1>7 DEF Shutdown
  <1>8. ASSUME NEW p \in Producers, DropStale(r, p) \/ HandleBatch(r, p)
        PROVE  UNCHANGED <<runIdHolder, listener, finishes, outcome>>
    BY <1>8 DEF DropStale, HandleBatch, ReceiveOwn, Receive
  <1>9. ASSUME NEW q \in Runs, FeederMoves(q) \/ PartitionRaises(q)
        PROVE  UNCHANGED <<runIdHolder, listener, finishes, outcome>>
    BY <1>9 DEF FeederMoves, Partition, ReportPartitionError, FeedUnit, StopFeeding, FeedSentinels,
           PartitionRaises
  <1>10. ASSUME NEW w \in Workers, WorkerMoves(w) \/ WorkerRaises(w) \/ Crash(w) \/ Terminate(w)
         PROVE  UNCHANGED <<runIdHolder, listener, finishes, outcome>>
    BY <1>10 DEF WorkerMoves, Announce, TakePayload, TakeShutdown, ReadRunId, CheckCancel, GetEmpty,
           GetItem, ReachSchedule, RecordSchedule, DropSchedule, FinishUnit, AbandonUnit,
           FlushBuffer, SendFinished, SendError, WorkerRaises, Crash, Terminate
  <1>11. CASE \E p \in Producers : HandleFinished(r, p)
    <2>1. /\ UNCHANGED runIdHolder /\ listener[r] = "running" /\ finishes'[r] = finishes[r] + 1
          /\ \/ listener'[r] = listener[r] /\ outcome'[r] = outcome[r]
             \/ finishes'[r] >= PoolSize /\ listener'[r] = "closing" /\ outcome'[r] = "finished"
      BY <1>4, <1>11
    <2> QED BY <2>1
  <1>12. CASE \E p \in Producers : HandleError(r, p)
    BY <1>5, <1>12
  <1>13. CASE \E p \in Producers : DropStale(r, p) \/ HandleBatch(r, p)
    BY <1>8, <1>13
  <1>14. CASE \E q \in Runs : ListenerMoves(q)
    <2>1. CASE ListenerMoves(r)
      BY <1>6, <1>7, <1>11, <1>12, <1>13, <2>1 DEF ListenerMoves
    <2>2. CASE ~ListenerMoves(r)
      BY <1>3, <1>14, <2>2
    <2> QED BY <2>1, <2>2
  <1> QED BY <1>1, <1>2, <1>9, <1>10, <1>14 DEF Next, Mishaps

\* Nothing is sent for a run before PoolStartRun, and only its listener ends it.
LEMMA FreshStep == CourseInv /\ Next => FreshInv' /\ SignalInv' /\ OutcomeInv'
  <1> SUFFICES ASSUME CourseInv, Next PROVE FreshInv' /\ SignalInv' /\ OutcomeInv'
    OBVIOUS
  <1> USE DEF CourseInv
  <1>0. /\ runIdHolder \in Nat /\ PoolSize \in Nat
        /\ listener \in [Runs -> {"none", "running", "closing", "done"}] /\ finishes \in [Runs -> Nat]
        /\ feeder \in [Runs -> {"none", "partition", "failed", "feeding", "ending", "done"}]
    BY PoolSizeType, PoolAssumption DEF PoolInv, TypeOK, SharedTypeOK, ListenerTypeOK, FeederTypeOK
  <1>1. ASSUME NEW r \in Runs
        PROVE  /\ runIdHolder <= runIdHolder' /\ runIdHolder' \in Nat
               /\ r > runIdHolder' => listener'[r] = "none" /\ finishes'[r] = 0
               /\ outcome'[r] = "finished" => listener'[r] \in {"closing", "done"} /\ finishes'[r] >= PoolSize
    <2>1. r \in Nat /\ finishes[r] \in Nat
      BY <1>0 DEF Runs
    <2>2. CASE PoolStartRun /\ runIdHolder' = run /\ runIdHolder < run /\ run \in Runs
               /\ UNCHANGED <<finishes, outcome>> /\ listener' = [listener EXCEPT ![run] = "running"]
      <3>1. listener[run] = "none" /\ run \in Nat
        BY <2>2 DEF FreshInv, Runs
      <3>2. outcome[run] # "finished"
        BY <2>2, <3>1 DEF OutcomeInv
      <3> QED BY <1>0, <2>1, <2>2, <3>1, <3>2 DEF FreshInv, OutcomeInv
    <2>3. CASE UNCHANGED runIdHolder
      <3>1. r > runIdHolder => listener[r] = "none" /\ finishes[r] = 0
        BY DEF FreshInv
      <3>2. outcome[r] = "finished" => listener[r] \in {"closing", "done"} /\ finishes[r] >= PoolSize
        BY DEF OutcomeInv
      <3> QED BY <1>0, <2>1, <2>3, <3>1, <3>2, ListenerStep
    <2> QED BY <2>2, <2>3, ListenerStep
  <1>2. ASSUME NEW r \in Runs, r > runIdHolder' PROVE feeder'[r] = "none"
    <2>0. feeder[r] = "none" /\ r \in Nat
      BY <1>0, <1>1, <1>2 DEF FreshInv, Runs
    <2>1. CASE PoolStartRun
      BY <1>0, <1>2, <2>0, <2>1 DEF PoolStartRun
    <2>2. CASE ~PoolStartRun /\ (GuiMoves \/ Clicks)
      BY <2>0, <2>2 DEF GuiMoves, Clicks, CancelDrains, WaitReturns, RejectInfeasible, AskPool,
             CollectReady, ReadyTimesOut, ClickGenerate, ClickCancel, Close
    <2>3. ASSUME NEW q \in Runs, FeederMoves(q) \/ PartitionRaises(q) PROVE feeder'[r] = "none"
      BY <1>0, <2>0, <2>3 DEF FeederMoves, Partition, ReportPartitionError, FeedUnit, StopFeeding,
             FeedSentinels, PartitionRaises, FeederAt
    <2>4. ASSUME NEW q \in Runs, ListenerMoves(q) PROVE UNCHANGED feeder
      BY <2>4 DEF ListenerMoves, DropStale, HandleBatch, HandleFinished, HandleError,
             NoticeCrash, Shutdown, ReceiveOwn, Receive
    <2>5. ASSUME NEW w \in Workers, WorkerMoves(w) \/ WorkerRaises(w) \/ Crash(w) \/ Terminate(w)
          PROVE  UNCHANGED feeder
      BY <2>5 DEF WorkerMoves, Announce, TakePayload, TakeShutdown, ReadRunId, CheckCancel, GetEmpty,
           GetItem, ReachSchedule, RecordSchedule, DropSchedule, FinishUnit, AbandonUnit,
           FlushBuffer, SendFinished, SendError, WorkerRaises, Crash, Terminate
    <2> QED BY <2>0, <2>1, <2>2, <2>3, <2>4, <2>5 DEF Next, Mishaps
  <1>4. runIdHolder <= runIdHolder'
    <2>1. CASE PoolStartRun
      BY <2>1 DEF PoolInv, RunInv, PoolStartRun
    <2>2. CASE ~PoolStartRun
      <3>1. UNCHANGED runIdHolder
        BY <2>2 DEF Next, GuiMoves, Clicks, Mishaps, WorkerMoves, ListenerMoves, FeederMoves,
             CancelDrains, WaitReturns, RejectInfeasible, AskPool, CollectReady, ReadyTimesOut,
             ClickGenerate, ClickCancel, Close, Terminate, Announce, TakePayload, TakeShutdown,
             ReadRunId, CheckCancel, GetEmpty, GetItem, ReachSchedule, RecordSchedule, DropSchedule,
             FinishUnit, AbandonUnit, FlushBuffer, SendFinished, WorkerRaises, SendError, Crash,
             Receive, ReceiveOwn, DropStale, HandleBatch, HandleFinished, HandleError, NoticeCrash,
             Shutdown, Partition, PartitionRaises, ReportPartitionError, FeedUnit, StopFeeding,
             FeedSentinels
      <3> QED BY <1>0, <3>1
    <2> QED BY <2>1, <2>2
  <1>5. SignalInv' /\ \A p \in Producers : \A k \in 1 .. Len(resultQ'[p]) : resultQ'[p][k].tag <= runIdHolder'
    BY <1>4, QueueStep
  <1> QED BY <1>1, <1>2, <1>5 DEF FreshInv, OutcomeInv

\* A run starts with exactly its payloads for tickets.
LEMMA FreshTickets ==
  ASSUME CourseInv, Next, PoolStartRun, NEW r \in Runs, r = run
  PROVE  /\ IsFiniteSet(TicketsOf(r)') /\ Cardinality(TicketsOf(r)') = PoolSize
         /\ \A w \in Workers : wpc'[w] \notin Serving
         /\ \A p \in Producers : \A k \in 1 .. Len(resultQ'[p]) : resultQ'[p][k].tag # r
  <1>0. PoolInv /\ FreshInv /\ runIdHolder \in Nat /\ r \in Nat /\ PoolSize \in Nat
        /\ resultQ \in [Producers -> Seq(Messages)]
    BY PoolSizeType, PoolAssumption DEF CourseInv, PoolInv, TypeOK, SharedTypeOK, QueueTypeOK, Runs
  <1>1. Busy = {} /\ controlQ = <<>> /\ runIdHolder < r
    BY <1>0, AllTokensMeansIdle DEF PoolStartRun, TokensNeeded, PoolInv, RunInv
  <1>2. \A w \in Workers : wpc'[w] \notin Serving /\ wpc[w] \notin Serving
    BY <1>1 DEF Busy, PoolStartRun
  <1>3. finishes'[r] = 0
    BY <1>0, <1>1 DEF FreshInv, PoolStartRun
  <1>4. controlQ' = [i \in 1 .. PoolSize |-> r]
    BY <1>0, <1>1 DEF PoolStartRun
  <1>5. ASSUME NEW p \in Producers, NEW k \in 1 .. Len(resultQ'[p]) PROVE resultQ'[p][k].tag # r
    <2>1. ASSUME NEW j \in 1 .. Len(resultQ[p]), resultQ'[p][k] = resultQ[p][j]
          PROVE  resultQ'[p][k].tag # r
      <3>1. resultQ[p][j] \in Messages
        BY <1>0
      <3>2. resultQ[p][j].tag \in Nat /\ resultQ[p][j].tag <= runIdHolder
        BY <1>0, <3>1, PoolAssumption DEF FreshInv, Messages
      <3> QED BY <1>0, <1>1, <2>1, <3>2
    <2>2. ASSUME NEW q \in Runs, feeder[q] = "failed", resultQ'[p][k] = Error(q)
          PROVE  resultQ'[p][k].tag # r
      <3>1. q \in Nat /\ q <= runIdHolder
        BY <1>0, <2>2 DEF FreshInv, Runs
      <3> QED BY <1>0, <1>1, <2>2, <3>1 DEF Error
    <2>3. \A w \in Workers : wpc[w] \notin Tagged
      BY <1>2 DEF Serving
    <2> QED BY <1>0, <2>1, <2>2, <2>3, QueueGrows
  <1> QED BY <1>2, <1>3, <1>4, <1>5, StartTickets

\* Every step of the pool keeps the tickets within the pool size.
LEMMA CourseStep == CourseInv /\ [Next]_vars => CourseInv'
  <1> SUFFICES ASSUME CourseInv, [Next]_vars PROVE CourseInv'
    OBVIOUS
  <1>1. CASE UNCHANGED vars
    <2>1. PoolInv' /\ FreshInv' /\ SignalInv' /\ OutcomeInv'
      BY <1>1, InvStep DEF CourseInv, FreshInv, SignalInv, OutcomeInv, vars
    <2>2. \A r \in Runs : TicketsOf(r)' = TicketsOf(r)
      BY <1>1 DEF TicketsOf, PayloadTicket, ServingTicket, SentTicket, CountedTicket, vars
    <2> QED BY <2>1, <2>2 DEF CourseInv, TicketInv
  <1>2. CASE Next
    <2>1. PoolInv' /\ FreshInv' /\ SignalInv' /\ OutcomeInv'
      BY <1>2, FreshStep, InvStep DEF CourseInv
    <2>2. ASSUME NEW r \in Runs
          PROVE  IsFiniteSet(TicketsOf(r)') /\ Cardinality(TicketsOf(r)') <= PoolSize
      <3>0. IsFiniteSet(TicketsOf(r)) /\ Cardinality(TicketsOf(r)) <= PoolSize
        BY DEF CourseInv, TicketInv
      <3>1. CASE ~(PoolStartRun /\ r = run)
        <4>1. FewerTickets(r)
          BY <1>2, <3>0, <3>1, TicketStep DEF CourseInv
        <4>2. /\ IsFiniteSet(TicketsOf(r)') /\ Cardinality(TicketsOf(r)') <= Cardinality(TicketsOf(r))
              /\ Cardinality(TicketsOf(r)') \in Nat /\ Cardinality(TicketsOf(r)) \in Nat
          BY <3>0, <4>1, FS_CardinalityType DEF FewerTickets
        <4> QED BY <3>0, <4>2, PoolSizeType
      <3>2. CASE PoolStartRun /\ r = run
        BY <1>2, <3>2, FreshTickets, PoolSizeType
      <3> QED BY <3>1, <3>2
    <2> QED BY <2>1, <2>2 DEF CourseInv, TicketInv
  <1> QED BY <1>1, <1>2

\* Before the first run there are no tickets.
LEMMA CourseInit == Init => CourseInv
  <1> SUFFICES ASSUME Init PROVE CourseInv
    OBVIOUS
  <1>1. PoolInv
    BY InvInit
  <1>2. \A p \in Producers : Len(resultQ[p]) = 0
    BY DEF Init
  <1>3. FreshInv /\ SignalInv /\ OutcomeInv
    BY <1>2 DEF Init, FreshInv, SignalInv, OutcomeInv
  <1>4. ASSUME NEW r \in Runs
        PROVE  IsFiniteSet(TicketsOf(r)) /\ Cardinality(TicketsOf(r)) <= PoolSize
    <2>1. TicketsOf(r) = {}
      <3> SUFFICES ASSUME NEW t \in TicketsOf(r) PROVE FALSE
        OBVIOUS
      <3>1. ~PayloadTicket(t, r) /\ ~SentTicket(t, r) /\ ~CountedTicket(t, r)
        BY <1>2 DEF Init, PayloadTicket, SentTicket, CountedTicket
      <3>2. ~ServingTicket(t, r)
        BY DEF Init, ServingTicket, Serving, Tagged
      <3> QED BY <3>1, <3>2 DEF TicketsOf
    <2> QED BY <2>1, FS_EmptySet, PoolSizeType
  <1> QED BY <1>1, <1>3, <1>4 DEF CourseInv, TicketInv

-----------------------------------------------------------------------------
(* When every FINISHED was counted *)

\* A listener that counted one FINISHED per worker has counted every ticket.
NothingOnItsWay(r) ==
    /\ \A w \in Workers : wpc[w] \in Serving => wrun[w] # r
    /\ \A p \in Producers : \A k \in 1 .. Len(resultQ[p]) :
          resultQ[p][k].type = "FINISHED" => resultQ[p][k].tag # r
    /\ Cardinality(TicketsOf(r)) = PoolSize
CountedIsAll == \A r \in Runs : finishes[r] >= PoolSize => NothingOnItsWay(r)

\* Once a FINISHED per worker is counted, no ticket is left anywhere else.
LEMMA AllCounted == CourseInv => CountedIsAll
  <1> SUFFICES ASSUME CourseInv, NEW r \in Runs, finishes[r] >= PoolSize PROVE NothingOnItsWay(r)
    BY DEF CountedIsAll
  <1> DEFINE ticket(i) == <<"counted", i, 0>>
             f == [i \in 1 .. PoolSize |-> ticket(i)]
  <1>1. /\ PoolSize \in Nat /\ finishes[r] \in Nat /\ resultQ \in [Producers -> Seq(Messages)]
        /\ IsFiniteSet(TicketsOf(r)) /\ Cardinality(TicketsOf(r)) <= PoolSize
        /\ Cardinality(TicketsOf(r)) \in Nat
    BY PoolSizeType, FS_CardinalityType
       DEF CourseInv, TicketInv, PoolInv, TypeOK, ListenerTypeOK, QueueTypeOK
  <1>2. ASSUME NEW i \in 1 .. PoolSize PROVE ticket(i) \in TicketsOf(r)
    BY <1>1 DEF TicketsOf, TicketIds, CountedTicket
  <1>3. f \in [1 .. PoolSize -> TicketsOf(r)] /\ \A i, j \in 1 .. PoolSize : f[i] = f[j] => i = j
    BY <1>2
  <1>4. f \in Injection(1 .. PoolSize, TicketsOf(r))
    BY <1>3, Fun_IsInj
  <1>5. Cardinality(1 .. PoolSize) = PoolSize
    BY <1>1, FS_Interval
  <1>6. Cardinality(TicketsOf(r)) = PoolSize /\ f \in Surjection(1 .. PoolSize, TicketsOf(r))
    BY <1>1, <1>4, <1>5, FS_Injection
  <1>7. ASSUME NEW t \in TicketsOf(r) PROVE t[1] = "counted"
    <2>1. \E i \in 1 .. PoolSize : f[i] = t
      BY <1>6 DEF Surjection
    <2> QED BY <2>1
  <1>8. ASSUME NEW w \in Workers, wpc[w] \in Serving PROVE wrun[w] # r
    <2>1. <<"serving", w, 0>> \notin TicketsOf(r)
      BY <1>7
    <2> QED BY <1>8, <2>1 DEF TicketsOf, TicketIds, ServingTicket, Producers
  <1>9. ASSUME NEW p \in Producers, NEW k \in 1 .. Len(resultQ[p]), resultQ[p][k].type = "FINISHED"
        PROVE  resultQ[p][k].tag # r
    <2>1. <<"sent", p, k>> \notin TicketsOf(r)
      BY <1>7
    <2>2. <<"sent", p, k>> \in TicketIds
      BY <1>1 DEF TicketIds
    <2> QED BY <1>9, <2>1, <2>2 DEF TicketsOf, SentTicket
  <1> QED BY <1>6, <1>8, <1>9 DEF NothingOnItsWay

-----------------------------------------------------------------------------
(* While no ticket is lost, no claim is *)

\* How many schedules of a run a worker holds, and how many a message carries.
HeldFor(w, r) == IF wpc[w] \in Tagged /\ wrun[w] = r THEN wbuf[w] ELSE 0
SentFor(p, k, r) ==
    IF k \in 1 .. Len(resultQ[p]) /\ resultQ[p][k].tag = r THEN resultQ[p][k].count ELSE 0

\* Every message with schedules of the run has its sender's FINISHED behind it, or
\* its sender still serves the run.
FollowedIn(p, r) ==
    \A k \in 1 .. Len(resultQ[p]) :
        resultQ[p][k].tag = r /\ resultQ[p][k].count > 0 =>
            \/ \E j \in 1 .. Len(resultQ[p]) :
                  j > k /\ resultQ[p][j].type = "FINISHED" /\ resultQ[p][j].tag = r
            \/ p \in Workers /\ wpc[p] \in Serving /\ wrun[p] = r
Followed(r) == \A p \in Producers : FollowedIn(p, r)

\* Nothing the run recorded was lost so far.
AllClaimed(r) == Followed(r) /\ Cardinality(ClaimsOf(r)) = recorded[r]

\* The listener counts, the user did not cancel, and no ticket was lost.
Whole(r) ==
    listener[r] = "running" /\ r \notin cancelled /\ Cardinality(TicketsOf(r)) = PoolSize

WholeInv == \A r \in Runs : Whole(r) => AllClaimed(r)

\* A user who waits leaves at most one listener at work, that of the last run, and
\* the GUI thread idle meanwhile.
PatientInv ==
    \A r \in Runs : listener[r] \in {"running", "closing"} => r = worker /\ guiPc \in {"idle", "closed"}

\* The claims of a run, by who holds them.
HeldBy(c, r) ==
    \/ c[1] = "saved" /\ c[2] = r /\ c[3] = 0 /\ c[4] \in 1 .. saved[r]
    \/ c[1] = "held" /\ c[2] \in Workers /\ c[3] = 0 /\ c[4] \in 1 .. HeldFor(c[2], r)
    \/ c[1] = "sent" /\ c[2] \in Producers /\ c[4] \in 1 .. SentFor(c[2], c[3], r)
ClaimsAreHeld == \A r \in Runs : \A c \in ClaimIds : c \in ClaimsOf(r) <=> HeldBy(c, r)

\* The claims of the ledger, by holder.
LEMMA ClaimsAre == ClaimsAreHeld
  <1> SUFFICES ASSUME NEW r \in Runs, NEW c \in ClaimIds PROVE c \in ClaimsOf(r) <=> HeldBy(c, r)
    BY DEF ClaimsAreHeld
  <1> USE DEF HeldBy, ClaimsOf, Claims, RunOf, SavedClaim, HeldClaim, SentClaim
  <1>0. 1 .. 0 = {}
    OBVIOUS
  <1>1. CASE c[1] = "saved"
    BY <1>1
  <1>2. CASE c[1] = "held"
    BY <1>0, <1>2 DEF HeldFor
  <1>3. CASE c[1] = "sent"
    BY <1>0, <1>3 DEF SentFor
  <1> QED BY <1>1, <1>2, <1>3 DEF ClaimIds

\* Steps that leave every holder with what it has.
LEMMA ClaimsStay ==
  ASSUME NEW r \in Runs, saved'[r] = saved[r],
         \A w \in Workers : HeldFor(w, r)' = HeldFor(w, r),
         \A p \in Producers : \A k \in Nat : SentFor(p, k, r)' = SentFor(p, k, r)
  PROVE  ClaimsOf(r)' = ClaimsOf(r)
  <1>1. ClaimsOf(r) \subseteq ClaimIds /\ ClaimsOf(r)' \subseteq ClaimIds
    BY DEF ClaimsOf, Claims
  <1>2. ClaimsAreHeld /\ ClaimsAreHeld'
    BY ClaimsAre, PTL
  <1>3. ASSUME NEW c \in ClaimIds PROVE c \in ClaimsOf(r)' <=> c \in ClaimsOf(r)
    <2>1. c[3] \in Nat
      BY DEF ClaimIds
    <2>2. HeldBy(c, r)' <=> HeldBy(c, r)
      BY <2>1 DEF HeldBy
    <2>3. (c \in ClaimsOf(r) <=> HeldBy(c, r)) /\ (c \in ClaimsOf(r)' <=> HeldBy(c, r)')
      BY <1>2 DEF ClaimsAreHeld
    <2> QED BY <2>2, <2>3
  <1> QED BY <1>1, <1>3

\* A worker that serves the run goes on doing so.
ServesOn(w, r) == wpc[w] \in Serving /\ wrun[w] = r => wpc'[w] \in Serving /\ wrun'[w] = r

\* A step of nobody who holds schedules of the run, and no message moves.
LEMMA QuietClaimed ==
  ASSUME NEW r \in Runs, AllClaimed(r), UNCHANGED <<saved, resultQ, recorded>>,
         \A w \in Workers : ServesOn(w, r) /\ HeldFor(w, r)' = HeldFor(w, r)
  PROVE  AllClaimed(r)'
  <1>1. \A p \in Producers : \A k \in Nat : SentFor(p, k, r)' = SentFor(p, k, r)
    BY DEF SentFor
  <1>2. ClaimsOf(r)' = ClaimsOf(r)
    BY <1>1, ClaimsStay
  <1>3. Followed(r)'
    BY DEF AllClaimed, Followed, FollowedIn, ServesOn
  <1> QED BY <1>2, <1>3 DEF AllClaimed

\* A message is sent: its sender serves on, or it is the FINISHED of its run.
LEMMA SendFollowed ==
  ASSUME TypeOK, NEW r \in Runs, Followed(r),
         NEW p \in Producers, NEW m \in Messages, Send(p, m),
         \A w \in Workers \ {p} : ServesOn(w, r),
         \/ p \in Workers /\ ServesOn(p, r) /\ (m.tag = r /\ m.count > 0 => wpc'[p] \in Serving /\ wrun'[p] = r)
         \/ p \notin Workers /\ m.count = 0
         \/ m.type = "FINISHED" /\ m.count = 0 /\ m.tag = wrun[p]
         \/ m.count = 0 /\ wrun[p] # r
  PROVE  Followed(r)'
  <1>1. /\ resultQ \in [Producers -> Seq(Messages)]
        /\ resultQ' = [resultQ EXCEPT ![p] = Append(@, m)]
    BY DEF TypeOK, QueueTypeOK, Send
  <1>2. ASSUME NEW q \in Producers, q # p PROVE FollowedIn(q, r)'
    <2>1. resultQ'[q] = resultQ[q]
      BY <1>1, <1>2
    <2>2. q \in Workers => ServesOn(q, r)
      BY <1>2
    <2>3. FollowedIn(q, r)
      BY DEF Followed
    <2> QED BY <2>1, <2>2, <2>3 DEF FollowedIn, ServesOn
  <1>3. FollowedIn(p, r)'
    <2> SUFFICES ASSUME NEW k \in 1 .. Len(resultQ'[p]),
                        resultQ'[p][k].tag = r, resultQ'[p][k].count > 0
                 PROVE  \/ \E j \in 1 .. Len(resultQ'[p]) :
                              j > k /\ resultQ'[p][j].type = "FINISHED" /\ resultQ'[p][j].tag = r
                        \/ p \in Workers /\ wpc'[p] \in Serving /\ wrun'[p] = r
      BY DEF FollowedIn
    <2> DEFINE last == Len(resultQ[p]) + 1
    <2>1. resultQ'[p] = Append(resultQ[p], m) /\ resultQ[p] \in Seq(Messages)
      BY <1>1
    <2>2. /\ Len(resultQ'[p]) = last /\ resultQ'[p][last] = m /\ last \in Nat
          /\ k # last => k \in 1 .. Len(resultQ[p]) /\ resultQ'[p][k] = resultQ[p][k] /\ k < last
          /\ \A j \in 1 .. Len(resultQ[p]) : j \in 1 .. last /\ resultQ'[p][j] = resultQ[p][j]
      BY <2>1
    <2>3. CASE k = last
      <3>1. m.tag = r /\ m.count > 0 /\ m.count # 0
        BY <2>2, <2>3
      <3> QED BY <3>1
    <2>4. CASE k # last
      <3>1. \/ \E j \in 1 .. Len(resultQ[p]) :
                   j > k /\ resultQ[p][j].type = "FINISHED" /\ resultQ[p][j].tag = r
            \/ p \in Workers /\ wpc[p] \in Serving /\ wrun[p] = r
        BY <2>2, <2>4 DEF Followed, FollowedIn
      <3>2. CASE \E j \in 1 .. Len(resultQ[p]) :
                    j > k /\ resultQ[p][j].type = "FINISHED" /\ resultQ[p][j].tag = r
        <4>1. PICK j \in 1 .. Len(resultQ[p]) :
                 j > k /\ resultQ[p][j].type = "FINISHED" /\ resultQ[p][j].tag = r
          BY <3>2
        <4>2. j \in 1 .. Len(resultQ'[p]) /\ resultQ'[p][j] = resultQ[p][j]
          BY <2>2
        <4> QED BY <4>1, <4>2
      <3>3. CASE p \in Workers /\ wpc[p] \in Serving /\ wrun[p] = r
        <4>1. CASE ServesOn(p, r)
          BY <3>3, <4>1 DEF ServesOn
        <4>2. CASE m.type = "FINISHED" /\ m.tag = r
          <5>1. last \in 1 .. Len(resultQ'[p]) /\ last > k
            BY <2>2, <2>4
          <5> QED BY <2>2, <4>2, <5>1
        <4> QED BY <3>3, <4>1, <4>2
      <3> QED BY <3>1, <3>2, <3>3
    <2> QED BY <2>3, <2>4
  <1> QED BY <1>2, <1>3 DEF Followed

\* A message is taken from the front of a queue: what followed it still follows.
LEMMA TakeFollowed ==
  ASSUME TypeOK, NEW r \in Runs, Followed(r), UNCHANGED <<wpc, wrun>>,
         NEW p \in Producers, resultQ[p] # <<>>, resultQ' = [resultQ EXCEPT ![p] = Tail(@)]
  PROVE  Followed(r)'
  <1>1. resultQ \in [Producers -> Seq(Messages)]
    BY DEF TypeOK, QueueTypeOK
  <1>2. /\ Len(resultQ'[p]) = Len(resultQ[p]) - 1 /\ Len(resultQ[p]) \in Nat
        /\ \A i \in 1 .. Len(resultQ'[p]) : resultQ'[p][i] = resultQ[p][i + 1]
    BY <1>1
  <1>3. ASSUME NEW q \in Producers, q # p PROVE FollowedIn(q, r)'
    <2>1. resultQ'[q] = resultQ[q]
      BY <1>1, <1>3
    <2>2. FollowedIn(q, r)
      BY DEF Followed
    <2> QED BY <2>1, <2>2 DEF FollowedIn
  <1>4. FollowedIn(p, r)'
    <2> SUFFICES ASSUME NEW k \in 1 .. Len(resultQ'[p]),
                        resultQ'[p][k].tag = r, resultQ'[p][k].count > 0
                 PROVE  \/ \E j \in 1 .. Len(resultQ'[p]) :
                              j > k /\ resultQ'[p][j].type = "FINISHED" /\ resultQ'[p][j].tag = r
                        \/ p \in Workers /\ wpc'[p] \in Serving /\ wrun'[p] = r
      BY DEF FollowedIn
    <2>1. resultQ'[p] = Tail(resultQ[p]) /\ resultQ[p] \in Seq(Messages) /\ resultQ[p] # <<>>
      BY <1>1
    <2>2. /\ Len(resultQ'[p]) = Len(resultQ[p]) - 1 /\ Len(resultQ[p]) \in Nat
          /\ k + 1 \in 1 .. Len(resultQ[p]) /\ resultQ'[p][k] = resultQ[p][k + 1] /\ k \in Nat
      BY <1>2
    <2>3. CASE p \in Workers /\ wpc[p] \in Serving /\ wrun[p] = r
      BY <2>3
    <2>4. CASE \E j \in 1 .. Len(resultQ[p]) :
                  j > k + 1 /\ resultQ[p][j].type = "FINISHED" /\ resultQ[p][j].tag = r
      <3>1. PICK j \in 1 .. Len(resultQ[p]) :
               j > k + 1 /\ resultQ[p][j].type = "FINISHED" /\ resultQ[p][j].tag = r
        BY <2>4
      <3>2. j - 1 \in 1 .. Len(resultQ'[p]) /\ j - 1 > k /\ resultQ'[p][j - 1] = resultQ[p][j]
        BY <2>1, <2>2, <3>1
      <3> QED BY <3>1, <3>2
    <2> QED BY <2>2, <2>3, <2>4 DEF Followed, FollowedIn
  <1> QED BY <1>3, <1>4 DEF Followed

\* A message without schedules is sent, and the buffers keep what they hold of r.
LEMMA SignalClaims ==
  ASSUME TypeOK, NEW r \in Runs, UNCHANGED saved,
         NEW p \in Producers, NEW m \in Messages, m.count = 0, Send(p, m),
         \A w \in Workers : HeldFor(w, r)' = HeldFor(w, r)
  PROVE  ClaimsOf(r)' = ClaimsOf(r)
  <1>1. /\ resultQ \in [Producers -> Seq(Messages)]
        /\ resultQ' = [resultQ EXCEPT ![p] = Append(@, m)]
    BY DEF TypeOK, QueueTypeOK, Send
  <1>2. ASSUME NEW q \in Producers, NEW k \in Nat PROVE SentFor(q, k, r)' = SentFor(q, k, r)
    <2>1. CASE q # p
      <3>1. resultQ'[q] = resultQ[q]
        BY <1>1, <2>1
      <3> QED BY <3>1 DEF SentFor
    <2>2. CASE q = p
      <3>1. resultQ'[p] = Append(resultQ[p], m) /\ resultQ[p] \in Seq(Messages)
        BY <1>1
      <3>2. /\ k \in 1 .. Len(resultQ[p]) => k \in 1 .. Len(resultQ'[p]) /\ resultQ'[p][k] = resultQ[p][k]
            /\ k \in 1 .. Len(resultQ'[p]) /\ k \notin 1 .. Len(resultQ[p]) => resultQ'[p][k] = m
        BY <3>1
      <3> QED BY <2>2, <3>2 DEF SentFor
    <2> QED BY <2>1, <2>2
  <1> QED BY <1>2, ClaimsStay

\* A worker whose ticket is kept loses no schedule of its run.
LEMMA WholeWorker ==
  ASSUME PoolInv, NEW w \in Workers, WorkerMoves(w), NEW r \in Runs, AllClaimed(r),
         IsFiniteSet(ClaimsOf(r)), IsFiniteSet(TicketsOf(r)), ~LostTicket(r)
  PROVE  AllClaimed(r)'
  <1>1. /\ TypeOK /\ wpc \in [Workers -> WorkerPcs] /\ wrun \in [Workers -> 0 .. NumRuns]
        /\ wbuf \in [Workers -> 0 .. BatchSize] /\ BatchSize \in Nat
        /\ wtag[w] \in 0 .. NumRuns /\ wbuf[w] \in 0 .. BatchSize /\ w \in Producers
    BY PoolAssumption DEF PoolInv, TypeOK, WorkerTypeOK, Producers
  <1>2. Followed(r) /\ Cardinality(ClaimsOf(r)) = recorded[r] /\ recorded[r] \in Nat
    BY DEF AllClaimed, PoolInv, TypeOK, HistoryTypeOK
  <1>3. wpc[w] \in Tagged => wtag[w] = wrun[w]
    BY DEF PoolInv, ServeInv, Serving
  <1>4. CASE RecordSchedule(w)
    <2>1. /\ UNCHANGED <<resultQ, wrun>> /\ wpc[w] \in Serving
          /\ \E to \in {"batch", "search"} : wpc' = [wpc EXCEPT ![w] = to]
      BY <1>4 DEF RecordSchedule, WorkerAt, Serving, Tagged
    <2>2. \A v \in Workers : ServesOn(v, r)
      BY <1>1, <2>1 DEF ServesOn, Serving, Tagged
    <2>3. Followed(r)'
      BY <1>2, <2>1, <2>2 DEF Followed, FollowedIn, ServesOn
    <2>4. Cardinality(ClaimsOf(r)') = recorded'[r]
      BY <1>2, <1>4, RecordStep
    <2> QED BY <2>3, <2>4 DEF AllClaimed
  <1>5. CASE FlushBuffer(w)
    <2> DEFINE m == Batch(wtag[w], wbuf[w])
    <2>1. /\ UNCHANGED <<recorded, wrun>> /\ wpc[w] \in Tagged /\ Send(w, m)
          /\ \E to \in {"flush", "search"} : wpc' = [wpc EXCEPT ![w] = to]
      BY <1>5 DEF FlushBuffer, WorkerAt, Tagged
    <2>2. \A v \in Workers : ServesOn(v, r)
      BY <1>1, <2>1 DEF ServesOn, Serving, Tagged
    <2>3. m.tag = r => wpc'[w] \in Serving /\ wrun'[w] = r
      BY <1>1, <1>3, <2>1 DEF Batch, Serving, Tagged
    <2>4. m \in Messages
      BY <1>1, MessageType
    <2> HIDE DEF m
    <2>5. Followed(r)'
      BY <1>1, <1>2, <2>1, <2>2, <2>3, <2>4, SendFollowed
    <2>6. Cardinality(ClaimsOf(r)') = recorded'[r]
      BY <1>2, <1>5, <2>1, FlushStep DEF AsMany
    <2> QED BY <2>5, <2>6 DEF AllClaimed
  <1>6. ASSUME NEW m \in Messages, m.count = 0, Send(w, m), UNCHANGED <<saved, recorded, wrun, wbuf>>,
               wpc' = [wpc EXCEPT ![w] = "announce"], HeldFor(w, r) = 0,
               (m.type = "FINISHED" /\ m.tag = wrun[w]) \/ wrun[w] # r
        PROVE  AllClaimed(r)'
    <2>1. \A v \in Workers : v # w => wpc'[v] = wpc[v]
      BY <1>1, <1>6
    <2>2. HeldFor(w, r)' = 0
      BY <1>1, <1>6 DEF HeldFor, Tagged
    <2>3. \A v \in Workers : HeldFor(v, r)' = HeldFor(v, r)
      BY <1>6, <2>1, <2>2 DEF HeldFor
    <2>4. \A v \in Workers \ {w} : ServesOn(v, r)
      BY <1>6, <2>1 DEF ServesOn
    <2>5. ClaimsOf(r)' = ClaimsOf(r)
      BY <1>1, <1>6, <2>3, SignalClaims
    <2>6. Followed(r)'
      BY <1>1, <1>2, <1>6, <2>4, SendFollowed
    <2> QED BY <1>2, <1>6, <2>5, <2>6 DEF AllClaimed
  <1>7. CASE SendFinished(w)
    <2>1. /\ UNCHANGED <<saved, recorded, wrun, wbuf>> /\ wpc' = [wpc EXCEPT ![w] = "announce"]
          /\ Send(w, Finished(wtag[w])) /\ wbuf[w] = 0 /\ wpc[w] \in Tagged
      BY <1>7 DEF SendFinished, WorkerAt, MayFinish, Tagged
    <2>2. HeldFor(w, r) = 0
      BY <2>1 DEF HeldFor
    <2>3. Finished(wtag[w]) \in Messages
      BY <1>1, MessageType
    <2>4. /\ Finished(wtag[w]).count = 0 /\ Finished(wtag[w]).type = "FINISHED"
          /\ Finished(wtag[w]).tag = wrun[w]
      BY <1>3, <2>1 DEF Finished
    <2> QED BY <1>6, <2>1, <2>2, <2>3, <2>4
  <1>8. CASE SendError(w)
    <2>1. /\ UNCHANGED <<saved, recorded, wrun, wbuf>> /\ wpc' = [wpc EXCEPT ![w] = "announce"]
          /\ Send(w, Error(wtag[w]))
      BY <1>8 DEF SendError, WorkerAt
    <2>2. wrun[w] # r
      BY <1>8, TicketsWorker
    <2>3. Error(wtag[w]) \in Messages
      BY <1>1, MessageType
    <2>4. Error(wtag[w]).count = 0 /\ HeldFor(w, r) = 0
      BY <2>2 DEF Error, HeldFor
    <2> QED BY <1>6, <2>1, <2>2, <2>3, <2>4
  <1>9. CASE TakePayload(w) \/ TakeShutdown(w) \/ Announce(w)
    <2>1. /\ UNCHANGED <<saved, recorded, resultQ, wbuf>>
          /\ \A v \in Workers \ {w} : wrun'[v] = wrun[v]
          /\ wpc[w] \in {"announce", "parked"}
          /\ \E to \in {"tag", "exited", "parked"} : wpc' = [wpc EXCEPT ![w] = to]
      BY <1>1, <1>9 DEF TakePayload, TakeShutdown, Announce, WorkerAt
    <2>2. \A v \in Workers \ {w} : ServesOn(v, r) /\ HeldFor(v, r)' = HeldFor(v, r)
      BY <1>1, <2>1 DEF ServesOn, HeldFor
    <2>3. ServesOn(w, r) /\ HeldFor(w, r)' = HeldFor(w, r)
      BY <1>1, <2>1 DEF ServesOn, HeldFor, Serving, Tagged
    <2> QED BY <2>1, <2>2, <2>3, QuietClaimed
  <1>10. CASE ReadRunId(w)
    <2>1. /\ UNCHANGED <<saved, recorded, resultQ, wrun>> /\ wpc[w] = "tag"
          /\ wpc' = [wpc EXCEPT ![w] = "pull"] /\ wbuf' = [wbuf EXCEPT ![w] = 0]
      BY <1>10 DEF ReadRunId, WorkerAt
    <2>2. \A v \in Workers \ {w} : ServesOn(v, r) /\ HeldFor(v, r)' = HeldFor(v, r)
      BY <1>1, <2>1 DEF ServesOn, HeldFor
    <2>3. ServesOn(w, r) /\ HeldFor(w, r)' = HeldFor(w, r)
      BY <1>1, <2>1 DEF ServesOn, HeldFor, Serving, Tagged
    <2> QED BY <2>1, <2>2, <2>3, QuietClaimed
  <1>11. CASE \/ CheckCancel(w) \/ GetEmpty(w) \/ GetItem(w) \/ ReachSchedule(w)
              \/ DropSchedule(w) \/ FinishUnit(w) \/ AbandonUnit(w)
    <2>1. /\ UNCHANGED <<saved, recorded, resultQ, wrun, wbuf>>
          /\ wpc[w] \in {"pull", "getting", "search", "record"}
      BY <1>11 DEF CheckCancel, GetEmpty, GetItem, ReachSchedule, DropSchedule, FinishUnit,
                   AbandonUnit, WorkerAt
    <2>2. \E to \in {"flush", "getting", "pull", "search", "record"} : wpc' = [wpc EXCEPT ![w] = to]
      BY <1>11 DEF CheckCancel, GetEmpty, GetItem, ReachSchedule, DropSchedule, FinishUnit,
                   AbandonUnit, WorkerAt
    <2>3. \A v \in Workers : ServesOn(v, r) /\ HeldFor(v, r)' = HeldFor(v, r)
      BY <1>1, <2>1, <2>2 DEF ServesOn, HeldFor, Serving, Tagged
    <2> QED BY <2>1, <2>3, QuietClaimed
  <1> QED BY <1>4, <1>5, <1>7, <1>8, <1>9, <1>10, <1>11 DEF WorkerMoves

\* The listener counts or saves what it takes, and a feeder has no schedules.
LEMMA WholeOthers ==
  ASSUME PoolInv, SignalInv, NEW r \in Runs, AllClaimed(r), IsFiniteSet(ClaimsOf(r)),
         NEW q \in Runs, (ListenerMoves(q) /\ ~Shutdown(q)) \/ FeederMoves(q) \/ PartitionRaises(q),
         ListenerMoves(q) => q = r
  PROVE  AllClaimed(r)'
  <1>1. TypeOK /\ UNCHANGED <<wpc, wrun, wbuf, recorded>> /\ resultQ \in [Producers -> Seq(Messages)]
    BY DEF PoolInv, TypeOK, QueueTypeOK, ListenerMoves, DropStale, HandleBatch, HandleFinished,
           HandleError, NoticeCrash, Shutdown, ReceiveOwn, Receive, FeederMoves, Partition,
           ReportPartitionError, FeedUnit, StopFeeding, FeedSentinels, PartitionRaises
  <1>2. Followed(r) /\ Cardinality(ClaimsOf(r)) = recorded[r]
    BY DEF AllClaimed
  <1>3. \A w \in Workers : ServesOn(w, r) /\ HeldFor(w, r)' = HeldFor(w, r)
    BY <1>1 DEF ServesOn, HeldFor
  <1>4. ASSUME NEW p \in Producers,
               DropStale(q, p) \/ HandleBatch(q, p) \/ HandleFinished(q, p) \/ HandleError(q, p)
        PROVE  AllClaimed(r)'
    <2>1. resultQ[p] # <<>> /\ resultQ' = [resultQ EXCEPT ![p] = Tail(@)] /\ q = r
      BY <1>4 DEF DropStale, HandleBatch, HandleFinished, HandleError, ReceiveOwn, Receive, ListenerMoves
    <2>2. Followed(r)'
      BY <1>1, <1>2, <2>1, TakeFollowed
    <2>3. AsMany(r)
      <3>1. CASE HandleBatch(q, p)
        BY <1>1, <3>1, SaveStep
      <3>2. CASE DropStale(q, p)
        <4>1. UNCHANGED saved /\ Head(resultQ[p]).tag # r
          BY <2>1, <3>2 DEF DropStale, Stale
        <4> QED BY <1>1, <2>1, <4>1, TakeStep
      <3>3. CASE HandleFinished(q, p) \/ HandleError(q, p)
        <4>1. UNCHANGED saved /\ Head(resultQ[p]).type # "SCHEDULE_BATCH"
          BY <3>3 DEF HandleFinished, HandleError, ReceiveOwn
        <4>2. Head(resultQ[p]) = resultQ[p][1] /\ 1 \in 1 .. Len(resultQ[p])
          BY <1>1, <2>1
        <4>3. Head(resultQ[p]).count = 0
          BY <4>1, <4>2 DEF SignalInv
        <4> QED BY <1>1, <2>1, <4>1, <4>3, TakeStep
      <3> QED BY <1>4, <3>1, <3>2, <3>3
    <2> QED BY <1>1, <1>2, <2>2, <2>3 DEF AllClaimed, AsMany
  <1>5. CASE ReportPartitionError(q)
    <2>1. /\ Error(q) \in Messages /\ Error(q).count = 0 /\ Main \in Producers
          /\ Send(Main, Error(q)) /\ UNCHANGED saved
      BY <1>5, MessageType, PoolAssumption DEF Runs, Producers, Error, ReportPartitionError
    <2>2. ClaimsOf(r)' = ClaimsOf(r)
      BY <1>1, <1>3, <2>1, SignalClaims
    <2>3. Followed(r)'
      BY <1>1, <1>2, <1>3, <2>1, SendFollowed
    <2> QED BY <1>1, <1>2, <2>2, <2>3 DEF AllClaimed
  <1>6. CASE NoticeCrash(q) \/ Partition(q) \/ FeedUnit(q) \/ StopFeeding(q) \/ FeedSentinels(q)
             \/ PartitionRaises(q)
    <2>1. UNCHANGED <<resultQ, saved>>
      BY <1>6 DEF NoticeCrash, Partition, FeedUnit, StopFeeding, FeedSentinels, PartitionRaises
    <2> QED BY <1>1, <1>3, <2>1, QuietClaimed
  <1> QED BY <1>4, <1>5, <1>6 DEF ListenerMoves, FeederMoves

\* A process that dies without a ticket of the run has no schedules of it either.
LEMMA WholeFailure ==
  ASSUME PoolInv, NEW w \in Workers, WorkerRaises(w) \/ Crash(w) \/ Terminate(w),
         NEW r \in Runs, AllClaimed(r), IsFiniteSet(TicketsOf(r)), ~LostTicket(r)
  PROVE  AllClaimed(r)'
  <1>1. /\ wpc \in [Workers -> WorkerPcs] /\ resultQ \in [Producers -> Seq(Messages)]
        /\ UNCHANGED <<wrun, wbuf, saved, recorded>> /\ w \in Producers
        /\ TicketsOf(r)' = TicketsOf(r)
    BY TicketsFailure DEF PoolInv, TypeOK, WorkerTypeOK, QueueTypeOK, Producers,
                          WorkerRaises, Crash, Terminate
  <1>2. Followed(r) /\ Cardinality(ClaimsOf(r)) = recorded[r]
    BY DEF AllClaimed
  <1>3. CASE WorkerRaises(w)
    <2>1. wpc[w] \in {"pull", "search"} /\ wpc' = [wpc EXCEPT ![w] = "error"] /\ UNCHANGED resultQ
      BY <1>3 DEF WorkerRaises, WorkerAt
    <2>2. \A v \in Workers : ServesOn(v, r) /\ HeldFor(v, r)' = HeldFor(v, r)
      BY <1>1, <2>1 DEF ServesOn, HeldFor, Serving, Tagged
    <2> QED BY <1>1, <2>1, <2>2, QuietClaimed
  <1>4. ASSUME wpc' = [wpc EXCEPT ![w] = "dead"]
        PROVE  /\ ~(wpc[w] \in Serving /\ wrun[w] = r)
               /\ \A v \in Workers : ServesOn(v, r) /\ HeldFor(v, r)' = HeldFor(v, r)
    <2>1. wpc'[w] = "dead" /\ "dead" \notin Serving /\ \A v \in Workers : v # w => wpc'[v] = wpc[v]
      BY <1>1, <1>4 DEF Serving, Tagged
    <2>2. <<"serving", w, 0>> \notin TicketsOf(r)'
      BY <2>1 DEF TicketsOf, PayloadTicket, ServingTicket, SentTicket, CountedTicket
    <2>3. <<"serving", w, 0>> \in TicketIds
      BY <1>1 DEF TicketIds
    <2>4. ~(wpc[w] \in Serving /\ wrun[w] = r)
      BY <1>1, <2>2, <2>3 DEF TicketsOf, ServingTicket
    <2>5. HeldFor(w, r) = 0 /\ HeldFor(w, r)' = 0
      BY <2>1, <2>4 DEF HeldFor, Serving
    <2> QED BY <1>1, <2>1, <2>4, <2>5 DEF ServesOn, HeldFor
  <1>5. CASE Terminate(w)
    <2>1. wpc' = [wpc EXCEPT ![w] = "dead"] /\ UNCHANGED resultQ
      BY <1>5 DEF Terminate
    <2> QED BY <1>1, <1>4, <2>1, QuietClaimed
  <1>6. CASE Crash(w)
    <2>1. PICK n \in 0 .. QueueCap :
            n <= Len(resultQ[w]) /\ resultQ' = [resultQ EXCEPT ![w] = SubSeq(@, 1, n)]
      BY <1>6 DEF Crash
    <2>2. wpc' = [wpc EXCEPT ![w] = "dead"]
      BY <1>6 DEF Crash
    <2>3. /\ \A p \in Producers : p # w => resultQ'[p] = resultQ[p]
          /\ resultQ[w] \in Seq(Messages) /\ n \in Nat /\ Len(resultQ[w]) \in Nat
          /\ resultQ'[w] = SubSeq(resultQ[w], 1, n) /\ n <= Len(resultQ[w])
      BY <1>1, <2>1, PoolAssumption
    <2>4. /\ Len(resultQ'[w]) = n
          /\ \A k \in 1 .. n : k \in 1 .. Len(resultQ[w]) /\ resultQ'[w][k] = resultQ[w][k]
      BY <2>3
    <2>5. ASSUME NEW k \in 1 .. Len(resultQ[w]), resultQ[w][k].tag = r, resultQ[w][k].count > 0
          PROVE  \E j \in 1 .. n : j > k /\ resultQ[w][j].type = "FINISHED" /\ resultQ[w][j].tag = r
      <3>1. PICK j \in 1 .. Len(resultQ[w]) :
              j > k /\ resultQ[w][j].type = "FINISHED" /\ resultQ[w][j].tag = r
        BY <1>1, <1>2, <1>4, <2>2, <2>5 DEF Followed, FollowedIn
      <3>2. <<"sent", w, j>> \in TicketsOf(r)
        BY <1>1, <2>3, <3>1 DEF TicketsOf, TicketIds, SentTicket
      <3>3. j \in 1 .. n
        BY <1>1, <2>4, <3>2 DEF TicketsOf, PayloadTicket, ServingTicket, SentTicket, CountedTicket
      <3> QED BY <3>1, <3>3
    <2>6. Followed(r)'
      <3>1. ASSUME NEW p \in Producers, p # w PROVE FollowedIn(p, r)'
        <4>1. FollowedIn(p, r) /\ (p \in Workers => ServesOn(p, r))
          BY <1>2, <1>4, <2>2 DEF Followed
        <4> QED BY <2>3, <3>1, <4>1 DEF FollowedIn, ServesOn
      <3>2. FollowedIn(w, r)'
        BY <2>4, <2>5 DEF FollowedIn
      <3> QED BY <3>1, <3>2 DEF Followed
    <2>7. ASSUME NEW p \in Producers, NEW k \in Nat PROVE SentFor(p, k, r)' = SentFor(p, k, r)
      <3>1. CASE p # w
        BY <2>3, <3>1 DEF SentFor
      <3>2. CASE p = w /\ k \in 1 .. n
        BY <2>4, <3>2 DEF SentFor
      <3>3. CASE p = w /\ k \in 1 .. Len(resultQ[w]) /\ k \notin 1 .. n
        <4>1. resultQ[w][k] \in Messages
          BY <2>3, <3>3
        <4>2. resultQ[w][k].count \in Nat
          BY <4>1, PoolAssumption DEF Messages
        <4>3. resultQ[w][k].tag = r => ~(resultQ[w][k].count > 0)
          BY <2>3, <2>5, <3>3
        <4>4. resultQ[w][k].tag = r => resultQ[w][k].count = 0
          BY <4>2, <4>3
        <4> QED BY <2>4, <3>3, <4>4 DEF SentFor
      <3>4. CASE p = w /\ k \notin 1 .. Len(resultQ[w])
        BY <2>4, <3>4 DEF SentFor
      <3> QED BY <3>1, <3>2, <3>3, <3>4
    <2>8. ClaimsOf(r)' = ClaimsOf(r)
      BY <1>1, <1>4, <2>2, <2>7, ClaimsStay
    <2> QED BY <1>1, <1>2, <2>6, <2>8 DEF AllClaimed
  <1> QED BY <1>3, <1>5, <1>6

\* So nothing is lost while the listener works, the user waits and no ticket is lost.
LEMMA WholeStep ==
  ASSUME Impatient = FALSE, CourseInv, LedgerInv, PatientInv, Next,
         NEW r \in Runs, listener[r] = "running", r \notin cancelled',
         ~LostTicket(r), AllClaimed(r)
  PROVE  AllClaimed(r)'
  <1>1. PoolInv /\ SignalInv /\ IsFiniteSet(TicketsOf(r)) /\ IsFiniteSet(ClaimsOf(r))
    BY DEF CourseInv, TicketInv, LedgerInv
  <1>2. r = worker /\ guiPc \in {"idle", "closed"} /\ ListenerAlive
    BY DEF PatientInv, ListenerAlive
  <1>3. ~GuiMoves /\ ~Clicks
    <2>1. ~GuiMoves
      BY <1>2 DEF GuiMoves, CancelDrains, WaitReturns, RejectInfeasible, AskPool, CollectReady,
                  ReadyTimesOut, PoolStartRun
    <2>2. ~Clicks
      BY <1>2 DEF Clicks, ClickGenerate, ClickCancel, Close
    <2> QED BY <2>1, <2>2
  <1>4. ASSUME NEW q \in Runs, ListenerMoves(q) PROVE q = r /\ ~Shutdown(q)
    <2>1. listener[q] \in {"running", "closing"}
      BY <1>4 DEF ListenerMoves, DropStale, HandleBatch, HandleFinished, HandleError, NoticeCrash,
                  Shutdown, ReceiveOwn, Receive
    <2>2. q = r
      BY <1>2, <2>1 DEF PatientInv
    <2> QED BY <2>2 DEF Shutdown
  <1>5. ASSUME NEW q \in Runs, FeederMoves(q) \/ PartitionRaises(q), ~ListenerMoves(q)
        PROVE  AllClaimed(r)'
    BY <1>1, <1>5, WholeOthers
  <1>6. ASSUME NEW q \in Runs, ListenerMoves(q) PROVE AllClaimed(r)'
    BY <1>1, <1>4, <1>6, WholeOthers
  <1> QED BY <1>1, <1>3, <1>5, <1>6, WholeWorker, WholeFailure DEF Next, Mishaps

-----------------------------------------------------------------------------
(* The theorem *)

\* A run once cancelled stays cancelled.
LEMMA CancelledGrows == Next => cancelled \subseteq cancelled'
  BY DEF Next, GuiMoves, Clicks, Mishaps, WorkerMoves, ListenerMoves, FeederMoves,
         CancelDrains, WaitReturns, RejectInfeasible, AskPool, CollectReady, ReadyTimesOut,
         PoolStartRun, ClickGenerate, ClickCancel, Close, Terminate, Announce, TakePayload,
         TakeShutdown, ReadRunId, CheckCancel, GetEmpty, GetItem, ReachSchedule, RecordSchedule,
         DropSchedule, FinishUnit, AbandonUnit, FlushBuffer, SendFinished, WorkerRaises, SendError,
         Crash, Receive, ReceiveOwn, DropStale, HandleBatch, HandleFinished, HandleError,
         NoticeCrash, Shutdown, Partition, PartitionRaises, ReportPartitionError, FeedUnit,
         StopFeeding, FeedSentinels

\* Only the active run records, only a running listener saves.
LEMMA CountsStep ==
  ASSUME CourseInv, Next, NEW r \in Runs
  PROVE  /\ saved'[r] # saved[r] => listener[r] = "running"
         /\ recorded'[r] # recorded[r] => \E w \in Workers : wpc[w] \in Serving /\ wrun[w] = r
  <1>0. saved \in [Runs -> Nat] /\ recorded \in [Runs -> Nat]
    BY DEF CourseInv, PoolInv, TypeOK, ListenerTypeOK, HistoryTypeOK
  <1>1. CASE GuiMoves \/ Clicks
    BY <1>1 DEF GuiMoves, Clicks, CancelDrains, WaitReturns, RejectInfeasible, AskPool, CollectReady,
           ReadyTimesOut, PoolStartRun, ClickGenerate, ClickCancel, Close
  <1>2. CASE Mishaps
    BY <1>2 DEF Mishaps, WorkerRaises, Crash, Terminate, PartitionRaises
  <1>3. ASSUME NEW q \in Runs, FeederMoves(q) PROVE UNCHANGED <<saved, recorded>>
    BY <1>3 DEF FeederMoves, Partition, ReportPartitionError, FeedUnit, StopFeeding, FeedSentinels
  <1>4. ASSUME NEW q \in Runs, ListenerMoves(q)
        PROVE  UNCHANGED recorded /\ (saved'[r] # saved[r] => listener[r] = "running")
    BY <1>0, <1>4 DEF ListenerMoves, DropStale, HandleBatch, HandleFinished, HandleError, NoticeCrash,
           Shutdown, ReceiveOwn, Receive
  <1>5. ASSUME NEW w \in Workers, WorkerMoves(w)
        PROVE  UNCHANGED saved /\ (recorded'[r] # recorded[r] => wpc[w] \in Serving /\ wrun[w] = r)
    <2>1. CASE RecordSchedule(w)
      BY <1>0, <2>1 DEF RecordSchedule, WorkerAt, Serving, Tagged
    <2>2. CASE ~RecordSchedule(w)
      BY <1>5, <2>2 DEF WorkerMoves, Announce, TakePayload, TakeShutdown, ReadRunId, CheckCancel,
           GetEmpty, GetItem, ReachSchedule, DropSchedule, FinishUnit, AbandonUnit, FlushBuffer,
           SendFinished, SendError
    <2> QED BY <2>1, <2>2
  <1> QED BY <1>1, <1>2, <1>3, <1>4, <1>5 DEF Next

\* While the user waits, the one listener at work is that of AppController._worker.
LEMMA PatientStep ==
  ASSUME Impatient = FALSE, PoolInv, PatientInv, Next
  PROVE  PatientInv'
  <1>0. /\ listener \in [Runs -> {"none", "running", "closing", "done"}] /\ worker \in 0 .. NumRuns
    BY DEF PoolInv, TypeOK, ListenerTypeOK, GuiTypeOK
  <1>1. CASE PoolStartRun
    <2>1. \A r \in Runs : listener[r] \notin {"running", "closing"}
      BY <1>1 DEF PatientInv, PoolStartRun
    <2> QED BY <1>0, <1>1, <2>1 DEF PatientInv, PoolStartRun
  <1>2. CASE ClickGenerate
    <2>1. ~ListenerAlive
      BY <1>2 DEF ClickGenerate
    <2>2. \A r \in Runs : listener[r] \notin {"running", "closing"}
      BY <2>1 DEF PatientInv, ListenerAlive
    <2> QED BY <1>2, <2>2 DEF PatientInv, ClickGenerate
  <1>3. CASE ClickCancel \/ Close
    BY <1>3 DEF PatientInv, ClickCancel, Close
  <1>4. CASE GuiMoves /\ ~PoolStartRun
    <2>1. guiPc \notin {"idle", "closed"} /\ UNCHANGED listener
      BY <1>4 DEF GuiMoves, CancelDrains, WaitReturns, RejectInfeasible, AskPool, CollectReady,
                  ReadyTimesOut
    <2> QED BY <2>1 DEF PatientInv
  <1>5. ASSUME NEW q \in Runs, ListenerMoves(q) PROVE PatientInv'
    <2>1. UNCHANGED <<worker, guiPc>> /\ listener[q] \in {"running", "closing"}
      BY <1>5 DEF ListenerMoves, DropStale, HandleBatch, HandleFinished, HandleError, NoticeCrash,
                  Shutdown, ReceiveOwn, Receive
    <2>2. \A r \in Runs : r # q => listener'[r] = listener[r]
      BY <1>0, <1>5 DEF ListenerMoves, DropStale, HandleBatch, HandleFinished, HandleError, Ends,
                  NoticeCrash, Shutdown, ReceiveOwn, Receive
    <2> QED BY <2>1, <2>2 DEF PatientInv
  <1>6. CASE \/ Mishaps \/ \E w \in Workers : WorkerMoves(w)
             \/ \E q \in Runs : FeederMoves(q)
    <2>1. UNCHANGED <<worker, guiPc, listener>>
      BY <1>6 DEF Mishaps, WorkerRaises, Crash, Terminate, PartitionRaises, WorkerMoves, Announce,
           TakePayload, TakeShutdown, ReadRunId, CheckCancel, GetEmpty, GetItem, ReachSchedule,
           RecordSchedule, DropSchedule, FinishUnit, AbandonUnit, FlushBuffer, SendFinished,
           SendError, FeederMoves, Partition, ReportPartitionError, FeedUnit, StopFeeding, FeedSentinels
    <2> QED BY <2>1 DEF PatientInv
  <1> QED BY <1>1, <1>2, <1>3, <1>4, <1>5, <1>6 DEF Next, Clicks

\* A ticket kept is one the run had, unless the run was just started.
LEMMA TicketsWereAll ==
  ASSUME CourseInv, Next, NEW r \in Runs, ~(PoolStartRun /\ r = run),
         Cardinality(TicketsOf(r)') = PoolSize
  PROVE  Cardinality(TicketsOf(r)) = PoolSize /\ ~LostTicket(r)
  <1>1. IsFiniteSet(TicketsOf(r)) /\ Cardinality(TicketsOf(r)) <= PoolSize
    BY DEF CourseInv, TicketInv
  <1>2. FewerTickets(r)
    BY <1>1, TicketStep DEF CourseInv
  <1>3. Cardinality(TicketsOf(r)') <= Cardinality(TicketsOf(r)) /\ Cardinality(TicketsOf(r)) \in Nat
    BY <1>1, <1>2, FS_CardinalityType DEF FewerTickets
  <1>4. Cardinality(TicketsOf(r)) = PoolSize
    BY <1>1, <1>3, PoolSizeType
  <1> QED BY <1>4 DEF LostTicket

\* The run that lost nothing so far keeps its claims in every step.
LEMMA WholeInvStep ==
  ASSUME Impatient = FALSE, CourseInv, LedgerInv, PatientInv, WholeInv, Next
  PROVE  WholeInv'
  <1> SUFFICES ASSUME NEW r \in Runs, listener'[r] = "running", r \notin cancelled',
                      Cardinality(TicketsOf(r)') = PoolSize
               PROVE  AllClaimed(r)'
    BY DEF WholeInv, Whole
  <1>1. CASE PoolStartRun /\ r = run
    <2>1. recorded'[r] = 0
      BY <1>1 DEF PoolStartRun, CourseInv, PoolInv, RunInv, CountInv
    <2>2. IsFiniteSet(ClaimsOf(r)') /\ Cardinality(ClaimsOf(r)') <= recorded'[r]
      BY LedgerNext DEF CourseInv, LedgerInv
    <2>3. Cardinality(ClaimsOf(r)') = 0
      BY <2>1, <2>2, FS_CardinalityType
    <2>4. Followed(r)'
      BY <1>1, FreshTickets DEF Followed, FollowedIn
    <2> QED BY <2>1, <2>3, <2>4 DEF AllClaimed
  <1>2. CASE ~(PoolStartRun /\ r = run)
    <2>1. Cardinality(TicketsOf(r)) = PoolSize /\ ~LostTicket(r)
      BY <1>2, TicketsWereAll
    <2>2. listener[r] = "running"
      <3>1. PoolStartRun => listener' = [listener EXCEPT ![run] = "running"]
        BY DEF PoolStartRun
      <3>2. listener \in [Runs -> {"none", "running", "closing", "done"}]
        BY DEF CourseInv, PoolInv, TypeOK, ListenerTypeOK
      <3>3. CASE PoolStartRun
        BY <1>2, <3>1, <3>2, <3>3
      <3>4. CASE ~PoolStartRun
        BY <3>4, ListenerStep DEF CourseInv
      <3> QED BY <3>3, <3>4
    <2>3. r \notin cancelled
      BY CancelledGrows
    <2>4. AllClaimed(r)
      BY <2>1, <2>2, <2>3 DEF WholeInv, Whole
    <2> QED BY <2>1, <2>2, <2>4, WholeStep
  <1> QED BY <1>1, <1>2

\* When all was counted and all is claimed, all was saved.
ClaimedIsSaved ==
    \A r \in Runs : NothingOnItsWay(r) /\ AllClaimed(r) => saved[r] = recorded[r]

\* A run whose tickets are all counted holds no claim but the saved ones.
LEMMA CountedMeansSaved == CourseInv /\ LedgerInv => ClaimedIsSaved
  <1> SUFFICES ASSUME CourseInv, LedgerInv, NEW r \in Runs, NothingOnItsWay(r), AllClaimed(r)
               PROVE  saved[r] = recorded[r]
    BY DEF ClaimedIsSaved
  <1>1. /\ saved[r] \in Nat /\ IsFiniteSet(ClaimsOf(r)) /\ Cardinality(ClaimsOf(r)) = recorded[r]
        /\ resultQ \in [Producers -> Seq(Messages)] /\ wbuf \in [Workers -> 0 .. BatchSize]
    BY DEF CourseInv, PoolInv, TypeOK, ListenerTypeOK, QueueTypeOK, WorkerTypeOK, LedgerInv, AllClaimed
  <1>2. ASSUME NEW w \in Workers PROVE HeldFor(w, r) = 0
    BY DEF NothingOnItsWay, HeldFor, Serving
  <1>3. ASSUME NEW p \in Producers, NEW k \in Nat PROVE SentFor(p, k, r) = 0
    <2>1. CASE k \in 1 .. Len(resultQ[p]) /\ resultQ[p][k].tag = r
      <3>1. resultQ[p][k] \in Messages
        BY <1>1, <2>1
      <3>2. resultQ[p][k].count \in Nat
        BY <3>1, PoolAssumption DEF Messages
      <3>3. ~(resultQ[p][k].count > 0)
        BY <2>1 DEF NothingOnItsWay, AllClaimed, Followed, FollowedIn
      <3> QED BY <2>1, <3>2, <3>3 DEF SentFor
    <2>2. CASE ~(k \in 1 .. Len(resultQ[p]) /\ resultQ[p][k].tag = r)
      BY <2>2 DEF SentFor
    <2> QED BY <2>1, <2>2
  <1>4. ASSUME NEW c \in ClaimsOf(r) PROVE SavedClaim(c)
    <2>1. c \in ClaimIds /\ c[3] \in Nat
      BY DEF ClaimsOf, Claims, ClaimIds
    <2>2. HeldBy(c, r)
      BY <2>1, ClaimsAre DEF ClaimsAreHeld
    <2>3. 1 .. 0 = {}
      OBVIOUS
    <2> QED BY <1>2, <1>3, <2>1, <2>2, <2>3 DEF HeldBy, SavedClaim
  <1> QED BY <1>1, <1>4, SavedAreClaims

\* The step that counts the last FINISHED finds every schedule saved.
LEMMA FinishedStep ==
  ASSUME Impatient = FALSE, CourseInv, LedgerInv, PatientInv, WholeInv, FinishedMeansSaved, Next
  PROVE  FinishedMeansSaved'
  <1> SUFFICES ASSUME NEW r \in Runs, outcome'[r] = "finished", r \notin cancelled'
               PROVE  saved'[r] = recorded'[r]
    BY DEF FinishedMeansSaved
  <1>1. r \notin cancelled
    BY CancelledGrows
  <1>2. CASE outcome[r] = "finished"
    <2>1. saved[r] = recorded[r] /\ finishes[r] >= PoolSize /\ listener[r] # "running"
      BY <1>1, <1>2 DEF FinishedMeansSaved, CourseInv, OutcomeInv
    <2>2. \A w \in Workers : ~(wpc[w] \in Serving /\ wrun[w] = r)
      BY <2>1, AllCounted DEF CountedIsAll, NothingOnItsWay
    <2> QED BY <2>1, <2>2, CountsStep
  <1>3. CASE outcome[r] # "finished"
    <2>1. ~PoolStartRun /\ listener[r] = "running" /\ finishes'[r] >= PoolSize
      <3>1. PoolStartRun => UNCHANGED outcome
        BY DEF PoolStartRun
      <3> QED BY <1>3, <3>1, ListenerStep DEF CourseInv
    <2>2. CourseInv' /\ LedgerInv' /\ CountedIsAll' /\ ClaimedIsSaved'
      <3>1. CourseInv'
        BY CourseStep
      <3>2. LedgerInv'
        BY LedgerNext DEF CourseInv
      <3>3. CountedIsAll'
        BY <3>1, AllCounted, PTL
      <3>4. ClaimedIsSaved'
        BY <3>1, <3>2, CountedMeansSaved, PTL
      <3> QED BY <3>1, <3>2, <3>3, <3>4
    <2>3. NothingOnItsWay(r)' /\ Cardinality(TicketsOf(r)') = PoolSize
      BY <2>1, <2>2 DEF CountedIsAll, NothingOnItsWay
    <2>4. Cardinality(TicketsOf(r)) = PoolSize /\ ~LostTicket(r)
      BY <2>1, <2>3, TicketsWereAll
    <2>5. AllClaimed(r)
      BY <1>1, <2>1, <2>4 DEF WholeInv, Whole
    <2>6. AllClaimed(r)'
      BY <2>1, <2>4, <2>5, WholeStep
    <2> QED BY <2>2, <2>3, <2>6 DEF ClaimedIsSaved
  <1> QED BY <1>2, <1>3

\* The inductive invariant behind FinishedMeansSaved.
CompletionInv == CourseInv /\ LedgerInv /\ PatientInv /\ WholeInv /\ FinishedMeansSaved

\* For a user who waits for the end of a run before the next one, search_finished
\* means that every schedule the workers of the run recorded was saved, unless the
\* run was cancelled by closing the application: whatever fails, however early the
\* bounded waits give up, and with feeders of earlier runs still at work.
THEOREM FinishedIsSaved ==
  ASSUME Impatient = FALSE
  PROVE  Spec => []FinishedMeansSaved
  <1>1. Init => CompletionInv
    <2> SUFFICES ASSUME Init PROVE CompletionInv
      OBVIOUS
    <2>1. PatientInv /\ WholeInv /\ FinishedMeansSaved
      BY DEF Init, PatientInv, WholeInv, Whole, FinishedMeansSaved
    <2> QED BY <2>1, CourseInit, LedgerInit DEF CompletionInv
  <1>2. CompletionInv /\ [Next]_vars => CompletionInv'
    <2> SUFFICES ASSUME CompletionInv, [Next]_vars PROVE CompletionInv'
      OBVIOUS
    <2>1. CourseInv' /\ LedgerInv'
      BY CourseStep, LedgerNext DEF CompletionInv, CourseInv
    <2>2. CASE Next
      BY <2>1, <2>2, PatientStep, WholeInvStep, FinishedStep DEF CompletionInv, CourseInv
    <2>3. CASE UNCHANGED vars
      <3>1. PatientInv' /\ FinishedMeansSaved'
        BY <2>3 DEF vars, CompletionInv, PatientInv, FinishedMeansSaved
      <3>2. \A r \in Runs : /\ TicketsOf(r)' = TicketsOf(r)
                            /\ ClaimsOf(r)' = ClaimsOf(r) /\ Followed(r)' = Followed(r)
        BY <2>3 DEF vars, TicketsOf, PayloadTicket, ServingTicket, SentTicket, CountedTicket,
                    ClaimsOf, Claims, SavedClaim, HeldClaim, SentClaim, RunOf, Followed, FollowedIn
      <3>3. WholeInv'
        BY <2>3, <3>2 DEF vars, CompletionInv, WholeInv, Whole, AllClaimed
      <3> QED BY <2>1, <3>1, <3>3 DEF CompletionInv
    <2> QED BY <2>2, <2>3
  <1>3. CompletionInv => FinishedMeansSaved
    BY DEF CompletionInv
  <1> QED BY <1>1, <1>2, <1>3, PTL DEF Spec

-----------------------------------------------------------------------------
(* What has been searched *)

\* A worker that holds a work unit; a runner that raised still names it.
Searching == {"search", "record", "batch", "error"}

\* Only the feeder of the active run is at work, and it feeds what it has cut.
FeederInv ==
    /\ worker \in {0, runIdHolder}
    /\ \A q \in Runs : /\ q # runIdHolder => feeder[q] \in {"none", "done"}
                       /\ feeder[q] \in {"none", "partition", "failed"} => cut[q] = 0 /\ fed[q] = 0
                       /\ fed[q] <= cut[q]

\* A worker records what it reaches, so a search that stops at the result limit has
\* brought its run there, or others have.
FoundBy(w, n) == recorded[wrun[w]] = ResultLimit \/ n <= recorded[wrun[w]]
FoundInv ==
    \A w \in Workers :
        /\ wpc[w] \in {"search", "batch"} => FoundBy(w, wfound[w])
        /\ wpc[w] = "record" => FoundBy(w, wfound[w] - 1)

\* Behind a sentinel there are only sentinels, and its feeder is done.
SentinelInv ==
    /\ \A i, j \in 1 .. Len(workQ) : workQ[i] = NoUnit /\ i < j => workQ[j] = NoUnit
    /\ \A i \in 1 .. Len(workQ) :
          workQ[i] = NoUnit => runIdHolder \in Runs /\ feeder[runIdHolder] = "done"

OnlySentinels == \A i \in 1 .. Len(workQ) : workQ[i] = NoUnit

\* The listener counts, nobody cancelled, the result limit is not reached.
Uncut(r) == listener[r] = "running" /\ r \notin cancelled /\ recorded[r] < ResultLimit

\* Some worker has left the units of the run behind.
Past(r) ==
    \/ \E w \in Workers : wpc[w] = "flush" /\ wrun[w] = r
    \/ \E p \in Producers : \E k \in 1 .. Len(resultQ[p]) :
          resultQ[p][k].type = "FINISHED" /\ resultQ[p][k].tag = r
    \/ finishes[r] > 0

\* Workers leave the units of such a run only over the sentinels.
Calm(r) ==
    /\ ~cancelEvent
    /\ feeder[r] \in {"ending", "done"} => fed[r] = cut[r]
    /\ Past(r) => feeder[r] = "done" /\ OnlySentinels
CalmInv == \A r \in Runs : Uncut(r) => Calm(r)

\* A unit that was fed is searched, or it is in the queue, or somebody has it.
Placed(r, u) ==
    \/ <<r, u>> \in searched
    \/ \E i \in 1 .. Len(workQ) : workQ[i] = u
    \/ \E w \in Workers : wpc[w] \in Searching /\ wrun[w] = r /\ wunit[w] = u
AllPlaced(r) == \A k \in 1 .. fed[r] : Placed(r, <<r, k>>)
PlacedInv == \A r \in Runs : Uncut(r) /\ Whole(r) => AllPlaced(r)

SearchedInv == FeederInv /\ FoundInv /\ SentinelInv /\ CalmInv /\ PlacedInv

-----------------------------------------------------------------------------
(* What a step leaves alone *)

\* The fields each process writes.
LEMMA Frames ==
  ASSUME Next
  PROVE  /\ PoolStartRun \/ (UNCHANGED runIdHolder /\ worker' \in {worker, 0})
         /\ \/ PoolStartRun \/ UNCHANGED <<feeder, cut, fed>>
            \/ \E q \in Runs : FeederMoves(q) \/ PartitionRaises(q)
         /\ \/ PoolStartRun \/ UNCHANGED workQ
            \/ \E q \in Runs : FeederMoves(q)
            \/ \E w \in Workers : GetItem(w)
         /\ \/ UNCHANGED <<searched, recorded, wrun, wunit, wfound>>
            \/ \E w \in Workers : WorkerMoves(w)
  <1>0. CASE PoolStartRun
    <2>1. searched' = searched /\ recorded' = recorded /\ wrun' = wrun /\ wunit' = wunit /\ wfound' = wfound
      BY <1>0 DEF PoolStartRun
    <2> QED BY <1>0, <2>1
  <1>1. CASE (GuiMoves \/ Clicks) /\ ~PoolStartRun
    <2>1. /\ UNCHANGED <<runIdHolder, workQ, feeder, cut, fed, searched, recorded, wrun, wunit, wfound>>
          /\ worker' \in {worker, 0}
      BY <1>1 DEF GuiMoves, Clicks, CancelDrains, WaitReturns, RejectInfeasible, AskPool,
           CollectReady, ReadyTimesOut, ClickGenerate, ClickCancel, Close
    <2> QED BY <2>1
  <1>2. CASE Mishaps
    BY <1>2 DEF Mishaps, WorkerRaises, Crash, Terminate, PartitionRaises
  <1>3. ASSUME NEW q \in Runs, FeederMoves(q)
        PROVE  UNCHANGED <<runIdHolder, worker, searched, recorded, wrun, wunit, wfound>>
    BY <1>3 DEF FeederMoves, Partition, ReportPartitionError, FeedUnit, StopFeeding, FeedSentinels
  <1>4. ASSUME NEW q \in Runs, ListenerMoves(q)
        PROVE  UNCHANGED <<runIdHolder, worker, feeder, cut, fed, workQ, searched, recorded, wrun, wunit, wfound>>
    BY <1>4 DEF ListenerMoves, DropStale, HandleBatch, HandleFinished, HandleError, NoticeCrash,
           Shutdown, ReceiveOwn, Receive
  <1>5. ASSUME NEW w \in Workers, WorkerMoves(w)
        PROVE  UNCHANGED <<runIdHolder, worker, feeder, cut, fed>> /\ (GetItem(w) \/ UNCHANGED workQ)
    BY <1>5 DEF WorkerMoves, Announce, TakePayload, TakeShutdown, ReadRunId, CheckCancel, GetEmpty,
           GetItem, ReachSchedule, RecordSchedule, DropSchedule, FinishUnit, AbandonUnit,
           FlushBuffer, SendFinished, SendError
  <1> QED BY <1>0, <1>1, <1>2, <1>3, <1>4, <1>5 DEF Next

\* The feeder's steps, in terms of what it has done so far.
LEMMA FeederFrames ==
  ASSUME TypeOK, NEW q \in Runs, FeederMoves(q) \/ PartitionRaises(q)
  PROVE  /\ feeder[q] \notin {"none", "done"} /\ feeder'[q] # "none"
         /\ \A r \in Runs : r # q => feeder'[r] = feeder[r] /\ cut'[r] = cut[r] /\ fed'[r] = fed[r]
         /\ \/ Partition(q) \/ FeedUnit(q) \/ StopFeeding(q)
            \/ cut'[q] = cut[q] /\ fed'[q] = fed[q]
  <1> USE DEF TypeOK, FeederTypeOK, FeederAt
  <1>1. CASE Partition(q)
    BY <1>1 DEF Partition
  <1>2. CASE FeedUnit(q)
    BY <1>2 DEF FeedUnit
  <1>3. CASE StopFeeding(q)
    BY <1>3 DEF StopFeeding
  <1>4. CASE FeedSentinels(q) \/ ReportPartitionError(q) \/ PartitionRaises(q)
    BY <1>4 DEF FeedSentinels, ReportPartitionError, PartitionRaises
  <1> QED BY <1>1, <1>2, <1>3, <1>4 DEF FeederMoves

\* With prompt feeders, only that of the active run is at work.
LEMMA FeederStep ==
  ASSUME PromptFeeder = TRUE, CourseInv, FeederInv, Next
  PROVE  FeederInv'
  <1>0. /\ feeder \in [Runs -> {"none", "partition", "failed", "feeding", "ending", "done"}]
        /\ cut \in [Runs -> 0 .. MaxUnits] /\ fed \in [Runs -> 0 .. MaxUnits] /\ MaxUnits \in Nat
        /\ PoolInv /\ FreshInv /\ TypeOK
    BY PoolAssumption DEF CourseInv, PoolInv, TypeOK, FeederTypeOK
  <1>1. CASE PoolStartRun
    <2>1. /\ FeedersDone /\ feeder' = [feeder EXCEPT ![run] = "partition"] /\ UNCHANGED <<cut, fed>>
          /\ worker' = run /\ runIdHolder' = run /\ runIdHolder < run /\ run \in Runs
      <3>1. FeedersDone
        BY <1>1 DEF PoolStartRun
      <3>2. runIdHolder < run /\ run \in 0 .. NumRuns /\ runIdHolder \in 0 .. NumRuns
        BY <1>0, <1>1 DEF PoolStartRun, PoolInv, RunInv, TypeOK, GuiTypeOK, SharedTypeOK
      <3>3. run \in Runs
        BY <3>2, PoolAssumption DEF Runs
      <3> QED BY <1>1, <3>1, <3>2, <3>3 DEF PoolStartRun
    <2>2. feeder[run] = "none" /\ cut[run] = 0 /\ fed[run] = 0
      BY <1>0, <2>1 DEF FreshInv, FeederInv
    <2> QED BY <1>0, <2>1, <2>2 DEF FeederInv, FeedersDone
  <1>2. CASE ~PoolStartRun /\ UNCHANGED <<feeder, cut, fed>>
    BY <1>2, Frames DEF FeederInv
  <1>3. ASSUME NEW q \in Runs, FeederMoves(q) \/ PartitionRaises(q), ~PoolStartRun PROVE FeederInv'
    <2>1. UNCHANGED runIdHolder /\ worker' \in {worker, 0}
      BY <1>3, Frames
    <2>2. feeder[q] \notin {"none", "done"} /\ feeder'[q] # "none" /\ q = runIdHolder
      BY <1>0, <1>3, FeederFrames DEF FeederInv
    <2>3. ASSUME NEW r \in Runs, r # q
          PROVE  feeder'[r] = feeder[r] /\ cut'[r] = cut[r] /\ fed'[r] = fed[r]
      BY <1>0, <1>3, <2>3, FeederFrames
    <2>4. /\ feeder'[q] \in {"partition", "failed"} => cut'[q] = 0 /\ fed'[q] = 0
          /\ fed'[q] <= cut'[q]
      <3>0. /\ feeder[q] \in {"partition", "failed"} => cut[q] = 0 /\ fed[q] = 0
            /\ fed[q] <= cut[q] /\ fed[q] \in Nat /\ cut[q] \in Nat
        BY <1>0 DEF FeederInv
      <3>1. CASE Partition(q)
        <4>1. PICK n \in 0 .. MaxUnits : cut' = [cut EXCEPT ![q] = n]
          BY <3>1 DEF Partition
        <4>2. feeder[q] = "partition" /\ feeder'[q] = "feeding" /\ fed'[q] = fed[q]
          BY <1>0, <3>1 DEF Partition, FeederAt
        <4> QED BY <1>0, <3>0, <4>1, <4>2
      <3>2. CASE FeedUnit(q)
        BY <1>0, <3>0, <3>2 DEF FeedUnit, FeederAt
      <3>3. CASE StopFeeding(q)
        BY <1>0, <3>0, <3>3 DEF StopFeeding, FeederAt
      <3>4. CASE FeedSentinels(q) \/ ReportPartitionError(q)
        BY <1>0, <3>0, <3>4 DEF FeedSentinels, ReportPartitionError, FeederAt
      <3>5. CASE PartitionRaises(q)
        BY <1>0, <3>0, <3>5 DEF PartitionRaises, FeederAt
      <3> QED BY <1>3, <3>1, <3>2, <3>3, <3>4, <3>5 DEF FeederMoves
    <2> QED BY <2>1, <2>2, <2>3, <2>4 DEF FeederInv
  <1> QED BY <1>1, <1>2, <1>3, Frames

-----------------------------------------------------------------------------
(* What workers have found *)

\* What a run recorded only grows, up to the limit.
LEMMA RecordedGrows ==
  ASSUME PoolInv, Next, NEW r \in Runs
  PROVE  /\ recorded[r] \in Nat /\ recorded'[r] \in Nat
         /\ recorded[r] <= recorded'[r] /\ recorded'[r] <= ResultLimit
  <1>1. PoolInv' /\ recorded \in [Runs -> Nat] /\ recorded' \in [Runs -> Nat]
    BY InvStep DEF PoolInv, TypeOK, HistoryTypeOK
  <1>2. recorded'[r] <= ResultLimit
    BY <1>1 DEF PoolInv, CountInv
  <1>3. ASSUME NEW w \in Workers, WorkerMoves(w) PROVE recorded[r] <= recorded'[r]
    <2>1. CASE RecordSchedule(w)
      BY <1>1, <2>1 DEF RecordSchedule
    <2>2. CASE ~RecordSchedule(w)
      <3>1. UNCHANGED recorded
        BY <1>3, <2>2 DEF WorkerMoves, Announce, TakePayload, TakeShutdown, ReadRunId, CheckCancel,
           GetEmpty, GetItem, ReachSchedule, DropSchedule, FinishUnit, AbandonUnit, FlushBuffer,
           SendFinished, SendError
      <3> QED BY <1>1, <3>1
    <2> QED BY <2>1, <2>2
  <1>4. UNCHANGED recorded => recorded[r] <= recorded'[r]
    BY <1>1
  <1> QED BY <1>1, <1>2, <1>3, <1>4, Frames

\* Whoever moves, what was found stays recorded.
LEMMA FoundStep ==
  ASSUME PoolInv, FoundInv, Next
  PROVE  FoundInv'
  <1>0. /\ wpc \in [Workers -> WorkerPcs] /\ wrun \in [Workers -> 0 .. NumRuns]
        /\ wfound \in [Workers -> 0 .. PerUnit] /\ PerUnit \in Nat
        /\ recorded \in [Runs -> Nat] /\ ResultLimit \in Nat /\ PoolInv'
    BY PoolAssumption, InvStep DEF PoolInv, TypeOK, WorkerTypeOK, HistoryTypeOK
  <1>1. ASSUME NEW v \in Workers, NEW n \in Int, wpc[v] \in Serving, FoundBy(v, n), wrun'[v] = wrun[v]
        PROVE  FoundBy(v, n)'
    <2>1. wrun[v] \in Runs
      BY <1>0, <1>1, PoolAssumption DEF PoolInv, ServeInv, TypeOK, SharedTypeOK, Runs
    <2>2. /\ recorded[wrun[v]] \in Nat /\ recorded'[wrun[v]] \in Nat
          /\ recorded[wrun[v]] <= recorded'[wrun[v]] /\ recorded'[wrun[v]] <= ResultLimit
      BY <2>1, RecordedGrows
    <2> QED BY <1>0, <1>1, <2>2 DEF FoundBy
  <1>2. ASSUME NEW v \in Workers, wpc'[v] = wpc[v], wrun'[v] = wrun[v], wfound'[v] = wfound[v]
        PROVE  /\ wpc'[v] \in {"search", "batch"} => FoundBy(v, wfound[v])'
               /\ wpc'[v] = "record" => FoundBy(v, wfound[v] - 1)'
    <2>1. wfound[v] \in Int /\ wfound[v] - 1 \in Int
      BY <1>0
    <2>2. CASE wpc[v] \in {"search", "batch"}
      <3>1. FoundBy(v, wfound[v]) /\ wpc[v] \in Serving
        BY <2>2 DEF FoundInv, Serving, Tagged
      <3>2. PICK n \in Int : n = wfound[v]
        BY <2>1
      <3>3. FoundBy(v, n)'
        BY <1>1, <1>2, <3>1, <3>2
      <3> QED BY <1>2, <2>2, <3>2, <3>3 DEF FoundBy
    <2>3. CASE wpc[v] = "record"
      <3>1. FoundBy(v, wfound[v] - 1) /\ wpc[v] \in Serving
        BY <2>3 DEF FoundInv, Serving, Tagged
      <3>2. PICK n \in Int : n = wfound[v] - 1
        BY <2>1
      <3>3. FoundBy(v, n)'
        BY <1>1, <1>2, <3>1, <3>2
      <3> QED BY <1>2, <2>3, <3>2, <3>3 DEF FoundBy
    <2> QED BY <1>2, <2>2, <2>3
  <1>3. ASSUME NEW w \in Workers, WorkerMoves(w), NEW v \in Workers
        PROVE  /\ wpc'[v] \in {"search", "batch"} => FoundBy(v, wfound[v])'
               /\ wpc'[v] = "record" => FoundBy(v, wfound[v] - 1)'
    <2>1. CASE v # w
      <3>1. wpc'[v] = wpc[v] /\ wrun'[v] = wrun[v] /\ wfound'[v] = wfound[v]
        BY <1>0, <1>3, <2>1 DEF WorkerMoves, Announce, TakePayload, TakeShutdown, ReadRunId,
           CheckCancel, GetEmpty, GetItem, ReachSchedule, RecordSchedule, DropSchedule, FinishUnit,
           AbandonUnit, FlushBuffer, SendFinished, SendError, WorkerAt
      <3> QED BY <1>2, <3>1
    <2>2. CASE v = w
      <3>0. wfound[w] \in Nat /\ (wpc[w] \in Serving => wrun[w] = runIdHolder /\ runIdHolder \in Runs)
        BY <1>0, PoolAssumption DEF PoolInv, ServeInv, TypeOK, SharedTypeOK, Runs
      <3>1. CASE GetItem(w)
        <4>1. wpc'[w] \in {"flush", "search"} /\ wfound'[w] = 0
          BY <1>0, <3>1 DEF GetItem, WorkerAt
        <4>2. wpc'[w] = "search" => recorded'[wrun'[w]] \in Nat
          <5>1. wpc'[w] = "search" => wrun'[w] = runIdHolder' /\ runIdHolder' \in Runs
            BY <1>0, PoolAssumption DEF PoolInv, ServeInv, TypeOK, SharedTypeOK, Runs, Serving, Tagged
          <5> QED BY <1>0, <5>1 DEF PoolInv, TypeOK, HistoryTypeOK
        <4> QED BY <2>2, <4>1, <4>2 DEF FoundBy
      <3>2. CASE ReachSchedule(w)
        <4>1. /\ wpc[w] = "search" /\ wpc'[w] = "record" /\ wfound'[w] = wfound[w] + 1
              /\ UNCHANGED <<wrun, recorded>>
          BY <1>0, <3>2 DEF ReachSchedule, WorkerAt
        <4>2. FoundBy(w, wfound[w])
          BY <4>1 DEF FoundInv
        <4> QED BY <2>2, <3>0, <4>1, <4>2 DEF FoundBy
      <3>3. CASE RecordSchedule(w)
        <4>1. /\ wpc[w] = "record" /\ wpc'[w] \in {"batch", "search"} /\ UNCHANGED <<wrun, wfound>>
              /\ wrun[w] \in Runs /\ recorded'[wrun[w]] = recorded[wrun[w]] + 1
          BY <1>0, <3>0, <3>3 DEF RecordSchedule, WorkerAt, Serving, Tagged
        <4>2. FoundBy(w, wfound[w] - 1)
          BY <4>1 DEF FoundInv
        <4>3. recorded[wrun[w]] \in Nat /\ recorded'[wrun[w]] <= ResultLimit
          BY <4>1, RecordedGrows
        <4> QED BY <1>0, <2>2, <3>0, <4>1, <4>2, <4>3 DEF FoundBy
      <3>4. CASE DropSchedule(w)
        <4>1. /\ wpc[w] = "record" /\ wpc'[w] = "search" /\ UNCHANGED <<wrun, recorded>>
              /\ ~(resultCounter < ResultLimit) /\ wrun[w] = runIdHolder /\ runIdHolder \in Runs
          BY <1>0, <3>0, <3>4 DEF DropSchedule, WorkerAt, SlotFree, Serving, Tagged
        <4>2. recorded[wrun[w]] = ResultLimit
          BY <1>0, <4>1 DEF PoolInv, CountInv, TypeOK, SharedTypeOK
        <4> QED BY <2>2, <4>1, <4>2 DEF FoundBy
      <3>5. CASE FlushBuffer(w)
        <4>1. /\ wpc'[w] \in {"search", "flush"} /\ (wpc'[w] = "search" => wpc[w] = "batch")
              /\ UNCHANGED <<wrun, recorded, wfound>>
          BY <1>0, <3>5 DEF FlushBuffer, WorkerAt
        <4> QED BY <2>2, <4>1 DEF FoundBy, FoundInv
      <3>6. CASE ~(GetItem(w) \/ ReachSchedule(w) \/ RecordSchedule(w) \/ DropSchedule(w) \/ FlushBuffer(w))
        <4>1. wpc'[w] \notin {"search", "batch", "record"}
          BY <1>0, <1>3, <3>6 DEF WorkerMoves, Announce, TakePayload, TakeShutdown, ReadRunId,
             CheckCancel, GetEmpty, FinishUnit, AbandonUnit, SendFinished, SendError, WorkerAt
        <4> QED BY <2>2, <4>1
      <3> QED BY <3>1, <3>2, <3>3, <3>4, <3>5, <3>6
    <2> QED BY <2>1, <2>2
  <1>4. CASE \A w \in Workers : ~WorkerMoves(w)
    <2>1. UNCHANGED <<wrun, wfound>>
      BY <1>4, Frames
    <2>2. ASSUME NEW v \in Workers PROVE wpc'[v] = wpc[v] \/ wpc'[v] \in {"error", "dead"}
      <3>1. \/ UNCHANGED wpc
            \/ \E w \in Workers : \E to \in {"error", "dead"} : wpc' = [wpc EXCEPT ![w] = to]
        BY <1>4 DEF Next, GuiMoves, Clicks, Mishaps, ListenerMoves, FeederMoves,
             CancelDrains, WaitReturns, RejectInfeasible, AskPool, CollectReady, ReadyTimesOut,
             PoolStartRun, ClickGenerate, ClickCancel, Close, Terminate, WorkerRaises, Crash,
             Receive, ReceiveOwn, DropStale, HandleBatch, HandleFinished, HandleError, NoticeCrash,
             Shutdown, Partition, PartitionRaises, ReportPartitionError, FeedUnit, StopFeeding,
             FeedSentinels, WorkerAt
      <3> QED BY <1>0, <3>1
    <2> QED BY <1>2, <2>1, <2>2 DEF FoundInv
  <1> QED BY <1>3, <1>4 DEF FoundInv

-----------------------------------------------------------------------------
(* Units before sentinels *)

\* An index of a queue after its head was taken, or after more was added.
LEMMA QueueIndexes ==
  ASSUME NEW S, NEW q \in Seq(S), NEW x \in Seq(S)
  PROVE  /\ q # <<>> => /\ Len(Tail(q)) = Len(q) - 1
                         /\ \A i \in 1 .. Len(Tail(q)) : i + 1 \in 1 .. Len(q) /\ Tail(q)[i] = q[i + 1]
                         /\ Head(q) = q[1] /\ 1 \in 1 .. Len(q)
         /\ Len(q \o x) = Len(q) + Len(x)
         /\ \A i \in 1 .. Len(q) : i \in 1 .. Len(q \o x) /\ (q \o x)[i] = q[i]
         /\ \A i \in 1 .. Len(q \o x) : i \notin 1 .. Len(q) => i - Len(q) \in 1 .. Len(x) /\ (q \o x)[i] = x[i - Len(q)]
  OBVIOUS

\* Behind a sentinel there are only sentinels, whoever takes or adds.
LEMMA SentinelStep ==
  ASSUME PromptFeeder = TRUE, CourseInv, FeederInv, SentinelInv, Next
  PROVE  SentinelInv'
  <1>0. /\ feeder \in [Runs -> {"none", "partition", "failed", "feeding", "ending", "done"}]
        /\ fed \in [Runs -> 0 .. MaxUnits] /\ cut \in [Runs -> 0 .. MaxUnits] /\ MaxUnits \in Nat
        /\ workQ \in Seq(Units \cup {NoUnit}) /\ PoolSize \in Nat /\ PoolInv /\ TypeOK
    BY PoolAssumption, PoolSizeType DEF CourseInv, PoolInv, TypeOK, FeederTypeOK, QueueTypeOK
  <1>1. CASE PoolStartRun
    <2>1. workQ' = <<>>
      BY <1>1 DEF PoolStartRun
    <2> QED BY <2>1 DEF SentinelInv
  <1>2. ASSUME NEW q \in Runs, FeederMoves(q) \/ PartitionRaises(q), ~PoolStartRun
        PROVE  SentinelInv'
    <2>1. UNCHANGED runIdHolder /\ q = runIdHolder /\ feeder[q] \notin {"none", "done"}
      BY <1>0, <1>2, Frames, FeederFrames DEF FeederInv
    <2>2. \A i \in 1 .. Len(workQ) : workQ[i] # NoUnit
      BY <2>1 DEF SentinelInv
    <2>3. CASE FeedUnit(q)
      <3>1. PICK u \in Units : workQ' = workQ \o <<u>> /\ u # NoUnit
        <4>1. fed[q] + 1 \in 1 .. MaxUnits /\ q # 0
          BY <1>0, <2>3, PoolAssumption DEF FeedUnit, Runs
        <4>2. <<q, fed[q] + 1>> \in Units /\ <<q, fed[q] + 1>> # NoUnit
          BY <4>1 DEF Units, NoUnit
        <4>3. PICK u \in Units : u # NoUnit /\ u = <<q, fed[q] + 1>>
          BY <4>2
        <4>4. workQ' = Append(workQ, u)
          BY <2>3, <4>3 DEF FeedUnit
        <4>5. Append(workQ, u) = workQ \o <<u>>
          BY <1>0
        <4> QED BY <4>3, <4>4, <4>5
      <3>2. \A i \in 1 .. Len(workQ') : workQ'[i] # NoUnit
        <4>1. <<u>> \in Seq(Units \cup {NoUnit}) /\ Len(<<u>>) = 1 /\ <<u>>[1] = u
          OBVIOUS
        <4>2. ASSUME NEW i \in 1 .. Len(workQ') PROVE workQ'[i] # NoUnit
          <5>1. CASE i \in 1 .. Len(workQ)
            BY <1>0, <2>2, <3>1, <4>1, <5>1, QueueIndexes
          <5>2. CASE i \notin 1 .. Len(workQ)
            <6>1. i - Len(workQ) \in 1 .. Len(<<u>>) /\ workQ'[i] = <<u>>[i - Len(workQ)]
              BY <1>0, <3>1, <4>1, <5>2, QueueIndexes
            <6> QED BY <3>1, <4>1, <6>1
          <5> QED BY <5>1, <5>2
        <4> QED BY <4>2
      <3> QED BY <3>2 DEF SentinelInv
    <2>4. CASE FeedSentinels(q)
      <3>1. PICK s \in Seq(Units \cup {NoUnit}) : /\ workQ' = workQ \o s
                                                  /\ \A i \in 1 .. Len(s) : s[i] = NoUnit
        <4>1. [i \in 1 .. PoolSize |-> NoUnit] \in Seq(Units \cup {NoUnit})
          BY <1>0
        <4>2. PICK s \in Seq(Units \cup {NoUnit}) : s = [i \in 1 .. PoolSize |-> NoUnit]
          BY <4>1
        <4>3. Len(s) = PoolSize /\ \A i \in 1 .. PoolSize : s[i] = NoUnit
          BY <1>0, <4>2
        <4> QED BY <2>4, <4>2, <4>3 DEF FeedSentinels
      <3>2. feeder'[q] = "done"
        BY <1>0, <2>4 DEF FeedSentinels, FeederAt
      <3>3. \A i \in 1 .. Len(workQ) : i \in 1 .. Len(workQ') /\ workQ'[i] = workQ[i]
        BY <1>0, <3>1, QueueIndexes
      <3>4. ASSUME NEW i \in 1 .. Len(workQ'), i \notin 1 .. Len(workQ) PROVE workQ'[i] = NoUnit
        BY <1>0, <3>1, <3>4, QueueIndexes
      <3>5. ASSUME NEW i \in 1 .. Len(workQ'), NEW j \in 1 .. Len(workQ'), workQ'[i] = NoUnit, i < j
            PROVE  workQ'[j] = NoUnit
        <4>1. i \notin 1 .. Len(workQ)
          BY <2>2, <3>3, <3>5
        <4>2. j \notin 1 .. Len(workQ)
          <5>1. Len(workQ) \in Nat
            BY <1>0
          <5> QED BY <3>5, <4>1, <5>1
        <4> QED BY <3>4, <4>2
      <3> QED BY <2>1, <3>2, <3>5 DEF SentinelInv
    <2>5. CASE ~FeedUnit(q) /\ ~FeedSentinels(q)
      <3>1. UNCHANGED workQ
        BY <1>2, <2>5 DEF FeederMoves, Partition, ReportPartitionError, StopFeeding, PartitionRaises
      <3> QED BY <2>2, <3>1 DEF SentinelInv
    <2> QED BY <2>3, <2>4, <2>5
  <1>3. ASSUME NEW w \in Workers, GetItem(w) PROVE SentinelInv'
    <2>1. workQ # <<>> /\ workQ' = Tail(workQ) /\ UNCHANGED <<feeder, runIdHolder>>
      BY <1>3 DEF GetItem
    <2>2. /\ Len(workQ') = Len(workQ) - 1 /\ Len(workQ) \in Nat
          /\ \A i \in 1 .. Len(workQ') : i + 1 \in 1 .. Len(workQ) /\ workQ'[i] = workQ[i + 1]
      BY <1>0, <2>1, QueueIndexes
    <2>3. ASSUME NEW i \in 1 .. Len(workQ'), NEW j \in 1 .. Len(workQ'), workQ'[i] = NoUnit, i < j
          PROVE  workQ'[j] = NoUnit
      <3>1. workQ[i + 1] = NoUnit /\ i + 1 < j + 1 /\ i + 1 \in 1 .. Len(workQ) /\ j + 1 \in 1 .. Len(workQ)
        BY <2>2, <2>3
      <3> QED BY <2>2, <3>1 DEF SentinelInv
    <2>4. ASSUME NEW i \in 1 .. Len(workQ'), workQ'[i] = NoUnit
          PROVE  runIdHolder' \in Runs /\ feeder'[runIdHolder'] = "done"
      BY <2>1, <2>2, <2>4 DEF SentinelInv
    <2> QED BY <2>3, <2>4 DEF SentinelInv
  <1>4. CASE ~PoolStartRun /\ UNCHANGED workQ /\ UNCHANGED feeder
    <2>1. UNCHANGED runIdHolder
      BY <1>4, Frames
    <2> QED BY <1>4, <2>1 DEF SentinelInv
  <1> QED BY <1>1, <1>2, <1>3, <1>4, Frames

-----------------------------------------------------------------------------
(* While the listener works and the user waits *)

\* What the patient user leaves to happen while the listener of a run works.
LEMMA OnlyPool ==
  ASSUME Impatient = FALSE, CourseInv, PatientInv, FeederInv, Next,
         NEW r \in Runs, listener[r] = "running", r \notin cancelled'
  PROVE  /\ r = runIdHolder /\ ~GuiMoves /\ ~Clicks
         /\ \A q \in Runs : ListenerMoves(q) => q = r /\ ~Shutdown(q)
         /\ \A q \in Runs : FeederMoves(q) \/ PartitionRaises(q) => q = r
  <1>0. TypeOK
    BY DEF CourseInv, PoolInv
  <1>1. r = worker /\ guiPc \in {"idle", "closed"} /\ ListenerAlive /\ r # 0
    BY PoolAssumption DEF PatientInv, ListenerAlive, Runs
  <1>2. r = runIdHolder
    BY <1>1 DEF FeederInv
  <1>3. ~GuiMoves
    BY <1>1 DEF GuiMoves, CancelDrains, WaitReturns, RejectInfeasible, AskPool, CollectReady,
                ReadyTimesOut, PoolStartRun
  <1>4. ~Clicks
    BY <1>1 DEF Clicks, ClickGenerate, ClickCancel, Close
  <1>5. ASSUME NEW q \in Runs, ListenerMoves(q) PROVE q = r /\ ~Shutdown(q)
    <2>1. listener[q] \in {"running", "closing"}
      BY <1>5 DEF ListenerMoves, DropStale, HandleBatch, HandleFinished, HandleError, NoticeCrash,
                  Shutdown, ReceiveOwn, Receive
    <2>2. q = r
      BY <1>1, <2>1 DEF PatientInv
    <2> QED BY <2>2 DEF Shutdown
  <1>6. ASSUME NEW q \in Runs, FeederMoves(q) \/ PartitionRaises(q) PROVE q = r
    <2>1. feeder[q] \notin {"none", "done"}
      BY <1>0, <1>6, FeederFrames
    <2> QED BY <1>2, <2>1 DEF FeederInv
  <1> QED BY <1>2, <1>3, <1>4, <1>5, <1>6

\* A run that is not cut short was not cut short before, unless it just started.
LEMMA UncutWas ==
  ASSUME CourseInv, Next, NEW r \in Runs, Uncut(r)', ~(PoolStartRun /\ r = run)
  PROVE  Uncut(r)
  <1>1. listener[r] = "running"
    <2>1. PoolStartRun => listener' = [listener EXCEPT ![run] = "running"]
      BY DEF PoolStartRun
    <2>2. listener \in [Runs -> {"none", "running", "closing", "done"}] /\ listener'[r] = "running"
      BY DEF CourseInv, PoolInv, TypeOK, ListenerTypeOK, Uncut
    <2>3. CASE PoolStartRun
      BY <2>1, <2>2, <2>3
    <2>4. CASE ~PoolStartRun
      BY <2>2, <2>4, ListenerStep DEF CourseInv
    <2> QED BY <2>3, <2>4
  <1>2. r \notin cancelled
    BY CancelledGrows DEF Uncut
  <1>3. recorded[r] < ResultLimit
    <2>1. /\ recorded[r] \in Nat /\ recorded'[r] \in Nat /\ recorded[r] <= recorded'[r]
          /\ recorded'[r] < ResultLimit /\ ResultLimit \in Nat
      BY RecordedGrows, PoolAssumption DEF CourseInv, Uncut
    <2> QED BY <2>1
  <1> QED BY <1>1, <1>2, <1>3 DEF Uncut

\* The cancel event stays clear: the saved counts reach no limit the recorded
\* ones have not reached.
LEMMA NobodyCancels ==
  ASSUME Impatient = FALSE, CourseInv, LedgerInv, PatientInv, FeederInv, Next,
         NEW r \in Runs, Uncut(r), Uncut(r)', ~cancelEvent
  PROVE  ~cancelEvent'
  <1>0. /\ listener[r] = "running" /\ r \notin cancelled' /\ recorded'[r] < ResultLimit
        /\ ResultLimit \in Nat /\ recorded'[r] \in Nat /\ saved'[r] \in Nat
        /\ CourseInv' /\ LedgerInv' /\ TypeOK /\ TypeOK'
    <2>1. CourseInv' /\ LedgerInv'
      BY CourseStep, LedgerNext DEF CourseInv
    <2> QED BY <2>1, PoolAssumption DEF Uncut, CourseInv, PoolInv, TypeOK, HistoryTypeOK, ListenerTypeOK
  <1>1. /\ r = runIdHolder /\ ~GuiMoves /\ ~Clicks
        /\ \A q \in Runs : ListenerMoves(q) => q = r /\ ~Shutdown(q)
    BY <1>0, OnlyPool
  <1>2. ASSUME NEW w \in Workers, WorkerMoves(w) PROVE ~cancelEvent'
    <2>1. CASE RecordSchedule(w)
      <3>1. recorded'[r] = resultCounter'
        <4>1. r = runIdHolder'
          BY <1>1, <2>1 DEF RecordSchedule
        <4> QED BY <1>0, <4>1 DEF CourseInv, PoolInv, CountInv
      <3>2. ~(resultCounter + 1 >= ResultLimit)
        BY <1>0, <2>1, <3>1 DEF RecordSchedule
      <3>3. cancelEvent' = (cancelEvent \/ resultCounter + 1 >= ResultLimit)
        BY <2>1 DEF RecordSchedule
      <3> QED BY <3>2, <3>3, Zenon
    <2>2. CASE ~RecordSchedule(w)
      BY <1>2, <2>2 DEF WorkerMoves, Announce, TakePayload, TakeShutdown, ReadRunId,
           CheckCancel, GetEmpty, GetItem, ReachSchedule, DropSchedule, FinishUnit,
           AbandonUnit, FlushBuffer, SendFinished, SendError
    <2> QED BY <2>1, <2>2
  <1>3. saved'[r] <= recorded'[r]
    <2>1. PoolInv'
      BY <1>0 DEF CourseInv
    <2>2. SavedWasRecorded'
      BY <1>0, <2>1, LedgerBounds, PTL
    <2> QED BY <2>2 DEF SavedWasRecorded
  <1>4. ASSUME NEW q \in Runs, ListenerMoves(q) PROVE ~cancelEvent'
    <2>1. q = r
      BY <1>1, <1>4
    <2>2. ASSUME NEW p \in Producers, HandleBatch(r, p) PROVE ~cancelEvent'
      <3>1. ~(saved'[r] >= ResultLimit)
        BY <1>0, <1>3
      <3>2. cancelEvent' = (cancelEvent \/ saved'[r] >= ResultLimit)
        BY <2>2 DEF HandleBatch
      <3> QED BY <3>1, <3>2, Zenon
    <2> QED BY <1>4, <2>1, <2>2 DEF ListenerMoves, DropStale, HandleFinished, HandleError,
                                     NoticeCrash, Shutdown, ReceiveOwn, Receive
  <1>5. ASSUME NEW q \in Runs, FeederMoves(q) PROVE ~cancelEvent'
    BY <1>5 DEF FeederMoves, Partition, ReportPartitionError, FeedUnit, StopFeeding, FeedSentinels
  <1>6. CASE Mishaps
    BY <1>6 DEF Mishaps, WorkerRaises, Crash, Terminate, PartitionRaises
  <1> QED BY <1>1, <1>2, <1>4, <1>5, <1>6 DEF Next

\* A worker leaves the units of such a run behind only when it takes a sentinel.
LEMMA PastComes ==
  ASSUME CourseInv, Next, NEW r \in Runs, r = runIdHolder, ~cancelEvent, Past(r)',
         ~GuiMoves, ~Clicks
  PROVE  Past(r) \/ \E w \in Workers : GetItem(w) /\ Head(workQ) = NoUnit
  <1>0. /\ wpc \in [Workers -> WorkerPcs] /\ wrun \in [Workers -> 0 .. NumRuns] /\ PoolInv
        /\ finishes \in [Runs -> Nat] /\ resultQ \in [Producers -> Seq(Messages)]
    BY DEF CourseInv, PoolInv, TypeOK, WorkerTypeOK, ListenerTypeOK, QueueTypeOK
  <1>1. ASSUME NEW v \in Workers, wpc'[v] = "flush", wrun'[v] = r
        PROVE  Past(r) \/ \E w \in Workers : GetItem(w) /\ Head(workQ) = NoUnit
    <2>1. CASE wpc[v] = "flush" /\ wrun'[v] = wrun[v]
      BY <1>1, <2>1 DEF Past
    <2>2. ASSUME NEW w \in Workers, WorkerMoves(w)
          PROVE  \/ wpc[v] = "flush" /\ wrun'[v] = wrun[v]
                 \/ GetItem(w) /\ Head(workQ) = NoUnit
      <3>1. CASE v # w
        BY <1>0, <1>1, <2>2, <3>1 DEF WorkerMoves, Announce, TakePayload, TakeShutdown, ReadRunId,
           CheckCancel, GetEmpty, GetItem, ReachSchedule, RecordSchedule, DropSchedule, FinishUnit,
           AbandonUnit, FlushBuffer, SendFinished, SendError, WorkerAt
      <3>2. CASE v = w
        <4>1. CASE GetItem(w)
          BY <1>0, <1>1, <3>2, <4>1 DEF GetItem, WorkerAt
        <4>2. CASE CheckCancel(w)
          <5>1. wpc'[w] = "getting"
            BY <1>0, <4>2 DEF CheckCancel, WorkerAt
          <5> QED BY <1>1, <3>2, <5>1
        <4>3. CASE FlushBuffer(w)
          BY <1>0, <1>1, <3>2, <4>3 DEF FlushBuffer, WorkerAt
        <4>4. CASE ~GetItem(w) /\ ~CheckCancel(w) /\ ~FlushBuffer(w)
          BY <1>0, <1>1, <2>2, <3>2, <4>4 DEF WorkerMoves, Announce, TakePayload, TakeShutdown,
             ReadRunId, GetEmpty, ReachSchedule, RecordSchedule, DropSchedule, FinishUnit,
             AbandonUnit, SendFinished, SendError, WorkerAt
        <4> QED BY <4>1, <4>2, <4>3, <4>4
      <3> QED BY <3>1, <3>2
    <2>3. CASE \A w \in Workers : ~WorkerMoves(w)
      <3>1. UNCHANGED wrun
        BY <2>3, Frames
      <3>2. \/ UNCHANGED wpc
            \/ \E w \in Workers : \E to \in {"error", "dead"} : wpc' = [wpc EXCEPT ![w] = to]
        BY <2>3 DEF Next, GuiMoves, Clicks, Mishaps, ListenerMoves, FeederMoves,
             CancelDrains, WaitReturns, RejectInfeasible, AskPool, CollectReady, ReadyTimesOut,
             PoolStartRun, ClickGenerate, ClickCancel, Close, Terminate, WorkerRaises, Crash,
             Receive, ReceiveOwn, DropStale, HandleBatch, HandleFinished, HandleError, NoticeCrash,
             Shutdown, Partition, PartitionRaises, ReportPartitionError, FeedUnit, StopFeeding,
             FeedSentinels, WorkerAt
      <3>3. wpc[v] = "flush"
        BY <1>0, <1>1, <3>2
      <3> QED BY <2>1, <3>1, <3>3
    <2> QED BY <2>1, <2>2, <2>3
  <1>2. ASSUME NEW p \in Producers, NEW k \in 1 .. Len(resultQ'[p]),
               resultQ'[p][k].type = "FINISHED", resultQ'[p][k].tag = r
        PROVE  Past(r)
    <2>1. CASE \E j \in 1 .. Len(resultQ[p]) : resultQ'[p][k] = resultQ[p][j]
      BY <1>2, <2>1 DEF Past
    <2>2. ASSUME NEW w \in Workers, wpc[w] = "flush" PROVE Past(r)
      <3>1. wrun[w] = r
        BY <1>0, <2>2 DEF PoolInv, ServeInv, Serving, Tagged
      <3> QED BY <2>2, <3>1 DEF Past
    <2>3. ASSUME NEW q \in Runs, resultQ'[p][k] = Error(q) PROVE FALSE
      <3>1. Error(q).type = "ERROR"
        BY DEF Error
      <3> QED BY <1>2, <2>3, <3>1
    <2> QED BY <1>0, <1>2, <2>1, <2>2, <2>3, QueueGrows
  <1>3. CASE finishes'[r] > 0 /\ finishes[r] = 0
    <2>1. finishes'[r] # finishes[r]
      BY <1>3
    <2>2. PICK p \in Producers : HandleFinished(r, p)
      <3>1. ASSUME NEW q \in Runs, ListenerMoves(q), ~\E p \in Producers : HandleFinished(r, p)
            PROVE  finishes'[r] = finishes[r]
        BY <1>0, <3>1 DEF ListenerMoves, DropStale, HandleBatch, HandleFinished, HandleError,
               NoticeCrash, Shutdown, ReceiveOwn, Receive
      <3>2. ASSUME NEW w \in Workers, WorkerMoves(w) PROVE UNCHANGED finishes
        BY <3>2 DEF WorkerMoves, Announce, TakePayload, TakeShutdown, ReadRunId,
           CheckCancel, GetEmpty, GetItem, ReachSchedule, RecordSchedule, DropSchedule, FinishUnit,
           AbandonUnit, FlushBuffer, SendFinished, SendError
      <3>3. ASSUME NEW q \in Runs, FeederMoves(q) PROVE UNCHANGED finishes
        BY <3>3 DEF FeederMoves, Partition, ReportPartitionError, FeedUnit, StopFeeding, FeedSentinels
      <3>4. CASE Mishaps
        BY <2>1, <3>4 DEF Mishaps, WorkerRaises, Crash, Terminate, PartitionRaises
      <3> QED BY <2>1, <3>1, <3>2, <3>3, <3>4 DEF Next
    <2>3. /\ resultQ[p] # <<>> /\ resultQ[p] \in Seq(Messages)
          /\ Head(resultQ[p]).type = "FINISHED" /\ Head(resultQ[p]).tag = r
      BY <1>0, <2>2 DEF HandleFinished, ReceiveOwn, Receive, Stale
    <2>4. 1 \in 1 .. Len(resultQ[p]) /\ resultQ[p][1] = Head(resultQ[p])
      BY <2>3
    <2> QED BY <2>3, <2>4 DEF Past
  <1>4. CASE finishes[r] > 0
    BY <1>4 DEF Past
  <1>5. finishes[r] \in Nat
    BY <1>0
  <1> QED BY <1>1, <1>2, <1>3, <1>4, <1>5 DEF Past

\* The start of a run: no cancel event, no unit, nobody past it.
LEMMA FreshCalm ==
  ASSUME CourseInv, FeederInv, Next, PoolStartRun, NEW r \in Runs, r = run
  PROVE  Calm(r)' /\ AllPlaced(r)'
  <1>1. feeder'[r] = "partition" /\ ~cancelEvent' /\ finishes'[r] = 0 /\ fed'[r] = 0
    <2>1. /\ runIdHolder < run /\ TypeOK /\ feeder' = [feeder EXCEPT ![run] = "partition"]
          /\ cancelEvent' = FALSE /\ UNCHANGED <<finishes, fed>>
      BY DEF PoolStartRun, CourseInv, PoolInv, RunInv
    <2>2. feeder[r] = "none" /\ finishes[r] = 0
      BY <2>1 DEF CourseInv, FreshInv
    <2>3. feeder' \in [Runs -> {"none", "partition", "failed", "feeding", "ending", "done"}]
      BY <2>1 DEF TypeOK, FeederTypeOK
    <2> QED BY <2>1, <2>2, <2>3 DEF FeederInv, TypeOK, FeederTypeOK
  <1>2. ~Past(r)'
    <2>1. \A w \in Workers : wpc'[w] # "flush"
      BY FreshTickets DEF Serving, Tagged
    <2>2. \A p \in Producers : \A k \in 1 .. Len(resultQ'[p]) : resultQ'[p][k].tag # r
      BY FreshTickets
    <2> QED BY <1>1, <2>1, <2>2 DEF Past
  <1> QED BY <1>1, <1>2 DEF Calm, AllPlaced

\* No step disturbs a run that goes on uncut.
LEMMA CalmStep ==
  ASSUME Impatient = FALSE, PromptFeeder = TRUE, CourseInv, LedgerInv, PatientInv,
         FeederInv, SentinelInv, CalmInv, Next
  PROVE  CalmInv'
  <1> SUFFICES ASSUME NEW r \in Runs, Uncut(r)' PROVE Calm(r)'
    BY DEF CalmInv
  <1>1. CASE PoolStartRun /\ r = run
    BY <1>1, FreshCalm
  <1>2. CASE ~(PoolStartRun /\ r = run)
    <2>0. /\ feeder \in [Runs -> {"none", "partition", "failed", "feeding", "ending", "done"}]
          /\ fed \in [Runs -> 0 .. MaxUnits] /\ cut \in [Runs -> 0 .. MaxUnits] /\ MaxUnits \in Nat
          /\ workQ \in Seq(Units \cup {NoUnit}) /\ TypeOK
      BY PoolAssumption DEF CourseInv, PoolInv, TypeOK, FeederTypeOK, QueueTypeOK
    <2>1. Uncut(r) /\ Calm(r) /\ ~cancelEvent
      BY <1>2, UncutWas DEF CalmInv, Calm
    <2>2. ~cancelEvent'
      BY <2>1, NobodyCancels
    <2>3. /\ r = runIdHolder /\ ~GuiMoves /\ ~Clicks
          /\ \A q \in Runs : FeederMoves(q) \/ PartitionRaises(q) => q = r
      BY <2>1, OnlyPool DEF Uncut
    <2>4. ~PoolStartRun
      BY <2>3 DEF GuiMoves
    <2>5. CASE FeederMoves(r) \/ PartitionRaises(r)
      <3>1. feeder[r] # "done"
        BY <2>0, <2>5, FeederFrames
      <3>2. ~Past(r)
        BY <2>1, <3>1 DEF Calm
      <3>3. ASSUME NEW w \in Workers, GetItem(w) PROVE FALSE
        <4>1. UNCHANGED wpc
          BY <2>5 DEF FeederMoves, Partition, ReportPartitionError, FeedUnit, StopFeeding,
             FeedSentinels, PartitionRaises
        <4>2. wpc \in [Workers -> WorkerPcs]
          BY <2>0 DEF TypeOK, WorkerTypeOK
        <4>3. wpc'[w] # "getting" /\ wpc[w] = "getting"
          BY <3>3, <4>2 DEF GetItem, WorkerAt
        <4> QED BY <4>1, <4>3
      <3>4. ~Past(r)'
        BY <2>1, <2>3, <3>2, <3>3, PastComes
      <3>5. feeder'[r] \in {"ending", "done"} => fed'[r] = cut'[r]
        <4>0. /\ feeder[r] \in {"ending", "done"} => fed[r] = cut[r]
              /\ feeder[r] \in {"partition", "failed"} => fed[r] = cut[r]
          BY <2>1 DEF Calm, FeederInv
        <4>1. CASE Partition(r) \/ FeedUnit(r)
          BY <2>0, <4>1 DEF Partition, FeedUnit, FeederAt
        <4>2. CASE StopFeeding(r)
          BY <2>1, <4>2 DEF StopFeeding
        <4>3. CASE ReportPartitionError(r) \/ FeedSentinels(r) \/ PartitionRaises(r)
          BY <2>0, <4>0, <4>3 DEF ReportPartitionError, FeedSentinels, PartitionRaises, FeederAt
        <4> QED BY <2>5, <4>1, <4>2, <4>3 DEF FeederMoves
      <3> QED BY <2>2, <3>4, <3>5 DEF Calm
    <2>6. CASE ~FeederMoves(r) /\ ~PartitionRaises(r)
      <3>1. UNCHANGED <<feeder, cut, fed>> /\ (UNCHANGED workQ \/ \E w \in Workers : GetItem(w))
        BY <2>3, <2>4, <2>6, Frames
      <3>2. Past(r)' => feeder[r] = "done" /\ OnlySentinels'
        <4> SUFFICES ASSUME Past(r)' PROVE feeder[r] = "done" /\ OnlySentinels'
          OBVIOUS
        <4>1. feeder[r] = "done" /\ OnlySentinels
          <5>1. CASE Past(r)
            BY <2>1, <5>1 DEF Calm
          <5>2. CASE \E w \in Workers : GetItem(w) /\ Head(workQ) = NoUnit
            <6>1. workQ # <<>> /\ Head(workQ) = NoUnit
              BY <5>2 DEF GetItem
            <6>2. 1 \in 1 .. Len(workQ) /\ workQ[1] = NoUnit
              BY <2>0, <6>1
            <6>3. \A i \in 1 .. Len(workQ) : i = 1 \/ 1 < i
              BY <2>0
            <6> QED BY <2>3, <6>2, <6>3 DEF SentinelInv, OnlySentinels
          <5> QED BY <2>1, <2>3, <5>1, <5>2, PastComes
        <4>2. CASE UNCHANGED workQ
          BY <4>1, <4>2 DEF OnlySentinels
        <4>3. CASE \E w \in Workers : GetItem(w)
          <5>1. workQ # <<>> /\ workQ' = Tail(workQ)
            BY <4>3 DEF GetItem
          <5>2. \A i \in 1 .. Len(workQ') : i + 1 \in 1 .. Len(workQ) /\ workQ'[i] = workQ[i + 1]
            BY <2>0, <5>1, QueueIndexes
          <5> QED BY <4>1, <5>2 DEF OnlySentinels
        <4> QED BY <3>1, <4>1, <4>2, <4>3
      <3>3. feeder'[r] = feeder[r] /\ fed'[r] = fed[r] /\ cut'[r] = cut[r]
        BY <3>1
      <3> QED BY <2>1, <2>2, <3>2, <3>3 DEF Calm
    <2> QED BY <2>5, <2>6
  <1> QED BY <1>1, <1>2

-----------------------------------------------------------------------------
(* Where the units are *)

\* A worker's step: units move from the queue to a worker, and on to the searched.
LEMMA PlacedWorker ==
  ASSUME CourseInv, FoundInv, NEW r \in Runs, r = runIdHolder, Uncut(r), ~cancelEvent,
         IsFiniteSet(TicketsOf(r)), ~LostTicket(r), NEW w \in Workers, WorkerMoves(w),
         NEW u \in Units, Placed(r, u)
  PROVE  Placed(r, u)'
  <1>0. /\ wpc \in [Workers -> WorkerPcs] /\ wrun \in [Workers -> 0 .. NumRuns]
        /\ wunit \in [Workers -> Units \cup {NoUnit}] /\ workQ \in Seq(Units \cup {NoUnit})
        /\ wfound \in [Workers -> 0 .. PerUnit] /\ recorded[r] \in Nat /\ PerUnit \in Nat
        /\ ResultLimit \in Nat /\ PoolInv
    BY PoolAssumption DEF CourseInv, PoolInv, TypeOK, WorkerTypeOK, QueueTypeOK, HistoryTypeOK
  <1>1. searched \subseteq searched'
    BY DEF WorkerMoves, Announce, TakePayload, TakeShutdown, ReadRunId,
           CheckCancel, GetEmpty, GetItem, ReachSchedule, RecordSchedule, DropSchedule, FinishUnit,
           AbandonUnit, FlushBuffer, SendFinished, SendError
  <1>2. ASSUME NEW v \in Workers, v # w
        PROVE  wpc'[v] = wpc[v] /\ wrun'[v] = wrun[v] /\ wunit'[v] = wunit[v]
    BY <1>0, <1>2 DEF WorkerMoves, Announce, TakePayload, TakeShutdown, ReadRunId,
           CheckCancel, GetEmpty, GetItem, ReachSchedule, RecordSchedule, DropSchedule, FinishUnit,
           AbandonUnit, FlushBuffer, SendFinished, SendError, WorkerAt
  <1>3. ASSUME wpc[w] \in Searching, wrun[w] = r, wunit[w] = u PROVE Placed(r, u)'
    <2>1. CASE FinishUnit(w)
      BY <1>3, <2>1 DEF FinishUnit, Placed
    <2>2. CASE AbandonUnit(w)
      <3>1. wfound[w] >= ResultLimit /\ wpc[w] = "search"
        BY <2>2 DEF AbandonUnit, WorkerAt
      <3>2. recorded[r] = ResultLimit \/ wfound[w] <= recorded[r]
        BY <1>3, <3>1 DEF FoundInv, FoundBy
      <3> QED BY <1>0, <3>1, <3>2 DEF Uncut
    <2>3. CASE SendError(w)
      BY <1>0, <1>3, <2>3, TicketsWorker
    <2>4. CASE \/ ReachSchedule(w) \/ RecordSchedule(w) \/ DropSchedule(w)
               \/ (FlushBuffer(w) /\ wpc[w] = "batch")
      <3>1. wpc'[w] \in Searching /\ UNCHANGED <<wrun, wunit>>
        BY <1>0, <2>4 DEF ReachSchedule, RecordSchedule, DropSchedule, FlushBuffer, WorkerAt, Searching
      <3> QED BY <1>3, <3>1 DEF Placed
    <2>5. CASE \/ Announce(w) \/ TakePayload(w) \/ TakeShutdown(w) \/ ReadRunId(w) \/ CheckCancel(w)
               \/ GetEmpty(w) \/ GetItem(w) \/ SendFinished(w) \/ (FlushBuffer(w) /\ wpc[w] # "batch")
      <3>1. wpc[w] \notin Searching
        BY <2>5 DEF Announce, TakePayload, TakeShutdown, ReadRunId, CheckCancel, GetEmpty, GetItem,
             SendFinished, FlushBuffer, WorkerAt, Searching
      <3> QED BY <1>3, <3>1
    <2> QED BY <2>1, <2>2, <2>3, <2>4, <2>5 DEF WorkerMoves
  <1>4. ASSUME NEW v \in Workers, v # w, wpc[v] \in Searching, wrun[v] = r, wunit[v] = u
        PROVE  Placed(r, u)'
    BY <1>2, <1>4 DEF Placed
  <1>5. ASSUME NEW i \in 1 .. Len(workQ), workQ[i] = u PROVE Placed(r, u)'
    <2>0. u # NoUnit
      BY PoolAssumption DEF Units, NoUnit, Runs
    <2>1. UNCHANGED workQ => Placed(r, u)'
      BY <1>5 DEF Placed
    <2>2. CASE GetItem(w)
      <3>0. /\ workQ # <<>> /\ workQ' = Tail(workQ) /\ wpc[w] = "getting" /\ wunit'[w] = Head(workQ)
            /\ UNCHANGED wrun /\ (Head(workQ) # NoUnit => wpc'[w] = "search")
        BY <1>0, <2>2 DEF GetItem, WorkerAt
      <3>1. CASE i = 1
        <4>1. Head(workQ) = u /\ u # NoUnit
          BY <1>0, <1>5, <2>0, <3>0, <3>1
        <4>2. wrun'[w] = r
          BY <1>0, <3>0 DEF PoolInv, ServeInv, Serving, Tagged
        <4>3. wpc'[w] \in Searching /\ wunit'[w] = u
          BY <3>0, <4>1 DEF Searching
        <4> QED BY <4>2, <4>3 DEF Placed
      <3>2. CASE i # 1
        <4>1. i - 1 \in 1 .. Len(workQ')
          BY <1>0, <3>0, <3>2
        <4>2. workQ'[i - 1] = u
          BY <1>0, <1>5, <3>0, <3>2
        <4> QED BY <4>1, <4>2 DEF Placed
      <3> QED BY <3>1, <3>2
    <2>3. CASE ~GetItem(w)
      <3>1. UNCHANGED workQ
        BY <2>3 DEF WorkerMoves, Announce, TakePayload, TakeShutdown, ReadRunId,
           CheckCancel, GetEmpty, ReachSchedule, RecordSchedule, DropSchedule, FinishUnit,
           AbandonUnit, FlushBuffer, SendFinished, SendError
      <3> QED BY <2>1, <3>1
    <2> QED BY <2>2, <2>3
  <1>6. <<r, u>> \in searched => Placed(r, u)'
    BY <1>1 DEF Placed
  <1> QED BY <1>3, <1>4, <1>5, <1>6 DEF Placed

\* A process fails: with a unit of the run it would lose a ticket of the run.
LEMMA PlacedFailure ==
  ASSUME CourseInv, NEW r \in Runs, IsFiniteSet(TicketsOf(r)), ~LostTicket(r),
         NEW w \in Workers, WorkerRaises(w) \/ Crash(w) \/ Terminate(w),
         NEW u \in Units, Placed(r, u)
  PROVE  Placed(r, u)'
  <1>0. wpc \in [Workers -> WorkerPcs] /\ PoolInv /\ UNCHANGED <<searched, workQ, wrun, wunit>>
    BY DEF CourseInv, PoolInv, TypeOK, WorkerTypeOK, WorkerRaises, Crash, Terminate
  <1>1. \A v \in Workers : v # w => wpc'[v] = wpc[v]
    BY <1>0 DEF WorkerRaises, Crash, Terminate, WorkerAt
  <1>2. ASSUME wpc[w] \in Searching, wrun[w] = r PROVE wpc'[w] \in Searching
    <2>1. <<"serving", w, 0>> \in TicketsOf(r)
      BY <1>2 DEF TicketsOf, TicketIds, ServingTicket, Searching, Serving, Tagged, Producers
    <2>2. TicketsOf(r)' = TicketsOf(r)
      BY <1>0, TicketsFailure
    <2>3. wpc'[w] \in Serving
      BY <2>1, <2>2 DEF TicketsOf, PayloadTicket, ServingTicket, SentTicket, CountedTicket
    <2>4. wpc'[w] \in {"error", "dead"}
      BY <1>0 DEF WorkerRaises, Crash, Terminate, WorkerAt
    <2> QED BY <2>3, <2>4 DEF Serving, Tagged, Searching
  <1> QED BY <1>0, <1>1, <1>2 DEF Placed

\* The feeder adds behind the queue; the listener touches no unit.
LEMMA PlacedOthers ==
  ASSUME CourseInv, NEW r \in Runs, NEW q \in Runs, ListenerMoves(q) \/ FeederMoves(q) \/ PartitionRaises(q),
         NEW u \in Units, Placed(r, u)
  PROVE  Placed(r, u)'
  <1>0. workQ \in Seq(Units \cup {NoUnit}) /\ PoolSize \in Nat /\ TypeOK /\ fed \in [Runs -> 0 .. MaxUnits]
        /\ MaxUnits \in Nat
    BY PoolSizeType, PoolAssumption DEF CourseInv, PoolInv, TypeOK, QueueTypeOK, FeederTypeOK
  <1>1. UNCHANGED <<searched, wpc, wrun, wunit>>
    BY DEF ListenerMoves, DropStale, HandleBatch, HandleFinished, HandleError, NoticeCrash,
           Shutdown, ReceiveOwn, Receive, FeederMoves, Partition, ReportPartitionError, FeedUnit,
           StopFeeding, FeedSentinels, PartitionRaises
  <1>2. \A i \in 1 .. Len(workQ) : i \in 1 .. Len(workQ') /\ workQ'[i] = workQ[i]
    <2>1. CASE FeedUnit(q)
      <3>1. PICK x : workQ' = Append(workQ, x)
        BY <2>1 DEF FeedUnit
      <3> QED BY <1>0, <3>1
    <2>2. CASE FeedSentinels(q)
      <3>1. [i \in 1 .. PoolSize |-> NoUnit] \in Seq(Units \cup {NoUnit})
        BY <1>0
      <3>2. PICK s \in Seq(Units \cup {NoUnit}) : workQ' = workQ \o s
        BY <2>2, <3>1 DEF FeedSentinels
      <3> QED BY <1>0, <3>2, QueueIndexes
    <2>3. CASE ~FeedUnit(q) /\ ~FeedSentinels(q)
      <3>1. UNCHANGED workQ
        BY <2>3 DEF ListenerMoves, DropStale, HandleBatch, HandleFinished, HandleError, NoticeCrash,
           Shutdown, ReceiveOwn, Receive, FeederMoves, Partition, ReportPartitionError,
           StopFeeding, PartitionRaises
      <3> QED BY <3>1
    <2> QED BY <2>1, <2>2, <2>3
  <1> QED BY <1>1, <1>2 DEF Placed

\* While no ticket is lost, no unit is.
LEMMA PlacedStep ==
  ASSUME Impatient = FALSE, PromptFeeder = TRUE, CourseInv, LedgerInv, PatientInv,
         FeederInv, FoundInv, CalmInv, PlacedInv, Next
  PROVE  PlacedInv'
  <1> SUFFICES ASSUME NEW r \in Runs, Uncut(r)', Cardinality(TicketsOf(r)') = PoolSize
               PROVE  AllPlaced(r)'
    BY DEF PlacedInv, Whole
  <1>1. CASE PoolStartRun /\ r = run
    BY <1>1, FreshCalm
  <1>2. CASE ~(PoolStartRun /\ r = run)
    <2>0. /\ IsFiniteSet(TicketsOf(r)) /\ TypeOK /\ MaxUnits \in Nat /\ r # 0
          /\ fed \in [Runs -> 0 .. MaxUnits] /\ cut \in [Runs -> 0 .. MaxUnits]
          /\ workQ \in Seq(Units \cup {NoUnit})
      <3>1. MaxUnits \in Nat /\ r # 0
        BY PoolAssumption DEF Runs
      <3>2. IsFiniteSet(TicketsOf(r)) /\ TypeOK
        BY DEF CourseInv, TicketInv, PoolInv
      <3> QED BY <3>1, <3>2 DEF TypeOK, FeederTypeOK, QueueTypeOK
    <2>1. Cardinality(TicketsOf(r)) = PoolSize /\ ~LostTicket(r)
      BY <1>2, TicketsWereAll
    <2>2. Uncut(r) /\ ~cancelEvent /\ AllPlaced(r)
      BY <1>2, <2>1, UncutWas DEF CalmInv, Calm, PlacedInv, Whole, Uncut
    <2>3. /\ r = runIdHolder /\ ~GuiMoves /\ ~Clicks
          /\ \A q \in Runs : FeederMoves(q) \/ PartitionRaises(q) => q = r
      BY <2>2, OnlyPool DEF Uncut
    <2>4. ASSUME NEW u \in Units, Placed(r, u) PROVE Placed(r, u)'
      BY <2>0, <2>1, <2>2, <2>3, <2>4, PlacedWorker, PlacedFailure, PlacedOthers DEF Next, Mishaps
    <2>5. ASSUME NEW k \in 1 .. fed[r] PROVE <<r, k>> \in Units
      BY <2>0 DEF Units
    <2>6. ASSUME NEW k \in 1 .. fed[r] PROVE Placed(r, <<r, k>>)'
      BY <2>2, <2>4, <2>5, <2>6 DEF AllPlaced
    <2>7. CASE fed'[r] = fed[r]
      BY <2>6, <2>7 DEF AllPlaced
    <2>8. CASE FeedUnit(r)
      <3>1. fed'[r] = fed[r] + 1 /\ fed[r] \in Nat /\ workQ' = Append(workQ, <<r, fed[r] + 1>>)
        BY <2>0, <2>8 DEF FeedUnit
      <3>2. PICK n \in Nat : n = fed[r]
        BY <3>1
      <3>3. PICK u : u = <<r, n + 1>>
        OBVIOUS
      <3>4. workQ' = Append(workQ, u)
        BY <3>1, <3>2, <3>3
      <3>5. Len(workQ) + 1 \in 1 .. Len(workQ') /\ workQ'[Len(workQ) + 1] = u
        BY <2>0, <3>4
      <3>6. Placed(r, u)'
        BY <3>5 DEF Placed
      <3>7. ASSUME NEW k \in 1 .. fed'[r] PROVE Placed(r, <<r, k>>)'
        <4>1. k \in 1 .. fed[r] \/ k = n + 1
          BY <3>1, <3>2
        <4> QED BY <2>6, <3>3, <3>6, <4>1
      <3> QED BY <3>7 DEF AllPlaced
    <2>9. CASE fed'[r] # fed[r] /\ ~FeedUnit(r)
      <3>1. FeederMoves(r) \/ PartitionRaises(r)
        BY <2>3, <2>9, Frames DEF GuiMoves
      <3>2. UNCHANGED fed
        BY <2>9, <3>1 DEF FeederMoves, Partition, ReportPartitionError, StopFeeding, FeedSentinels,
                          PartitionRaises
      <3> QED BY <2>9, <3>2
    <2> QED BY <2>7, <2>8, <2>9
  <1> QED BY <1>1, <1>2

-----------------------------------------------------------------------------
(* The theorem *)

\* The step that counts the last FINISHED finds every unit searched, and later
\* steps change nothing about the run.
LEMMA SearchedStep ==
  ASSUME Impatient = FALSE, CourseInv, LedgerInv, PatientInv, SearchedInv, FinishedMeansSearched, Next
  PROVE  FinishedMeansSearched'
  <1> SUFFICES ASSUME NEW r \in Runs, outcome'[r] = "finished", r \notin cancelled',
                      recorded'[r] # ResultLimit
               PROVE  /\ feeder'[r] \in {"ending", "done"}
                      /\ \A u \in 1 .. cut'[r] : <<r, <<r, u>>>> \in searched'
    BY DEF FinishedMeansSearched
  <1>0. /\ TypeOK /\ PoolInv /\ ResultLimit \in Nat /\ MaxUnits \in Nat
        /\ feeder \in [Runs -> {"none", "partition", "failed", "feeding", "ending", "done"}]
        /\ fed \in [Runs -> 0 .. MaxUnits] /\ cut \in [Runs -> 0 .. MaxUnits]
    BY PoolAssumption DEF CourseInv, PoolInv, TypeOK, FeederTypeOK
  <1>1. r \notin cancelled
    BY CancelledGrows
  <1>2. /\ recorded[r] \in Nat /\ recorded'[r] \in Nat /\ recorded[r] <= recorded'[r]
        /\ recorded'[r] <= ResultLimit
    BY <1>0, RecordedGrows
  <1>3. recorded[r] < ResultLimit
    BY <1>0, <1>2
  <1>4. CASE outcome[r] = "finished"
    <2>1. /\ feeder[r] \in {"ending", "done"}
          /\ \A u \in 1 .. cut[r] : <<r, <<r, u>>>> \in searched
      BY <1>0, <1>1, <1>3, <1>4 DEF FinishedMeansSearched
    <2>2. ~(PoolStartRun /\ r = run)
      <3>1. listener[r] # "none"
        BY <1>4 DEF CourseInv, OutcomeInv
      <3>2. r <= runIdHolder
        BY <1>0, <3>1 DEF CourseInv, FreshInv, TypeOK, SharedTypeOK, Runs
      <3>3. PoolStartRun => runIdHolder < run
        BY <1>0 DEF PoolInv, RunInv, PoolStartRun
      <3> QED BY <1>0, <3>2, <3>3 DEF TypeOK, SharedTypeOK, GuiTypeOK, Runs
    <2>3. feeder'[r] \in {"ending", "done"} /\ cut'[r] = cut[r]
      <3>1. CASE PoolStartRun
        BY <1>0, <2>1, <2>2, <3>1 DEF PoolStartRun
      <3>2. ASSUME NEW q \in Runs, FeederMoves(q) \/ PartitionRaises(q)
            PROVE  feeder'[r] \in {"ending", "done"} /\ cut'[r] = cut[r]
        BY <1>0, <2>1, <3>2 DEF FeederMoves, Partition, ReportPartitionError, FeedUnit, StopFeeding,
             FeedSentinels, PartitionRaises, FeederAt
      <3>3. CASE UNCHANGED <<feeder, cut, fed>>
        BY <2>1, <3>3
      <3> QED BY <3>1, <3>2, <3>3, Frames
    <2>4. searched \subseteq searched'
      <3>1. ASSUME NEW w \in Workers, WorkerMoves(w) PROVE searched \subseteq searched'
        BY <3>1 DEF WorkerMoves, Announce, TakePayload, TakeShutdown, ReadRunId,
           CheckCancel, GetEmpty, GetItem, ReachSchedule, RecordSchedule, DropSchedule, FinishUnit,
           AbandonUnit, FlushBuffer, SendFinished, SendError
      <3> QED BY <3>1, Frames
    <2> QED BY <2>1, <2>3, <2>4
  <1>5. CASE outcome[r] # "finished"
    <2>1. ~PoolStartRun /\ listener[r] = "running" /\ finishes'[r] >= PoolSize
      <3>1. PoolStartRun => UNCHANGED outcome
        BY DEF PoolStartRun
      <3> QED BY <1>0, <1>5, <3>1, ListenerStep
    <2>2. NothingOnItsWay(r)' /\ Cardinality(TicketsOf(r)') = PoolSize
      <3>1. CourseInv'
        BY CourseStep
      <3>2. CountedIsAll'
        BY <3>1, AllCounted, PTL
      <3> QED BY <2>1, <3>2 DEF CountedIsAll, NothingOnItsWay
    <2>3. Cardinality(TicketsOf(r)) = PoolSize
      BY <2>1, <2>2, TicketsWereAll
    <2>4. Uncut(r) /\ AllPlaced(r) /\ Calm(r)
      BY <1>1, <1>3, <2>1, <2>3 DEF SearchedInv, PlacedInv, CalmInv, Uncut, Whole
    <2>5. \E q \in Runs : ListenerMoves(q)
      <3>1. ~GuiMoves /\ ~Clicks
        BY <2>1, OnlyPool DEF SearchedInv
      <3>2. ASSUME NEW w \in Workers, WorkerMoves(w) \/ WorkerRaises(w) \/ Crash(w) \/ Terminate(w)
            PROVE  UNCHANGED outcome
        BY <3>2 DEF WorkerMoves, Announce, TakePayload, TakeShutdown, ReadRunId,
           CheckCancel, GetEmpty, GetItem, ReachSchedule, RecordSchedule, DropSchedule, FinishUnit,
           AbandonUnit, FlushBuffer, SendFinished, SendError, WorkerRaises, Crash, Terminate
      <3>3. ASSUME NEW q \in Runs, FeederMoves(q) \/ PartitionRaises(q) PROVE UNCHANGED outcome
        BY <3>3 DEF FeederMoves, Partition, ReportPartitionError, FeedUnit, StopFeeding, FeedSentinels,
             PartitionRaises
      <3> QED BY <1>5, <3>1, <3>2, <3>3 DEF Next, Mishaps
    <2>6. UNCHANGED <<searched, workQ, wpc, wrun, wunit, feeder, cut, fed>>
      BY <2>5 DEF ListenerMoves, DropStale, HandleBatch, HandleFinished, HandleError, NoticeCrash,
           Shutdown, ReceiveOwn, Receive
    <2>7. \A w \in Workers : wpc[w] \in Serving => wrun[w] # r
      BY <2>2, <2>6 DEF NothingOnItsWay
    <2>8. Past(r)
      <3>1. finishes'[r] \in Nat /\ finishes'[r] > 0
        BY <2>1, PoolSizeType, CourseStep DEF CourseInv, PoolInv, TypeOK, ListenerTypeOK
      <3>2. Past(r)'
        BY <3>1 DEF Past
      <3>3. r = runIdHolder /\ ~GuiMoves /\ ~Clicks
        BY <2>1, OnlyPool DEF SearchedInv
      <3>4. ~\E w \in Workers : GetItem(w)
        <4>1. wpc \in [Workers -> WorkerPcs]
          BY <1>0 DEF TypeOK, WorkerTypeOK
        <4> QED BY <2>6, <4>1 DEF GetItem, WorkerAt
      <3> QED BY <2>4, <3>2, <3>3, <3>4, PastComes DEF Calm
    <2>9. feeder[r] = "done" /\ OnlySentinels /\ fed[r] = cut[r]
      BY <2>4, <2>8 DEF Calm
    <2>10. ASSUME NEW k \in 1 .. cut[r] PROVE <<r, <<r, k>>>> \in searched
      <3>1. Placed(r, <<r, k>>) /\ <<r, k>> # NoUnit
        BY <2>4, <2>9, PoolAssumption DEF AllPlaced, NoUnit, Runs
      <3> QED BY <2>7, <2>9, <3>1 DEF Placed, OnlySentinels, Searching, Serving, Tagged
    <2> QED BY <2>6, <2>9, <2>10
  <1> QED BY <1>4, <1>5

\* The inductive invariant behind FinishedMeansSearched.
SearchCourseInv == CourseInv /\ LedgerInv /\ PatientInv /\ SearchedInv /\ FinishedMeansSearched

\* For a user who waits for the end of a run before the next one, and feeders that
\* are done by then, search_finished means that the run searched every unit its
\* partition produced, reached the result limit, or was cancelled by closing the
\* application: whatever fails and however early the bounded waits give up.
THEOREM FinishedIsSearched ==
  ASSUME Impatient = FALSE, PromptFeeder = TRUE
  PROVE  Spec => []FinishedMeansSearched
  <1>1. Init => SearchCourseInv
    <2> SUFFICES ASSUME Init PROVE SearchCourseInv
      OBVIOUS
    <2>1. PatientInv /\ FinishedMeansSearched
      BY DEF Init, PatientInv, FinishedMeansSearched
    <2>2. FeederInv
      BY PoolAssumption DEF Init, FeederInv
    <2>3. FoundInv /\ SentinelInv /\ CalmInv /\ PlacedInv
      BY DEF Init, FoundInv, SentinelInv, CalmInv, PlacedInv, Uncut
    <2> QED BY <2>1, <2>2, <2>3, CourseInit, LedgerInit DEF SearchCourseInv, SearchedInv
  <1>2. SearchCourseInv /\ [Next]_vars => SearchCourseInv'
    <2> SUFFICES ASSUME SearchCourseInv, [Next]_vars PROVE SearchCourseInv'
      OBVIOUS
    <2>1. CourseInv' /\ LedgerInv'
      BY CourseStep, LedgerNext DEF SearchCourseInv, CourseInv
    <2>2. CASE Next
      <3>1. PatientInv' /\ FeederInv' /\ FoundInv'
        BY <2>2, PatientStep, FeederStep, FoundStep DEF SearchCourseInv, SearchedInv, CourseInv
      <3>2. SentinelInv' /\ CalmInv' /\ PlacedInv'
        BY <2>2, SentinelStep, CalmStep, PlacedStep DEF SearchCourseInv, SearchedInv
      <3>3. FinishedMeansSearched'
        BY <2>2, SearchedStep DEF SearchCourseInv
      <3> QED BY <2>1, <3>1, <3>2, <3>3 DEF SearchCourseInv, SearchedInv
    <2>3. CASE UNCHANGED vars
      <3>1. PatientInv' /\ FinishedMeansSearched'
        BY <2>3 DEF vars, SearchCourseInv, PatientInv, FinishedMeansSearched
      <3>2. FeederInv' /\ FoundInv' /\ SentinelInv'
        BY <2>3 DEF vars, SearchCourseInv, SearchedInv, FeederInv, FoundInv, FoundBy, SentinelInv
      <3>3. ASSUME NEW r \in Runs
            PROVE  /\ Uncut(r)' = Uncut(r) /\ Calm(r)' = Calm(r) /\ Whole(r)' = Whole(r)
                   /\ AllPlaced(r)' = AllPlaced(r)
        <4>1. TicketsOf(r)' = TicketsOf(r)
          BY <2>3 DEF vars, TicketsOf, PayloadTicket, ServingTicket, SentTicket, CountedTicket
        <4>2. Uncut(r)' = Uncut(r) /\ Whole(r)' = Whole(r)
          BY <2>3, <4>1 DEF vars, Uncut, Whole
        <4>3. Calm(r)' = Calm(r)
          BY <2>3 DEF vars, Calm, Past, OnlySentinels
        <4>4. AllPlaced(r)' = AllPlaced(r)
          BY <2>3 DEF vars, AllPlaced, Placed
        <4> QED BY <4>2, <4>3, <4>4
      <3>4. CalmInv' /\ PlacedInv'
        BY <3>3 DEF SearchCourseInv, SearchedInv, CalmInv, PlacedInv
      <3> QED BY <2>1, <3>1, <3>2, <3>4 DEF SearchCourseInv, SearchedInv
    <2> QED BY <2>2, <2>3
  <1>3. SearchCourseInv => FinishedMeansSearched
    BY DEF SearchCourseInv
  <1> QED BY <1>1, <1>2, <1>3, PTL DEF Spec

=============================================================================
