------------------------- MODULE EngineThreadsProofs -------------------------
(***************************************************************************)
(* Proofs about EngineThreads, for any number of threads and tasks, any    *)
(* routes, and FIFOs of any size: the spinlock has its owner, every task   *)
(* that is sent is in exactly one place, tasks that are sent the same way  *)
(* are called in the order of sending, and no wake-up is lost.             *)
(***************************************************************************)
EXTENDS EngineThreads, SequenceTheorems, TLAPS

-----------------------------------------------------------------------------
(* The flow of the tasks through the FIFOs, as a relation between          *)
(*   l   the functions that wait in each FIFO,                             *)
(*   h   the task that each thread has taken and not passed on,            *)
(*   hp, st, ah   hop, status and ahead.                                   *)

FlowTypes(l, h, hp, st, ah) ==
    /\ l \in [Fifos -> Seq(Tasks)]
    /\ h \in [Threads -> Tasks \cup {Nobody}]
    /\ hp \in [Tasks -> Nat]
    /\ st \in [Tasks -> {"new", "sent", "done", "dropped"}]
    /\ ah \in [Tasks -> SUBSET Tasks]

\* Whoever holds a task is the thread that its route names.
HeldBySender(h, hp, st) ==
    \A th \in Threads : h[th] # Nobody =>
        st[h[th]] = "sent" /\ th = Sender(h[th], hp[h[th]])

\* A task waits in the FIFO that its route names, once, and nobody holds it.
WaitsOnce(l, h, hp, st) ==
    \A q \in Fifos : \A i \in 1 .. Len(l[q]) :
        /\ st[l[q][i]] = "sent"
        /\ hp[l[q][i]] > 0 /\ Route[l[q][i]][hp[l[q][i]]] = q
        /\ \A th \in Threads : h[th] # l[q][i]
        /\ \A j \in 1 .. Len(l[q]) : l[q][j] = l[q][i] => j = i

\* A task that is sent is not lost: a thread holds it or it waits.
NotLost(l, h, hp, st) ==
    \A t \in Tasks :
        /\ st[t] = "new" => hp[t] = 0
        /\ st[t] = "sent" =>
             \/ \E th \in Threads : h[th] = t
             \/ hp[t] > 0 /\ \E i \in 1 .. Len(l[Route[t][hp[t]]]) : l[Route[t][hp[t]]][i] = t

\* A task that was sent before t along the same route is not behind t.
NotOvertaken(l, h, hp, st, ah) ==
    \A t \in Tasks : \A u \in ah[t] :
        /\ Route[u] = Route[t] /\ st[u] # "new" /\ st[t] # "new"
        /\ st[u] = "sent" =>
             /\ st[t] # "done" /\ hp[t] <= hp[u]
             /\ \A th \in Threads : h[th] = t => hp[t] < hp[u]
             /\ \A q \in Fifos : \A i \in 1 .. Len(l[q]) :
                  l[q][i] = t /\ hp[u] = hp[t] =>
                    \/ \E th \in Threads : h[th] = u
                    \/ \E j \in 1 .. i - 1 : l[q][j] = u

Flow(l, h, hp, st, ah) ==
    /\ FlowTypes(l, h, hp, st, ah)
    /\ \A t \in Tasks : hp[t] <= Len(Route[t])
    /\ HeldBySender(h, hp, st)
    /\ WaitsOnce(l, h, hp, st)
    /\ NotLost(l, h, hp, st)
    /\ NotOvertaken(l, h, hp, st, ah)

-----------------------------------------------------------------------------
(* What a state of EngineThreads is for the flow.                          *)

Holding == {"call", "acquire", "enqueue"}

\* The fast-nrt-thread calls the first function of fromWorld, or has called
\* it, and has not yet moved the read head.
Performing == from["fast"] = "fromWorld" /\ pc["fast"] \notin {"wait", "perform"}

live == [q \in Fifos |-> IF q = "fromWorld" /\ Performing THEN Tail(fifo[q]) ELSE fifo[q]]

holder == [th \in Threads |-> IF pc[th] \in Holding THEN job[th] ELSE Nobody]

TasksFlow == Flow(live, holder, hop, status, ahead)

-----------------------------------------------------------------------------
(* The inductive invariant *)

\* Where each thread can be, and which FIFO it performs there.
ControlOK ==
    /\ pc["rt"] \in {"perform", "sched", "call", "enqueue", "signal"}
    /\ \A s \in Sleepers : pc[s] \notin {"sched", "idle", "await"}
    /\ pc["nrt"] # "advance"
    /\ \A w \in Worlds : pc[w] \in {"idle", "acquire", "enqueue", "signal", "await"}
    /\ from["rt"] \in {"toEngine", "fastToEngine", "sched"}
    /\ pc["rt"] \in {"perform", "call"} => from["rt"] # "sched"
    /\ pc["rt"] = "sched" => from["rt"] = "sched"
    /\ pc["nrt"] # "wait" => from["nrt"] = "fromEngine"
    /\ pc["fast"] # "wait" => from["fast"] \in {"fastFromEngine", "fromWorld"}
    /\ pc["fast"] = "advance" => from["fast"] = "fromWorld"

\* The registers of a thread fit the place where it is.
JobOK(th) ==
    /\ pc[th] \in Holding \cup {"signal", "await"} => job[th] \in Tasks
    /\ pc[th] = "call" => hop[job[th]] > 0
    /\ pc[th] \in {"acquire", "enqueue"} =>
         /\ hop[job[th]] < Len(Route[job[th]])
         /\ target[th] = Route[job[th]][hop[job[th]] + 1]
    /\ pc[th] = "acquire" => target[th] = "fromWorld"
    /\ pc[th] = "signal" => target[th] \in Fifos /\ SyncOf(target[th]) # {}
    /\ pc[th] = "enqueue" /\ target[th] = "fromWorld" => lock = th

\* The fast-nrt-thread holds the spinlock from FastLock to FastDone.
FastOK ==
    /\ pc["fast"] # "wait" /\ from["fast"] = "fromWorld" =>
         lock = "fast" /\ ~(pc["fast"] = "enqueue" /\ target["fast"] = "fromWorld")
    /\ Performing => fifo["fromWorld"] # <<>>

EngineInv ==
    /\ TypeOK
    /\ ControlOK
    /\ \A th \in Threads : JobOK(th)
    /\ FastOK
    /\ TasksFlow

\* A FIFO that is not empty has a thread that will look into it: it has a
\* signal to take, or one is on the way, or it has not performed the FIFO yet.
Signalled(s) == \E th \in Threads : pc[th] = "signal" /\ SyncOf(target[th]) = {s}
WillPerform(s, q) == pc[s] # "wait" /\ (from[s] = q \/ from[s] = "fastFromEngine")

WakeOK ==
    \A s \in Sleepers :
        /\ asleep[s] => pc[s] = "wait" /\ read[s] = write[s]
        /\ \A q \in Fifos : SyncOf(q) = {s} /\ fifo[q] # <<>> =>
             read[s] # write[s] \/ Signalled(s) \/ WillPerform(s, q)

\* A signal does not bring the write counter back to the read counter: fewer
\* than CounterMod signals wait for the thread.
CountersApart ==
    \A s \in Sleepers : write'[s] # write[s] => write'[s] # read[s]

-----------------------------------------------------------------------------
(* The steps of the flow *)

\* A thread holds nothing or a task, never what stands for nobody.
LEMMA NobodyIsNoTask == \A t \in Tasks : t # Nobody
BY TasksAssumption

LEMMA RouteFacts ==
    ASSUME NEW t \in Tasks
    PROVE  /\ Route[t] \in Seq(Fifos) /\ Len(Route[t]) \in Nat /\ Len(Route[t]) > 0
           /\ \A i \in 1 .. Len(Route[t]) : Route[t][i] \in Fifos
           /\ Caller[t] \in Threads
BY TasksAssumption, EmptySeq DEF Threads, Engine

\* Two threads cannot hold the same task: its route names one of them.
LEMMA OneHolder ==
    ASSUME NEW l, NEW h, NEW hp, NEW st, NEW ah, Flow(l, h, hp, st, ah),
           NEW th1 \in Threads, NEW th2 \in Threads, h[th1] # Nobody, h[th1] = h[th2]
    PROVE  th1 = th2
BY DEF Flow, HeldBySender

\* nrt-funcall, any-to-rt-funcall...: a thread that holds nothing starts a task.
LEMMA FlowStart ==
    ASSUME NEW l, NEW h, NEW hp, NEW st, NEW ah, Flow(l, h, hp, st, ah),
           NEW t \in Tasks, st[t] = "new", h[Caller[t]] = Nobody
    PROVE  Flow(l, [h EXCEPT ![Caller[t]] = t], hp, [st EXCEPT ![t] = "sent"],
                [ah EXCEPT ![t] = {u \in Tasks : /\ st[u] # "new"
                                                 /\ Caller[u] = Caller[t]
                                                 /\ Route[u] = Route[t]}])
<1> DEFINE th == Caller[t]
           h1 == [h EXCEPT ![th] = t]
           st1 == [st EXCEPT ![t] = "sent"]
           A == {u \in Tasks : st[u] # "new" /\ Caller[u] = th /\ Route[u] = Route[t]}
           ah1 == [ah EXCEPT ![t] = A]
<1>1. th \in Threads /\ t # Nobody
  BY RouteFacts, NobodyIsNoTask
<1>2. FlowTypes(l, h, hp, st, ah) /\ hp[t] = 0
  BY DEF Flow, NotLost
<1>3. FlowTypes(l, h1, hp, st1, ah1)
  BY <1>1, <1>2 DEF FlowTypes
<1>4. HeldBySender(h1, hp, st1)
  BY <1>1, <1>2 DEF Flow, FlowTypes, HeldBySender, Sender
<1>5. \A q \in Fifos : \A i \in 1 .. Len(l[q]) : l[q][i] \in Tasks /\ l[q][i] # t
  BY <1>2 DEF Flow, FlowTypes, WaitsOnce
<1>6. WaitsOnce(l, h1, hp, st1)
  BY <1>1, <1>2, <1>5 DEF Flow, FlowTypes, WaitsOnce
<1>7. NotLost(l, h1, hp, st1)
  <2>1. h1[th] = t /\ \A th1 \in Threads : th1 # th => h1[th1] = h[th1]
    BY <1>1, <1>2 DEF FlowTypes
  <2>2. st1[t] = "sent" /\ \A u \in Tasks : u # t => st1[u] = st[u]
    BY <1>2 DEF FlowTypes
  <2>3. \A u \in Tasks : (\E th1 \in Threads : h[th1] = u) => \E th1 \in Threads : h1[th1] = u
    BY <2>1, NobodyIsNoTask
  <2> HIDE DEF h1, st1, th
  <2>. QED BY <1>1, <2>1, <2>2, <2>3 DEF Flow, NotLost
<1>8. ASSUME NEW u \in A, st[u] = "sent" PROVE hp[u] > 0
  <2>1. CASE \E th1 \in Threads : h[th1] = u
    BY <2>1, <1>1, <1>2, <1>8, NobodyIsNoTask DEF Flow, FlowTypes, HeldBySender, Sender
  <2>. QED BY <2>1, <1>8 DEF Flow, NotLost
<1>9. \A th1 \in Threads : h[th1] # t
  BY <1>1 DEF Flow, HeldBySender
<1>10. NotOvertaken(l, h1, hp, st1, ah1)
  <2> SUFFICES ASSUME NEW v \in Tasks, NEW u \in ah1[v]
               PROVE  /\ Route[u] = Route[v] /\ st1[u] # "new" /\ st1[v] # "new"
                      /\ st1[u] = "sent" =>
                           /\ st1[v] # "done" /\ hp[v] <= hp[u]
                           /\ \A th1 \in Threads : h1[th1] = v => hp[v] < hp[u]
                           /\ \A q \in Fifos : \A i \in 1 .. Len(l[q]) :
                                l[q][i] = v /\ hp[u] = hp[v] =>
                                  \/ \E th1 \in Threads : h1[th1] = u
                                  \/ \E j \in 1 .. i - 1 : l[q][j] = u
    BY DEF NotOvertaken
  <2>1. CASE v = t
    <3>1. u \in A /\ u # t /\ st1[u] = st[u]
      BY <2>1, <1>2 DEF FlowTypes
    <3>. QED BY <2>1, <3>1, <1>2, <1>5, <1>8 DEF FlowTypes
  <2>2. CASE v # t
    <3>1. u \in ah[v] /\ u \in Tasks /\ u # t
      BY <2>2, <1>2 DEF FlowTypes, Flow, NotOvertaken
    <3>2. st1[u] = st[u] /\ st1[v] = st[v]
      BY <2>2, <3>1, <1>2 DEF FlowTypes
    <3>3. \A th1 \in Threads : h1[th1] = v => h[th1] = v
      BY <2>2, <1>1, <1>2 DEF FlowTypes
    <3>4. (\E th1 \in Threads : h[th1] = u) => \E th1 \in Threads : h1[th1] = u
      BY <3>1, <1>1, <1>2, NobodyIsNoTask DEF FlowTypes
    <3>. QED BY <3>1, <3>2, <3>3, <3>4 DEF Flow, NotOvertaken
  <2>. QED BY <2>1, <2>2
<1>. QED BY <1>3, <1>4, <1>6, <1>7, <1>10 DEF Flow

\* enqueue in a FIFO with room: the thread hands the task over.
LEMMA FlowPut ==
    ASSUME NEW l, NEW h, NEW hp, NEW st, NEW ah, Flow(l, h, hp, st, ah),
           NEW th \in Threads, NEW t \in Tasks, h[th] = t, hp[t] < Len(Route[t]),
           NEW q \in Fifos, q = Route[t][hp[t] + 1]
    PROVE  Flow([l EXCEPT ![q] = Append(@, t)], [h EXCEPT ![th] = Nobody],
                [hp EXCEPT ![t] = @ + 1], st, ah)
<1>a. PICK l1 : l1 = [l EXCEPT ![q] = Append(@, t)]
  OBVIOUS
<1>b. PICK h1 : h1 = [h EXCEPT ![th] = Nobody]
  OBVIOUS
<1>c. PICK hp1 : hp1 = [hp EXCEPT ![t] = @ + 1]
  OBVIOUS
<1>1. FlowTypes(l, h, hp, st, ah) /\ t # Nobody /\ st[t] = "sent"
  BY NobodyIsNoTask DEF Flow, HeldBySender
<1>2. l[q] \in Seq(Tasks) /\ hp[t] \in Nat
  BY <1>1 DEF FlowTypes
<1>3. PICK n \in Nat : n = Len(l[q])
  BY <1>2
<1>4. /\ Append(l[q], t) \in Seq(Tasks) /\ Len(Append(l[q], t)) = n + 1
      /\ Append(l[q], t)[n + 1] = t
      /\ \A i \in 1 .. n : Append(l[q], t)[i] = l[q][i]
  BY <1>2, <1>3, SMTT(30)
<1>5. /\ l1 \in [Fifos -> Seq(Tasks)]
      /\ Len(l1[q]) = n + 1 /\ l1[q][n + 1] = t /\ \A i \in 1 .. n : l1[q][i] = l[q][i]
      /\ \A p \in Fifos : p # q => l1[p] = l[p]
  BY <1>a, <1>1, <1>4 DEF FlowTypes
<1>6. FlowTypes(l1, h1, hp1, st, ah)
  BY <1>b, <1>c, <1>1, <1>5 DEF FlowTypes
<1>7. hp1 \in [Tasks -> Nat] /\ hp1[t] = hp[t] + 1 /\ \A u \in Tasks : u # t => hp1[u] = hp[u]
  BY <1>c, <1>1 DEF FlowTypes
<1>8. \A u \in Tasks : hp1[u] <= Len(Route[u])
  BY <1>2, <1>7, RouteFacts DEF Flow
<1>9. \A th1 \in Threads : th1 # th => h1[th1] = h[th1] /\ h1[th1] # t
  BY <1>b, <1>1, OneHolder DEF FlowTypes
<1>10. h1[th] = Nobody
  BY <1>b, <1>1 DEF FlowTypes
<1>11. HeldBySender(h1, hp1, st)
  <2> SUFFICES ASSUME NEW th1 \in Threads, h1[th1] # Nobody
               PROVE  st[h1[th1]] = "sent" /\ th1 = Sender(h1[th1], hp1[h1[th1]])
    BY DEF HeldBySender
  <2>1. h1[th1] = h[th1] /\ h[th1] \in Tasks /\ h[th1] # t
    BY <1>1, <1>9, <1>10 DEF FlowTypes
  <2>2. hp1[h1[th1]] = hp[h[th1]]
    BY <2>1, <1>7
  <2>3. st[h[th1]] = "sent" /\ th1 = Sender(h[th1], hp[h[th1]])
    BY <2>1, NobodyIsNoTask DEF Flow, HeldBySender
  <2>. QED BY <2>1, <2>2, <2>3
<1>12. \A p \in Fifos : \A i \in 1 .. Len(l[p]) : l[p][i] \in Tasks /\ l[p][i] # t
  BY <1>1 DEF Flow, FlowTypes, WaitsOnce
<1>13. ASSUME NEW p \in Fifos, NEW i \in 1 .. Len(l1[p])
       PROVE  \/ p = q /\ i = n + 1 /\ l1[p][i] = t
              \/ i \in 1 .. Len(l[p]) /\ l1[p][i] = l[p][i]
  <2>1. CASE p = q
    BY <2>1, <1>3, <1>5, SMTT(30)
  <2>2. CASE p # q
    BY <2>2, <1>5
  <2>. QED BY <2>1, <2>2
<1>14. ASSUME NEW p \in Fifos, NEW i \in 1 .. Len(l[p])
       PROVE  i \in 1 .. Len(l1[p]) /\ l1[p][i] = l[p][i]
  <2>1. CASE p = q
    BY <2>1, <1>3, <1>5
  <2>2. CASE p # q
    BY <2>2, <1>5
  <2>. QED BY <2>1, <2>2
<1>15. n + 1 \in 1 .. Len(l1[q]) /\ l1[q][n + 1] = t /\ n \in Int
  BY <1>5
<1>16. WaitsOnce(l1, h1, hp1, st)
  <2> SUFFICES ASSUME NEW p \in Fifos, NEW i \in 1 .. Len(l1[p])
               PROVE  /\ st[l1[p][i]] = "sent"
                      /\ hp1[l1[p][i]] > 0 /\ Route[l1[p][i]][hp1[l1[p][i]]] = p
                      /\ \A th1 \in Threads : h1[th1] # l1[p][i]
                      /\ \A j \in 1 .. Len(l1[p]) : l1[p][j] = l1[p][i] => j = i
    BY DEF WaitsOnce
  <2>1. CASE p = q /\ i = n + 1 /\ l1[p][i] = t
    <3>1. hp1[t] > 0 /\ Route[t][hp1[t]] = q
      BY <1>2, <1>7
    <3>2. \A th1 \in Threads : h1[th1] # t
      BY <1>1, <1>9, <1>10
    <3>3. \A j \in 1 .. Len(l1[p]) : l1[p][j] = t => j = i
      BY <2>1, <1>12, <1>13
    <3>. QED BY <2>1, <3>1, <3>2, <3>3, <1>1
  <2>2. CASE i \in 1 .. Len(l[p]) /\ l1[p][i] = l[p][i]
    <3>1. l[p][i] \in Tasks /\ l[p][i] # t /\ l[p][i] # Nobody
      BY <2>2, <1>12, NobodyIsNoTask
    <3>2. /\ st[l[p][i]] = "sent" /\ hp[l[p][i]] > 0 /\ Route[l[p][i]][hp[l[p][i]]] = p
          /\ \A th1 \in Threads : h[th1] # l[p][i]
          /\ \A j \in 1 .. Len(l[p]) : l[p][j] = l[p][i] => j = i
      BY <2>2 DEF Flow, WaitsOnce
    <3>3. \A th1 \in Threads : h1[th1] # l[p][i]
      BY <3>1, <3>2, <1>9, <1>10
    <3>4. \A j \in 1 .. Len(l1[p]) : l1[p][j] = l[p][i] => j = i
      BY <3>1, <3>2, <1>13
    <3>5. hp1[l[p][i]] = hp[l[p][i]]
      BY <3>1, <1>7
    <3>. QED BY <2>2, <3>2, <3>3, <3>4, <3>5
  <2>. QED BY <2>1, <2>2, <1>13
<1>17. \A u \in Tasks : u # t /\ (\E th1 \in Threads : h[th1] = u) => \E th1 \in Threads : h1[th1] = u
  BY <1>9
<1>18. NotLost(l1, h1, hp1, st)
  <2> SUFFICES ASSUME NEW u \in Tasks
               PROVE  /\ st[u] = "new" => hp1[u] = 0
                      /\ st[u] = "sent" =>
                           \/ \E th1 \in Threads : h1[th1] = u
                           \/ /\ hp1[u] > 0
                              /\ \E i \in 1 .. Len(l1[Route[u][hp1[u]]]) :
                                   l1[Route[u][hp1[u]]][i] = u
    BY DEF NotLost
  <2>1. CASE u = t
    BY <2>1, <1>1, <1>2, <1>7, <1>15
  <2>2. CASE u # t
    <3>1. hp1[u] = hp[u]
      BY <2>2, <1>7
    <3>2. ASSUME hp[u] > 0, NEW i \in 1 .. Len(l[Route[u][hp[u]]]), l[Route[u][hp[u]]][i] = u
          PROVE  \E k \in 1 .. Len(l1[Route[u][hp[u]]]) : l1[Route[u][hp[u]]][k] = u
      <4>1. Route[u][hp[u]] \in Fifos
        BY <3>2, <1>1, RouteFacts DEF Flow, FlowTypes
      <4>2. PICK p \in Fifos : p = Route[u][hp[u]]
        BY <4>1
      <4>. QED BY <3>2, <4>2, <1>14
    <3>3. /\ st[u] = "new" => hp[u] = 0
          /\ st[u] = "sent" =>
               \/ \E th1 \in Threads : h[th1] = u
               \/ hp[u] > 0 /\ \E i \in 1 .. Len(l[Route[u][hp[u]]]) : l[Route[u][hp[u]]][i] = u
      BY DEF Flow, NotLost
    <3>. QED BY <2>2, <3>1, <3>2, <3>3, <1>17
  <2>. QED BY <2>1, <2>2
<1>19. NotOvertaken(l1, h1, hp1, st, ah)
  <2> SUFFICES ASSUME NEW v \in Tasks, NEW u \in ah[v], st[u] = "sent"
               PROVE  /\ hp1[v] <= hp1[u]
                      /\ \A th1 \in Threads : h1[th1] = v => hp1[v] < hp1[u]
                      /\ \A p \in Fifos : \A i \in 1 .. Len(l1[p]) :
                           l1[p][i] = v /\ hp1[u] = hp1[v] =>
                             \/ \E th1 \in Threads : h1[th1] = u
                             \/ \E j \in 1 .. i - 1 : l1[p][j] = u
    BY DEF Flow, NotOvertaken
  <2>0. u \in Tasks /\ hp[u] \in Nat /\ hp[v] \in Nat /\ hp1[u] \in Nat
    BY <1>1, <1>7 DEF FlowTypes
  <2>1. /\ Route[u] = Route[v] /\ hp[v] <= hp[u]
        /\ \A th1 \in Threads : h[th1] = v => hp[v] < hp[u]
        /\ \A p \in Fifos : \A i \in 1 .. Len(l[p]) :
             l[p][i] = v /\ hp[u] = hp[v] =>
               \/ \E th1 \in Threads : h[th1] = u
               \/ \E j \in 1 .. i - 1 : l[p][j] = u
    BY DEF Flow, NotOvertaken
  <2>2. CASE v = t
    <3>1. hp[t] < hp[u] /\ u # t
      BY <2>1, <2>2, <2>0
    <3>2. hp1[u] = hp[u] /\ hp1[v] = hp[t] + 1 /\ hp1[v] <= hp1[u]
      BY <2>0, <2>2, <3>1, <1>7
    <3>3. \A th1 \in Threads : h1[th1] # v
      BY <2>2, <1>1, <1>9, <1>10
    <3>4. ASSUME NEW p \in Fifos, NEW i \in 1 .. Len(l1[p]), l1[p][i] = v, hp1[u] = hp1[v],
                 ~ \E th1 \in Threads : h1[th1] = u
          PROVE  \E j \in 1 .. i - 1 : l1[p][j] = u
      <4>1. p = q /\ i = n + 1
        BY <3>4, <2>2, <1>12, <1>13
      <4>2. hp[u] > 0 /\ Route[u][hp[u]] = q
        BY <3>2, <3>4, <2>1, <2>2, <2>0
      <4>3. ~ \E th1 \in Threads : h[th1] = u
        BY <3>4, <3>1, <2>0, <1>17
      <4>4. PICK j \in 1 .. Len(l[q]) : l[q][j] = u
        BY <4>2, <4>3, <2>0 DEF Flow, NotLost
      <4>5. j \in 1 .. n
        BY <4>4, <1>3
      <4>6. l1[q][j] = u
        BY <4>4, <1>14
      <4>. QED BY <4>1, <4>5, <4>6, <1>15
    <3>. QED BY <3>2, <3>3, <3>4
  <2>3. CASE v # t
    <3>1. hp1[v] = hp[v] /\ hp1[u] >= hp[u]
      BY <2>0, <2>3, <1>7
    <3>2. \A th1 \in Threads : h1[th1] = v => h[th1] = v
      BY <1>9, <1>10, NobodyIsNoTask
    <3>3. ASSUME NEW p \in Fifos, NEW i \in 1 .. Len(l1[p]), l1[p][i] = v, hp1[u] = hp1[v],
                 ~ \E th1 \in Threads : h1[th1] = u
          PROVE  \E j \in 1 .. i - 1 : l1[p][j] = u
      <4>1. u # t /\ hp[u] = hp[v]
        BY <3>3, <3>1, <2>0, <2>1, <1>7
      <4>2. i \in 1 .. Len(l[p]) /\ l[p][i] = v
        BY <3>3, <2>3, <1>13
      <4>3. ~ \E th1 \in Threads : h[th1] = u
        BY <3>3, <4>1, <2>0, <1>17
      <4>4. PICK j \in 1 .. i - 1 : l[p][j] = u
        BY <4>1, <4>2, <4>3, <2>1
      <4>5. j \in 1 .. Len(l[p])
        BY <4>2, <4>4, <1>1 DEF FlowTypes
      <4>6. l1[p][j] = u
        BY <4>4, <4>5, <1>14
      <4>. QED BY <4>4, <4>6
    <3>4. hp1[v] <= hp1[u] /\ \A th1 \in Threads : h1[th1] = v => hp1[v] < hp1[u]
      BY <3>1, <3>2, <2>0, <2>1
    <3>. QED BY <3>3, <3>4
  <2>. QED BY <2>2, <2>3
<1>. QED BY <1>6, <1>8, <1>11, <1>16, <1>18, <1>19, <1>a, <1>b, <1>c DEF Flow

\* enqueue in a full FIFO: the thread drops the task.
LEMMA FlowDrop ==
    ASSUME NEW l, NEW h, NEW hp, NEW st, NEW ah, Flow(l, h, hp, st, ah),
           NEW th \in Threads, NEW t \in Tasks, h[th] = t, hp[t] < Len(Route[t])
    PROVE  Flow(l, [h EXCEPT ![th] = Nobody], [hp EXCEPT ![t] = @ + 1],
                [st EXCEPT ![t] = "dropped"], ah)
<1>a. PICK h1 : h1 = [h EXCEPT ![th] = Nobody]
  OBVIOUS
<1>b. PICK hp1 : hp1 = [hp EXCEPT ![t] = @ + 1]
  OBVIOUS
<1>c. PICK st1 : st1 = [st EXCEPT ![t] = "dropped"]
  OBVIOUS
<1>1. FlowTypes(l, h, hp, st, ah) /\ t # Nobody /\ st[t] = "sent"
  BY NobodyIsNoTask DEF Flow, HeldBySender
<1>2. hp[t] \in Nat
  BY <1>1 DEF FlowTypes
<1>3. FlowTypes(l, h1, hp1, st1, ah)
  BY <1>a, <1>b, <1>c, <1>1 DEF FlowTypes
<1>4. hp1 \in [Tasks -> Nat] /\ hp1[t] = hp[t] + 1 /\ \A u \in Tasks : u # t => hp1[u] = hp[u]
  BY <1>b, <1>1 DEF FlowTypes
<1>5. st1[t] = "dropped" /\ \A u \in Tasks : u # t => st1[u] = st[u]
  BY <1>c, <1>1 DEF FlowTypes
<1>6. \A u \in Tasks : hp1[u] <= Len(Route[u])
  BY <1>2, <1>4, RouteFacts DEF Flow
<1>7. h1[th] = Nobody /\ \A th1 \in Threads : th1 # th => h1[th1] = h[th1] /\ h1[th1] # t
  BY <1>a, <1>1, OneHolder DEF FlowTypes
<1>8. HeldBySender(h1, hp1, st1)
  <2> SUFFICES ASSUME NEW th1 \in Threads, h1[th1] # Nobody
               PROVE  st1[h1[th1]] = "sent" /\ th1 = Sender(h1[th1], hp1[h1[th1]])
    BY DEF HeldBySender
  <2>1. h1[th1] = h[th1] /\ h[th1] \in Tasks /\ h[th1] # t
    BY <1>1, <1>7 DEF FlowTypes
  <2>2. hp1[h1[th1]] = hp[h[th1]] /\ st1[h1[th1]] = st[h[th1]]
    BY <2>1, <1>4, <1>5
  <2>3. st[h[th1]] = "sent" /\ th1 = Sender(h[th1], hp[h[th1]])
    BY <2>1, NobodyIsNoTask DEF Flow, HeldBySender
  <2>. QED BY <2>1, <2>2, <2>3
<1>9. \A p \in Fifos : \A i \in 1 .. Len(l[p]) : l[p][i] \in Tasks /\ l[p][i] # t
  BY <1>1 DEF Flow, FlowTypes, WaitsOnce
<1>10. WaitsOnce(l, h1, hp1, st1)
  <2> SUFFICES ASSUME NEW p \in Fifos, NEW i \in 1 .. Len(l[p])
               PROVE  /\ st1[l[p][i]] = "sent"
                      /\ hp1[l[p][i]] > 0 /\ Route[l[p][i]][hp1[l[p][i]]] = p
                      /\ \A th1 \in Threads : h1[th1] # l[p][i]
                      /\ \A j \in 1 .. Len(l[p]) : l[p][j] = l[p][i] => j = i
    BY DEF WaitsOnce
  <2>1. l[p][i] \in Tasks /\ l[p][i] # t /\ l[p][i] # Nobody
    BY <1>9, NobodyIsNoTask
  <2>2. hp1[l[p][i]] = hp[l[p][i]] /\ st1[l[p][i]] = st[l[p][i]]
    BY <2>1, <1>4, <1>5
  <2>3. /\ st[l[p][i]] = "sent" /\ hp[l[p][i]] > 0 /\ Route[l[p][i]][hp[l[p][i]]] = p
        /\ \A th1 \in Threads : h[th1] # l[p][i]
        /\ \A j \in 1 .. Len(l[p]) : l[p][j] = l[p][i] => j = i
    BY DEF Flow, WaitsOnce
  <2>4. \A th1 \in Threads : h1[th1] # l[p][i]
    BY <2>1, <2>3, <1>7
  <2>. QED BY <2>2, <2>3, <2>4
<1>11. \A u \in Tasks : u # t /\ (\E th1 \in Threads : h[th1] = u) => \E th1 \in Threads : h1[th1] = u
  BY <1>7
<1>12. NotLost(l, h1, hp1, st1)
  <2> SUFFICES ASSUME NEW u \in Tasks
               PROVE  /\ st1[u] = "new" => hp1[u] = 0
                      /\ st1[u] = "sent" =>
                           \/ \E th1 \in Threads : h1[th1] = u
                           \/ /\ hp1[u] > 0
                              /\ \E i \in 1 .. Len(l[Route[u][hp1[u]]]) :
                                   l[Route[u][hp1[u]]][i] = u
    BY DEF NotLost
  <2>1. CASE u = t
    BY <2>1, <1>5
  <2>2. CASE u # t
    <3>1. hp1[u] = hp[u] /\ st1[u] = st[u]
      BY <2>2, <1>4, <1>5
    <3>2. /\ st[u] = "new" => hp[u] = 0
          /\ st[u] = "sent" =>
               \/ \E th1 \in Threads : h[th1] = u
               \/ hp[u] > 0 /\ \E i \in 1 .. Len(l[Route[u][hp[u]]]) : l[Route[u][hp[u]]][i] = u
      BY DEF Flow, NotLost
    <3>. QED BY <2>2, <3>1, <3>2, <1>11
  <2>. QED BY <2>1, <2>2
<1>13. NotOvertaken(l, h1, hp1, st1, ah)
  <2> SUFFICES ASSUME NEW v \in Tasks, NEW u \in ah[v]
               PROVE  /\ Route[u] = Route[v] /\ st1[u] # "new" /\ st1[v] # "new"
                      /\ st1[u] = "sent" =>
                           /\ st1[v] # "done" /\ hp1[v] <= hp1[u]
                           /\ \A th1 \in Threads : h1[th1] = v => hp1[v] < hp1[u]
                           /\ \A p \in Fifos : \A i \in 1 .. Len(l[p]) :
                                l[p][i] = v /\ hp1[u] = hp1[v] =>
                                  \/ \E th1 \in Threads : h1[th1] = u
                                  \/ \E j \in 1 .. i - 1 : l[p][j] = u
    BY DEF NotOvertaken
  <2>0. u \in Tasks /\ hp[u] \in Nat /\ hp[v] \in Nat
    BY <1>1 DEF FlowTypes
  <2>1. Route[u] = Route[v] /\ st[u] # "new" /\ st[v] # "new"
    BY DEF Flow, NotOvertaken
  <2>2. st1[u] # "new" /\ st1[v] # "new"
    BY <2>0, <2>1, <1>5
  <2>3. ASSUME st1[u] = "sent"
        PROVE  /\ st1[v] # "done" /\ hp1[v] <= hp1[u]
               /\ \A th1 \in Threads : h1[th1] = v => hp1[v] < hp1[u]
               /\ \A p \in Fifos : \A i \in 1 .. Len(l[p]) :
                    l[p][i] = v /\ hp1[u] = hp1[v] =>
                      \/ \E th1 \in Threads : h1[th1] = u
                      \/ \E j \in 1 .. i - 1 : l[p][j] = u
    <3>1. u # t /\ st[u] = "sent" /\ hp1[u] = hp[u]
      BY <2>0, <2>3, <1>4, <1>5
    <3>2. /\ st[v] # "done" /\ hp[v] <= hp[u]
          /\ \A th1 \in Threads : h[th1] = v => hp[v] < hp[u]
          /\ \A p \in Fifos : \A i \in 1 .. Len(l[p]) :
               l[p][i] = v /\ hp[u] = hp[v] =>
                 \/ \E th1 \in Threads : h[th1] = u
                 \/ \E j \in 1 .. i - 1 : l[p][j] = u
      BY <3>1 DEF Flow, NotOvertaken
    <3>3. CASE v = t
      <4>1. hp[t] < hp[u]
        BY <3>2, <3>3
      <4>. QED BY <3>1, <3>3, <4>1, <2>0, <1>1, <1>4, <1>5, <1>7, <1>9
    <3>4. CASE v # t
      <4>1. hp1[v] = hp[v] /\ st1[v] = st[v]
        BY <3>4, <1>4, <1>5
      <4>2. \A th1 \in Threads : h1[th1] = v => h[th1] = v
        BY <1>7, NobodyIsNoTask
      <4>. QED BY <3>1, <3>2, <4>1, <4>2, <2>0, <1>11
    <3>. QED BY <3>3, <3>4
  <2>. QED BY <2>1, <2>2, <2>3
<1>. QED BY <1>3, <1>6, <1>8, <1>10, <1>12, <1>13, <1>a, <1>b, <1>c DEF Flow

\* The last function of a task: nothing that was sent before it is left.
LEMMA FlowDone ==
    ASSUME NEW l, NEW h, NEW hp, NEW st, NEW ah, Flow(l, h, hp, st, ah),
           NEW th \in Threads, NEW t \in Tasks, h[th] = t, ~ (hp[t] < Len(Route[t]))
    PROVE  Flow(l, [h EXCEPT ![th] = Nobody], hp, [st EXCEPT ![t] = "done"], ah)
<1>a. PICK h1 : h1 = [h EXCEPT ![th] = Nobody]
  OBVIOUS
<1>b. PICK st1 : st1 = [st EXCEPT ![t] = "done"]
  OBVIOUS
<1>1. FlowTypes(l, h, hp, st, ah) /\ t # Nobody /\ st[t] = "sent"
  BY NobodyIsNoTask DEF Flow, HeldBySender
<1>2. FlowTypes(l, h1, hp, st1, ah)
  BY <1>a, <1>b, <1>1 DEF FlowTypes
<1>3. st1[t] = "done" /\ \A u \in Tasks : u # t => st1[u] = st[u]
  BY <1>b, <1>1 DEF FlowTypes
<1>4. h1[th] = Nobody /\ \A th1 \in Threads : th1 # th => h1[th1] = h[th1] /\ h1[th1] # t
  BY <1>a, <1>1, OneHolder DEF FlowTypes
<1>5. HeldBySender(h1, hp, st1)
  <2> SUFFICES ASSUME NEW th1 \in Threads, h1[th1] # Nobody
               PROVE  st1[h1[th1]] = "sent" /\ th1 = Sender(h1[th1], hp[h1[th1]])
    BY DEF HeldBySender
  <2>1. h1[th1] = h[th1] /\ h[th1] \in Tasks /\ h[th1] # t
    BY <1>1, <1>4 DEF FlowTypes
  <2>2. st1[h1[th1]] = st[h[th1]]
    BY <2>1, <1>3
  <2>3. st[h[th1]] = "sent" /\ th1 = Sender(h[th1], hp[h[th1]])
    BY <2>1, NobodyIsNoTask DEF Flow, HeldBySender
  <2>. QED BY <2>1, <2>2, <2>3
<1>6. \A p \in Fifos : \A i \in 1 .. Len(l[p]) : l[p][i] \in Tasks /\ l[p][i] # t
  BY <1>1 DEF Flow, FlowTypes, WaitsOnce
<1>7. WaitsOnce(l, h1, hp, st1)
  BY <1>3, <1>4, <1>6, NobodyIsNoTask DEF Flow, WaitsOnce
<1>8. \A u \in Tasks : u # t /\ (\E th1 \in Threads : h[th1] = u) => \E th1 \in Threads : h1[th1] = u
  BY <1>4
<1>9. NotLost(l, h1, hp, st1)
  BY <1>3, <1>8 DEF Flow, NotLost
<1>10. ASSUME NEW u \in ah[t] PROVE st[u] # "sent"
  <2> SUFFICES ASSUME st[u] = "sent" PROVE FALSE
    OBVIOUS
  <2>1. u \in Tasks /\ Route[u] = Route[t] /\ hp[t] < hp[u] /\ hp[u] <= Len(Route[u])
    BY <1>1 DEF Flow, FlowTypes, NotOvertaken
  <2>2. hp[u] \in Nat /\ hp[t] \in Nat /\ Len(Route[t]) \in Nat
    BY <1>1, <2>1, RouteFacts DEF FlowTypes
  <2>. QED BY <2>1, <2>2
<1>11. NotOvertaken(l, h1, hp, st1, ah)
  <2> SUFFICES ASSUME NEW v \in Tasks, NEW u \in ah[v]
               PROVE  /\ Route[u] = Route[v] /\ st1[u] # "new" /\ st1[v] # "new"
                      /\ st1[u] = "sent" =>
                           /\ st1[v] # "done" /\ hp[v] <= hp[u]
                           /\ \A th1 \in Threads : h1[th1] = v => hp[v] < hp[u]
                           /\ \A p \in Fifos : \A i \in 1 .. Len(l[p]) :
                                l[p][i] = v /\ hp[u] = hp[v] =>
                                  \/ \E th1 \in Threads : h1[th1] = u
                                  \/ \E j \in 1 .. i - 1 : l[p][j] = u
    BY DEF NotOvertaken
  <2>0. u \in Tasks
    BY <1>1 DEF FlowTypes
  <2>1. Route[u] = Route[v] /\ st[u] # "new" /\ st[v] # "new"
    BY DEF Flow, NotOvertaken
  <2>2. st1[u] # "new" /\ st1[v] # "new"
    BY <2>0, <2>1, <1>3
  <2>3. ASSUME st1[u] = "sent"
        PROVE  /\ st1[v] # "done" /\ hp[v] <= hp[u]
               /\ \A th1 \in Threads : h1[th1] = v => hp[v] < hp[u]
               /\ \A p \in Fifos : \A i \in 1 .. Len(l[p]) :
                    l[p][i] = v /\ hp[u] = hp[v] =>
                      \/ \E th1 \in Threads : h1[th1] = u
                      \/ \E j \in 1 .. i - 1 : l[p][j] = u
    <3>1. u # t /\ st[u] = "sent" /\ v # t
      BY <2>0, <2>3, <1>3, <1>10
    <3>2. /\ st[v] # "done" /\ hp[v] <= hp[u]
          /\ \A th1 \in Threads : h[th1] = v => hp[v] < hp[u]
          /\ \A p \in Fifos : \A i \in 1 .. Len(l[p]) :
               l[p][i] = v /\ hp[u] = hp[v] =>
                 \/ \E th1 \in Threads : h[th1] = u
                 \/ \E j \in 1 .. i - 1 : l[p][j] = u
      BY <3>1 DEF Flow, NotOvertaken
    <3>3. \A th1 \in Threads : h1[th1] = v => h[th1] = v
      BY <1>4, NobodyIsNoTask
    <3>. QED BY <3>1, <3>2, <3>3, <2>0, <1>3, <1>8
  <2>. QED BY <2>1, <2>2, <2>3
<1>12. \A u \in Tasks : hp[u] <= Len(Route[u])
  BY DEF Flow
<1>. QED BY <1>2, <1>5, <1>7, <1>9, <1>11, <1>12, <1>a, <1>b DEF Flow

\* fifo-perform-functions: the thread of a FIFO takes its first task.
LEMMA FlowTake ==
    ASSUME NEW l, NEW h, NEW hp, NEW st, NEW ah, Flow(l, h, hp, st, ah),
           NEW q \in Fifos, l[q] # <<>>, NEW th \in Threads, th = Performer(q), h[th] = Nobody
    PROVE  Flow([l EXCEPT ![q] = Tail(@)], [h EXCEPT ![th] = Head(l[q])], hp, st, ah)
<1>a. PICK l1 : l1 = [l EXCEPT ![q] = Tail(@)]
  OBVIOUS
<1>b. PICK t : t = Head(l[q])
  OBVIOUS
<1>c. PICK h1 : h1 = [h EXCEPT ![th] = t]
  OBVIOUS
<1>1. FlowTypes(l, h, hp, st, ah)
  BY DEF Flow
<1>2. l[q] \in Seq(Tasks)
  BY <1>1 DEF FlowTypes
<1>3. PICK n \in Nat : n = Len(l[q]) /\ n > 0
  BY <1>2
<1>4. t \in Tasks /\ t = l[q][1] /\ 1 \in 1 .. Len(l[q])
  BY <1>b, <1>2, <1>3
<1>5. /\ Tail(l[q]) \in Seq(Tasks) /\ Len(Tail(l[q])) = n - 1
      /\ \A i \in 1 .. n - 1 : Tail(l[q])[i] = l[q][i + 1]
  BY <1>2, <1>3
<1>6. /\ l1 \in [Fifos -> Seq(Tasks)]
      /\ Len(l1[q]) = n - 1 /\ \A i \in 1 .. n - 1 : l1[q][i] = l[q][i + 1]
      /\ \A p \in Fifos : p # q => l1[p] = l[p]
  BY <1>a, <1>1, <1>5 DEF FlowTypes
<1>7. FlowTypes(l1, h1, hp, st, ah)
  BY <1>c, <1>1, <1>4, <1>6 DEF FlowTypes
<1>8. h1[th] = t /\ \A th1 \in Threads : th1 # th => h1[th1] = h[th1]
  BY <1>c, <1>1 DEF FlowTypes
<1>9. /\ st[t] = "sent" /\ hp[t] > 0 /\ Route[t][hp[t]] = q
      /\ \A th1 \in Threads : h[th1] # t
      /\ \A j \in 1 .. Len(l[q]) : l[q][j] = t => j = 1
  BY <1>4 DEF Flow, WaitsOnce
<1>10. hp[t] \in Nat /\ th = Sender(t, hp[t])
  BY <1>1, <1>4, <1>9 DEF FlowTypes, Sender
<1>11. HeldBySender(h1, hp, st)
  BY <1>8, <1>9, <1>10 DEF Flow, HeldBySender
<1>12. ASSUME NEW p \in Fifos, NEW i \in 1 .. Len(l1[p])
       PROVE  \E k \in 1 .. Len(l[p]) : /\ l1[p][i] = l[p][k] /\ l[p][k] # t
                                       /\ k = (IF p = q THEN i + 1 ELSE i)
  <2>1. CASE p = q
    <3>1. i \in 1 .. n - 1 /\ i + 1 \in 1 .. n /\ l1[p][i] = l[q][i + 1]
      BY <2>1, <1>6
    <3>2. l[q][i + 1] # t
      BY <3>1, <1>3, <1>9
    <3>. QED BY <2>1, <3>1, <3>2, <1>3
  <2>2. CASE p # q
    <3>1. l1[p] = l[p]
      BY <2>2, <1>6
    <3>2. l[p][i] # t
      BY <3>1, <2>2, <1>9 DEF Flow, WaitsOnce
    <3>. QED BY <3>1, <3>2, <2>2
  <2>. QED BY <2>1, <2>2
<1>13. ASSUME NEW p \in Fifos, NEW k \in 1 .. Len(l[p]), l[p][k] # t
       PROVE  \E i \in 1 .. Len(l1[p]) : l1[p][i] = l[p][k] /\ k = (IF p = q THEN i + 1 ELSE i)
  <2>1. CASE p = q
    <3>1. k \in 1 .. n /\ k # 1
      BY <2>1, <1>3, <1>4, <1>13
    <3>2. k - 1 \in 1 .. n - 1 /\ (k - 1) + 1 = k
      BY <3>1
    <3>3. l1[q][k - 1] = l[q][k]
      BY <3>2, <1>6
    <3>. QED BY <2>1, <3>2, <3>3, <1>6
  <2>2. CASE p # q
    BY <2>2, <1>6
  <2>. QED BY <2>1, <2>2
<1>14. WaitsOnce(l1, h1, hp, st)
  <2> SUFFICES ASSUME NEW p \in Fifos, NEW i \in 1 .. Len(l1[p])
               PROVE  /\ st[l1[p][i]] = "sent"
                      /\ hp[l1[p][i]] > 0 /\ Route[l1[p][i]][hp[l1[p][i]]] = p
                      /\ \A th1 \in Threads : h1[th1] # l1[p][i]
                      /\ \A j \in 1 .. Len(l1[p]) : l1[p][j] = l1[p][i] => j = i
    BY DEF WaitsOnce
  <2>1. PICK k \in 1 .. Len(l[p]) : /\ l1[p][i] = l[p][k] /\ l[p][k] # t
                                   /\ k = (IF p = q THEN i + 1 ELSE i)
    BY <1>12
  <2>2. /\ st[l[p][k]] = "sent" /\ hp[l[p][k]] > 0 /\ Route[l[p][k]][hp[l[p][k]]] = p
        /\ \A th1 \in Threads : h[th1] # l[p][k]
        /\ \A j \in 1 .. Len(l[p]) : l[p][j] = l[p][k] => j = k
    BY DEF Flow, WaitsOnce
  <2>3. ASSUME NEW j \in 1 .. Len(l1[p]), l1[p][j] = l1[p][i] PROVE j = i
    <3>1. PICK m \in 1 .. Len(l[p]) : /\ l1[p][j] = l[p][m]
                                     /\ m = (IF p = q THEN j + 1 ELSE j)
      BY <1>12
    <3>2. m = k
      BY <2>1, <2>2, <2>3, <3>1
    <3>. QED BY <2>1, <3>1, <3>2
  <2>. QED BY <2>1, <2>2, <2>3, <1>8
<1>15. NotLost(l1, h1, hp, st)
  <2> SUFFICES ASSUME NEW u \in Tasks
               PROVE  /\ st[u] = "new" => hp[u] = 0
                      /\ st[u] = "sent" =>
                           \/ \E th1 \in Threads : h1[th1] = u
                           \/ /\ hp[u] > 0
                              /\ \E i \in 1 .. Len(l1[Route[u][hp[u]]]) :
                                   l1[Route[u][hp[u]]][i] = u
    BY DEF NotLost
  <2>1. CASE u = t
    BY <2>1, <1>8, <1>9
  <2>2. CASE u # t
    <3>1. /\ st[u] = "new" => hp[u] = 0
          /\ st[u] = "sent" =>
               \/ \E th1 \in Threads : h[th1] = u
               \/ hp[u] > 0 /\ \E i \in 1 .. Len(l[Route[u][hp[u]]]) : l[Route[u][hp[u]]][i] = u
      BY DEF Flow, NotLost
    <3>2. (\E th1 \in Threads : h[th1] = u) => \E th1 \in Threads : h1[th1] = u
      BY <1>8, NobodyIsNoTask
    <3>3. ASSUME hp[u] > 0, NEW k \in 1 .. Len(l[Route[u][hp[u]]]), l[Route[u][hp[u]]][k] = u
          PROVE  \E i \in 1 .. Len(l1[Route[u][hp[u]]]) : l1[Route[u][hp[u]]][i] = u
      <4>1. Route[u][hp[u]] \in Fifos
        BY <3>3, <1>1, RouteFacts DEF Flow, FlowTypes
      <4>2. PICK p \in Fifos : p = Route[u][hp[u]]
        BY <4>1
      <4>. QED BY <3>3, <2>2, <4>2, <1>13, SMTT(30)
    <3>. QED BY <3>1, <3>2, <3>3
  <2>. QED BY <2>1, <2>2
<1>16. NotOvertaken(l1, h1, hp, st, ah)
  <2> SUFFICES ASSUME NEW v \in Tasks, NEW u \in ah[v], st[u] = "sent"
               PROVE  /\ \A th1 \in Threads : h1[th1] = v => hp[v] < hp[u]
                      /\ \A p \in Fifos : \A i \in 1 .. Len(l1[p]) :
                           l1[p][i] = v /\ hp[u] = hp[v] =>
                             \/ \E th1 \in Threads : h1[th1] = u
                             \/ \E j \in 1 .. i - 1 : l1[p][j] = u
    BY DEF Flow, NotOvertaken
  <2>0. u \in Tasks /\ hp[u] \in Nat /\ hp[v] \in Nat
    BY <1>1 DEF FlowTypes
  <2>1. /\ Route[u] = Route[v] /\ hp[v] <= hp[u]
        /\ \A th1 \in Threads : h[th1] = v => hp[v] < hp[u]
        /\ \A p \in Fifos : \A i \in 1 .. Len(l[p]) :
             l[p][i] = v /\ hp[u] = hp[v] =>
               \/ \E th1 \in Threads : h[th1] = u
               \/ \E j \in 1 .. i - 1 : l[p][j] = u
    BY DEF Flow, NotOvertaken
  <2>2. (\E th1 \in Threads : h[th1] = u) => \E th1 \in Threads : h1[th1] = u
    BY <2>0, <1>8, NobodyIsNoTask
  <2>3. CASE v = t
    <3>1. hp[t] # hp[u]
      <4> SUFFICES ASSUME hp[u] = hp[t] PROVE FALSE
        OBVIOUS
      <4>1. \E th1 \in Threads : h[th1] = u
        BY <2>1, <2>3, <1>4
      <4>2. PICK th1 \in Threads : h[th1] = u
        BY <4>1
      <4>3. th1 = Sender(u, hp[u])
        BY <4>2, <2>0, NobodyIsNoTask DEF Flow, HeldBySender
      <4>4. Sender(u, hp[u]) = Sender(t, hp[t])
        BY <2>1, <2>3, <1>9, <1>10 DEF Sender
      <4>. QED BY <4>2, <4>3, <4>4, <1>10, <2>0, NobodyIsNoTask
    <3>. QED BY <2>0, <2>1, <2>3, <3>1
  <2>4. CASE v # t
    <3>1. \A th1 \in Threads : h1[th1] = v => h[th1] = v
      BY <2>4, <1>8
    <3>2. ASSUME NEW p \in Fifos, NEW i \in 1 .. Len(l1[p]), l1[p][i] = v, hp[u] = hp[v],
                 ~ \E th1 \in Threads : h1[th1] = u
          PROVE  \E j \in 1 .. i - 1 : l1[p][j] = u
      <4>1. PICK k \in 1 .. Len(l[p]) : l[p][k] = v /\ k = (IF p = q THEN i + 1 ELSE i)
        BY <3>2, <1>12
      <4>2. PICK m \in 1 .. k - 1 : l[p][m] = u
        BY <3>2, <4>1, <2>1, <2>2
      <4>3. m \in 1 .. Len(l[p])
        BY <4>1, <4>2, <1>1 DEF FlowTypes
      <4>4. u # t
        BY <3>2, <1>8
      <4>5. PICK j \in 1 .. Len(l1[p]) : l1[p][j] = u /\ m = (IF p = q THEN j + 1 ELSE j)
        BY <4>2, <4>3, <4>4, <1>13
      <4>6. j \in Int /\ 1 <= j /\ j < i
        BY <4>1, <4>2, <4>5
      <4>. QED BY <4>5, <4>6
    <3>. QED BY <3>1, <3>2, <2>1
  <2>. QED BY <2>3, <2>4
<1>17. \A u \in Tasks : hp[u] <= Len(Route[u])
  BY DEF Flow
<1>. QED BY <1>7, <1>11, <1>14, <1>15, <1>16, <1>17, <1>a, <1>b, <1>c DEF Flow

-----------------------------------------------------------------------------
(* The steps of the threads *)

\* The sequences of TypeOK.
LEMMA SeqOfCapacity ==
    \A s : s \in UNION {[1 .. n -> Tasks] : n \in 0 .. Capacity}
             <=> s \in Seq(Tasks) /\ Len(s) <= Capacity
<1> TAKE s
<1>1. ASSUME NEW n \in 0 .. Capacity, s \in [1 .. n -> Tasks]
      PROVE  s \in Seq(Tasks) /\ Len(s) <= Capacity
  <2>1. n \in Nat /\ n <= Capacity
    BY CapacityAssumption
  <2>2. s \in Seq(Tasks) /\ Len(s) = n
    BY <1>1, <2>1, IsASeq, LenProperties
  <2>. QED BY <2>1, <2>2
<1>2. ASSUME s \in Seq(Tasks), Len(s) <= Capacity
      PROVE  Len(s) \in 0 .. Capacity /\ s \in [1 .. Len(s) -> Tasks]
  BY <1>2, CapacityAssumption
<1>. QED BY <1>1, <1>2

LEMMA FifoFacts ==
    ASSUME TypeOK, NEW q \in Fifos
    PROVE  fifo[q] \in Seq(Tasks) /\ Len(fifo[q]) \in Nat /\ Len(fifo[q]) <= Capacity
<1>1. fifo[q] \in UNION {[1 .. n -> Tasks] : n \in 0 .. Capacity}
  BY DEF TypeOK
<1>2. fifo[q] \in Seq(Tasks) /\ Len(fifo[q]) <= Capacity
  BY <1>1, SeqOfCapacity, Zenon
<1>. QED BY <1>2

LEMMA ThreadFacts ==
    /\ "rt" \in Threads /\ "nrt" \in Threads /\ "fast" \in Threads
    /\ \A w \in Worlds : w \in Threads /\ w # "rt" /\ w # "nrt" /\ w # "fast"
    /\ \A th \in Threads : th = "rt" \/ th = "nrt" \/ th = "fast" \/ th \in Worlds
    /\ \A th \in Threads : th # Nobody
BY WorldsAssumption, TasksAssumption DEF Threads, Engine

LEMMA LiveSame ==
    ASSUME fifo' = fifo, Performing' <=> Performing
    PROVE  live' = live
BY DEF live

\* A thread that is not part of a step keeps its registers in order.
LEMMA OthersOK ==
    ASSUME NEW x \in Threads, JobOK(x), pc'[x] = pc[x], job'[x] = job[x], target'[x] = target[x],
           job[x] \in Tasks => hop'[job[x]] = hop[job[x]],
           pc[x] = "enqueue" /\ target[x] = "fromWorld" => lock' = x
    PROVE  JobOK(x)'
BY DEF JobOK, Holding

\* After a function or an operation a thread goes on where it was.
LEMMA ResumeFacts ==
    ASSUME TypeOK, ControlOK, NEW th \in Threads, pc[th] \in {"enqueue", "signal", "call"},
           Resume(th), from' = from
    PROVE  /\ pc' \in [Threads -> {"perform", "sched", "wait", "call", "acquire", "enqueue",
                                   "signal", "advance", "idle", "await"}]
           /\ job' \in [Threads -> Tasks \cup {Nobody}]
           /\ target' \in [Threads -> Fifos \cup {Nobody}]
           /\ pc'[th] \in {"await", "idle", "sched", "advance", "perform"}
           /\ pc'[th] = "await" => job'[th] \in Tasks
           /\ \A x \in Threads : x # th =>
                pc'[x] = pc[x] /\ job'[x] = job[x] /\ target'[x] = target[x]
           /\ ControlOK'
           /\ Performing' <=> Performing
           /\ holder' = [holder EXCEPT ![th] = Nobody]
<1> DEFINE waits == job[th] \in WithReturn /\ th \in Worlds
           p == CASE waits -> "await"
                  [] th \in Worlds -> "idle"
                  [] OTHER -> CASE from[th] = "sched" -> "sched"
                                [] from[th] = "fromWorld" -> "advance"
                                [] OTHER -> "perform"
<1>1. /\ pc' = [pc EXCEPT ![th] = p]
      /\ job' = [job EXCEPT ![th] = IF waits THEN @ ELSE Nobody]
      /\ target' = [target EXCEPT ![th] = Nobody]
  BY DEF Resume, Go
<1>2. WithReturn \subseteq Tasks
  BY TasksAssumption
<1>3. /\ th \in Worlds => p \in {"await", "idle"}
      /\ p = "await" => job[th] \in WithReturn /\ waits
      /\ th = "rt" => p = IF from["rt"] = "sched" THEN "sched" ELSE "perform"
      /\ th = "nrt" => p = "perform"
      /\ th = "fast" => p = IF from["fast"] = "fromWorld" THEN "advance" ELSE "perform"
  BY ThreadFacts DEF ControlOK
<1>4. p \in {"await", "idle", "sched", "advance", "perform"}
  BY <1>3, ThreadFacts
<1> HIDE DEF p
<1>5. /\ pc' \in [Threads -> {"perform", "sched", "wait", "call", "acquire", "enqueue",
                              "signal", "advance", "idle", "await"}]
      /\ pc'[th] = p /\ \A x \in Threads : x # th => pc'[x] = pc[x]
  BY <1>1, <1>4 DEF TypeOK
<1>6. /\ job' \in [Threads -> Tasks \cup {Nobody}]
      /\ target' \in [Threads -> Fifos \cup {Nobody}]
      /\ \A x \in Threads : x # th => job'[x] = job[x] /\ target'[x] = target[x]
      /\ waits => job'[th] = job[th]
  BY <1>1 DEF TypeOK
<1>7. ControlOK'
  BY <1>3, <1>5, ThreadFacts DEF ControlOK, Sleepers
<1>8. Performing' <=> Performing
  BY <1>3, <1>5, ThreadFacts DEF ControlOK, Performing
<1>9. holder' = [holder EXCEPT ![th] = Nobody]
  BY <1>4, <1>5, <1>6 DEF holder, Holding
<1>. QED BY <1>2, <1>3, <1>4, <1>5, <1>6, <1>7, <1>8, <1>9

LEMMA EngineInit == Init => EngineInv
<1> SUFFICES ASSUME Init PROVE EngineInv
  OBVIOUS
<1>1. TypeOK
  <2>1. <<>> \in UNION {[1 .. n -> Tasks] : n \in 0 .. Capacity}
    BY SeqOfCapacity, CapacityAssumption, EmptySeq
  <2>2. fifo \in [Fifos -> UNION {[1 .. n -> Tasks] : n \in 0 .. Capacity}]
    BY <2>1 DEF Init
  <2>3. 0 \in 0 .. CounterMod - 1 /\ 0 \in 0 .. Blocks - 1
    BY CounterModAssumption, BlocksAssumption
  <2>4. pc \in [Threads -> {"perform", "sched", "wait", "call", "acquire", "enqueue",
                            "signal", "advance", "idle", "await"}]
    BY DEF Init, Resting, Sleepers
  <2>5. hop \in [Tasks -> Nat] /\ \A t \in Tasks : hop[t] <= Len(Route[t])
    BY RouteFacts DEF Init
  <2>. QED BY <2>2, <2>3, <2>4, <2>5 DEF Init, TypeOK, Fifos
<1>2. ControlOK
  BY ThreadFacts DEF Init, ControlOK, Resting, Sleepers, Engine
<1>3. \A th \in Threads : JobOK(th)
  BY DEF Init, JobOK, Resting, Holding, Sleepers
<1>4. FastOK
  BY ThreadFacts DEF Init, FastOK, Performing, Resting, Sleepers
<1>5. TasksFlow
  <2>1. ~Performing /\ live = [q \in Fifos |-> <<>>]
    BY ThreadFacts DEF Init, live, Performing, Resting, Sleepers
  <2>2. holder = [th \in Threads |-> Nobody]
    BY DEF Init, holder, Holding, Resting, Sleepers
  <2>3. FlowTypes(live, holder, hop, status, ahead)
    BY <2>1, <2>2, EmptySeq DEF FlowTypes, Init
  <2>4. HeldBySender(holder, hop, status)
    BY <2>2 DEF HeldBySender
  <2>5. WaitsOnce(live, holder, hop, status)
    BY <2>1 DEF WaitsOnce
  <2>6. NotLost(live, holder, hop, status)
    BY DEF NotLost, Init
  <2>7. NotOvertaken(live, holder, hop, status, ahead)
    BY DEF NotOvertaken, Init
  <2>. QED BY <2>3, <2>4, <2>5, <2>6, <2>7, <1>1 DEF TasksFlow, Flow, TypeOK
<1>. QED BY <1>1, <1>2, <1>3, <1>4, <1>5 DEF EngineInv

LEMMA StartTaskInv ==
    ASSUME EngineInv, NEW t \in Tasks, StartTask(t)
    PROVE  EngineInv'
<1> USE DEF EngineInv
<1>1. PICK th \in Threads : th = Caller[t] /\ th \in {"rt"} \cup Worlds
  BY RouteFacts, TasksAssumption
<1>2. PICK q \in Fifos : q = Route[t][1] /\ (th = "rt" => q # "fromWorld")
  <2>1. 0 \in 0 .. Len(Route[t]) - 1 /\ 1 \in 1 .. Len(Route[t])
    BY RouteFacts
  <2>2. Sender(t, 0) = th
    BY <1>1 DEF Sender
  <2>. QED BY <2>1, <2>2, RouteFacts, RouteAssumption DEF MayEnqueue
<1>3. PICK p \in {"acquire", "enqueue"} : p = IF q = "fromWorld" THEN "acquire" ELSE "enqueue"
  OBVIOUS
<1>4. /\ status[t] = "new" /\ pc[th] = (IF th = "rt" THEN "sched" ELSE "idle")
      /\ status' = [status EXCEPT ![t] = "sent"]
      /\ ahead' = [ahead EXCEPT ![t] = {u \in Tasks : /\ status[u] # "new"
                                                      /\ Caller[u] = Caller[t]
                                                      /\ Route[u] = Route[t]}]
      /\ job' = [job EXCEPT ![th] = t] /\ target' = [target EXCEPT ![th] = q]
      /\ pc' = [pc EXCEPT ![th] = p]
      /\ UNCHANGED <<fifo, lock, sync, from, block, hop>>
  BY <1>1, <1>2, <1>3 DEF StartTask, Funcall, Go
<1>5. TypeOK'
  BY <1>4 DEF TypeOK, sync
<1>6. /\ pc'[th] = p /\ job'[th] = t /\ target'[th] = q
      /\ \A x \in Threads : x # th => pc'[x] = pc[x] /\ job'[x] = job[x] /\ target'[x] = target[x]
  BY <1>4 DEF TypeOK
<1>7. ControlOK'
  BY <1>1, <1>2, <1>3, <1>4, <1>6, ThreadFacts DEF ControlOK, Sleepers
<1>8. hop[t] = 0
  BY <1>4 DEF TasksFlow, Flow, NotLost
<1>9. ASSUME NEW x \in Threads PROVE JobOK(x)'
  <2>1. CASE x = th
    BY <2>1, <1>2, <1>3, <1>4, <1>6, <1>8, RouteFacts DEF JobOK, Holding
  <2>2. CASE x # th
    BY <2>2, <1>4, <1>6, OthersOK DEF JobOK
  <2>. QED BY <2>1, <2>2
<1>10. th # "fast"
  BY <1>1, ThreadFacts
<1>11. FastOK' /\ (Performing' <=> Performing)
  BY <1>4, <1>6, <1>10, ThreadFacts DEF FastOK, Performing
<1>12. TasksFlow'
  <2>1. PICK l, h, hp, st, ah : l = live /\ h = holder /\ hp = hop /\ st = status /\ ah = ahead
    OBVIOUS
  <2>2. Flow(l, h, hp, st, ah) /\ st[t] = "new"
    BY <2>1, <1>4 DEF TasksFlow
  <2>3. h[Caller[t]] = Nobody
    BY <2>1, <1>1, <1>4 DEF holder, Holding
  <2>4. live' = l /\ hop' = hp /\ status' = [st EXCEPT ![t] = "sent"]
    BY <2>1, <1>4, <1>11, LiveSame
  <2>5. holder' = [h EXCEPT ![Caller[t]] = t]
    BY <2>1, <1>1, <1>3, <1>6 DEF holder, Holding
  <2>6. ahead' = [ah EXCEPT ![t] = {u \in Tasks : /\ st[u] # "new"
                                                /\ Caller[u] = Caller[t]
                                                /\ Route[u] = Route[t]}]
    BY <2>1, <1>4
  <2>7. Flow(l, [h EXCEPT ![Caller[t]] = t], hp, [st EXCEPT ![t] = "sent"],
                [ah EXCEPT ![t] = {u \in Tasks : /\ st[u] # "new"
                                                 /\ Caller[u] = Caller[t]
                                                 /\ Route[u] = Route[t]}])
    BY <2>2, <2>3, FlowStart
  <2>. QED BY <2>4, <2>5, <2>6, <2>7 DEF TasksFlow
<1>. QED BY <1>5, <1>7, <1>9, <1>11, <1>12

LEMMA AcquireInv ==
    ASSUME EngineInv, NEW th \in Threads, Acquire(th)
    PROVE  EngineInv'
<1> USE DEF EngineInv
<1>1. /\ pc[th] = "acquire" /\ lock = Nobody /\ lock' = th
      /\ pc' = [pc EXCEPT ![th] = "enqueue"]
      /\ UNCHANGED <<fifo, sync, from, job, target, block, task, ahead>>
  BY DEF Acquire, Go
<1>2. th # "rt"
  BY <1>1 DEF ControlOK
<1>3. TypeOK'
  BY <1>1, <1>2 DEF TypeOK, sync, task
<1>4. pc'[th] = "enqueue" /\ \A x \in Threads : x # th => pc'[x] = pc[x]
  BY <1>1 DEF TypeOK
<1>5. ControlOK'
  BY <1>1, <1>2, <1>4, ThreadFacts DEF ControlOK, Sleepers
<1>6. ASSUME NEW x \in Threads PROVE JobOK(x)'
  <2>1. CASE x = th
    <3>1. JobOK(th)
      OBVIOUS
    <3>. QED BY <2>1, <3>1, <1>1, <1>4 DEF JobOK, Holding, task
  <2>2. CASE x # th
    <3>1. ~ (pc[x] = "enqueue" /\ target[x] = "fromWorld")
      BY <1>1, ThreadFacts DEF JobOK
    <3>2. JobOK(x)
      OBVIOUS
    <3>. QED BY <2>2, <3>1, <3>2, <1>1, <1>4, OthersOK DEF task
  <2>. QED BY <2>1, <2>2
<1>7. ~ (pc["fast"] # "wait" /\ from["fast"] = "fromWorld") /\ ~Performing
  BY <1>1, ThreadFacts DEF FastOK, Performing
<1>8. FastOK' /\ ~Performing'
  BY <1>1, <1>4, <1>7, ThreadFacts DEF FastOK, Performing
<1>9. live' = live /\ holder' = holder
  BY <1>1, <1>4, <1>7, <1>8 DEF live, holder, Holding
<1>10. TasksFlow'
  BY <1>1, <1>9 DEF TasksFlow, task
<1>. QED BY <1>3, <1>5, <1>6, <1>8, <1>10

LEMMA EnqueueInv ==
    ASSUME EngineInv, NEW th \in Threads, Enqueue(th)
    PROVE  EngineInv'
<1> USE DEF EngineInv
<1>1. PICK t \in Tasks : t = job[th] /\ hop[t] < Len(Route[t])
  BY DEF Enqueue, JobOK, Holding
<1>2. hop[t] \in Nat /\ hop[t] + 1 \in 1 .. Len(Route[t]) /\ Len(Route[t]) \in Nat
  BY <1>1, RouteFacts DEF TypeOK
<1>3. PICK q \in Fifos : q = target[th] /\ q = Route[t][hop[t] + 1]
  BY <1>1, <1>2, RouteFacts DEF Enqueue, JobOK
<1>4. /\ pc[th] = "enqueue"
      /\ hop' = [hop EXCEPT ![t] = @ + 1]
      /\ fifo' = (IF Len(fifo[q]) = Capacity THEN fifo ELSE [fifo EXCEPT ![q] = Append(@, t)])
      /\ status' = (IF Len(fifo[q]) = Capacity THEN [status EXCEPT ![t] = "dropped"] ELSE status)
      /\ lock' = (IF q = "fromWorld" THEN Nobody ELSE lock)
      /\ IF SyncOf(q) = {} THEN Resume(th)
         ELSE pc' = [pc EXCEPT ![th] = "signal"] /\ UNCHANGED <<job, target>>
      /\ UNCHANGED <<sync, from, block, ahead>>
  BY <1>1, <1>3 DEF Enqueue, Go
<1>5. /\ pc' \in [Threads -> {"perform", "sched", "wait", "call", "acquire", "enqueue",
                              "signal", "advance", "idle", "await"}]
      /\ job' \in [Threads -> Tasks \cup {Nobody}]
      /\ target' \in [Threads -> Fifos \cup {Nobody}]
      /\ \A x \in Threads : x # th =>
           pc'[x] = pc[x] /\ job'[x] = job[x] /\ target'[x] = target[x]
      /\ JobOK(th)'
      /\ pc'[th] \notin Holding
      /\ ControlOK'
      /\ Performing' <=> Performing
      /\ holder' = [holder EXCEPT ![th] = Nobody]
  <2>1. CASE SyncOf(q) = {}
    <3>1. /\ pc'[th] \in {"await", "idle", "sched", "advance", "perform"}
          /\ pc'[th] = "await" => job'[th] \in Tasks
      BY <2>1, <1>4, ResumeFacts
    <3>2. JobOK(th)' /\ pc'[th] \notin Holding
      BY <3>1 DEF JobOK, Holding
    <3>. QED BY <2>1, <3>2, <1>4, ResumeFacts
  <2>2. CASE SyncOf(q) # {}
    <3>1. /\ pc' = [pc EXCEPT ![th] = "signal"] /\ job' = job /\ target' = target /\ from' = from
      BY <2>2, <1>4
    <3>2. pc'[th] = "signal" /\ \A x \in Threads : x # th => pc'[x] = pc[x]
      BY <3>1 DEF TypeOK
    <3>3. JobOK(th)'
      BY <2>2, <3>1, <3>2, <1>1, <1>3 DEF JobOK, Holding
    <3>4. ControlOK'
      BY <3>1, <3>2, <1>4, ThreadFacts DEF ControlOK, Sleepers
    <3>5. Performing' <=> Performing
      BY <3>1, <3>2, <1>4, ThreadFacts DEF Performing
    <3>6. holder' = [holder EXCEPT ![th] = Nobody]
      BY <3>1, <3>2 DEF holder, Holding
    <3>. QED BY <3>1, <3>2, <3>3, <3>4, <3>5, <3>6 DEF TypeOK, Holding
  <2>. QED BY <2>1, <2>2
<1>6. fifo[q] \in Seq(Tasks) /\ Len(fifo[q]) \in Nat /\ Len(fifo[q]) <= Capacity
  BY FifoFacts
<1>7. TypeOK'
  <2>1. fifo' \in [Fifos -> UNION {[1 .. n -> Tasks] : n \in 0 .. Capacity}]
    <3>1. CASE Len(fifo[q]) = Capacity
      BY <3>1, <1>4 DEF TypeOK
    <3>2. CASE Len(fifo[q]) # Capacity
      <4>1. Append(fifo[q], t) \in Seq(Tasks) /\ Len(Append(fifo[q], t)) <= Capacity
        BY <3>2, <1>6, CapacityAssumption
      <4>2. Append(fifo[q], t) \in UNION {[1 .. n -> Tasks] : n \in 0 .. Capacity}
        BY <4>1, SeqOfCapacity, Zenon
      <4>. QED BY <3>2, <4>2, <1>4 DEF TypeOK
    <3>. QED BY <3>1, <3>2
  <2>2. lock' \in {Nobody} \cup (Threads \ {"rt"}) /\ status' \in [Tasks -> {"new", "sent", "done", "dropped"}]
    BY <1>4 DEF TypeOK
  <2>3. hop' \in [Tasks -> Nat] /\ \A u \in Tasks : hop'[u] <= Len(Route[u])
    BY <1>1, <1>2, <1>4, RouteFacts DEF TypeOK
  <2>. QED BY <2>1, <2>2, <2>3, <1>4, <1>5 DEF TypeOK, sync
<1>8. holder[th] = t /\ t # Nobody
  BY <1>1, <1>4, NobodyIsNoTask DEF holder, Holding
<1>9. \A x \in Threads : x # th => ~ (pc[x] \in Holding /\ job[x] = t)
  BY <1>8 DEF TasksFlow, Flow, HeldBySender, holder
<1>10. q = "fromWorld" => lock = th
  BY <1>3, <1>4 DEF JobOK
<1>11. ASSUME NEW x \in Threads, x # th PROVE JobOK(x)'
  <2>1. CASE pc[x] \in Holding
    <3>1. job[x] \in Tasks /\ job[x] # t
      BY <2>1, <1>9, <1>11 DEF JobOK
    <3>2. hop'[job[x]] = hop[job[x]]
      BY <3>1, <1>4 DEF TypeOK
    <3>3. JobOK(x) /\ (pc[x] = "enqueue" /\ target[x] = "fromWorld" => lock' = x)
      BY <1>4, <1>10, <1>11 DEF JobOK
    <3>. QED BY <3>2, <3>3, <1>5, <1>11, OthersOK
  <2>2. CASE pc[x] \notin Holding
    <3>1. JobOK(x)
      OBVIOUS
    <3>. QED BY <2>2, <3>1, <1>5, <1>11 DEF JobOK, Holding
  <2>. QED BY <2>1, <2>2
<1>12. q = "fromWorld" => ~ (pc["fast"] # "wait" /\ from["fast"] = "fromWorld") /\ ~Performing
  BY <1>3, <1>4, <1>10 DEF FastOK, Performing
<1>13. FastOK'
  <2>1. pc'["fast"] # "wait" /\ from'["fast"] = "fromWorld" => pc["fast"] # "wait" /\ from["fast"] = "fromWorld"
    BY <1>4, <1>5, ThreadFacts
  <2>2. ~ (pc'["fast"] = "enqueue" /\ target'["fast"] = "fromWorld")
        \/ (pc["fast"] = "enqueue" /\ target["fast"] = "fromWorld")
    BY <1>5, ThreadFacts DEF Holding
  <2>3. pc'["fast"] # "wait" /\ from'["fast"] = "fromWorld" => lock' = "fast"
    BY <2>1, <1>4, <1>12 DEF FastOK
  <2>4. Performing' => fifo'["fromWorld"] # <<>>
    <3>1. Performing => fifo["fromWorld"] # <<>> /\ q # "fromWorld"
      BY <1>12 DEF FastOK
    <3>2. q # "fromWorld" => fifo'["fromWorld"] = fifo["fromWorld"]
      BY <1>4 DEF TypeOK
    <3>. QED BY <3>1, <3>2, <1>5
  <2>. QED BY <2>1, <2>2, <2>3, <2>4 DEF FastOK
<1>14. TasksFlow'
  <2>1. PICK l, h, hp, st, ah : l = live /\ h = holder /\ hp = hop /\ st = status /\ ah = ahead
    OBVIOUS
  <2>2. Flow(l, h, hp, st, ah) /\ h[th] = t /\ hp[t] < Len(Route[t]) /\ q = Route[t][hp[t] + 1]
    BY <2>1, <1>1, <1>3, <1>8 DEF TasksFlow
  <2>3. hop' = [hp EXCEPT ![t] = @ + 1] /\ holder' = [h EXCEPT ![th] = Nobody] /\ ahead' = ah
    BY <2>1, <1>4, <1>5
  <2>4. CASE Len(fifo[q]) = Capacity
    <3>1. live' = l /\ status' = [st EXCEPT ![t] = "dropped"]
      BY <2>1, <2>4, <1>4, <1>5, LiveSame
    <3>2. Flow(l, [h EXCEPT ![th] = Nobody], [hp EXCEPT ![t] = @ + 1], [st EXCEPT ![t] = "dropped"], ah)
      BY <2>2, FlowDrop
    <3>. QED BY <2>3, <3>1, <3>2 DEF TasksFlow
  <2>5. CASE Len(fifo[q]) # Capacity
    <3>1. live' = [l EXCEPT ![q] = Append(@, t)] /\ status' = st
      <4>1. fifo' = [fifo EXCEPT ![q] = Append(@, t)] /\ status' = st
        BY <2>1, <2>5, <1>4
      <4>2. l \in [Fifos -> Seq(Tasks)]
        BY <2>2 DEF Flow, FlowTypes
      <4>3. ASSUME NEW x \in Fifos PROVE live'[x] = [l EXCEPT ![q] = Append(@, t)][x]
        BY <4>1, <4>2, <2>1, <1>5, <1>12 DEF live, TypeOK
      <4>4. live' = [x \in Fifos |-> live'[x]]
        BY DEF live
      <4>. QED BY <4>1, <4>2, <4>3, <4>4
    <3>2. Flow([l EXCEPT ![q] = Append(@, t)], [h EXCEPT ![th] = Nobody],
               [hp EXCEPT ![t] = @ + 1], st, ah)
      BY <2>2, FlowPut
    <3>. QED BY <2>3, <3>1, <3>2 DEF TasksFlow
  <2>. QED BY <2>4, <2>5
<1>. QED BY <1>5, <1>7, <1>11, <1>13, <1>14

LEMMA SignalInv ==
    ASSUME EngineInv, NEW th \in Threads, Signal(th)
    PROVE  EngineInv'
<1> USE DEF EngineInv
<1>1. /\ pc[th] = "signal" /\ Resume(th) /\ UNCHANGED <<fifo, lock, read, from, block, task, ahead>>
      /\ \E s \in Sleepers : /\ write' = [write EXCEPT ![s] = (@ + 1) % CounterMod]
                             /\ asleep' = [asleep EXCEPT ![s] = FALSE]
  BY DEF Signal, SyncOf, Sleepers
<1>2. /\ pc' \in [Threads -> {"perform", "sched", "wait", "call", "acquire", "enqueue",
                              "signal", "advance", "idle", "await"}]
      /\ job' \in [Threads -> Tasks \cup {Nobody}]
      /\ target' \in [Threads -> Fifos \cup {Nobody}]
      /\ pc'[th] \in {"await", "idle", "sched", "advance", "perform"}
      /\ pc'[th] = "await" => job'[th] \in Tasks
      /\ \A x \in Threads : x # th =>
           pc'[x] = pc[x] /\ job'[x] = job[x] /\ target'[x] = target[x]
      /\ ControlOK' /\ (Performing' <=> Performing)
      /\ holder' = [holder EXCEPT ![th] = Nobody]
  BY <1>1, ResumeFacts
<1>3. write' \in [Sleepers -> 0 .. CounterMod - 1] /\ asleep' \in [Sleepers -> BOOLEAN]
  <2>1. PICK s \in Sleepers : /\ write' = [write EXCEPT ![s] = (@ + 1) % CounterMod]
                              /\ asleep' = [asleep EXCEPT ![s] = FALSE]
    BY <1>1
  <2>2. (write[s] + 1) % CounterMod \in 0 .. CounterMod - 1
    BY CounterModAssumption DEF TypeOK
  <2>. QED BY <2>1, <2>2 DEF TypeOK
<1>4. TypeOK'
  BY <1>1, <1>2, <1>3 DEF TypeOK, task
<1>5. ASSUME NEW x \in Threads PROVE JobOK(x)'
  <2>1. CASE x = th
    BY <2>1, <1>2 DEF JobOK, Holding
  <2>2. CASE x # th
    <3>1. JobOK(x) /\ (pc[x] = "enqueue" /\ target[x] = "fromWorld" => lock' = x)
      BY <1>1 DEF JobOK
    <3>. QED BY <2>2, <3>1, <1>1, <1>2, OthersOK DEF task
  <2>. QED BY <2>1, <2>2
<1>6. FastOK'
  BY <1>1, <1>2, ThreadFacts DEF FastOK
<1>7. live' = live
  BY <1>1, <1>2, LiveSame
<1>8. holder' = holder
  BY <1>1, <1>2 DEF holder, Holding
<1>9. TasksFlow'
  BY <1>1, <1>7, <1>8 DEF TasksFlow, task
<1>. QED BY <1>2, <1>4, <1>5, <1>6, <1>9

LEMMA AwaitInv ==
    ASSUME EngineInv, NEW w \in Worlds, Await(w)
    PROVE  EngineInv'
<1> USE DEF EngineInv
<1>1. /\ pc[w] = "await" /\ pc' = [pc EXCEPT ![w] = "idle"] /\ job' = [job EXCEPT ![w] = Nobody]
      /\ UNCHANGED <<fifo, lock, sync, from, target, block, task, ahead>>
  BY DEF Await, Go
<1>2. w \in Threads /\ w # "rt" /\ w # "nrt" /\ w # "fast"
  BY ThreadFacts
<1>3. TypeOK'
  BY <1>1, <1>2 DEF TypeOK, sync, task
<1>4. pc'[w] = "idle" /\ \A x \in Threads : x # w => pc'[x] = pc[x] /\ job'[x] = job[x]
  BY <1>1, <1>2 DEF TypeOK
<1>5. ControlOK'
  BY <1>1, <1>2, <1>4, ThreadFacts DEF ControlOK, Sleepers
<1>6. ASSUME NEW x \in Threads PROVE JobOK(x)'
  <2>1. CASE x = w
    BY <2>1, <1>4 DEF JobOK, Holding
  <2>2. CASE x # w
    <3>1. JobOK(x) /\ (pc[x] = "enqueue" /\ target[x] = "fromWorld" => lock' = x)
      BY <1>1 DEF JobOK
    <3>. QED BY <2>2, <3>1, <1>1, <1>4, OthersOK DEF task
  <2>. QED BY <2>1, <2>2
<1>7. FastOK' /\ (Performing' <=> Performing)
  BY <1>1, <1>2, <1>4, ThreadFacts DEF FastOK, Performing
<1>8. live' = live
  BY <1>1, <1>7, LiveSame
<1>9. holder' = holder
  BY <1>1, <1>4 DEF holder, Holding
<1>10. TasksFlow'
  BY <1>1, <1>8, <1>9 DEF TasksFlow, task
<1>. QED BY <1>3, <1>5, <1>6, <1>7, <1>10

LEMMA WaitInv ==
    ASSUME EngineInv, NEW th \in Sleepers, Wait(th)
    PROVE  EngineInv'
<1> USE DEF EngineInv
<1>0. th \in Threads /\ th \in Engine /\ th # "rt" /\ (th = "nrt" \/ th = "fast")
  BY DEF Sleepers, Threads, Engine
<1>1. pc[th] = "wait" /\ UNCHANGED <<fifo, lock, write, job, target, block, task, ahead>>
  BY DEF Wait
<1>2. CASE read[th] = write[th]
  <2>1. asleep' = [asleep EXCEPT ![th] = TRUE] /\ UNCHANGED <<read, pc, from>>
    BY <1>2 DEF Wait
  <2>2. TypeOK'
    BY <1>1, <2>1 DEF TypeOK, task
  <2>3. ControlOK' /\ FastOK' /\ \A x \in Threads : JobOK(x)'
    BY <1>1, <2>1 DEF ControlOK, FastOK, Performing, JobOK, task
  <2>4. live' = live /\ holder' = holder
    BY <1>1, <2>1 DEF live, Performing, holder
  <2>. QED BY <2>2, <2>3, <2>4, <1>1 DEF TasksFlow, task
<1>3. CASE read[th] # write[th]
  <2>1. /\ read' = [read EXCEPT ![th] = (@ + 1) % CounterMod]
        /\ from' = [from EXCEPT ![th] = IF th = "nrt" THEN "fromEngine" ELSE "fastFromEngine"]
        /\ pc' = [pc EXCEPT ![th] = "perform"] /\ UNCHANGED asleep
    BY <1>3 DEF Wait, Go
  <2>2. (read[th] + 1) % CounterMod \in 0 .. CounterMod - 1
    BY CounterModAssumption DEF TypeOK
  <2>3. TypeOK'
    BY <1>0, <1>1, <2>1, <2>2 DEF TypeOK, task, Fifos
  <2>4. /\ pc'[th] = "perform" /\ \A x \in Threads : x # th => pc'[x] = pc[x]
        /\ from'[th] = (IF th = "nrt" THEN "fromEngine" ELSE "fastFromEngine")
        /\ \A x \in Engine : x # th => from'[x] = from[x]
    BY <1>0, <2>1 DEF TypeOK
  <2>5. ControlOK'
    BY <1>0, <2>4, ThreadFacts DEF ControlOK, Sleepers, Engine
  <2>6. ASSUME NEW x \in Threads PROVE JobOK(x)'
    <3>1. CASE x = th
      BY <3>1, <2>4 DEF JobOK, Holding
    <3>2. CASE x # th
      <4>1. JobOK(x) /\ (pc[x] = "enqueue" /\ target[x] = "fromWorld" => lock' = x)
        BY <1>1 DEF JobOK
      <4>. QED BY <3>2, <4>1, <1>1, <2>4, OthersOK DEF task
    <3>. QED BY <3>1, <3>2
  <2>7. FastOK' /\ (Performing' <=> Performing)
    BY <1>0, <1>1, <2>4, ThreadFacts DEF FastOK, Performing, Engine
  <2>8. live' = live
    BY <1>1, <2>7, LiveSame
  <2>9. holder' = holder
    BY <1>1, <2>4 DEF holder, Holding
  <2>10. TasksFlow'
    BY <1>1, <2>8, <2>9 DEF TasksFlow, task
  <2>. QED BY <2>3, <2>5, <2>6, <2>7, <2>10
<1>. QED BY <1>2, <1>3

LEMMA PerformInv ==
    ASSUME EngineInv, NEW th \in Engine, Perform(th)
    PROVE  EngineInv'
<1> USE DEF EngineInv
<1>0. th \in Threads /\ (th = "rt" \/ th = "nrt" \/ th = "fast")
  BY DEF Threads, Engine
<1>1. pc[th] = "perform"
  BY DEF Perform
<1>2. PICK q \in Fifos : q = from[th] /\ th = Performer(q)
  BY <1>0, <1>1 DEF ControlOK, Performer, Fifos
<1>3. fifo[q] \in Seq(Tasks) /\ fifo[q] # <<>> /\ Len(fifo[q]) \in Nat /\ Len(fifo[q]) <= Capacity
  BY <1>2, FifoFacts DEF Perform
<1>4. PICK t \in Tasks : t = Head(fifo[q])
  BY <1>3
<1>5. /\ job' = [job EXCEPT ![th] = t] /\ pc' = [pc EXCEPT ![th] = "call"]
      /\ fifo' = (IF q = "fromWorld" THEN fifo ELSE [fifo EXCEPT ![q] = Tail(@)])
      /\ UNCHANGED <<lock, sync, from, target, block, task, ahead>>
  BY <1>2, <1>4 DEF Perform, Go
<1>6. Tail(fifo[q]) \in Seq(Tasks) /\ Len(Tail(fifo[q])) <= Capacity
  BY <1>3, CapacityAssumption
<1>7. TypeOK'
  <2>1. Tail(fifo[q]) \in UNION {[1 .. n -> Tasks] : n \in 0 .. Capacity}
    BY <1>6, SeqOfCapacity, Zenon
  <2>2. fifo' \in [Fifos -> UNION {[1 .. n -> Tasks] : n \in 0 .. Capacity}]
    BY <2>1, <1>5 DEF TypeOK
  <2>. QED BY <2>2, <1>0, <1>5 DEF TypeOK, sync, task
<1>8. /\ pc'[th] = "call" /\ job'[th] = t
      /\ \A x \in Threads : x # th => pc'[x] = pc[x] /\ job'[x] = job[x]
  BY <1>0, <1>5 DEF TypeOK
<1>9. ControlOK'
  BY <1>0, <1>1, <1>5, <1>8, ThreadFacts DEF ControlOK, Sleepers
<1>10. /\ q = "fromWorld" <=> th = "fast" /\ from["fast"] = "fromWorld"
       /\ th = "fast" => ~Performing
  BY <1>0, <1>1, <1>2 DEF ControlOK, Performing
<1>11. live[q] = fifo[q]
  BY <1>10 DEF live
<1>12. t = live[q][1] /\ 1 \in 1 .. Len(live[q]) /\ hop[t] > 0
  <2>1. t = live[q][1] /\ 1 \in 1 .. Len(live[q])
    BY <1>3, <1>4, <1>11
  <2>. QED BY <2>1 DEF TasksFlow, Flow, WaitsOnce
<1>13. ASSUME NEW x \in Threads PROVE JobOK(x)'
  <2>1. CASE x = th
    BY <2>1, <1>5, <1>8, <1>12 DEF JobOK, Holding, task
  <2>2. CASE x # th
    <3>1. JobOK(x) /\ (pc[x] = "enqueue" /\ target[x] = "fromWorld" => lock' = x)
      BY <1>5 DEF JobOK
    <3>. QED BY <2>2, <3>1, <1>5, <1>8, OthersOK DEF task
  <2>. QED BY <2>1, <2>2
<1>14. Performing' <=> (IF q = "fromWorld" THEN TRUE ELSE Performing)
  BY <1>0, <1>5, <1>8, <1>10, ThreadFacts DEF Performing
<1>15. FastOK'
  <2>1. pc'["fast"] # "wait" /\ from'["fast"] = "fromWorld" =>
          lock' = "fast" /\ ~(pc'["fast"] = "enqueue" /\ target'["fast"] = "fromWorld")
    BY <1>1, <1>5, <1>8, ThreadFacts DEF FastOK
  <2>2. Performing' => fifo'["fromWorld"] # <<>>
    BY <1>3, <1>5, <1>14 DEF FastOK, TypeOK
  <2>. QED BY <2>1, <2>2 DEF FastOK
<1>16. TasksFlow'
  <2>1. PICK l, h, hp, st, ah : l = live /\ h = holder /\ hp = hop /\ st = status /\ ah = ahead
    OBVIOUS
  <2>2. Flow(l, h, hp, st, ah) /\ l[q] = fifo[q] /\ l[q] # <<>> /\ h[th] = Nobody
    BY <2>1, <1>0, <1>1, <1>3, <1>11 DEF TasksFlow, holder, Holding
  <2>3. holder' = [h EXCEPT ![th] = Head(l[q])]
    BY <2>1, <2>2, <1>0, <1>4, <1>8 DEF holder, Holding
  <2>4. live' = [l EXCEPT ![q] = Tail(@)]
    <3>1. l \in [Fifos -> Seq(Tasks)]
      BY <2>2 DEF Flow, FlowTypes
    <3>2. ASSUME NEW x \in Fifos PROVE live'[x] = [l EXCEPT ![q] = Tail(@)][x]
      BY <3>1, <2>1, <2>2, <1>5, <1>10, <1>14 DEF live, TypeOK
    <3>3. live' = [x \in Fifos |-> live'[x]]
      BY DEF live
    <3>. QED BY <3>1, <3>2, <3>3
  <2>5. Flow([l EXCEPT ![q] = Tail(@)], [h EXCEPT ![th] = Head(l[q])], hp, st, ah)
    BY <2>2, <1>0, <1>2, FlowTake
  <2>. QED BY <2>1, <2>3, <2>4, <2>5, <1>5 DEF TasksFlow, task
<1>. QED BY <1>7, <1>9, <1>13, <1>15, <1>16

LEMMA CallInv ==
    ASSUME EngineInv, NEW th \in Engine, Call(th)
    PROVE  EngineInv'
<1> USE DEF EngineInv
<1>0. th \in Threads /\ (th = "rt" \/ th = "nrt" \/ th = "fast")
  BY DEF Threads, Engine
<1>1. pc[th] = "call" /\ UNCHANGED <<fifo, lock, sync, from, block, hop, ahead>>
  BY DEF Call
<1>2. PICK t \in Tasks : t = job[th] /\ hop[t] > 0 /\ hop[t] \in Nat /\ hop[t] <= Len(Route[t])
  BY <1>0, <1>1 DEF JobOK, Holding, TypeOK
<1>3. holder[th] = t /\ t # Nobody /\ th = Sender(t, hop[t])
  <2>1. holder[th] = t /\ t # Nobody
    BY <1>0, <1>1, <1>2, NobodyIsNoTask DEF holder, Holding
  <2>. QED BY <2>1, <1>0 DEF TasksFlow, Flow, HeldBySender
<1>4. CASE hop[t] < Len(Route[t])
  <2>1. hop[t] \in 0 .. Len(Route[t]) - 1 /\ hop[t] + 1 \in 1 .. Len(Route[t])
    BY <1>2, <1>4, RouteFacts
  <2>2. PICK q \in Fifos : q = Route[t][hop[t] + 1] /\ (th = "rt" => q # "fromWorld")
    BY <2>1, <1>3, RouteFacts, RouteAssumption DEF MayEnqueue
  <2>3. PICK p \in {"acquire", "enqueue"} : p = IF q = "fromWorld" THEN "acquire" ELSE "enqueue"
    OBVIOUS
  <2>4. /\ target' = [target EXCEPT ![th] = q] /\ pc' = [pc EXCEPT ![th] = p]
        /\ UNCHANGED <<job, status>>
    BY <1>2, <1>4, <2>2, <2>3 DEF Call, Funcall, Go
  <2>5. TypeOK'
    BY <1>0, <1>1, <2>4 DEF TypeOK, sync
  <2>6. /\ pc'[th] = p /\ target'[th] = q
        /\ \A x \in Threads : x # th => pc'[x] = pc[x] /\ target'[x] = target[x]
    BY <1>0, <2>4 DEF TypeOK
  <2>7. ControlOK'
    BY <1>0, <1>1, <2>2, <2>3, <2>6, ThreadFacts DEF ControlOK, Sleepers
  <2>8. ASSUME NEW x \in Threads PROVE JobOK(x)'
    <3>1. CASE x = th
      BY <3>1, <1>1, <1>2, <1>4, <2>2, <2>3, <2>4, <2>6 DEF JobOK, Holding
    <3>2. CASE x # th
      <4>1. JobOK(x) /\ (pc[x] = "enqueue" /\ target[x] = "fromWorld" => lock' = x)
        BY <1>1 DEF JobOK
      <4>. QED BY <3>2, <4>1, <1>1, <2>4, <2>6, OthersOK
    <3>. QED BY <3>1, <3>2
  <2>9. FastOK' /\ (Performing' <=> Performing)
    BY <1>0, <1>1, <2>3, <2>6, ThreadFacts DEF FastOK, Performing
  <2>10. live' = live
    BY <1>1, <2>9, LiveSame
  <2>11. holder' = holder
    BY <1>1, <2>4, <2>6 DEF holder, Holding
  <2>12. TasksFlow'
    BY <1>1, <2>4, <2>10, <2>11 DEF TasksFlow
  <2>. QED BY <2>5, <2>7, <2>8, <2>9, <2>12
<1>5. CASE ~ (hop[t] < Len(Route[t]))
  <2>1. status' = [status EXCEPT ![t] = "done"] /\ Resume(th)
    BY <1>2, <1>5 DEF Call
  <2>2. /\ pc' \in [Threads -> {"perform", "sched", "wait", "call", "acquire", "enqueue",
                                "signal", "advance", "idle", "await"}]
        /\ job' \in [Threads -> Tasks \cup {Nobody}]
        /\ target' \in [Threads -> Fifos \cup {Nobody}]
        /\ pc'[th] \in {"await", "idle", "sched", "advance", "perform"}
        /\ pc'[th] = "await" => job'[th] \in Tasks
        /\ \A x \in Threads : x # th =>
             pc'[x] = pc[x] /\ job'[x] = job[x] /\ target'[x] = target[x]
        /\ ControlOK' /\ (Performing' <=> Performing)
        /\ holder' = [holder EXCEPT ![th] = Nobody]
    BY <1>0, <1>1, <2>1, ResumeFacts
  <2>3. TypeOK'
    BY <1>1, <2>1, <2>2 DEF TypeOK, sync
  <2>4. ASSUME NEW x \in Threads PROVE JobOK(x)'
    <3>1. CASE x = th
      BY <3>1, <2>2 DEF JobOK, Holding
    <3>2. CASE x # th
      <4>1. JobOK(x) /\ (pc[x] = "enqueue" /\ target[x] = "fromWorld" => lock' = x)
        BY <1>1 DEF JobOK
      <4>. QED BY <3>2, <4>1, <1>1, <2>2, OthersOK
    <3>. QED BY <3>1, <3>2
  <2>5. FastOK'
    BY <1>1, <2>2, ThreadFacts DEF FastOK
  <2>6. TasksFlow'
    <3>1. PICK l, h, hp, st, ah : l = live /\ h = holder /\ hp = hop /\ st = status /\ ah = ahead
      OBVIOUS
    <3>2. Flow(l, h, hp, st, ah) /\ h[th] = t /\ ~ (hp[t] < Len(Route[t]))
      BY <3>1, <1>3, <1>5 DEF TasksFlow
    <3>3. Flow(l, [h EXCEPT ![th] = Nobody], hp, [st EXCEPT ![t] = "done"], ah)
      BY <3>2, <1>0, FlowDone
    <3>4. live' = l
      BY <3>1, <1>1, <2>2, LiveSame
    <3>. QED BY <3>1, <3>3, <3>4, <1>1, <2>1, <2>2 DEF TasksFlow
  <2>. QED BY <2>2, <2>3, <2>4, <2>5, <2>6
<1>. QED BY <1>4, <1>5

\* The read head moves: the task that was performed leaves the FIFO.
LEMMA AdvanceInv ==
    ASSUME EngineInv, Advance("fast")
    PROVE  EngineInv'
<1> USE DEF EngineInv
<1>0. "fast" \in Threads /\ "fromWorld" \in Fifos
  BY ThreadFacts DEF Fifos
<1>1. /\ pc["fast"] = "advance" /\ fifo' = [fifo EXCEPT !["fromWorld"] = Tail(@)]
      /\ pc' = [pc EXCEPT !["fast"] = "perform"]
      /\ UNCHANGED <<lock, sync, from, job, target, block, task, ahead>>
  BY DEF Advance, Go
<1>2. from["fast"] = "fromWorld" /\ Performing
  BY <1>1 DEF ControlOK, Performing
<1>3. /\ fifo["fromWorld"] \in Seq(Tasks) /\ Len(fifo["fromWorld"]) \in Nat
      /\ Len(fifo["fromWorld"]) <= Capacity /\ fifo["fromWorld"] # <<>>
  BY <1>0, <1>2, FifoFacts DEF FastOK
<1>4. Tail(fifo["fromWorld"]) \in Seq(Tasks) /\ Len(Tail(fifo["fromWorld"])) <= Capacity
  BY <1>3, CapacityAssumption
<1>5. TypeOK'
  <2>1. Tail(fifo["fromWorld"]) \in UNION {[1 .. n -> Tasks] : n \in 0 .. Capacity}
    BY <1>4, SeqOfCapacity, Zenon
  <2>2. fifo' \in [Fifos -> UNION {[1 .. n -> Tasks] : n \in 0 .. Capacity}]
    BY <2>1, <1>1 DEF TypeOK
  <2>. QED BY <2>2, <1>1 DEF TypeOK, sync, task
<1>6. pc'["fast"] = "perform" /\ \A x \in Threads : x # "fast" => pc'[x] = pc[x]
  BY <1>0, <1>1 DEF TypeOK
<1>7. ControlOK'
  BY <1>1, <1>2, <1>6, ThreadFacts DEF ControlOK, Sleepers
<1>8. ASSUME NEW x \in Threads PROVE JobOK(x)'
  <2>1. CASE x = "fast"
    BY <2>1, <1>6 DEF JobOK, Holding
  <2>2. CASE x # "fast"
    <3>1. JobOK(x) /\ (pc[x] = "enqueue" /\ target[x] = "fromWorld" => lock' = x)
      BY <1>1 DEF JobOK
    <3>. QED BY <2>2, <3>1, <1>1, <1>6, OthersOK DEF task
  <2>. QED BY <2>1, <2>2
<1>9. FastOK' /\ ~Performing'
  BY <1>1, <1>2, <1>6 DEF FastOK, Performing
<1>10. live' = live
  BY <1>1, <1>2, <1>9 DEF live, TypeOK
<1>11. holder' = holder
  BY <1>1, <1>6 DEF holder, Holding
<1>12. TasksFlow'
  BY <1>1, <1>10, <1>11 DEF TasksFlow, task
<1>. QED BY <1>5, <1>7, <1>8, <1>9, <1>12

\* The steps of the loops that only move a thread of the engine on.
LoopStep == NrtDone \/ FastLock \/ FastDone \/ RtBlock \/ RtSched \/ RtTick

LEMMA LoopStepInv ==
    ASSUME EngineInv, LoopStep
    PROVE  EngineInv'
<1> USE DEF EngineInv
<1>1. PICK th \in Engine : /\ pc[th] \in {"perform", "sched"}
                           /\ pc' = [pc EXCEPT ![th] = pc'[th]]
                           /\ pc'[th] \in {"perform", "sched", "wait"}
                           /\ from' = [from EXCEPT ![th] = from'[th]]
                           /\ from'[th] \in Fifos \cup {"sched"}
  BY DEF LoopStep, NrtDone, FastLock, FastDone, RtBlock, RtSched, RtTick, Performed, Go,
         TypeOK, Threads, Engine, Fifos
<1>2. UNCHANGED <<fifo, sync, job, target, task, ahead>>
  BY DEF LoopStep, NrtDone, FastLock, FastDone, RtBlock, RtSched, RtTick
<1>3. block' \in 0 .. Blocks - 1 /\ lock' \in {Nobody} \cup (Threads \ {"rt"})
  BY BlocksAssumption, ThreadFacts DEF LoopStep, NrtDone, FastLock, FastDone, RtBlock, RtSched, RtTick, TypeOK
<1>4. TypeOK'
  BY <1>1, <1>2, <1>3 DEF TypeOK, sync, task
<1>5. ControlOK'
  BY ThreadFacts DEF LoopStep, NrtDone, FastLock, FastDone, RtBlock, RtSched, RtTick, Performed, Go,
         TypeOK, ControlOK, Sleepers, Engine
<1>6. \A x \in Threads : x # th => pc'[x] = pc[x]
  BY <1>1 DEF TypeOK
<1>7. ASSUME NEW x \in Threads, pc[x] = "enqueue", target[x] = "fromWorld" PROVE lock' = x
  <2>1. lock = x /\ x # Nobody
    BY <1>7, ThreadFacts DEF JobOK
  <2>2. CASE FastDone
    BY <1>7, <2>1, <2>2 DEF FastDone, Performed, FastOK
  <2>. QED BY <2>1, <2>2 DEF LoopStep, NrtDone, FastLock, RtBlock, RtSched, RtTick
<1>8. ASSUME NEW x \in Threads PROVE JobOK(x)'
  <2>1. CASE x = th
    BY <2>1, <1>1 DEF JobOK, Holding
  <2>2. CASE x # th
    <3>1. JobOK(x)
      OBVIOUS
    <3>. QED BY <2>2, <3>1, <1>2, <1>6, <1>7, OthersOK DEF task
  <2>. QED BY <2>1, <2>2
<1>9. Performing' <=> Performing
  BY ThreadFacts DEF LoopStep, NrtDone, FastLock, FastDone, RtBlock, RtSched, RtTick, Performed, Go,
         TypeOK, ControlOK, Performing, Engine
<1>10. FastOK'
  <2>1. pc'["fast"] # "wait" /\ from'["fast"] = "fromWorld" =>
          lock' = "fast" /\ ~(pc'["fast"] = "enqueue" /\ target'["fast"] = "fromWorld")
    BY ThreadFacts DEF LoopStep, NrtDone, FastLock, FastDone, RtBlock, RtSched, RtTick, Performed, Go,
         TypeOK, FastOK, Engine
  <2>. QED BY <2>1, <1>2, <1>9 DEF FastOK
<1>11. live' = live
  BY <1>2, <1>9, LiveSame
<1>12. holder' = holder
  BY <1>1, <1>2, <1>6 DEF holder, Holding
<1>13. TasksFlow'
  BY <1>2, <1>11, <1>12 DEF TasksFlow, task
<1>. QED BY <1>4, <1>5, <1>8, <1>10, <1>13

\* Every step of a thread keeps the invariant.
LEMMA EngineNext == EngineInv /\ [Next]_vars => EngineInv'
<1> SUFFICES ASSUME EngineInv, [Next]_vars PROVE EngineInv'
  OBVIOUS
<1>1. ASSUME NEW t \in Tasks, StartTask(t) PROVE EngineInv'
  BY <1>1, StartTaskInv
<1>2. ASSUME NEW th \in Threads, Operation(th) PROVE EngineInv'
  BY <1>2, AcquireInv, EnqueueInv, SignalInv DEF Operation
<1>3. CASE RtStep
  BY <1>2, <1>3, ThreadFacts, PerformInv, CallInv, LoopStepInv DEF RtStep, LoopStep, Engine
<1>4. CASE NrtStep
  BY <1>2, <1>4, ThreadFacts, WaitInv, PerformInv, CallInv, LoopStepInv
     DEF NrtStep, LoopStep, Engine, Sleepers
<1>5. CASE FastStep
  BY <1>2, <1>5, ThreadFacts, WaitInv, PerformInv, CallInv, AdvanceInv, LoopStepInv
     DEF FastStep, LoopStep, Engine, Sleepers
<1>6. ASSUME NEW w \in Worlds, WorldStep(w) PROVE EngineInv'
  BY <1>2, <1>6, ThreadFacts, AwaitInv DEF WorldStep
<1>7. CASE UNCHANGED vars
  <2>1. live' = live /\ holder' = holder
    BY <1>7 DEF vars, place, live, Performing, holder
  <2>2. TypeOK' /\ ControlOK' /\ FastOK' /\ \A th \in Threads : JobOK(th)'
    BY <1>7 DEF vars, place, sync, task, EngineInv, TypeOK, ControlOK, FastOK, Performing, JobOK
  <2>. QED BY <2>1, <2>2, <1>7 DEF vars, task, EngineInv, TasksFlow
<1>. QED BY <1>1, <1>3, <1>4, <1>5, <1>6, <1>7 DEF Next

-----------------------------------------------------------------------------
(* The theorems *)

\* Every reachable state satisfies the inductive invariant.
THEOREM EngineSafe == Spec => []EngineInv
BY EngineInit, EngineNext, PTL DEF Spec

\* The registers of the threads have their types and no FIFO overflows,
\* whatever the threads of the user send and along which FIFOs.
THEOREM EngineTypes == Spec => []TypeOK
<1>1. EngineInv => TypeOK
  BY DEF EngineInv
<1>. QED BY <1>1, EngineSafe, PTL

\* *fast-nrt-spinlock*: whoever writes *from-world-fifo* holds it, and the
\* fast-nrt-thread holds it for as long as it performs that FIFO.
THEOREM SpinlockHeld == Spec => []LockHeld
<1>1. EngineInv => LockHeld
  BY DEF EngineInv, LockHeld, JobOK, FastOK
<1>. QED BY <1>1, EngineSafe, PTL

\* A function that is sent is in exactly one place until it is called or
\* dropped: in the hands of the thread that its route names, or once in the
\* FIFO that its route names.
THEOREM TasksInOnePlace == Spec => []TasksFlow
<1>1. EngineInv => TasksFlow
  BY DEF EngineInv
<1>. QED BY <1>1, EngineSafe, PTL

\* The order of sending survives every chain of FIFOs and threads.
THEOREM SendingOrderKept == Spec => []CallsInSendingOrder
<1>1. EngineInv => CallsInSendingOrder
  BY DEF EngineInv, TasksFlow, Flow, NotOvertaken, CallsInSendingOrder
<1>. QED BY <1>1, EngineSafe, PTL

-----------------------------------------------------------------------------
(* No wake-up is lost *)

LEMMA SyncOfFacts ==
    /\ SyncOf("toEngine") = {} /\ SyncOf("fastToEngine") = {}
    /\ SyncOf("fromEngine") = {"nrt"}
    /\ SyncOf("fromWorld") = {"fast"} /\ SyncOf("fastFromEngine") = {"fast"}
BY DEF SyncOf

\* A step that fills no FIFO, takes no signal back and lets no thread wait.
LEMMA WakeFrame ==
    ASSUME WakeOK, UNCHANGED sync,
           \A th \in Threads : pc[th] = "signal" => pc'[th] = "signal" /\ target'[th] = target[th],
           \A s \in Sleepers : /\ (pc[s] = "wait") <=> (pc'[s] = "wait")
                               /\ from'[s] = from[s],
           \A q \in Fifos : fifo'[q] # <<>> => fifo[q] # <<>> \/ SyncOf(q) = {}
    PROVE  WakeOK'
<1> SUFFICES ASSUME NEW s \in Sleepers
             PROVE  /\ asleep'[s] => pc'[s] = "wait" /\ read'[s] = write'[s]
                    /\ \A q \in Fifos : SyncOf(q) = {s} /\ fifo'[q] # <<>> =>
                         read'[s] # write'[s] \/ Signalled(s)' \/ WillPerform(s, q)'
  BY DEF WakeOK
<1>1. Signalled(s) => Signalled(s)'
  BY DEF Signalled
<1>2. \A q \in Fifos : WillPerform(s, q) => WillPerform(s, q)'
  BY DEF WillPerform
<1>. QED BY <1>1, <1>2 DEF WakeOK, sync

LEMMA WakeEnqueue ==
    ASSUME EngineInv, WakeOK, NEW th \in Threads, Enqueue(th)
    PROVE  WakeOK'
<1> USE DEF EngineInv
<1>1. PICK t \in Tasks : t = job[th] /\ hop[t] < Len(Route[t]) /\ hop[t] \in Nat
  BY DEF Enqueue, JobOK, Holding, TypeOK
<1>2. PICK q \in Fifos : q = target[th]
  <2>1. hop[t] + 1 \in 1 .. Len(Route[t])
    BY <1>1, RouteFacts
  <2>. QED BY <1>1, <2>1, RouteFacts DEF Enqueue, JobOK
<1>3. /\ pc[th] = "enqueue" /\ UNCHANGED <<sync, from>>
      /\ fifo' = (IF Len(fifo[q]) = Capacity THEN fifo ELSE [fifo EXCEPT ![q] = Append(@, t)])
      /\ IF SyncOf(q) = {} THEN Resume(th)
         ELSE pc' = [pc EXCEPT ![th] = "signal"] /\ UNCHANGED <<job, target>>
  BY <1>1, <1>2 DEF Enqueue, Go
<1>4. \A p \in Fifos : p # q => fifo'[p] = fifo[p]
  BY <1>3 DEF TypeOK
<1>5. CASE SyncOf(q) = {}
  <2>1. /\ pc'[th] \in {"await", "idle", "sched", "advance", "perform"}
        /\ \A x \in Threads : x # th =>
             pc'[x] = pc[x] /\ job'[x] = job[x] /\ target'[x] = target[x]
    BY <1>3, <1>5, ResumeFacts
  <2>2. \A x \in Threads : pc[x] = "signal" => pc'[x] = "signal" /\ target'[x] = target[x]
    BY <2>1, <1>3
  <2>3. \A s \in Sleepers : ((pc[s] = "wait") <=> (pc'[s] = "wait")) /\ from'[s] = from[s]
    BY <2>1, <1>3, ThreadFacts DEF Sleepers
  <2>4. \A p \in Fifos : fifo'[p] # <<>> => fifo[p] # <<>> \/ SyncOf(p) = {}
    BY <1>4, <1>5
  <2>. QED BY <2>2, <2>3, <2>4, <1>3, WakeFrame
<1>6. CASE SyncOf(q) # {}
  <2>1. pc' = [pc EXCEPT ![th] = "signal"] /\ target' = target
    BY <1>3, <1>6
  <2>2. pc'[th] = "signal" /\ \A x \in Threads : x # th => pc'[x] = pc[x]
    BY <2>1 DEF TypeOK
  <2> SUFFICES ASSUME NEW s \in Sleepers
               PROVE  /\ asleep'[s] => pc'[s] = "wait" /\ read'[s] = write'[s]
                      /\ \A p \in Fifos : SyncOf(p) = {s} /\ fifo'[p] # <<>> =>
                           read'[s] # write'[s] \/ Signalled(s)' \/ WillPerform(s, p)'
    BY DEF WakeOK
  <2>3. s \in Threads
    BY ThreadFacts DEF Sleepers
  <2>4. Signalled(s) => Signalled(s)'
    BY <2>1, <2>2, <1>3 DEF Signalled
  <2>5. \A p \in Fifos : WillPerform(s, p) => WillPerform(s, p)'
    BY <2>2, <2>3, <1>3 DEF WillPerform
  <2>6. SyncOf(q) = {s} => Signalled(s)'
    BY <2>1, <2>2, <1>2 DEF Signalled
  <2>7. asleep'[s] => pc'[s] = "wait" /\ read'[s] = write'[s]
    BY <2>2, <2>3, <1>3 DEF WakeOK, sync
  <2>. QED BY <2>4, <2>5, <2>6, <2>7, <1>3, <1>4 DEF WakeOK, sync
<1>. QED BY <1>5, <1>6

LEMMA WakeSignal ==
    ASSUME EngineInv, WakeOK, NEW th \in Threads, Signal(th), CountersApart
    PROVE  WakeOK'
<1> USE DEF EngineInv
<1>1. pc[th] = "signal" /\ Resume(th) /\ UNCHANGED <<fifo, read, from>>
  BY DEF Signal
<1>2. PICK z \in Sleepers : /\ SyncOf(target[th]) = {z}
                            /\ write' = [write EXCEPT ![z] = (@ + 1) % CounterMod]
                            /\ asleep' = [asleep EXCEPT ![z] = FALSE]
  BY DEF Signal, SyncOf, Sleepers
<1>3. /\ pc'[th] \in {"await", "idle", "sched", "advance", "perform"}
      /\ \A x \in Threads : x # th =>
           pc'[x] = pc[x] /\ job'[x] = job[x] /\ target'[x] = target[x]
  BY <1>1, ResumeFacts
<1> SUFFICES ASSUME NEW s \in Sleepers
             PROVE  /\ asleep'[s] => pc'[s] = "wait" /\ read'[s] = write'[s]
                    /\ \A p \in Fifos : SyncOf(p) = {s} /\ fifo'[p] # <<>> =>
                         read'[s] # write'[s] \/ Signalled(s)' \/ WillPerform(s, p)'
  BY DEF WakeOK
<1>4. s \in Threads
  BY ThreadFacts DEF Sleepers
<1>5. CASE s = z
  <2>1. write[s] \in Int /\ 0 <= write[s] /\ write[s] < CounterMod
    BY CounterModAssumption DEF TypeOK
  <2>2. write'[s] = (write[s] + 1) % CounterMod /\ ~asleep'[s]
    BY <1>2, <1>5 DEF TypeOK
  <2>3. write'[s] # write[s]
    BY <2>1, <2>2, CounterModAssumption
  <2>4. write'[s] # read[s]
    BY <2>3 DEF CountersApart
  <2>. QED BY <2>2, <2>4, <1>1
<1>6. CASE s # z
  <2>1. write'[s] = write[s] /\ asleep'[s] = asleep[s]
    BY <1>2, <1>6 DEF TypeOK
  <2>2. Signalled(s) => Signalled(s)'
    BY <1>1, <1>2, <1>3, <1>6 DEF Signalled
  <2>3. \A p \in Fifos : WillPerform(s, p) => WillPerform(s, p)'
    BY <1>1, <1>3, <1>4 DEF WillPerform
  <2>4. asleep'[s] => pc'[s] = "wait" /\ read'[s] = write'[s]
    BY <2>1, <1>1, <1>3, <1>4 DEF WakeOK
  <2>. QED BY <2>1, <2>2, <2>3, <2>4, <1>1 DEF WakeOK
<1>. QED BY <1>5, <1>6

LEMMA WakeWait ==
    ASSUME EngineInv, WakeOK, NEW th \in Sleepers, Wait(th)
    PROVE  WakeOK'
<1> USE DEF EngineInv
<1>0. th \in Threads /\ th \in Engine /\ (th = "nrt" \/ th = "fast")
  BY DEF Sleepers, Threads, Engine
<1>1. pc[th] = "wait" /\ ~asleep[th] /\ UNCHANGED <<fifo, write, target>>
  BY DEF Wait
<1> SUFFICES ASSUME NEW s \in Sleepers
             PROVE  /\ asleep'[s] => pc'[s] = "wait" /\ read'[s] = write'[s]
                    /\ \A p \in Fifos : SyncOf(p) = {s} /\ fifo'[p] # <<>> =>
                         read'[s] # write'[s] \/ Signalled(s)' \/ WillPerform(s, p)'
  BY DEF WakeOK
<1>2. CASE read[th] = write[th]
  <2>1. asleep' = [asleep EXCEPT ![th] = TRUE] /\ UNCHANGED <<read, pc, from>>
    BY <1>2 DEF Wait
  <2>2. Signalled(s)' <=> Signalled(s)
    BY <2>1, <1>1 DEF Signalled
  <2>3. \A p \in Fifos : WillPerform(s, p)' <=> WillPerform(s, p)
    BY <2>1 DEF WillPerform
  <2>4. asleep'[s] => pc'[s] = "wait" /\ read'[s] = write'[s]
    BY <2>1, <1>1, <1>2 DEF WakeOK, TypeOK
  <2>. QED BY <2>1, <2>2, <2>3, <2>4, <1>1 DEF WakeOK
<1>3. CASE read[th] # write[th]
  <2>1. /\ read' = [read EXCEPT ![th] = (@ + 1) % CounterMod]
        /\ from' = [from EXCEPT ![th] = IF th = "nrt" THEN "fromEngine" ELSE "fastFromEngine"]
        /\ pc' = [pc EXCEPT ![th] = "perform"] /\ UNCHANGED asleep
    BY <1>3 DEF Wait, Go
  <2>2. /\ pc'[th] = "perform" /\ \A x \in Threads : x # th => pc'[x] = pc[x]
        /\ from'[th] = (IF th = "nrt" THEN "fromEngine" ELSE "fastFromEngine")
        /\ \A x \in Engine : x # th => from'[x] = from[x]
        /\ \A x \in Sleepers : x # th => read'[x] = read[x]
    BY <1>0, <2>1 DEF TypeOK
  <2>3. CASE s = th
    <3>1. \A p \in Fifos : SyncOf(p) = {s} => WillPerform(s, p)'
      <4>1. \A p \in Fifos : SyncOf(p) = {"nrt"} => p = "fromEngine"
        BY SyncOfFacts DEF Fifos
      <4>. QED BY <2>2, <2>3, <4>1, <1>0 DEF WillPerform
    <3>. QED BY <2>1, <2>3, <3>1, <1>1
  <2>4. CASE s # th
    <3>1. s \in Threads /\ s \in Engine
      BY DEF Sleepers, Threads, Engine
    <3>2. Signalled(s) => Signalled(s)'
      BY <2>2, <1>1 DEF Signalled
    <3>3. \A p \in Fifos : WillPerform(s, p) => WillPerform(s, p)'
      BY <2>2, <2>4, <3>1 DEF WillPerform
    <3>. QED BY <2>1, <2>2, <2>4, <3>1, <3>2, <3>3, <1>1 DEF WakeOK
  <2>. QED BY <2>3, <2>4
<1>. QED BY <1>2, <1>3

\* A thread goes back to condition-wait, or from one of its FIFOs to the
\* other, when it has found the FIFO empty.
LEMMA WakeLoopStep ==
    ASSUME EngineInv, WakeOK, LoopStep
    PROVE  WakeOK'
<1> USE DEF EngineInv
<1>0. UNCHANGED <<fifo, sync, job, target>>
  BY DEF LoopStep, NrtDone, FastLock, FastDone, RtBlock, RtSched, RtTick
<1>1. \A th \in Threads : pc[th] = "signal" => pc'[th] = "signal" /\ target'[th] = target[th]
  BY <1>0, ThreadFacts DEF LoopStep, NrtDone, FastLock, FastDone, RtBlock, RtSched, RtTick, Performed, Go, TypeOK
<1>2. CASE RtBlock \/ RtSched \/ RtTick
  <2>1. \A s \in Sleepers : ((pc[s] = "wait") <=> (pc'[s] = "wait")) /\ from'[s] = from[s]
    BY <1>2, ThreadFacts DEF RtBlock, RtSched, RtTick, Go, TypeOK, Sleepers, Engine
  <2>. QED BY <2>1, <1>0, <1>1, WakeFrame
<1>3. CASE NrtDone \/ FastLock \/ FastDone
  <2> SUFFICES ASSUME NEW s \in Sleepers
               PROVE  /\ asleep'[s] => pc'[s] = "wait" /\ read'[s] = write'[s]
                      /\ \A p \in Fifos : SyncOf(p) = {s} /\ fifo'[p] # <<>> =>
                           read'[s] # write'[s] \/ Signalled(s)' \/ WillPerform(s, p)'
    BY DEF WakeOK
  <2>1. s \in Threads /\ s \in Engine
    BY DEF Sleepers, Threads, Engine
  <2>2. Signalled(s) => Signalled(s)'
    BY <1>0, <1>1 DEF Signalled
  <2>3. asleep'[s] => pc'[s] = "wait" /\ read'[s] = write'[s]
    BY <1>0, <1>3, <2>1, ThreadFacts DEF WakeOK, sync, NrtDone, FastLock, FastDone, Performed, Go, TypeOK
  <2>4. ASSUME NEW p \in Fifos, SyncOf(p) = {s}, fifo[p] # <<>>, WillPerform(s, p)
        PROVE  WillPerform(s, p)'
    <3>1. s = "nrt" <=> p = "fromEngine"
      BY <2>4, SyncOfFacts DEF Fifos
    <3>2. s = "fast" <=> p \in {"fromWorld", "fastFromEngine"}
      BY <2>4, SyncOfFacts DEF Fifos
    <3>3. CASE NrtDone
      BY <2>1, <2>4, <3>1, <3>3, ThreadFacts DEF NrtDone, Performed, Go, WillPerform, ControlOK, TypeOK
    <3>4. CASE FastLock
      BY <2>1, <2>4, <3>2, <3>4, ThreadFacts DEF FastLock, Performed, WillPerform, TypeOK
    <3>5. CASE FastDone
      BY <2>1, <2>4, <3>2, <3>5, ThreadFacts DEF FastDone, Performed, Go, WillPerform, TypeOK
    <3>. QED BY <3>3, <3>4, <3>5, <1>3
  <2>. QED BY <2>2, <2>3, <2>4, <1>0 DEF WakeOK, sync
<1>. QED BY <1>2, <1>3 DEF LoopStep

LEMMA WakeNext == EngineInv /\ WakeOK /\ [Next]_vars /\ [CountersApart]_vars => WakeOK'
<1> SUFFICES ASSUME EngineInv, WakeOK, [Next]_vars, [CountersApart]_vars PROVE WakeOK'
  OBVIOUS
<1> USE DEF EngineInv
<1>0. \A s \in Sleepers : s \in Threads /\ s \in Engine
  BY DEF Sleepers, Threads, Engine
<1>1. ASSUME NEW t \in Tasks, StartTask(t) PROVE WakeOK'
  <2>1. PICK th \in Threads : th = Caller[t] /\ th \notin Sleepers
    BY RouteFacts, TasksAssumption, ThreadFacts DEF Sleepers
  <2>2. /\ pc[th] \in {"sched", "idle"} /\ UNCHANGED <<fifo, sync, from>>
        /\ \A x \in Threads : x # th => pc'[x] = pc[x] /\ target'[x] = target[x]
    BY <1>1, <2>1 DEF StartTask, Funcall, Go, TypeOK
  <2>. QED BY <1>0, <2>1, <2>2, WakeFrame
<1>2. ASSUME NEW th \in Threads, Acquire(th) PROVE WakeOK'
  <2>1. /\ pc[th] = "acquire" /\ pc'[th] = "enqueue" /\ UNCHANGED <<fifo, sync, from, target>>
        /\ \A x \in Threads : x # th => pc'[x] = pc[x]
    BY <1>2 DEF Acquire, Go, TypeOK
  <2>. QED BY <1>0, <2>1, WakeFrame
<1>3. ASSUME NEW th \in Threads, Signal(th) PROVE WakeOK'
  <2>1. CASE CountersApart
    BY <1>3, <2>1, WakeSignal
  <2>2. CASE UNCHANGED vars
    BY <1>0, <2>2, WakeFrame DEF vars, place
  <2>. QED BY <2>1, <2>2
<1>4. ASSUME NEW th \in Threads, Operation(th) PROVE WakeOK'
  BY <1>2, <1>3, <1>4, WakeEnqueue DEF Operation
<1>5. ASSUME NEW th \in Engine, Perform(th) PROVE WakeOK'
  <2>1. th \in Threads /\ pc[th] = "perform"
    BY <1>5 DEF Threads, Perform
  <2>2. /\ pc'[th] = "call" /\ UNCHANGED <<sync, from, target>>
        /\ \A x \in Threads : x # th => pc'[x] = pc[x]
        /\ \A q \in Fifos : fifo'[q] # <<>> => fifo[q] # <<>>
    BY <1>5, <2>1 DEF Perform, Go, TypeOK
  <2>. QED BY <1>0, <2>1, <2>2, WakeFrame
<1>6. ASSUME NEW th \in Engine, Call(th) PROVE WakeOK'
  <2>1. th \in Threads /\ pc[th] = "call" /\ UNCHANGED <<fifo, sync, from>>
    BY <1>6 DEF Threads, Call
  <2>2. /\ pc'[th] \notin {"call", "wait"}
        /\ \A x \in Threads : x # th => pc'[x] = pc[x] /\ target'[x] = target[x]
    <3>1. CASE Resume(th)
      BY <2>1, <3>1, ResumeFacts
    <3>2. CASE ~Resume(th)
      BY <1>6, <2>1, <3>2 DEF Call, Funcall, Go, TypeOK
    <3>. QED BY <3>1, <3>2
  <2>. QED BY <1>0, <2>1, <2>2, WakeFrame
<1>7. CASE Advance("fast")
  <2>1. /\ pc["fast"] = "advance" /\ pc'["fast"] = "perform" /\ UNCHANGED <<sync, from, target>>
        /\ \A x \in Threads : x # "fast" => pc'[x] = pc[x]
        /\ \A q \in Fifos : q # "fromWorld" => fifo'[q] = fifo[q]
    BY <1>7, ThreadFacts DEF Advance, Go, TypeOK
  <2>2. fifo["fromWorld"] # <<>>
    BY <2>1 DEF FastOK, Performing, ControlOK
  <2>. QED BY <1>0, <2>1, <2>2, WakeFrame
<1>8. ASSUME NEW w \in Worlds, Await(w) PROVE WakeOK'
  <2>1. w \in Threads /\ w \notin Sleepers
    BY ThreadFacts DEF Sleepers
  <2>2. /\ pc[w] = "await" /\ UNCHANGED <<fifo, sync, from, target>>
        /\ \A x \in Threads : x # w => pc'[x] = pc[x]
    BY <1>8, <2>1 DEF Await, Go, TypeOK
  <2>. QED BY <1>0, <2>1, <2>2, WakeFrame
<1>9. CASE RtStep
  BY <1>4, <1>5, <1>6, <1>9, ThreadFacts, WakeLoopStep DEF RtStep, LoopStep, Engine
<1>10. CASE NrtStep
  BY <1>4, <1>5, <1>6, <1>10, ThreadFacts, WakeWait, WakeLoopStep DEF NrtStep, LoopStep, Engine, Sleepers
<1>11. CASE FastStep
  BY <1>4, <1>5, <1>6, <1>7, <1>11, ThreadFacts, WakeWait, WakeLoopStep
     DEF FastStep, LoopStep, Engine, Sleepers
<1>12. ASSUME NEW w \in Worlds, WorldStep(w) PROVE WakeOK'
  BY <1>4, <1>8, <1>12, ThreadFacts DEF WorldStep
<1>13. CASE UNCHANGED vars
  BY <1>0, <1>13, WakeFrame DEF vars, place
<1>. QED BY <1>1, <1>9, <1>10, <1>11, <1>12, <1>13 DEF Next

\* The two ways in which the threads wait are sound together, as long as
\* fewer signals than the counters of a sync condition can count (2^24) are
\* waiting for a thread.
THEOREM NoWakeupLost == Spec /\ [][CountersApart]_vars => []SyncInv
<1>1. Init => WakeOK
  BY DEF Init, WakeOK
<1>2. EngineInv /\ WakeOK => SyncInv
  BY DEF EngineInv, WakeOK, SyncInv, LockHeld, JobOK, FastOK, NoLostWakeup, Signalled, WillPerform
<1>. QED BY <1>1, <1>2, EngineInit, EngineNext, WakeNext, PTL DEF Spec
==============================================================================
