------------------------ MODULE ApprovalEvents_proofs ------------------------
(***************************************************************************)
(* Proofs about ApprovalEvents, for any number of rows, instances and      *)
(* events, and any bounds.                                                 *)
(*                                                                         *)
(* An event that is worked on belongs to an instance that exists, and an   *)
(* instance that exists gets no new rows (World).  So the rows the worker  *)
(* has found are all there will be, and those it has not written yet are   *)
(* behind what it has read (JobRight): when it marks the event, every row  *)
(* shows what the event said, or later.  That the worker is alone is used  *)
(* once: nobody else writes a fact between its reading and its writing.    *)
(***************************************************************************)
EXTENDS ApprovalEvents, SequenceTheorems, TLAPS

Ev == [inst : Instances, version : 1 .. MaxVersion, processed : BOOLEAN, retries : 0 .. MaxRetries]

Shows(r, n) == fact[r].inst = inbox[n].inst /\ fact[r].version >= inbox[n].version

(* A row of an instance is reached through the group or the row that knows the instance. *)
LinkRight == \A r \in Records : owner[r] # None => link[owner[r]] # "none"

(* Nothing is ahead of the instance it is about. *)
EventRight == \A n \in Received : inbox[n].version <= version[inbox[n].inst]
FactRight ==
  \A r \in Records : fact[r].inst # None =>
    1 <= version[fact[r].inst] /\ fact[r].version <= version[fact[r].inst]

(* What the worker holds is still in the queue. *)
QueueRight ==
  /\ job.batch \subseteq Pending
  /\ job.event \notin job.batch
  /\ job.pc \notin {"idle", "next"} => job.event \in Pending

(* What the worker knows of the rows of the event it works on. *)
JobRight ==
  /\ job.pc = "fetch" => Rows(Current) \subseteq job.todo
  /\ job.pc \in {"fetch", "write"} =>
       \A r \in job.todo : owner[r] \in {Current, None} \/ fact[r].inst # owner[r]
  /\ job.pc = "write" =>
       /\ inbox[job.event].version <= job.seen /\ job.seen <= version[Current]
       /\ \A r \in Rows(Current) \ job.todo : Shows(r, job.event)
       /\ \A r \in job.todo : fact[r].inst = Current => fact[r].version <= job.seen
  /\ job.pc = "done" => \A r \in Rows(Current) : Shows(r, job.event)

IInv ==
  /\ TypeOK
  /\ LinkRight /\ EventRight /\ FactRight
  /\ QueueRight /\ JobRight
  /\ ProcessedIsRecorded

(* No status of a row of an instance is taken back. *)
Forward ==
  \A r \in Records :
    fact[r].inst = owner[r] /\ owner'[r] = owner[r] /\ owner[r] # None =>
      fact'[r].inst = fact[r].inst /\ fact'[r].version >= fact[r].version
---------------------------------------------------------------------------
LEMMA Typed ==
  ASSUME TypeOK
  PROVE  /\ Len(inbox) \in Nat
         /\ \A n \in Received : inbox[n] \in Ev
         /\ \A n \in Received : inbox[n].inst \in Instances /\ inbox[n].version \in Nat
                                /\ inbox[n].version >= 1
         /\ \A i \in Instances : version[i] \in Nat
         /\ \A r \in Records : fact[r].version \in Nat /\ fact[r].inst \in Instances \cup {None}
         /\ \A r \in Records : owner[r] \in Instances \cup {None}
         /\ job.seen \in Nat /\ job.event \in Nat
<1> USE BoundAssumption
<1>1. inbox \in Seq(Ev)
  BY DEF TypeOK, Ev
<1>2. Len(inbox) \in Nat /\ (\A n \in Received : inbox[n] \in Ev)
  BY <1>1 DEF Received
<1>3. \A n \in Received : inbox[n].inst \in Instances /\ inbox[n].version \in Nat
                            /\ inbox[n].version >= 1
  BY <1>2 DEF Ev
<1>4. /\ version \in [Instances -> 0 .. MaxVersion]
      /\ fact \in [Records -> [inst : Instances \cup {None}, version : 0 .. MaxVersion]]
      /\ owner \in [Records -> Instances \cup {None}]
  BY DEF TypeOK
<1>5. \A r \in Records : fact[r] \in [inst : Instances \cup {None}, version : 0 .. MaxVersion]
  BY <1>4
<1>6. \A r \in Records : fact[r].version \in Nat /\ fact[r].inst \in Instances \cup {None}
  BY <1>5
<1>7. (\A i \in Instances : version[i] \in Nat) /\ (\A r \in Records : owner[r] \in Instances \cup {None})
  BY <1>4
<1>8. job.seen \in Nat /\ job.event \in Nat
  BY DEF TypeOK
<1> QED BY <1>2, <1>3, <1>6, <1>7, <1>8
---------------------------------------------------------------------------
(* What happens outside the worker *)

(* The instances go on, events come in, rows leave; only an instance that does not exist yet gets rows. *)
World ==
  /\ fact' = fact /\ job' = job
  /\ \A i \in Instances : version[i] <= version'[i]
  /\ \A r \in Records : \/ owner'[r] \in {owner[r], None}
                        \/ owner'[r] \in Instances /\ version[owner'[r]] = 0
  /\ Len(inbox) <= Len(inbox')
  /\ \A n \in Received : inbox'[n] = inbox[n]
  /\ \A n \in Received' \ Received :
       ~inbox'[n].processed /\ inbox'[n].version <= version'[inbox'[n].inst]

LEMMA WorldKeeps ==
  ASSUME IInv, World, TypeOK', LinkRight'
  PROVE  IInv' /\ Forward
<1> USE NoneAssumption
<1>1. /\ fact' = fact /\ job' = job
      /\ \A i \in Instances : version[i] <= version'[i]
      /\ \A r \in Records : \/ owner'[r] \in {owner[r], None}
                            \/ owner'[r] \in Instances /\ version[owner'[r]] = 0
      /\ Len(inbox) <= Len(inbox')
      /\ \A n \in Received : inbox'[n] = inbox[n]
      /\ \A n \in Received' \ Received :
           ~inbox'[n].processed /\ inbox'[n].version <= version'[inbox'[n].inst]
  BY DEF World
<1>2. /\ Len(inbox) \in Nat
      /\ \A n \in Received : inbox[n].inst \in Instances /\ inbox[n].version \in Nat
                             /\ inbox[n].version >= 1
      /\ \A i \in Instances : version[i] \in Nat
      /\ \A r \in Records : fact[r].version \in Nat /\ fact[r].inst \in Instances \cup {None}
      /\ \A r \in Records : owner[r] \in Instances \cup {None}
      /\ job.seen \in Nat /\ job.event \in Nat
  BY Typed DEF IInv
<1>3. /\ Len(inbox') \in Nat
      /\ \A i \in Instances : version'[i] \in Nat
  <2>1. version' \in [Instances -> 0 .. MaxVersion] /\ inbox' \in Seq(Ev)
    BY DEF TypeOK, Ev
  <2> QED BY <2>1, BoundAssumption
<1>4. Received \subseteq Received'
  BY <1>1, <1>2, <1>3 DEF Received
<1>5. \A n \in Received : 1 <= version[inbox[n].inst] /\ inbox[n].version <= version[inbox[n].inst]
  BY <1>2 DEF IInv, EventRight
<1>6. \A n \in Received : \A r \in Records : owner'[r] = inbox[n].inst => owner[r] = inbox[n].inst
  BY <1>1, <1>2, <1>5
<1>7. EventRight'
  <2> SUFFICES ASSUME NEW n \in Received'
               PROVE  inbox'[n].version <= version'[inbox'[n].inst]
    BY DEF EventRight
  <2>1. CASE n \in Received
    BY <2>1, <1>1, <1>2, <1>3, <1>5
  <2>2. CASE n \notin Received
    BY <2>2, <1>1
  <2> QED BY <2>1, <2>2
<1>8. FactRight'
  BY <1>1, <1>2, <1>3 DEF IInv, FactRight
<1>9. QueueRight'
  <2>1. Pending \subseteq Pending'
    BY <1>1, <1>4 DEF Pending
  <2> QED BY <2>1, <1>1 DEF IInv, QueueRight
<1>10. ProcessedIsRecorded'
  <2> SUFFICES ASSUME NEW n \in Received', inbox'[n].processed, inbox'[n].retries < MaxRetries,
                      NEW r \in Records, owner'[r] = inbox'[n].inst
               PROVE  fact'[r].inst = inbox'[n].inst /\ fact'[r].version >= inbox'[n].version
    BY DEF ProcessedIsRecorded, Rows
  <2>1. n \in Received /\ inbox'[n] = inbox[n]
    BY <1>1
  <2>2. r \in Rows(inbox[n].inst)
    BY <2>1, <1>6 DEF Rows
  <2> QED BY <2>1, <2>2, <1>1 DEF IInv, ProcessedIsRecorded
<1>11. JobRight'
  <2>1. CASE job.pc \notin {"fetch", "write", "done"}
    BY <2>1, <1>1 DEF JobRight
  <2>2. CASE job.pc \in {"fetch", "write", "done"}
    <3>1. job.event \in Received /\ inbox'[job.event] = inbox[job.event] /\ Current' = Current
      BY <2>2, <1>1 DEF IInv, QueueRight, Pending, Current
    <3>2. Rows(Current)' \subseteq Rows(Current)
      BY <3>1, <1>6 DEF Rows, Current
    <3>3. \A r \in Records : owner'[r] \notin {Current, None} =>
            owner'[r] = owner[r] \/ fact[r].inst # owner'[r]
      <4> SUFFICES ASSUME NEW r \in Records, owner'[r] \in Instances, version[owner'[r]] = 0
                   PROVE  fact[r].inst # owner'[r]
        BY <1>1
      <4> QED BY <1>2 DEF IInv, FactRight
    <3>4. job.pc \in {"fetch", "write"} =>
            \A r \in job.todo : owner'[r] \in {Current, None} \/ fact[r].inst # owner'[r]
      <4>1. job.todo \subseteq Records
        BY DEF IInv, TypeOK
      <4> QED BY <4>1, <3>3, <1>1 DEF IInv, JobRight
    <3>5. Current \in Instances /\ version[Current] <= version'[Current]
      BY <3>1, <1>1, <1>2 DEF Current
    <3>6. job.pc = "write" => job.seen <= version'[Current]
      BY <3>5, <1>2, <1>3 DEF IInv, JobRight
    <3> QED BY <3>1, <3>2, <3>4, <3>6, <1>1 DEF IInv, JobRight, Shows
  <2> QED BY <2>1, <2>2
<1>12. Forward
  BY <1>1, <1>2 DEF Forward
<1> QED BY <1>7, <1>8, <1>9, <1>10, <1>11, <1>12 DEF IInv

LEMMA OutsideKeeps ==
  ASSUME IInv, Outside
  PROVE  IInv' /\ Forward
<1> USE NoneAssumption, BoundAssumption
<1>1. TypeOK /\ LinkRight
  BY DEF IInv
<1>2. Len(inbox) \in Nat /\ inbox \in Seq(Ev) /\ (\A i \in Instances : version[i] \in Nat)
  BY <1>1, Typed DEF TypeOK, Ev
<1>3. ASSUME NEW i \in Instances, NEW rows \in SUBSET Records, Begins(i, rows)
      PROVE  World /\ TypeOK' /\ LinkRight'
  <2>1. /\ version[i] = 0 /\ link' = [link EXCEPT ![i] = "uuid"]
        /\ owner' = [r \in Records |-> IF r \in rows THEN i ELSE owner[r]]
        /\ UNCHANGED <<version, fact, inbox, job, faults>>
    BY <1>3 DEF Begins
  <2>2. World
    BY <2>1, <1>2 DEF World, Received
  <2>3. TypeOK'
    BY <2>1, <1>1 DEF TypeOK, Received, Pending
  <2>4. LinkRight'
    BY <2>1, <1>1 DEF LinkRight, TypeOK
  <2> QED BY <2>2, <2>3, <2>4
<1>4. ASSUME NEW i \in Instances, CodeIsStored(i)
      PROVE  World /\ TypeOK' /\ LinkRight'
  <2>1. link' = [link EXCEPT ![i] = "code"] /\ UNCHANGED <<version, owner, fact, inbox, job, faults>>
    BY <1>4 DEF CodeIsStored
  <2>2. World
    BY <2>1, <1>2 DEF World, Received
  <2>3. TypeOK'
    BY <2>1, <1>1 DEF TypeOK, Received, Pending
  <2>4. LinkRight'
    BY <2>1, <1>1 DEF LinkRight, TypeOK
  <2> QED BY <2>2, <2>3, <2>4
<1>5. ASSUME NEW i \in Instances, Changes(i)
      PROVE  World /\ TypeOK' /\ LinkRight'
  <2>1. /\ version[i] < MaxVersion /\ version' = [version EXCEPT ![i] = @ + 1]
        /\ UNCHANGED <<link, owner, fact, inbox, job, faults>>
    BY <1>5 DEF Changes
  <2>2. version' \in [Instances -> 0 .. MaxVersion] /\ (\A j \in Instances : version[j] <= version'[j])
    BY <2>1, <1>1, <1>2 DEF TypeOK
  <2>3. World
    BY <2>1, <2>2, <1>2 DEF World, Received
  <2>4. TypeOK'
    BY <2>1, <2>2, <1>1 DEF TypeOK, Received, Pending
  <2>5. LinkRight'
    BY <2>1, <1>1 DEF LinkRight
  <2> QED BY <2>3, <2>4, <2>5
<1>6. ASSUME NEW i \in Instances, NEW v \in 1 .. MaxVersion, Receives(i, v)
      PROVE  World /\ TypeOK' /\ LinkRight'
  <2> DEFINE q == [inst |-> i, version |-> v, processed |-> FALSE, retries |-> 0]
  <2>1. /\ v \in 1 .. version[i] /\ inbox' = Append(inbox, q)
        /\ UNCHANGED <<version, link, owner, fact, job, faults>>
    BY <1>6 DEF Receives
  <2>2. q \in Ev /\ ~q.processed /\ q.retries = 0 /\ q.version <= version[q.inst]
    BY <2>1, <1>2 DEF Ev
  <2> HIDE DEF q
  <2>3. /\ inbox' \in Seq(Ev) /\ Len(inbox') = Len(inbox) + 1
        /\ \A n \in 1 .. Len(inbox) : inbox'[n] = inbox[n]
        /\ inbox'[Len(inbox) + 1] = q
    BY <2>1, <2>2, <1>2, AppendProperties
  <2>4. Received' = Received \cup {Len(inbox) + 1} /\ Len(inbox) + 1 \notin Received
    BY <2>3, <1>2 DEF Received
  <2>5. World
    BY <2>1, <2>2, <2>3, <2>4, <1>2 DEF World, Received
  <2>6. \A n \in Pending' : inbox'[n].retries < MaxRetries
    <3> SUFFICES ASSUME NEW n \in Received', ~inbox'[n].processed
                 PROVE  inbox'[n].retries < MaxRetries
      BY DEF Pending
    <3>1. CASE n \in Received
      <4>1. inbox'[n] = inbox[n]
        BY <3>1, <2>3 DEF Received
      <4> QED BY <3>1, <4>1, <1>1 DEF Pending, TypeOK
    <3>2. CASE n = Len(inbox) + 1
      BY <3>2, <2>2, <2>3
    <3> QED BY <3>1, <3>2, <2>4
  <2>7. TypeOK'
    BY <2>1, <2>3, <2>4, <2>6, <1>1 DEF TypeOK, Ev
  <2>8. LinkRight'
    BY <2>1, <1>1 DEF LinkRight
  <2> QED BY <2>5, <2>7, <2>8
<1>7. ASSUME NEW r \in Records, Leaves(r)
      PROVE  World /\ TypeOK' /\ LinkRight'
  <2> DEFINE i == owner[r]
  <2>1. /\ i \in Instances /\ owner' = [owner EXCEPT ![r] = None]
        /\ link' = (IF Rows(i) = {r} THEN [link EXCEPT ![i] = "none"] ELSE link)
        /\ UNCHANGED <<version, fact, inbox, job, faults>>
    BY <1>7, <1>1 DEF Leaves, TypeOK
  <2> HIDE DEF i
  <2>2. \A s \in Records : owner'[s] = IF s = r THEN None ELSE owner[s]
    BY <2>1, <1>1 DEF TypeOK
  <2>3. World
    BY <2>1, <2>2, <1>2 DEF World, Received
  <2>4. owner' \in [Records -> Instances \cup {None}] /\ link' \in [Instances -> {"none", "uuid", "code"}]
    BY <2>1, <1>1 DEF TypeOK
  <2>5. TypeOK'
    BY <2>1, <2>4, <1>1 DEF TypeOK, Received, Pending
  <2>6. LinkRight'
    <3> SUFFICES ASSUME NEW s \in Records, owner'[s] # None
                 PROVE  link'[owner'[s]] # "none"
      BY DEF LinkRight
    <3>1. s # r /\ owner'[s] = owner[s] /\ link[owner[s]] # "none" /\ owner[s] \in Instances
      BY <2>2, <1>1 DEF LinkRight, TypeOK
    <3>2. Rows(i) = {r} => owner[s] # i
      BY <3>1 DEF Rows
    <3> QED BY <2>1, <3>1, <3>2, <1>1 DEF TypeOK
  <2> QED BY <2>3, <2>5, <2>6
<1> QED BY <1>3, <1>4, <1>5, <1>6, <1>7, WorldKeeps DEF Outside
---------------------------------------------------------------------------
(* The worker *)

(* A step of the worker that reads: nothing in the tables changes. *)
Reading ==
  /\ UNCHANGED <<version, link, owner, fact, inbox>>
  /\ TypeOK' /\ QueueRight' /\ JobRight'

LEMMA ReadingKeeps ==
  ASSUME IInv, Reading
  PROVE  IInv' /\ Forward
<1>1. LinkRight' /\ EventRight' /\ FactRight' /\ ProcessedIsRecorded'
  BY DEF IInv, Reading, LinkRight, EventRight, FactRight, ProcessedIsRecorded, Received, Rows
<1>2. Forward
  BY Typed DEF IInv, Reading, Forward
<1> QED BY <1>1, <1>2 DEF Reading, IInv

LEMMA RoundKeeps ==
  ASSUME IInv, Claims \/ Takes \/ Fails \/ IsRefused \/ Crash
  PROVE  IInv' /\ Forward
<1> USE NoneAssumption, BoundAssumption
<1>1. TypeOK /\ QueueRight /\ JobRight
  BY DEF IInv
<1>2. UNCHANGED <<version, link, owner, fact, inbox>>
  BY DEF Claims, Takes, Fails, IsRefused, Crash
<1>3. Received' = Received /\ Pending' = Pending
  BY <1>2 DEF Received, Pending
<1>4. Received \subseteq Nat \ {0}
  BY <1>1, Typed DEF Received
<1> DEFINE Places == {"idle", "next", "locate", "fetch", "write", "done", "failed", "refused"}
           Jobs == [pc : Places, batch : SUBSET Received, event : Nat, todo : SUBSET Records,
                    seen : 0 .. MaxVersion]
<1>5. job \in Jobs /\ (job.pc \in {"idle", "next"} \/ job.event \in Received) /\ faults \in 0 .. MaxFaults
  BY <1>1 DEF TypeOK
<1>6. /\ job' \in Jobs /\ job'.pc \notin {"fetch", "write", "done"}
      /\ job'.batch \subseteq Pending /\ job'.event \notin job'.batch
      /\ job'.pc \notin {"idle", "next"} => job'.event \in Pending
      /\ faults' \in 0 .. MaxFaults
  <2>1. CASE Claims
    <3>1. PICK batch \in SUBSET Pending : job' = [Idle EXCEPT !.pc = "next", !.batch = batch]
      BY <2>1 DEF Claims
    <3>2. Pending \subseteq Received
      BY DEF Pending
    <3>3. job' = [pc |-> "next", batch |-> batch, event |-> 0, todo |-> {}, seen |-> 0]
      BY <3>1 DEF Idle
    <3>4. 0 \notin batch
      BY <3>2, <1>4
    <3>5. job' \in Jobs
      BY <3>2, <3>3
    <3>6. faults' = faults /\ job'.pc = "next" /\ job'.batch = batch /\ job'.event = 0
      BY <2>1, <3>3 DEF Claims
    <3> QED BY <3>4, <3>5, <3>6, <1>5
  <2>2. CASE Takes
    <3>1. PICK n \in job.batch : job' = [Idle EXCEPT !.pc = "locate", !.batch = job.batch \ {n}, !.event = n]
      BY <2>2 DEF Takes
    <3>2. n \in Pending /\ n \in Received /\ n \in Nat /\ job.batch \subseteq Received /\ job.batch \subseteq Pending
      BY <3>1, <1>1, <1>4, <1>5 DEF QueueRight, Pending
    <3>3. job' = [pc |-> "locate", batch |-> job.batch \ {n}, event |-> n, todo |-> {}, seen |-> 0]
      BY <3>1 DEF Idle
    <3>4. job' \in Jobs
      BY <3>2, <3>3
    <3>5. faults' = faults /\ job'.pc = "locate" /\ job'.batch = job.batch \ {n} /\ job'.event = n
      BY <2>2, <3>3 DEF Takes
    <3> QED BY <3>2, <3>4, <3>5, <1>5
  <2>3. CASE Fails \/ IsRefused
    <3>1. PICK place \in {"failed", "refused"} : job' = [job EXCEPT !.pc = place]
      BY <2>3 DEF Fails, IsRefused, Goes
    <3>2. job.pc \notin {"idle", "next"} /\ faults' = faults
      BY <2>3 DEF Fails, IsRefused, At
    <3> QED BY <3>1, <3>2, <1>1, <1>5 DEF QueueRight
  <2>4. CASE Crash
    BY <2>4, <1>5, <1>4 DEF Crash, Faulty, Idle
  <2> QED BY <2>1, <2>2, <2>3, <2>4
<1>7. QueueRight'
  BY <1>3, <1>6 DEF QueueRight
<1>8. JobRight'
  BY <1>6 DEF JobRight
<1>9. TypeOK'
  <2>1. job'.pc \in {"idle", "next"} \/ job'.event \in Received
    BY <1>6 DEF Pending
  <2> QED BY <2>1, <1>1, <1>2, <1>3, <1>6 DEF TypeOK
<1> QED BY <1>2, <1>7, <1>8, <1>9, ReadingKeeps DEF Reading

(* Looking for the rows finds all there are. *)
LEMMA LocatesKeeps ==
  ASSUME IInv, Locates
  PROVE  IInv' /\ Forward
<1> USE NoneAssumption, BoundAssumption
<1>1. TypeOK /\ QueueRight /\ LinkRight
  BY DEF IInv
<1>2. /\ job.pc = "locate"
      /\ UNCHANGED <<version, link, owner, fact, inbox, faults>>
  BY DEF Locates, At
<1> DEFINE rows == IF Known THEN Rows(Current) ELSE {}
           place == IF Known /\ Rows(Current) # {} THEN "fetch" ELSE "done"
<1>3. job' = [job EXCEPT !.pc = place, !.todo = rows]
  BY DEF Locates
<1>4. rows \in SUBSET Records /\ place \in {"fetch", "done"} /\ rows \subseteq Rows(Current)
  BY DEF Rows
<1>5. Rows(Current) \subseteq rows
  BY <1>1, Typed, <1>2 DEF LinkRight, Known, Rows, QueueRight, Pending, Current
<1>6. place = "done" => Rows(Current) = {}
  BY <1>5
<1> HIDE DEF rows, place
<1>7. Received' = Received /\ Pending' = Pending
  BY <1>2 DEF Received, Pending
<1>8. /\ job'.pc = place /\ job'.todo = rows /\ job'.batch = job.batch /\ job'.event = job.event
      /\ job' \in [pc : {"idle", "next", "locate", "fetch", "write", "done", "failed", "refused"},
                   batch : SUBSET Received, event : Nat, todo : SUBSET Records, seen : 0 .. MaxVersion]
  BY <1>1, <1>3, <1>4 DEF TypeOK
<1>9. QueueRight'
  BY <1>1, <1>2, <1>7, <1>8 DEF QueueRight
<1>10. Current' = Current /\ Rows(Current)' = Rows(Current)
  BY <1>2, <1>8 DEF Current, Rows
<1>11. JobRight'
  BY <1>2, <1>4, <1>5, <1>6, <1>8, <1>10 DEF JobRight, Rows
<1>12. TypeOK'
  BY <1>1, <1>2, <1>7, <1>8, <1>9 DEF TypeOK, QueueRight, Pending
<1> QED BY <1>2, <1>9, <1>11, <1>12, ReadingKeeps DEF Reading

(* What is read is at least as late as the event, and as everything written so far. *)
LEMMA FetchesKeeps ==
  ASSUME IInv, Fetches
  PROVE  IInv' /\ Forward
<1> USE NoneAssumption, BoundAssumption
<1>1. TypeOK /\ QueueRight /\ JobRight /\ EventRight /\ FactRight
  BY DEF IInv
<1>2. /\ job.pc = "fetch" /\ job' = [job EXCEPT !.pc = "write", !.seen = version[Current]]
      /\ UNCHANGED <<version, link, owner, fact, inbox, faults>>
  BY DEF Fetches, At
<1>3. job.event \in Received /\ Current \in Instances /\ version[Current] \in 0 .. MaxVersion
  BY <1>1, <1>2, Typed DEF QueueRight, Pending, Current, TypeOK
<1> DEFINE seen == version[Current]
<1>4. inbox[job.event].version <= seen
  BY <1>1, <1>3 DEF EventRight, Current
<1>5. \A r \in Records : fact[r].inst = Current => fact[r].version <= seen
  BY <1>1, <1>3 DEF FactRight
<1> HIDE DEF seen
<1>6. Received' = Received /\ Pending' = Pending
  BY <1>2 DEF Received, Pending
<1>7. /\ job'.pc = "write" /\ job'.seen = seen /\ job'.todo = job.todo
      /\ job'.batch = job.batch /\ job'.event = job.event
      /\ job' \in [pc : {"idle", "next", "locate", "fetch", "write", "done", "failed", "refused"},
                   batch : SUBSET Received, event : Nat, todo : SUBSET Records, seen : 0 .. MaxVersion]
  BY <1>1, <1>2, <1>3 DEF TypeOK, seen
<1>8. Current' = Current /\ Rows(Current)' = Rows(Current) /\ version'[Current'] = seen
  BY <1>2, <1>7 DEF Current, Rows, seen
<1>9. QueueRight'
  BY <1>1, <1>2, <1>6, <1>7 DEF QueueRight
<1>10. JobRight'
  <2>1. job.todo \subseteq Records /\ Rows(Current) \subseteq job.todo
        /\ (\A r \in job.todo : owner[r] \in {Current, None} \/ fact[r].inst # owner[r])
    BY <1>1, <1>2 DEF JobRight, TypeOK
  <2>2. seen <= version'[Current']
    BY <1>3, <1>8 DEF seen
  <2> QED BY <1>2, <1>4, <1>5, <1>7, <1>8, <2>1, <2>2 DEF JobRight
<1>11. TypeOK'
  BY <1>1, <1>2, <1>3, <1>6, <1>7 DEF TypeOK
<1> QED BY <1>2, <1>9, <1>10, <1>11, ReadingKeeps DEF Reading

(* One row is written: forward if it is still the instance's; if it has left, it showed nothing of its new one. *)
LEMMA SavesKeeps ==
  ASSUME IInv, NEW r \in Records, Saves(r)
  PROVE  IInv' /\ Forward
<1> USE NoneAssumption, BoundAssumption
<1>1. TypeOK /\ QueueRight /\ JobRight /\ EventRight /\ FactRight /\ LinkRight /\ ProcessedIsRecorded
  BY DEF IInv
<1> DEFINE new == [inst |-> Current, version |-> job.seen]
           place == IF job.todo = {r} THEN "done" ELSE "write"
<1>2. /\ job.pc = "write" /\ r \in job.todo
      /\ fact' = [fact EXCEPT ![r] = new]
      /\ job' = [job EXCEPT !.todo = @ \ {r}, !.pc = place]
      /\ UNCHANGED <<version, link, owner, inbox, faults>>
  BY DEF Saves, At
<1>3. job.event \in Received /\ Current \in Instances /\ job.seen \in 0 .. MaxVersion
      /\ inbox[job.event].version \in Nat /\ inbox[job.event].version >= 1 /\ version[Current] \in Nat
  BY <1>1, <1>2, Typed DEF QueueRight, Pending, Current, TypeOK
<1>4. /\ inbox[job.event].version <= job.seen /\ job.seen <= version[Current]
      /\ \A s \in Rows(Current) \ job.todo : Shows(s, job.event)
      /\ \A s \in job.todo : fact[s].inst = Current => fact[s].version <= job.seen
      /\ \A s \in job.todo : owner[s] \in {Current, None} \/ fact[s].inst # owner[s]
  BY <1>1, <1>2 DEF JobRight
<1>5. new.inst = Current /\ new.version = job.seen
      /\ new \in [inst : Instances \cup {None}, version : 0 .. MaxVersion]
      /\ place \in {"write", "done"} /\ (place = "done" => job.todo = {r})
  BY <1>3
<1> HIDE DEF new, place
<1>6. \A s \in Records : fact'[s] = IF s = r THEN new ELSE fact[s]
  BY <1>1, <1>2 DEF TypeOK
<1>7. Received' = Received /\ Pending' = Pending /\ Current' = inbox[job'.event].inst
  BY <1>2 DEF Received, Pending, Current
<1>8. /\ job'.pc = place /\ job'.todo = job.todo \ {r} /\ job'.seen = job.seen
      /\ job'.batch = job.batch /\ job'.event = job.event
      /\ job' \in [pc : {"idle", "next", "locate", "fetch", "write", "done", "failed", "refused"},
                   batch : SUBSET Received, event : Nat, todo : SUBSET Records, seen : 0 .. MaxVersion]
  BY <1>1, <1>2, <1>5 DEF TypeOK
<1>9. Current' = Current /\ Rows(Current)' = Rows(Current) /\ version'[Current'] = version[Current]
  BY <1>2, <1>7, <1>8 DEF Current, Rows
<1>10. QueueRight'
  BY <1>1, <1>2, <1>7, <1>8 DEF QueueRight
<1>11. TypeOK'
  <2>1. fact' \in [Records -> [inst : Instances \cup {None}, version : 0 .. MaxVersion]]
    BY <1>1, <1>2, <1>5 DEF TypeOK
  <2>2. job'.pc \in {"idle", "next"} \/ job'.event \in Received
    BY <1>3, <1>8
  <2> QED BY <1>1, <1>2, <1>7, <1>8, <2>1, <2>2 DEF TypeOK
<1>12. LinkRight' /\ EventRight'
  BY <1>1, <1>2, <1>7 DEF LinkRight, EventRight
<1>13. FactRight'
  <2>1. 1 <= version[Current]
    BY <1>3, <1>4
  <2> QED BY <2>1, <1>1, <1>2, <1>4, <1>5, <1>6 DEF FactRight
<1>14. \A s \in Rows(Current) \ job'.todo : Shows(s, job.event)'
  <2> SUFFICES ASSUME NEW s \in Rows(Current), s \notin job'.todo
               PROVE  fact'[s].inst = Current /\ fact'[s].version >= inbox[job.event].version
    BY <1>2, <1>8 DEF Shows, Current
  <2>1. s \in Records
    BY DEF Rows
  <2>2. CASE s = r
    BY <2>1, <2>2, <1>3, <1>4, <1>5, <1>6
  <2>3. CASE s # r
    BY <2>1, <2>3, <1>4, <1>6, <1>8 DEF Shows, Current
  <2> QED BY <2>2, <2>3
<1>15. JobRight'
  <2>1. \A s \in job'.todo : s \in job.todo /\ s # r /\ fact'[s] = fact[s]
    BY <1>1, <1>6, <1>8 DEF TypeOK
  <2>2. \A s \in job'.todo : owner'[s] \in {Current, None} \/ fact'[s].inst # owner'[s]
    BY <2>1, <1>2, <1>4
  <2>3. \A s \in job'.todo : fact'[s].inst = Current => fact'[s].version <= job'.seen
    BY <2>1, <1>4, <1>8
  <2>4. place = "done" => \A s \in Rows(Current) : Shows(s, job.event)'
    BY <1>5, <1>8, <1>14
  <2>5. inbox'[job'.event].version <= job'.seen /\ job'.seen <= version'[Current']
    BY <1>2, <1>4, <1>8, <1>9
  <2>6. \A s \in Rows(Current)' : s \in Rows(Current)
    BY <1>9
  <2> QED BY <1>5, <1>8, <1>9, <1>14, <2>2, <2>3, <2>4, <2>5, <2>6 DEF JobRight, Shows
<1>16. ProcessedIsRecorded'
  <2> SUFFICES ASSUME NEW n \in Received, inbox[n].processed, inbox[n].retries < MaxRetries,
                      NEW s \in Records, owner[s] = inbox[n].inst
               PROVE  fact'[s].inst = inbox[n].inst /\ fact'[s].version >= inbox[n].version
    BY <1>2, <1>7 DEF ProcessedIsRecorded, Rows
  <2>1. fact[s].inst = inbox[n].inst /\ fact[s].version >= inbox[n].version
    BY <1>1 DEF ProcessedIsRecorded, Rows
  <2>2. CASE s # r
    BY <2>1, <2>2, <1>6
  <2>3. CASE s = r
    <3>1. inbox[n].inst \in Instances /\ inbox[n].version \in Nat /\ fact[s].version \in Nat
      BY <1>1, Typed
    <3>2. owner[s] = Current
      BY <2>1, <2>3, <3>1, <1>2, <1>4
    <3> QED BY <2>1, <2>3, <3>1, <3>2, <1>2, <1>3, <1>4, <1>5, <1>6
  <2> QED BY <2>2, <2>3
<1>17. Forward
  <2> SUFFICES ASSUME NEW s \in Records, fact[s].inst = owner[s], owner[s] # None
               PROVE  fact'[s].inst = fact[s].inst /\ fact'[s].version >= fact[s].version
    BY DEF Forward
  <2>1. fact[s].version \in Nat
    BY <1>1, Typed
  <2>2. CASE s # r
    BY <2>1, <2>2, <1>6
  <2>3. CASE s = r
    BY <2>1, <2>3, <1>2, <1>3, <1>4, <1>5, <1>6
  <2> QED BY <2>2, <2>3
<1> QED BY <1>10, <1>11, <1>12, <1>13, <1>15, <1>16, <1>17 DEF IInv
---------------------------------------------------------------------------
(* Marking *)

(* One event gets its mark, and the round goes on; or the mark is lost; or a person puts a dropped event
   back while the round goes on. *)
Marking ==
  /\ UNCHANGED <<version, link, owner, fact>>
  /\ Len(inbox') = Len(inbox)
  /\ \A n \in Received : inbox'[n].inst = inbox[n].inst /\ inbox'[n].version = inbox[n].version
  /\ \A n \in Received : ~inbox'[n].processed => inbox'[n].retries < MaxRetries
  /\ \A n \in Received :
       inbox'[n].processed /\ inbox'[n].retries < MaxRetries =>
         \/ inbox[n].processed /\ inbox[n].retries < MaxRetries
         \/ \A r \in Rows(inbox[n].inst) : Shows(r, n)
  /\ inbox' \in Seq(Ev)
  /\ faults' \in 0 .. MaxFaults
  /\ \/ job' = job /\ (\A n \in Pending : ~inbox'[n].processed)
     \/ /\ job' = [Idle EXCEPT !.pc = IF job.batch = {} THEN "idle" ELSE "next", !.batch = job.batch]
        /\ \A n \in job.batch : inbox'[n] = inbox[n]

LEMMA MarkingKeeps ==
  ASSUME IInv, Marking
  PROVE  IInv' /\ Forward
<1> USE NoneAssumption, BoundAssumption
<1>1. TypeOK /\ QueueRight /\ JobRight /\ EventRight /\ FactRight /\ LinkRight /\ ProcessedIsRecorded
  BY DEF IInv
<1>2. /\ UNCHANGED <<version, link, owner, fact>>
      /\ Received' = Received /\ inbox' \in Seq(Ev) /\ faults' \in 0 .. MaxFaults
      /\ \A n \in Received : inbox'[n].inst = inbox[n].inst /\ inbox'[n].version = inbox[n].version
      /\ \A n \in Received : ~inbox'[n].processed => inbox'[n].retries < MaxRetries
  BY DEF Marking, Received
<1>3. LinkRight' /\ EventRight' /\ FactRight'
  BY <1>1, <1>2 DEF LinkRight, EventRight, FactRight
<1>4. ProcessedIsRecorded'
  <2> SUFFICES ASSUME NEW n \in Received, inbox'[n].processed, inbox'[n].retries < MaxRetries,
                      NEW r \in Records, owner[r] = inbox[n].inst
               PROVE  fact[r].inst = inbox[n].inst /\ fact[r].version >= inbox[n].version
    BY <1>2 DEF ProcessedIsRecorded, Rows
  <2>1. \/ inbox[n].processed /\ inbox[n].retries < MaxRetries
        \/ \A s \in Rows(inbox[n].inst) : Shows(s, n)
    BY DEF Marking
  <2> QED BY <2>1, <1>1 DEF ProcessedIsRecorded, Rows, Shows
<1>5. Forward
  BY <1>1, <1>2, Typed DEF Forward
<1>6. CASE job' = job /\ (\A n \in Pending : ~inbox'[n].processed)
  <2>1. Pending \subseteq Pending'
    BY <1>2, <1>6 DEF Pending
  <2>2. QueueRight'
    BY <2>1, <1>1, <1>6 DEF QueueRight
  <2>3. JobRight'
    <3>1. CASE job.pc \notin {"fetch", "write", "done"}
      BY <3>1, <1>6 DEF JobRight
    <3>2. CASE job.pc \in {"fetch", "write", "done"}
      <4>1. job.event \in Received
        BY <3>2, <1>1 DEF QueueRight, Pending
      <4>2. Current' = Current /\ Rows(Current)' = Rows(Current)
            /\ inbox'[job.event].version = inbox[job.event].version
            /\ inbox'[job.event].inst = inbox[job.event].inst
        BY <4>1, <1>2, <1>6 DEF Current, Rows
      <4> QED BY <4>2, <1>1, <1>2, <1>6 DEF JobRight, Shows
    <3> QED BY <3>1, <3>2
  <2>4. TypeOK'
    BY <2>2, <1>1, <1>2, <1>6 DEF TypeOK, Pending, Ev
  <2> QED BY <1>3, <1>4, <1>5, <2>2, <2>3, <2>4 DEF IInv
<1>7. CASE /\ job' = [Idle EXCEPT !.pc = IF job.batch = {} THEN "idle" ELSE "next", !.batch = job.batch]
           /\ \A n \in job.batch : inbox'[n] = inbox[n]
  <2> DEFINE place == IF job.batch = {} THEN "idle" ELSE "next"
  <2>1. place \in {"idle", "next"}
    OBVIOUS
  <2>2. job' = [pc |-> place, batch |-> job.batch, event |-> 0, todo |-> {}, seen |-> 0]
    BY <1>7 DEF Idle
  <2> HIDE DEF place
  <2>3. /\ job'.pc \in {"idle", "next"} /\ job'.batch = job.batch /\ job'.event = 0
        /\ job' \in [pc : {"idle", "next", "locate", "fetch", "write", "done", "failed", "refused"},
                     batch : SUBSET Received, event : Nat, todo : SUBSET Records, seen : 0 .. MaxVersion]
    BY <2>1, <2>2, <1>1 DEF TypeOK
  <2>4. job.batch \subseteq Pending' /\ 0 \notin job.batch
    <3>1. job.batch \subseteq Pending /\ Len(inbox) \in Nat
      BY <1>1, Typed DEF QueueRight
    <3> QED BY <3>1, <1>2, <1>7 DEF Pending, Received
  <2>5. QueueRight' /\ JobRight'
    BY <2>3, <2>4 DEF QueueRight, JobRight
  <2>6. TypeOK'
    BY <2>3, <1>1, <1>2 DEF TypeOK, Pending, Ev
  <2> QED BY <1>3, <1>4, <1>5, <2>5, <2>6 DEF IInv
<1> QED BY <1>6, <1>7 DEF Marking

(* An event with other marks is still that event. *)
LEMMA Remarked ==
  ASSUME TypeOK, NEW e \in Received, NEW processed \in BOOLEAN, NEW retries \in 0 .. MaxRetries,
         inbox' = [inbox EXCEPT ![e].processed = processed, ![e].retries = retries]
  PROVE  /\ inbox' \in Seq(Ev) /\ Len(inbox') = Len(inbox)
         /\ \A n \in Received : inbox'[n] \in Ev
              /\ inbox'[n].inst = inbox[n].inst /\ inbox'[n].version = inbox[n].version
         /\ \A n \in Received \ {e} : inbox'[n] = inbox[n]
         /\ inbox'[e].processed = processed /\ inbox'[e].retries = retries
<1>1. inbox \in Seq(Ev) /\ inbox[e] \in Ev /\ Len(inbox) \in Nat /\ (\A n \in Received : inbox[n] \in Ev)
  BY Typed DEF TypeOK, Ev
<1> DEFINE q == [inbox[e] EXCEPT !.processed = processed, !.retries = retries]
<1>2. q \in Ev /\ q.inst = inbox[e].inst /\ q.version = inbox[e].version
      /\ q.processed = processed /\ q.retries = retries
  BY <1>1 DEF Ev
<1>3. inbox' = [inbox EXCEPT ![e] = q]
  OBVIOUS
<1> HIDE DEF q
<1>4. e \in 1 .. Len(inbox)
  BY DEF Received
<1>5. /\ inbox' \in Seq(Ev) /\ Len(inbox') = Len(inbox)
      /\ \A n \in 1 .. Len(inbox) : inbox'[n] = IF n = e THEN q ELSE inbox[n]
  BY <1>1, <1>2, <1>3, <1>4, ExceptSeq
<1> QED BY <1>1, <1>2, <1>5 DEF Received

LEMMA MarksKeep ==
  ASSUME IInv, MarksProcessed \/ MarksFailed \/ MarksRefused \/ MarkIsLost \/ \E n \in Received : PutsBack(n)
  PROVE  IInv' /\ Forward
<1> USE NoneAssumption, BoundAssumption
<1>1. TypeOK /\ QueueRight /\ JobRight
  BY DEF IInv
<1>2. (\A n \in Received : inbox[n] \in Ev) /\ inbox \in Seq(Ev) /\ faults \in 0 .. MaxFaults
  BY <1>1, Typed DEF TypeOK, Ev
<1>3. \A n \in Received : ~inbox[n].processed => inbox[n].retries < MaxRetries
  BY <1>1 DEF TypeOK, Pending
<1>4. CASE MarksProcessed \/ MarksFailed \/ MarksRefused
  <2>1. job.event \in Pending /\ job.event \in Received /\ job.event \notin job.batch
        /\ job.batch \subseteq Received
    BY <1>1, <1>4 DEF MarksProcessed, MarksFailed, MarksRefused, At, QueueRight, Pending
  <2>2. inbox[job.event].retries \in 0 .. MaxRetries /\ inbox[job.event].retries < MaxRetries
    BY <2>1, <1>2, <1>3 DEF Pending, Ev
  <2>3. PICK processed \in BOOLEAN, retries \in 0 .. MaxRetries :
          /\ Marked(processed, retries)
          /\ ~processed => retries < MaxRetries
          /\ processed /\ retries < MaxRetries => job.pc = "done"
    <3>1. CASE MarksProcessed
      <4>1. job.pc = "done" /\ Marked(TRUE, 0)
        BY <3>1 DEF MarksProcessed, At
      <4>2. TRUE \in BOOLEAN /\ 0 \in 0 .. MaxRetries
        OBVIOUS
      <4> QED BY <4>1, <4>2
    <3>2. CASE MarksFailed
      <4> DEFINE n == inbox[job.event].retries + 1
      <4>1. n \in 0 .. MaxRetries
        BY <2>2
      <4>2. Marked(n >= MaxRetries, n)
        BY <3>2 DEF MarksFailed
      <4>3. (n >= MaxRetries) \in BOOLEAN /\ (~(n >= MaxRetries) => n < MaxRetries)
            /\ ((n >= MaxRetries) => ~(n < MaxRetries))
        BY <4>1
      <4> HIDE DEF n
      <4> QED BY <4>1, <4>2, <4>3
    <3>3. CASE MarksRefused
      <4>1. Marked(TRUE, MaxRetries)
        BY <3>3 DEF MarksRefused
      <4>2. TRUE \in BOOLEAN /\ MaxRetries \in 0 .. MaxRetries /\ ~(MaxRetries < MaxRetries)
        OBVIOUS
      <4> QED BY <4>1, <4>2
    <3> QED BY <1>4, <3>1, <3>2, <3>3
  <2>4. /\ inbox' = [inbox EXCEPT ![job.event].processed = processed, ![job.event].retries = retries]
        /\ job' = [Idle EXCEPT !.pc = IF job.batch = {} THEN "idle" ELSE "next", !.batch = job.batch]
        /\ UNCHANGED <<version, link, owner, fact, faults>>
    BY <2>3 DEF Marked, Continues
  <2>5. /\ inbox' \in Seq(Ev) /\ Len(inbox') = Len(inbox)
        /\ \A n \in Received : inbox'[n] \in Ev
             /\ inbox'[n].inst = inbox[n].inst /\ inbox'[n].version = inbox[n].version
        /\ \A n \in Received \ {job.event} : inbox'[n] = inbox[n]
        /\ inbox'[job.event].processed = processed /\ inbox'[job.event].retries = retries
    BY <2>1, <2>4, <1>1, Remarked
  <2>6. processed /\ retries < MaxRetries => \A r \in Rows(inbox[job.event].inst) : Shows(r, job.event)
    BY <2>3, <1>1 DEF JobRight, Current
  <2>7. Marking
    BY <2>1, <2>3, <2>4, <2>5, <2>6, <1>2, <1>3 DEF Marking
  <2> QED BY <2>7, MarkingKeeps
<1>5. CASE MarkIsLost
  <2>1. /\ job' = [Idle EXCEPT !.pc = IF job.batch = {} THEN "idle" ELSE "next", !.batch = job.batch]
        /\ faults < MaxFaults /\ faults' = faults + 1
        /\ UNCHANGED <<version, link, owner, fact, inbox>>
    BY <1>5 DEF MarkIsLost, Continues, Faulty
  <2>2. Marking
    BY <2>1, <1>2, <1>3 DEF Marking
  <2> QED BY <2>2, MarkingKeeps
<1>6. ASSUME NEW e \in Received, PutsBack(e)
      PROVE  IInv' /\ Forward
  <2>1. /\ inbox[e].processed /\ inbox[e].retries >= MaxRetries
        /\ inbox' = [inbox EXCEPT ![e].processed = FALSE, ![e].retries = 0]
        /\ faults < MaxFaults /\ faults' = faults + 1
        /\ UNCHANGED <<version, link, owner, fact, job>>
    BY <1>6 DEF PutsBack, Faulty
  <2>2. /\ inbox' \in Seq(Ev) /\ Len(inbox') = Len(inbox)
        /\ \A n \in Received : inbox'[n] \in Ev
             /\ inbox'[n].inst = inbox[n].inst /\ inbox'[n].version = inbox[n].version
        /\ \A n \in Received \ {e} : inbox'[n] = inbox[n]
        /\ inbox'[e].processed = FALSE /\ inbox'[e].retries = 0
    <3>1. FALSE \in BOOLEAN /\ 0 \in 0 .. MaxRetries
      OBVIOUS
    <3> QED BY <2>1, <3>1, <1>1, <1>6, Remarked
  <2>3. \A n \in Received : ~inbox'[n].processed => inbox'[n].retries < MaxRetries
    BY <2>2, <1>3
  <2>4. \A n \in Received : inbox'[n].processed /\ inbox'[n].retries < MaxRetries =>
          inbox[n].processed /\ inbox[n].retries < MaxRetries
    BY <2>2
  <2>5. \A n \in Pending : ~inbox'[n].processed
    BY <2>2 DEF Pending
  <2>6. faults' \in 0 .. MaxFaults
    BY <2>1, <1>2
  <2>7. Marking
    BY <2>1, <2>2, <2>3, <2>4, <2>5, <2>6 DEF Marking
  <2> QED BY <2>7, MarkingKeeps
<1> QED BY <1>4, <1>5, <1>6
---------------------------------------------------------------------------
(* The invariant *)

LEMMA Start == Init => IInv
<1> SUFFICES ASSUME Init PROVE IInv
  OBVIOUS
<1> USE NoneAssumption, BoundAssumption
<1>1. inbox = <<>> /\ Len(inbox) = 0 /\ Received = {} /\ Pending = {}
  BY DEF Init, Received, Pending
<1>2. TypeOK
  BY <1>1 DEF Init, TypeOK, NoFact, Idle
<1>3. LinkRight /\ EventRight /\ FactRight /\ QueueRight /\ JobRight /\ ProcessedIsRecorded
  BY <1>1 DEF Init, LinkRight, EventRight, FactRight, QueueRight, JobRight, ProcessedIsRecorded, NoFact, Idle
<1> QED BY <1>2, <1>3 DEF IInv

LEMMA Step == IInv /\ [Next]_vars => IInv' /\ (Forward \/ UNCHANGED vars)
<1> SUFFICES ASSUME IInv, [Next]_vars
             PROVE  IInv' /\ (Forward \/ UNCHANGED vars)
  OBVIOUS
<1>1. CASE Outside
  BY <1>1, OutsideKeeps
<1>2. CASE Works
  BY <1>2, RoundKeeps, LocatesKeeps, FetchesKeeps, SavesKeeps, MarksKeep DEF Works
<1>3. CASE Faults
  BY <1>3, RoundKeeps, MarksKeep DEF Faults
<1>4. CASE UNCHANGED vars
  BY <1>4 DEF vars, IInv, TypeOK, LinkRight, EventRight, FactRight, QueueRight, JobRight,
              ProcessedIsRecorded, Received, Pending, Rows, Current, Shows
<1> QED BY <1>1, <1>2, <1>3, <1>4 DEF Next

LEMMA Invariance == Spec => []IInv
BY Start, Step, PTL DEF Spec

(* The tables, the queue and the round keep their types; a queued event is below the limit of retries. *)
THEOREM TypeCorrect == Spec => []TypeOK
<1>1. IInv => TypeOK
  BY DEF IInv
<1> QED BY <1>1, Invariance, PTL

(* An event that looks processed is recorded in every row that belongs to its instance. *)
THEOREM Recorded == Spec => []ProcessedIsRecorded
<1>1. IInv => ProcessedIsRecorded
  BY DEF IInv
<1> QED BY <1>1, Invariance, PTL

(* The status of a row of an instance never goes back, in whatever order events come and are retried. *)
THEOREM StatusForward == Spec => StatusNeverGoesBack
<1>1. IInv /\ [Next]_vars =>
        [\A r \in Records :
           fact[r].inst = owner[r] /\ owner'[r] = owner[r] /\ owner[r] # None =>
             fact'[r].inst = fact[r].inst /\ fact'[r].version >= fact[r].version]_vars
  BY Step DEF Forward
<1> QED BY <1>1, Invariance, PTL DEF Spec, StatusNeverGoesBack
=============================================================================
