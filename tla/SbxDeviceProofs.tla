---------------------------- MODULE SbxDeviceProofs ----------------------------
(***************************************************************************)
(* More theorems about SbxManager, for any number of sandboxes, devices,   *)
(* clients, SbxManager objects, failures and crashes: whose a device is in *)
(* the kernel, what is left of a sandbox when its record goes, and whom    *)
(* the Reaper spares.  Each says what holds until a Worker is left with    *)
(* two SbxManager objects.                                                 *)
(***************************************************************************)
EXTENDS SbxManagerProofs

-----------------------------------------------------------------------------
(* The inductive invariants, on top of IInv. *)

\* A process is inside a cgroup that exists.
Housed == \A n \in Names : inside[n] => cg[n]

\* A record is deleted only after the directory went.
Gone == \A x \in Threads : pc[x] = "forget" => ~cg[on[x]]

GInv == IInv /\ Housed /\ (~split => Gone)

\* As long as nothing failed: the keys of the kernel are those of the lists, a
\* list is that of the record or, once a process slipped through, empty, and
\* what is half made or half gone is in the hands of a thread with the lock.
Tidy ==
    /\ up = "serving"
    /\ \A d \in Devices : owner[d] # Dead
    /\ \A n \in Names :
        /\ \A d \in Devices : owner[d] = n <=> d \in list[n]
        /\ ~cg[n] => list[n] = {} /\ ~limited[n]
        /\ cg[n] => (limited[n] <=> list[n] # {})
        /\ ~Recorded(n) => rec[n] = {}
        /\ cg[n] /\ Recorded(n) /\ n \notin slipped => list[n] = rec[n]
        /\ n \in slipped => cg[n] /\ Recorded(n) /\ list[n] = {}
        /\ cg[n] /\ ~Recorded(n) => \E x \in Clients : pc[x] = "insert" /\ on[x] = n
        /\ ~cg[n] /\ Recorded(n) => \E x \in Threads : pc[x] = "forget" /\ on[x] = n
    /\ \A x \in Clients : pc[x] = "insert" =>
        cg[on[x]] /\ ~Recorded(on[x]) /\ list[on[x]] = devs[x]

TidyUnlessFailed == NoFailure => Tidy

-----------------------------------------------------------------------------
(* Steps. *)

\* The steps that change the cgroups, the maps, the lists or the records.
Writes(x) ==
    \/ CreateScript(x) \/ CreateCut(x) \/ CreateRecord(x)
    \/ DestroyClear(x) \/ DestroyStuck(x) \/ DestroyCut(x) \/ DestroyForget(x)

\* A thread between two of its writes.
HalfWay == {"insert", "forget"}

\* What the other steps leave alone.
Quiet ==
    /\ UNCHANGED <<cg, owner, limited, list, recorded, rec, slipped>>
    /\ \A n \in Names : inside'[n] => inside[n] \/ cg[n]
    /\ \A x \in Threads : pc[x] \in HalfWay \/ pc'[x] \in HalfWay =>
          pc'[x] = pc[x] /\ on'[x] = on[x] /\ devs'[x] = devs[x]

\* A thread that is not half way stays so, and the others stay where they are.
LEMMA QuietMoves ==
    ASSUME Types, NEW x \in Threads, pc[x] \notin HalfWay,
           \/ Return(x) \/ Destroyed(x)
           \/ /\ \/ UNCHANGED pc
                 \/ \E s \in Step \ HalfWay : pc' = [pc EXCEPT ![x] = s]
              /\ \/ UNCHANGED on
                 \/ \E n \in Names \cup {None} : on' = [on EXCEPT ![x] = n]
              /\ \/ UNCHANGED devs
                 \/ \E S \in SUBSET Devices : devs' = [devs EXCEPT ![x] = S]
    PROVE  \A y \in Threads : pc[y] \in HalfWay \/ pc'[y] \in HalfWay =>
              pc'[y] = pc[y] /\ on'[y] = on[y] /\ devs'[y] = devs[y]
BY DEF Types, Return, Destroyed, HalfWay

LEMMA OthersAreQuiet ==
    ASSUME IInv, [Next]_vars, ~Crash, \A x \in Threads : ~Writes(x)
    PROVE  Quiet
<1> USE DEF kernel, table, pass, threads, marks, At, HalfWay
<1>0. /\ Types /\ KnowsItsSandbox /\ Clients \subseteq Threads /\ Reaper \in Threads
      /\ None \in Names \cup {None}
  BY DEF IInv, TypeOK, Invariant, Threads
<1>1. ASSUME NEW x \in Threads, CreateExists(x) \/ CreateRefused(x) \/ DestroyKill(x) PROVE Quiet
  <2>1. /\ UNCHANGED <<cg, owner, limited, list, recorded, rec, slipped>>
        /\ pc[x] \notin HalfWay /\ on[x] \in Names
    BY <1>0, <1>1 DEF CreateExists, CreateRefused, DestroyKill, KnowsItsSandbox, Busy
  <2>2. \A n \in Names : inside'[n] => inside[n]
    BY <1>0, <1>1 DEF CreateExists, CreateRefused, DestroyKill, Types
  <2>3. \/ Return(x)
        \/ /\ \E s \in Step \ HalfWay : pc' = [pc EXCEPT ![x] = s]
           /\ UNCHANGED on
           /\ UNCHANGED devs \/ \E S \in SUBSET Devices : devs' = [devs EXCEPT ![x] = S]
    BY <1>1 DEF CreateExists, CreateRefused, DestroyKill, Step
  <2> QED BY <1>0, <2>1, <2>2, <2>3, QuietMoves DEF Quiet
<1>2. ASSUME NEW x \in Clients, Start(x) PROVE Quiet
  <2>1. on[x] \in Names /\ pc[x] = "granted" /\ x \in Threads
    BY <1>0, <1>2 DEF Start, Join, Preexec, JoinFails, KnowsItsSandbox, Busy
  <2>2. /\ UNCHANGED <<cg, owner, limited, list, recorded, rec, slipped, on, devs>>
        /\ pc' = [pc EXCEPT ![x] = "holding"]
    BY <1>2 DEF Start, Join, Preexec, JoinFails, Enter
  <2>3. \A n \in Names : inside'[n] => inside[n] \/ cg[n]
    BY <1>0, <1>2, <2>1 DEF Start, Join, Preexec, JoinFails, Enter, Types
  <2> QED BY <1>0, <2>1, <2>2, <2>3, QuietMoves DEF Quiet, Step
<1>3. ASSUME NEW x \in Clients, NEW n \in Names, Allocate(x, n) \/ DestroyBegin(x, n)
      PROVE  Quiet
  <2>1. /\ UNCHANGED <<cg, inside, owner, limited, list, recorded, rec, slipped>>
        /\ pc[x] \notin HalfWay /\ x \in Threads
    BY <1>0, <1>3 DEF Allocate, DestroyBegin
  <2>2. \/ Return(x)
        \/ /\ \E s \in Step \ HalfWay : pc' = [pc EXCEPT ![x] = s]
           /\ on' = [on EXCEPT ![x] = n]
           /\ UNCHANGED devs \/ \E S \in SUBSET Devices : devs' = [devs EXCEPT ![x] = S]
    BY <1>3 DEF Allocate, DestroyBegin, Step, Free
  <2> QED BY <1>0, <2>1, <2>2, QuietMoves DEF Quiet
<1>4. ASSUME NEW x \in Clients, ClientNext(x) PROVE Quiet
  BY <1>0, <1>1, <1>2, <1>3, <1>4 DEF ClientNext, Locked, Writes
<1>5. ASSUME \/ PassBegin \/ Confirm \/ ScanOrphans \/ PassEnd \/ Serve \/ Restart
             \/ \E n \in Names : Scan(n) \/ Recover(n)
      PROVE  Quiet
  <2>1. /\ UNCHANGED <<cg, inside, owner, limited, list, recorded, rec, slipped>>
        /\ pc[Reaper] \notin HalfWay
    BY <1>5 DEF PassBegin, Confirm, ScanOrphans, PassEnd, Serve, Restart, Scan, Recover,
                IInv, Invariant, Roles
  <2>2. \/ Return(Reaper)
        \/ /\ \/ UNCHANGED pc
              \/ \E s \in Step \ HalfWay : pc' = [pc EXCEPT ![Reaper] = s]
           /\ \/ UNCHANGED on
              \/ \E n \in Names \cup {None} : on' = [on EXCEPT ![Reaper] = n]
           /\ UNCHANGED devs
    <3>1. CASE PassBegin \/ ScanOrphans \/ PassEnd \/ Serve \/ Restart
      BY <3>1 DEF PassBegin, ScanOrphans, PassEnd, Serve, Restart, Step
    <3>2. CASE Confirm
      <4>1. on[Reaper] \in Names
        BY <1>0, <3>2 DEF Confirm, KnowsItsSandbox, Busy
      <4> QED BY <3>2, <4>1 DEF Confirm, AtWorkOn, Step
    <3>3. ASSUME NEW n \in Names, Scan(n) \/ Recover(n)
          PROVE  /\ \/ UNCHANGED pc
                    \/ \E s \in Step \ HalfWay : pc' = [pc EXCEPT ![Reaper] = s]
                 /\ \E m \in Names \cup {None} : on' = [on EXCEPT ![Reaper] = m]
                 /\ UNCHANGED devs
      BY <3>3 DEF Scan, ScanRecord, Recover, AtWorkOn, Step
    <3> QED BY <1>5, <3>1, <3>2, <3>3
  <2> QED BY <1>0, <2>1, <2>2, QuietMoves DEF Quiet
<1>6. ASSUME ReaperPass PROVE Quiet
  BY <1>0, <1>1, <1>5, <1>6 DEF ReaperPass, Locked, Writes
<1>7. ASSUME NEW n \in Names, Exit(n) \/ GrowOld(n) PROVE Quiet
  BY <1>0, <1>7 DEF Exit, GrowOld, Quiet, Types
<1>8. CASE UNCHANGED vars
  BY <1>8 DEF vars, Quiet
<1> QED BY <1>4, <1>5, <1>6, <1>7, <1>8 DEF Next

\* While all threads have one SbxManager object, a thread that is in a critical
\* section, or that finds the lock free, is the only one.
LEMMA OnlyOne ==
    ASSUME IInv, ~split, NEW x \in Threads, pc[x] \in Critical \/ (up = "serving" /\ LockFree(x)),
           NEW y \in Threads \ {x}
    PROVE  pc[y] \notin Critical
<1>0. LocksHeld /\ Roles /\ OneObject(mgr) /\ Types
  BY DEF IInv, TypeOK, Invariant, Single
<1>1. CASE up = "serving"
  <2>1. lock[mgr[x]] \in {x, None}
    BY <1>0, <1>1, HoldsOrFree DEF LockFree
  <2> QED BY <1>0, <1>1, <2>1, Alone
<1>2. CASE up # "serving"
  BY <1>0, <1>2 DEF Roles, Critical, Threads
<1> QED BY <1>1, <1>2

\* A step of a critical section is that of the only thread in one.
LEMMA WritesAlone ==
    ASSUME IInv, ~split, NEW x \in Threads, Writes(x)
    PROVE  /\ on[x] \in Names
           /\ pc[x] \in Critical
           /\ \A y \in Threads \ {x} :
                /\ pc[y] \notin Critical
                /\ pc'[y] = pc[y] /\ on'[y] = on[y] /\ devs'[y] = devs[y]
<1>0. Types /\ KnowsItsSandbox
  BY DEF IInv, TypeOK, Invariant
<1>1. pc[x] \in {"create", "insert", "script", "clear", "forget"}
  BY DEF Writes, CreateScript, CreateCut, CreateRecord, DestroyClear, DestroyStuck,
         DestroyCut, DestroyForget, At
<1>2. ASSUME NEW y \in Threads \ {x}
      PROVE  pc'[y] = pc[y] /\ on'[y] = on[y] /\ devs'[y] = devs[y]
  <2>1. CASE CreateScript(x) \/ CreateCut(x)
    BY <1>0, <2>1 DEF CreateScript, CreateCut, Return, Types
  <2>2. CASE CreateRecord(x) \/ DestroyClear(x)
    BY <1>0, <2>2 DEF CreateRecord, DestroyClear, Return, Types
  <2>3. CASE DestroyStuck(x) \/ DestroyCut(x) \/ DestroyForget(x)
    <3>1. Destroyed(x) \/ Return(x)
      BY <2>3 DEF DestroyStuck, StillThere, DestroyCut, DestroyForget
    <3> QED BY <1>0, <3>1, Moves
  <2> QED BY <2>1, <2>2, <2>3 DEF Writes
<1> QED BY <1>0, <1>1, <1>2, OnlyOne DEF KnowsItsSandbox, Busy, Critical

LEMMA FailuresCount ==
    ASSUME Types, [Next]_vars
    PROVE  /\ faults' \in {faults, faults + 1}
           /\ crashes' = IF Crash THEN crashes + 1 ELSE crashes
           /\ ~split' => ~split
<1> DEFINE Counted == /\ faults' \in {faults, faults + 1}
                      /\ crashes' = crashes
                      /\ ~split' => ~split
<1>1. CASE Crash
  BY <1>1 DEF Crash
<1>2. CASE ~Crash
  <2>1. ASSUME NEW x \in Threads, Locked(x) PROVE Counted
    <3>1. faults' \in {faults, faults + 1}
      BY <2>1 DEF Locked, CreateExists, CreateRefused, CreateScript, CreateCut, CreateRecord,
           DestroyKill, DestroyClear, DestroyStuck, DestroyCut, DestroyForget, Fault
    <3> QED BY <2>1, <3>1, LockedMoves
  <2>2. ASSUME NEW x \in Clients, ClientNext(x) PROVE Counted
    BY <2>1, <2>2 DEF ClientNext, Allocate, DestroyBegin, Start, Join, Preexec, JoinFails,
         Enter, Threads, worker
  <2>3. ASSUME PassBegin \/ ReaperPass PROVE Counted
    BY <2>1, <2>3 DEF PassBegin, ReaperPass, Scan, Recover, Confirm, ScanOrphans, PassEnd,
         Serve, Fault, Threads, worker
  <2>4. ASSUME NEW n \in Names, Exit(n) \/ GrowOld(n) PROVE Counted
    BY <2>4 DEF Exit, GrowOld, worker
  <2>5. CASE UNCHANGED vars
    BY <1>2, <2>5 DEF vars, worker
  <2>6. CASE Restart
    <3>1. faults' = faults /\ crashes' = crashes
      BY <2>6 DEF Restart
    <3>2. split' = (split \/ ~OneObject(mgr'))
      BY <2>6 DEF Restart
    <3>3. ~split' => ~split
      BY <3>2, Zenon
    <3> QED BY <1>2, <3>1, <3>3
  <2> QED BY <1>2, <2>2, <2>3, <2>4, <2>5, <2>6 DEF Next
<1> QED BY <1>1, <1>2

LEMMA StillNoFailure ==
    ASSUME Types, [Next]_vars, NoFailure'
    PROVE  NoFailure /\ ~Crash /\ faults' = faults
BY FailuresCount DEF NoFailure, Types

-----------------------------------------------------------------------------
(* First the directory, then the record. *)

LEMMA StillHoused ==
    ASSUME IInv, Housed, [Next]_vars
    PROVE  Housed'
<1> USE DEF kernel, table, pass
<1>0. Types /\ KnowsItsSandbox
  BY DEF IInv, TypeOK, Types, Invariant
<1>1. ASSUME NEW x \in Threads, Writes(x) PROVE Housed'
  <2>0. on[x] \in Names
    BY <1>0, <1>1 DEF Writes, CreateScript, CreateCut, CreateRecord, DestroyClear, DestroyStuck,
         DestroyCut, DestroyForget, At, KnowsItsSandbox, Busy
  <2>1. CASE CreateScript(x) \/ CreateCut(x)
    <3>1. inside' = inside /\ cg' = [cg EXCEPT ![on[x]] = TRUE]
      BY <2>1 DEF CreateScript, CreateCut
    <3> QED BY <1>0, <2>0, <3>1 DEF Housed, Types
  <2>2. CASE CreateRecord(x) \/ DestroyForget(x)
    BY <2>2 DEF CreateRecord, DestroyForget, Housed
  <2>3. CASE DestroyClear(x)
    BY <1>0, <2>0, <2>3 DEF DestroyClear, Housed, Types
  <2>4. CASE DestroyStuck(x)
    <3>1. inside' \in {inside, [inside EXCEPT ![on[x]] = FALSE]} /\ cg' = cg
      BY <2>4 DEF DestroyStuck
    <3> QED BY <1>0, <2>0, <3>1 DEF Housed, Types
  <2>5. CASE DestroyCut(x)
    <3>1. CASE inside' \in {inside, [inside EXCEPT ![on[x]] = FALSE]} /\ UNCHANGED cg
      BY <1>0, <2>0, <3>1 DEF Housed, Types
    <3>2. CASE \E removed \in BOOLEAN :
                 /\ inside' \in {[inside EXCEPT ![on[x]] = b] :
                                    b \in {FALSE, inside[on[x]] /\ ~removed}}
                 /\ cg' = [cg EXCEPT ![on[x]] = @ /\ ~removed]
      <4>1. PICK removed \in BOOLEAN :
                 /\ inside' \in {[inside EXCEPT ![on[x]] = b] :
                                    b \in {FALSE, inside[on[x]] /\ ~removed}}
                 /\ cg' = [cg EXCEPT ![on[x]] = @ /\ ~removed]
        BY <3>2
      <4>2. ASSUME NEW n \in Names \ {on[x]} PROVE inside'[n] = inside[n] /\ cg'[n] = cg[n]
        BY <1>0, <4>1, <4>2 DEF Types
      <4>3. inside'[on[x]] => inside[on[x]] /\ ~removed
        BY <1>0, <2>0, <4>1, Zenon DEF Types
      <4>4. cg[on[x]] /\ ~removed => cg'[on[x]]
        BY <1>0, <2>0, <4>1, Zenon DEF Types
      <4> QED BY <4>2, <4>3, <4>4 DEF Housed
    <3> QED BY <2>5, <3>1, <3>2 DEF DestroyCut
  <2> QED BY <1>1, <2>1, <2>2, <2>3, <2>4, <2>5 DEF Writes
<1>2. CASE Crash
  BY <1>2 DEF Crash, Housed
<1>3. CASE Quiet
  BY <1>3 DEF Quiet, Housed
<1> QED BY <1>1, <1>2, <1>3, OthersAreQuiet

LEMMA StillGone ==
    ASSUME GInv, ~split, [Next]_vars
    PROVE  Gone'
<1> USE DEF kernel, table, pass
<1>0. IInv /\ Types /\ Gone
  BY DEF GInv, IInv, TypeOK, Types
<1>1. ASSUME NEW x \in Threads, Writes(x) PROVE Gone'
  <2>0. /\ on[x] \in Names
        /\ \A y \in Threads \ {x} : pc'[y] # "forget"
    BY <1>0, <1>1, WritesAlone DEF Critical
  <2>1. CASE CreateScript(x) \/ CreateCut(x)
    <3>1. pc'[x] # "forget"
      BY <1>0, <2>1 DEF CreateScript, CreateCut, Return, Types
    <3> QED BY <2>0, <3>1 DEF Gone
  <2>2. CASE CreateRecord(x)
    <3>1. pc'[x] # "forget"
      BY <1>0, <2>2 DEF CreateRecord, Return, Types
    <3> QED BY <2>0, <3>1 DEF Gone
  <2>3. CASE DestroyClear(x)
    BY <1>0, <2>0, <2>3 DEF DestroyClear, Gone, Types
  <2>4. CASE DestroyStuck(x) \/ DestroyCut(x) \/ DestroyForget(x)
    <3>1. Destroyed(x) \/ Return(x)
      BY <2>4 DEF DestroyStuck, StillThere, DestroyCut, DestroyForget
    <3>2. pc'[x] # "forget"
      BY <1>0, <3>1, Moves
    <3> QED BY <2>0, <3>2 DEF Gone
  <2> QED BY <1>1, <2>1, <2>2, <2>3, <2>4 DEF Writes
<1>2. CASE Crash
  BY <1>2 DEF Crash, Gone
<1>3. CASE Quiet
  BY <1>0, <1>3 DEF Quiet, HalfWay, Gone
<1> QED BY <1>0, <1>1, <1>2, <1>3, OthersAreQuiet

LEMMA GoneStep == GInv /\ [Next]_vars => GInv'
<1> SUFFICES ASSUME GInv, [Next]_vars PROVE GInv'
  OBVIOUS
<1>1. IInv' /\ Housed'
  BY Inductive, StillHoused DEF GInv
<1>2. ~split' => ~split
  BY FailuresCount DEF GInv, IInv, TypeOK, Types
<1> QED BY <1>1, <1>2, StillGone DEF GInv

LEMMA GoneFirst == Init => GInv
BY Initially DEF Init, GInv, Gone, Housed

-----------------------------------------------------------------------------
(* Nothing failed. *)

\* With one lock, nothing is half made or half gone for a thread that creates.
LEMMA NothingHalfWay ==
    ASSUME GInv, ~split, Tidy, NEW x \in Threads, Writes(x), NEW n \in Names, n # on[x]
    PROVE  /\ cg[n] <=> Recorded(n)
           /\ list[n] \subseteq rec[n]
           /\ n \notin slipped => list[n] = rec[n]
<1>1. \A y \in Threads \ {x} : pc[y] \notin {"insert", "forget"}
  BY WritesAlone DEF GInv, Critical
<1>2. Clients \subseteq Threads
  BY DEF Threads
<1>3. cg[n] => Recorded(n)
  BY <1>1, <1>2 DEF Tidy
<1>4. Recorded(n) => cg[n]
  BY <1>1 DEF Tidy
<1> QED BY <1>3, <1>4 DEF Tidy

LEMMA TidyCreates ==
    ASSUME GInv, ~split, Tidy, NEW x \in Clients, CreateScript(x)
    PROVE  Tidy'
<1> USE DEF table, pass, At, Recorded
<1>0. Types /\ x \in Threads /\ Writes(x) /\ on[x] \in Names /\ Clients \subseteq Threads
  BY WritesAlone DEF GInv, IInv, TypeOK, Writes, Threads
<1>n. PICK n \in Names : n = on[x]
  BY <1>0
<1>1. \A y \in Threads \ {x} : pc[y] \notin Critical /\ pc'[y] = pc[y]
  BY <1>0, <1>n, WritesAlone DEF GInv
<1>2. /\ ~cg[n] /\ pc[x] = "create" /\ pc'[x] = "insert"
      /\ cg' = [cg EXCEPT ![n] = TRUE]
      /\ list' = [list EXCEPT ![n] = devs[x]]
      /\ owner' = [d \in Devices |-> IF d \in devs[x] THEN n ELSE owner[d]]
      /\ limited' = [limited EXCEPT ![n] = devs[x] # {}]
      /\ UNCHANGED <<recorded, rec, up, on, devs, slipped>>
  BY <1>0, <1>n DEF CreateScript, Reserve, Types, worker, marks
<1>3. ~Recorded(n) /\ list[n] = {} /\ n \notin slipped
  BY <1>0, <1>n, <1>1, <1>2 DEF Tidy, Critical
<1>4. \A m \in Names \ {n} :
        /\ (cg[m] <=> Recorded(m)) /\ list[m] \subseteq rec[m]
        /\ m \notin slipped => list[m] = rec[m]
  BY <1>0, <1>n, NothingHalfWay
<1>5. \A m \in Names : devs[x] \cap rec[m] = {}
  BY <1>2, <1>n DEF GInv, IInv, TypeOK, Invariant, ChosenIsFree, Single
<1>6. devs[x] \subseteq Devices
  BY <1>0, <1>n DEF Types
<1>7. \A d \in Devices : owner'[d] # Dead
  BY <1>0, <1>n, <1>2, SbxAssumption DEF Tidy
<1>8. \A m \in Names, d \in Devices : owner'[d] = m <=> d \in list'[m]
  <2> SUFFICES ASSUME NEW m \in Names, NEW d \in Devices
               PROVE  owner'[d] = m <=> d \in list'[m]
    OBVIOUS
  <2>1. owner[d] = m <=> d \in list[m]
    BY DEF Tidy
  <2>2. CASE m = n
    BY <1>0, <1>n, <1>2, <1>3, <2>1, <2>2 DEF Types
  <2>3. CASE m # n
    BY <1>0, <1>n, <1>2, <1>4, <1>5, <2>1, <2>3 DEF Types
  <2> QED BY <2>2, <2>3
<1>9. /\ \A m \in Names : ~cg'[m] => list'[m] = {} /\ ~limited'[m]
      /\ \A m \in Names : cg'[m] => (limited'[m] <=> list'[m] # {})
  <2>1. cg \in [Names -> BOOLEAN] /\ limited \in [Names -> BOOLEAN]
        /\ list \in [Names -> SUBSET Devices]
    BY <1>0, <1>n DEF Types
  <2>2. \A m \in Names \ {n} : cg'[m] = cg[m] /\ (limited'[m] <=> limited[m]) /\ list'[m] = list[m]
    BY <1>2, <2>1
  <2>3. cg'[n] = TRUE /\ (limited'[n] <=> devs[x] # {}) /\ list'[n] = devs[x]
    BY <1>0, <1>n, <1>2, <2>1
  <2> QED BY <2>2, <2>3 DEF Tidy
<1>10. \A m \in Names \ {n} : cg'[m] = cg[m] /\ list'[m] = list[m] /\ rec'[m] = rec[m]
  BY <1>0, <1>n, <1>2 DEF Types
<1>11. cg'[n] /\ list'[n] = devs[x] /\ ~Recorded(n)' /\ pc'[x] = "insert" /\ on'[x] = n
  BY <1>0, <1>n, <1>2, <1>3 DEF Types
<1>12. \A y \in Clients : pc'[y] = "insert" => y = x
  BY <1>0, <1>n, <1>1 DEF Critical
<1>13. up' = "serving" /\ \A m \in Names : ~Recorded(m)' => rec'[m] = {}
  BY <1>2, <1>n DEF Tidy
<1>14. \A m \in Names :
        /\ cg'[m] /\ Recorded(m)' /\ m \notin slipped' => list'[m] = rec'[m]
        /\ m \in slipped' => cg'[m] /\ Recorded(m)' /\ list'[m] = {}
        /\ cg'[m] /\ ~Recorded(m)' => \E y \in Clients : pc'[y] = "insert" /\ on'[y] = m
        /\ ~cg'[m] => ~Recorded(m)'
  BY <1>2, <1>3, <1>4, <1>10, <1>11 DEF Tidy
<1>15. \A y \in Clients : pc'[y] = "insert" =>
        cg'[on'[y]] /\ ~Recorded(on[y])' /\ list'[on'[y]] = devs'[y]
  BY <1>2, <1>11, <1>12
<1> QED BY <1>7, <1>8, <1>9, <1>13, <1>14, <1>15 DEF Tidy

LEMMA TidyRecords ==
    ASSUME GInv, ~split, Tidy, NEW x \in Clients, CreateRecord(x), faults' = faults
    PROVE  Tidy'
<1> USE DEF kernel, table, pass, At, Recorded
<1>0. Types /\ x \in Threads /\ Writes(x) /\ on[x] \in Names /\ Clients \subseteq Threads
  BY WritesAlone DEF GInv, IInv, TypeOK, Writes, Threads
<1>n. PICK n \in Names : n = on[x]
  BY <1>0
<1>1. \A y \in Threads \ {x} : pc[y] \notin Critical /\ pc'[y] = pc[y]
  BY <1>0, <1>n, WritesAlone DEF GInv
<1>2. /\ pc[x] = "insert" /\ pc'[x] = "granted"
      /\ recorded' = recorded \cup {n}
      /\ rec' = [rec EXCEPT ![n] = devs[x]]
      /\ UNCHANGED <<cg, owner, limited, list, up, slipped>>
  BY <1>0, <1>n DEF CreateRecord, Fault, Types, worker
<1>3. cg[n] /\ list[n] = devs[x] /\ n \notin slipped
  BY <1>2, <1>n DEF Tidy
<1>4. \A m \in Names \ {n} :
        /\ (cg[m] <=> Recorded(m)) /\ list[m] \subseteq rec[m]
        /\ m \notin slipped => list[m] = rec[m]
  BY <1>0, <1>n, NothingHalfWay
<1>5. rec'[n] = devs[x] /\ \A m \in Names \ {n} : rec'[m] = rec[m] /\ (Recorded(m)' = Recorded(m))
  BY <1>0, <1>n, <1>2 DEF Types
<1>6. \A y \in Clients : pc'[y] # "insert"
  BY <1>0, <1>n, <1>1, <1>2 DEF Critical
<1>7. Recorded(n)'
  BY <1>2, <1>n
<1> QED BY <1>0, <1>n, <1>2, <1>3, <1>4, <1>5, <1>6, <1>7 DEF Tidy

LEMMA TidyDestroys ==
    ASSUME GInv, ~split, Tidy, NEW x \in Threads, DestroyClear(x)
    PROVE  Tidy'
<1> USE DEF table, pass, At, Recorded
<1>0. Types /\ Writes(x) /\ on[x] \in Names /\ Clients \subseteq Threads
  BY WritesAlone DEF GInv, IInv, TypeOK, Writes, Threads
<1>n. PICK n \in Names : n = on[x]
  BY <1>0
<1>1. \A y \in Threads \ {x} : pc[y] \notin Critical /\ pc'[y] = pc[y]
  BY <1>0, <1>n, WritesAlone DEF GInv
<1>2. /\ pc'[x] = "forget" /\ on'[x] = n
      /\ cg' = [cg EXCEPT ![n] = FALSE]
      /\ list' = [list EXCEPT ![n] = {}]
      /\ limited' = [limited EXCEPT ![n] = FALSE]
      /\ owner' = [d \in Devices |-> IF d \in list[n] THEN None
                                     ELSE IF owner[d] = n THEN Dead ELSE owner[d]]
      /\ slipped' = slipped \ {n}
      /\ UNCHANGED <<recorded, rec, up>>
  BY <1>0, <1>n DEF DestroyClear, Unreserve, Types, worker
<1>3. \A m \in Names \ {n} :
        /\ (cg[m] <=> Recorded(m)) /\ list[m] \subseteq rec[m]
        /\ m \notin slipped => list[m] = rec[m]
  BY <1>0, <1>n, NothingHalfWay
<1>4. \A d \in Devices : owner'[d] = IF d \in list[n] THEN None ELSE owner[d]
  BY <1>0, <1>n, <1>2 DEF Tidy
<1>5. None # Dead /\ None \notin Names
  BY SbxAssumption
<1>6. /\ \A m \in Names \ {n} : cg'[m] = cg[m] /\ list'[m] = list[m] /\ limited'[m] = limited[m]
      /\ cg'[n] = FALSE /\ list'[n] = {} /\ limited'[n] = FALSE
  BY <1>0, <1>n, <1>2 DEF Types
<1>7. \A y \in Clients : pc'[y] # "insert"
  BY <1>0, <1>n, <1>1, <1>2 DEF Critical
<1>8. \A m \in Names, d \in Devices : owner'[d] = m <=> d \in list'[m]
  BY <1>0, <1>n, <1>4, <1>5, <1>6 DEF Tidy
<1> QED BY <1>0, <1>n, <1>2, <1>3, <1>4, <1>5, <1>6, <1>7, <1>8 DEF Tidy

\* A process slipped through: its sandbox stays, with its record and no key.
LEMMA TidySlips ==
    ASSUME GInv, ~split, Tidy, NEW x \in Threads, DestroyStuck(x), faults' = faults
    PROVE  Tidy'
<1> USE DEF table, pass, At, Recorded
<1>0. Types /\ Writes(x) /\ on[x] \in Names /\ Clients \subseteq Threads
  BY WritesAlone DEF GInv, IInv, TypeOK, Writes, Threads
<1>n. PICK n \in Names : n = on[x]
  BY <1>0
<1>1. /\ \A y \in Threads \ {x} : pc[y] \notin Critical /\ pc'[y] = pc[y]
      /\ pc[x] = "clear"
  BY <1>0, <1>n, WritesAlone DEF GInv, DestroyStuck
<1>2. /\ cg[n]
      /\ slipped' = slipped \cup {n}
      /\ list' = [list EXCEPT ![n] = {}]
      /\ limited' = [limited EXCEPT ![n] = limited[n] /\ list[n] = {}]
      /\ owner' = [d \in Devices |-> IF d \in list[n] THEN None ELSE owner[d]]
      /\ UNCHANGED <<cg, recorded, rec, up>>
  BY <1>0, <1>n DEF DestroyStuck, Unreserve, Types, worker, Fault
<1>3. \A m \in Names \ {n} :
        /\ (cg[m] <=> Recorded(m)) /\ list[m] \subseteq rec[m]
        /\ m \notin slipped => list[m] = rec[m]
  BY <1>0, <1>n, NothingHalfWay
<1>4. Recorded(n)
  BY <1>0, <1>1, <1>2 DEF Tidy, Critical
<1>5. None # Dead /\ None \notin Names
  BY SbxAssumption
<1>6. /\ \A m \in Names \ {n} : list'[m] = list[m] /\ limited'[m] = limited[m]
      /\ list'[n] = {} /\ (limited'[n] <=> limited[n] /\ list[n] = {})
  <2>1. list \in [Names -> SUBSET Devices] /\ limited \in [Names -> BOOLEAN]
    BY <1>0 DEF Types
  <2>2. limited'[n] <=> limited[n] /\ list[n] = {}
    BY <1>2, <2>1, Zenon
  <2> QED BY <1>2, <2>1, <2>2
<1>7. Destroyed(x)
  BY DEF DestroyStuck, StillThere
<1>8. \A y \in Threads : pc'[y] \notin {"insert", "forget"}
  BY <1>0, <1>1, <1>7, Moves DEF Critical
<1>9. \A m \in Names, d \in Devices : owner'[d] = m <=> d \in list'[m]
  BY <1>0, <1>n, <1>2, <1>5, <1>6 DEF Tidy
<1>10. up' = "serving" /\ \A d \in Devices : owner'[d] # Dead
  BY <1>2, <1>5 DEF Tidy
<1>11. \A m \in Names :
        /\ ~cg'[m] => list'[m] = {} /\ ~limited'[m]
        /\ cg'[m] => (limited'[m] <=> list'[m] # {})
        /\ ~Recorded(m)' => rec'[m] = {}
  BY <1>2, <1>6 DEF Tidy
<1>12. \A m \in Names :
        /\ cg'[m] /\ Recorded(m)' /\ m \notin slipped' => list'[m] = rec'[m]
        /\ m \in slipped' => cg'[m] /\ Recorded(m)' /\ list'[m] = {}
        /\ cg'[m] <=> Recorded(m)'
  BY <1>2, <1>3, <1>4, <1>6 DEF Tidy
<1> QED BY <1>0, <1>8, <1>9, <1>10, <1>11, <1>12 DEF Tidy

LEMMA TidyForgets ==
    ASSUME GInv, ~split, Tidy, NEW x \in Threads, DestroyForget(x), faults' = faults
    PROVE  Tidy'
<1> USE DEF kernel, table, pass, At, Recorded
<1>0. Types /\ Writes(x) /\ on[x] \in Names /\ Clients \subseteq Threads
  BY WritesAlone DEF GInv, IInv, TypeOK, Writes, Threads
<1>n. PICK n \in Names : n = on[x]
  BY <1>0
<1>1. \A y \in Threads \ {x} : pc[y] \notin Critical /\ pc'[y] = pc[y]
  BY <1>0, <1>n, WritesAlone DEF GInv
<1>2. /\ pc[x] = "forget" /\ pc'[x] \notin {"forget", "insert"}
      /\ recorded' = recorded \ {n}
      /\ rec' = [rec EXCEPT ![n] = {}]
      /\ UNCHANGED <<cg, owner, limited, list, up, slipped>>
  BY <1>0, <1>n DEF DestroyForget, Destroyed, Return, Fault, Types, worker
<1>3. ~cg[n] /\ n \notin slipped
  BY <1>2, <1>n DEF GInv, Gone, Tidy
<1>4. \A m \in Names \ {n} :
        /\ (cg[m] <=> Recorded(m)) /\ list[m] \subseteq rec[m]
        /\ m \notin slipped => list[m] = rec[m]
  BY <1>0, <1>n, NothingHalfWay
<1>5. rec'[n] = {} /\ \A m \in Names \ {n} : rec'[m] = rec[m] /\ (Recorded(m)' = Recorded(m))
  BY <1>0, <1>n, <1>2 DEF Types
<1>6. \A y \in Clients : pc'[y] # "insert"
  BY <1>0, <1>n, <1>1, <1>2 DEF Critical
<1>7. ~Recorded(n)'
  BY <1>2, <1>n
<1> QED BY <1>0, <1>n, <1>2, <1>3, <1>4, <1>5, <1>6, <1>7 DEF Tidy

LEMMA TidyQuiet ==
    ASSUME IInv, Tidy, Quiet, up' = up
    PROVE  Tidy'
<1>1. Clients \subseteq Threads
  BY DEF Threads
<1> QED BY <1>1 DEF Tidy, Quiet, HalfWay, Recorded

LEMMA StillTidy ==
    ASSUME GInv, TidyUnlessFailed, [Next]_vars
    PROVE  TidyUnlessFailed'
<1> SUFFICES ASSUME NoFailure' PROVE Tidy'
  BY DEF TidyUnlessFailed
<1>0. IInv /\ Types
  BY DEF GInv, IInv, TypeOK
<1>1. Tidy /\ ~Crash /\ faults' = faults /\ up = "serving" /\ ~split
  BY <1>0, StillNoFailure DEF TidyUnlessFailed, Tidy, NoFailure
<1>2. ASSUME NEW x \in Threads, Writes(x) PROVE Tidy'
  <2>1. pc[x] \in {"create", "insert"} => x \in Clients
    BY <1>0 DEF IInv, TypeOK, Invariant, Roles, Threads
  <2>2. ~CreateCut(x) /\ ~DestroyCut(x)
    <3>1. ~Fault
      BY <1>0, <1>1 DEF Fault, Types
    <3> QED BY <3>1 DEF CreateCut, DestroyCut
  <2> QED BY <1>1, <1>2, <2>1, <2>2, TidyCreates, TidyRecords, TidyDestroys, TidySlips,
             TidyForgets
          DEF Writes, CreateScript, CreateRecord, At
<1>3. CASE \A x \in Threads : ~Writes(x)
  <2>1. Quiet
    BY <1>0, <1>1, <1>3, OthersAreQuiet
  <2>2. up' = up
    <3>1. ASSUME NEW x \in Threads, Locked(x) PROVE up' = up
      BY <1>0, <3>1, LockedMoves
    <3>2. ASSUME NEW x \in Clients, ClientNext(x) PROVE up' = up
      BY <3>1, <3>2 DEF ClientNext, Allocate, DestroyBegin, Start, Join, Preexec, JoinFails,
           Enter, Threads, worker
    <3>3. CASE PassBegin \/ ReaperPass \/ Restart
      BY <1>1, <3>1, <3>3 DEF PassBegin, ReaperPass, Scan, Recover, Confirm, ScanOrphans,
           PassEnd, Serve, Restart, Threads, worker
    <3>4. CASE UNCHANGED vars \/ \E n \in Names : Exit(n) \/ GrowOld(n)
      BY <3>4 DEF vars, Exit, GrowOld, worker
    <3> QED BY <1>1, <3>2, <3>3, <3>4 DEF Next
  <2> QED BY <1>0, <1>1, <2>1, <2>2, TidyQuiet
<1> QED BY <1>2, <1>3

LEMMA TidyFirst == Init => TidyUnlessFailed
<1> SUFFICES ASSUME Init PROVE Tidy
  BY DEF TidyUnlessFailed
<1>1. None # Dead /\ None \notin Names
  BY SbxAssumption
<1>2. \A n \in Names : /\ ~cg[n] /\ list[n] = {} /\ ~limited[n] /\ rec[n] = {} /\ ~Recorded(n)
                       /\ n \notin slipped
  BY DEF Init, Recorded
<1>3. up = "serving" /\ \A d \in Devices : owner[d] = None
  BY DEF Init
<1>4. \A x \in Clients : pc[x] # "insert"
  BY DEF Init, Threads
<1> QED BY <1>1, <1>2, <1>3, <1>4 DEF Tidy

LEMMA TidyAlways == Spec => [](GInv /\ TidyUnlessFailed)
<1>1. Init => GInv /\ TidyUnlessFailed
  BY GoneFirst, TidyFirst
<1>2. GInv /\ TidyUnlessFailed /\ [Next]_vars => (GInv /\ TidyUnlessFailed)'
  BY GoneStep, StillTidy
<1> QED BY <1>1, <1>2, PTL DEF Spec

\* Until something fails or a Worker is left with two SbxManager objects, the
\* processes of a sandbox, and nobody else, can open its devices, and no other
\* of them, unless they slipped through the end of their sandbox: after any
\* allocations, releases, exits and Reaper passes.
THEOREM DevicesAreExclusive == Spec => []ExclusiveUnlessFailed
<1>1. GInv /\ TidyUnlessFailed => ExclusiveUnlessFailed
  <2> SUFFICES ASSUME GInv, Tidy, NEW n \in Names \ slipped, inside[n], Recorded(n), rec[n] # {}
               PROVE  /\ \A d \in Devices : CanOpen(n, d) <=> d \in rec[n]
                      /\ \A d \in rec[n] : ~HostCanOpen(d)
                      /\ \A m \in Names \ {n}, d \in rec[n] : inside[m] => ~CanOpen(m, d)
    BY DEF TidyUnlessFailed, ExclusiveUnlessFailed, ExclusiveUse, Exclusive
  <2>1. cg[n] /\ list[n] = rec[n] /\ limited[n] /\ rec[n] \subseteq Devices
    BY DEF GInv, Housed, IInv, TypeOK, Types, Tidy
  <2>2. \A d \in Devices : owner[d] = n <=> d \in rec[n]
    BY <2>1 DEF Tidy
  <2>3. None \notin Names
    BY SbxAssumption
  <2> QED BY <2>1, <2>2, <2>3 DEF CanOpen, HostCanOpen
<1> QED BY <1>1, TidyAlways, PTL

\* Until then every key in the kernel is of a live cgroup that lists its device:
\* nothing has to be rebooted to make a device free again.
THEOREM NoKeyLeaks == Spec => []NoLeakedKey
<1>1. GInv /\ TidyUnlessFailed => NoLeakedKey
  <2> SUFFICES ASSUME GInv, Tidy, NEW d \in Devices, owner[d] # None
               PROVE  \E n \in Names : owner[d] = n /\ cg[n] /\ d \in list[n]
    BY DEF TidyUnlessFailed, NoLeakedKey
  <2>1. owner[d] \in Names
    BY DEF GInv, IInv, TypeOK, Types, Tidy
  <2> QED BY <2>1 DEF Tidy
<1> QED BY <1>1, TidyAlways, PTL

-----------------------------------------------------------------------------
(* One failure. *)

InTheMaking(n) == \E x \in Clients : pc[x] = "insert" /\ on[x] = n

\* What holds although something failed: a key of a record's device belongs to
\* its own sandbox or to nobody alive, and the list that a destruction reads
\* names every key it has to remove.
Listed ==
    /\ \A n \in Names : \A d \in rec[n] :
        /\ owner[d] \in {n, None, Dead}
        /\ owner[d] \in {n, Dead} => d \in list[n] \/ InTheMaking(n)
    /\ \A x \in Clients : pc[x] = "insert" =>
        list[on[x]] = devs[x] /\ \A d \in devs[x] : owner[d] = on[x]

\* So nothing is left of a sandbox when its record goes.
Removed ==
    \A x \in Threads : pc[x] = "forget" =>
        \A d \in rec[on[x]] : owner[d] \notin {on[x], Dead}

AtMostOneFailure == faults + crashes <= 1 /\ ~split

RInv ==
    /\ GInv /\ TidyUnlessFailed
    /\ AtMostOneFailure => Listed /\ Removed

\* A creation reserves what no record has, and its sandbox is in the making.
LEMMA ListedCreates ==
    ASSUME RInv, AtMostOneFailure, NEW x \in Clients,
           CreateScript(x) \/ CreateCut(x), CreateCut(x) => Tidy
    PROVE  Listed' /\ Removed'
<1> USE DEF table, pass, At, Recorded
<1>0. /\ Types /\ x \in Threads /\ Writes(x) /\ on[x] \in Names /\ Clients \subseteq Threads
      /\ Listed
  BY WritesAlone DEF RInv, GInv, IInv, TypeOK, AtMostOneFailure, Writes, Threads
<1>n. PICK n \in Names : n = on[x]
  BY <1>0
<1>1. /\ \A y \in Threads \ {x} : pc[y] \notin Critical /\ pc'[y] = pc[y]
      /\ pc[x] = "create" /\ ~cg[n] /\ rec' = rec
  BY <1>0, <1>n, WritesAlone DEF RInv, GInv, AtMostOneFailure, CreateScript, CreateCut
<1>2. \A m \in Names : ~InTheMaking(m)
  BY <1>0, <1>1 DEF InTheMaking, Critical
<1>3. PICK S \in SUBSET devs[x] : owner' = [d \in Devices |-> IF d \in S THEN n ELSE owner[d]]
  <2>1. CASE CreateScript(x)
    BY <1>n, <2>1 DEF CreateScript, Reserve
  <2>2. CASE CreateCut(x)
    BY <1>n, <2>2 DEF CreateCut, Reserve
  <2> QED BY <2>1, <2>2
<1>4. \A m \in Names : \A d \in rec[m] : owner'[d] = owner[d]
  <2>1. \A m \in Names : devs[x] \cap rec[m] = {} /\ rec[m] \subseteq Devices
    BY <1>0, <1>1 DEF RInv, GInv, IInv, TypeOK, AtMostOneFailure, Invariant, Single, ChosenIsFree, Types
  <2> QED BY <1>3, <2>1
<1>5. \A m \in Names \ {n} : list'[m] = list[m]
  BY <1>0, <1>n DEF CreateScript, CreateCut, Types
<1>6. \A m \in Names \ {n} : \A d \in rec'[m] :
         /\ owner'[d] \in {m, None, Dead}
         /\ owner'[d] \in {m, Dead} => d \in list'[m]
  BY <1>0, <1>1, <1>2, <1>4, <1>5 DEF Listed
<1>7. \A y \in Threads : pc'[y] # "forget"
  BY <1>0, <1>1 DEF CreateScript, CreateCut, Return, Critical, Types
<1>8. CASE CreateScript(x)
  <2>1. /\ pc'[x] = "insert" /\ on' = on /\ devs' = devs /\ list'[n] = devs[x]
        /\ \A d \in devs[x] : owner'[d] = n
    BY <1>0, <1>n, <1>8 DEF CreateScript, Reserve, Types
  <2>2. \A y \in Clients : pc'[y] = "insert" => y = x
    BY <1>0, <1>1 DEF Critical
  <2>3. InTheMaking(n)'
    BY <1>n, <2>1 DEF InTheMaking
  <2>4. \A d \in rec'[n] : owner'[d] \in {n, None, Dead}
    BY <1>0, <1>1, <1>4 DEF Listed
  <2> QED BY <1>n, <1>6, <1>7, <2>1, <2>2, <2>3, <2>4 DEF Listed, Removed
<1>9. CASE CreateCut(x)
  <2>1. rec'[n] = {}
    <3>1. ~Recorded(n)
      BY <1>0, <1>1, <1>9 DEF Tidy, Critical
    <3> QED BY <1>1, <1>9, <3>1 DEF Tidy
  <2>2. \A y \in Clients : pc'[y] # "insert"
    BY <1>0, <1>1, <1>9 DEF CreateCut, Return, Critical, Types
  <2> QED BY <1>6, <1>7, <2>1, <2>2 DEF Listed, Removed
<1> QED BY <1>8, <1>9

\* What is recorded is reserved and listed; a record that fails leaves none.
LEMMA ListedRecords ==
    ASSUME RInv, AtMostOneFailure, NEW x \in Clients, CreateRecord(x),
           Fault => Tidy
    PROVE  Listed' /\ Removed'
<1> USE DEF kernel, table, pass, At, Recorded
<1>0. /\ Types /\ x \in Threads /\ Writes(x) /\ on[x] \in Names /\ Clients \subseteq Threads
      /\ Listed
  BY WritesAlone DEF RInv, GInv, IInv, TypeOK, AtMostOneFailure, Writes, Threads
<1>n. PICK n \in Names : n = on[x]
  BY <1>0
<1>1. /\ \A y \in Threads \ {x} : pc[y] \notin Critical /\ pc'[y] = pc[y]
      /\ pc[x] = "insert" /\ owner' = owner /\ list' = list
  BY <1>0, <1>n, WritesAlone DEF RInv, GInv, AtMostOneFailure, CreateRecord
<1>2. /\ \A m \in Names \ {n} : ~InTheMaking(m)
      /\ list[n] = devs[x] /\ \A d \in devs[x] : owner[d] = n
  BY <1>0, <1>n, <1>1 DEF InTheMaking, Critical, Listed
<1>3. \A y \in Threads : pc'[y] \notin {"insert", "forget"}
  BY <1>0, <1>1 DEF CreateRecord, Return, Critical, Types
<1>4. \A m \in Names \ {n} : rec'[m] = rec[m]
  BY <1>0, <1>n DEF CreateRecord, Types
<1>5. rec'[n] \in {{}, devs[x]}
  <2>1. CASE Fault /\ rec' = rec
    BY <1>1, <1>n, <2>1 DEF Tidy
  <2>2. CASE rec' = [rec EXCEPT ![n] = devs[x]]
    BY <1>0, <2>2 DEF Types
  <2> QED BY <1>n, <2>1, <2>2 DEF CreateRecord
<1> QED BY <1>0, <1>1, <1>2, <1>3, <1>4, <1>5 DEF Listed, Removed

\* A destruction removes the keys that are listed, and no other sandbox's.
LEMMA ListedRemoves ==
    ASSUME RInv, AtMostOneFailure, NEW x \in Threads, Writes(x), pc[x] \in {"script", "clear"},
           rec' = rec, \A y \in Threads : pc'[y] # "insert",
           NEW n \in Names, n = on[x],
           NEW S \in SUBSET list[n], NEW removed \in BOOLEAN, Unreserve(n, S, removed),
           \/ UNCHANGED list
           \/ S = list[n] /\ list' = [list EXCEPT ![n] = {}]
    PROVE  /\ Listed'
           /\ S = list[n] => \A d \in rec[n] : owner'[d] \notin {n, Dead}
<1>0. Types /\ Clients \subseteq Threads /\ Listed /\ None \notin Names /\ None # Dead
  BY SbxAssumption DEF RInv, GInv, IInv, TypeOK, AtMostOneFailure, Threads
<1>1. \A m \in Names : ~InTheMaking(m)
  <2>1. pc[x] # "insert"
    OBVIOUS
  <2> QED BY <1>0, <2>1, WritesAlone DEF RInv, GInv, AtMostOneFailure, InTheMaking, Critical
<1>2. \A m \in Names : \A d \in rec[m] :
         owner'[d] = IF d \in S THEN None
                     ELSE IF removed /\ owner[d] = n THEN Dead ELSE owner[d]
  BY <1>0 DEF Unreserve, Types
<1>3. \A m \in Names : \A d \in rec[m] : owner'[d] \in {m, None, Dead}
  BY <1>0, <1>2 DEF Listed
<1>4. ASSUME NEW d \in rec[n], owner'[d] \in {n, Dead} PROVE d \in list[n] /\ d \notin S
  BY <1>0, <1>1, <1>2, <1>4 DEF Listed
<1>5. ASSUME NEW m \in Names, m # n, NEW d \in rec[m], owner'[d] \in {m, Dead}
      PROVE  d \in list'[m]
  <2>1. owner[d] \in {m, None, Dead} /\ Dead \notin Names
    BY <1>0, SbxAssumption DEF Listed
  <2>2. owner[d] \in {m, Dead}
    BY <1>0, <1>2, <1>5, <2>1
  <2>3. d \in list[m]
    BY <1>0, <1>1, <2>2 DEF Listed
  <2> QED BY <1>0, <1>5, <2>3 DEF Types
<1>6. ASSUME NEW d \in rec[n], owner'[d] \in {n, Dead} PROVE d \in list'[n]
  BY <1>4, <1>6
<1>7. \A y \in Clients : pc'[y] # "insert"
  BY <1>0
<1>8. Listed'
  BY <1>3, <1>5, <1>6, <1>7 DEF Listed
<1> QED BY <1>4, <1>8

LEMMA ListedDestroys ==
    ASSUME RInv, AtMostOneFailure, NEW x \in Threads,
           DestroyClear(x) \/ DestroyStuck(x) \/ DestroyCut(x)
    PROVE  Listed' /\ Removed'
<1> USE DEF table, pass, At
<1>0. Types /\ Writes(x) /\ on[x] \in Names
  BY WritesAlone DEF RInv, GInv, IInv, TypeOK, AtMostOneFailure, Writes
<1>n. PICK n \in Names : n = on[x]
  BY <1>0
<1>1. /\ \A y \in Threads \ {x} : pc[y] \notin Critical /\ pc'[y] = pc[y]
      /\ pc[x] \in {"script", "clear"} /\ rec' = rec
  BY <1>0, WritesAlone DEF RInv, GInv, AtMostOneFailure, DestroyClear, DestroyStuck, DestroyCut
<1>2. CASE DestroyClear(x)
  <2>1. /\ Unreserve(n, list[n], TRUE) /\ list' = [list EXCEPT ![n] = {}]
        /\ pc'[x] = "forget" /\ on'[x] = n
    BY <1>0, <1>n, <1>2 DEF DestroyClear, Types
  <2>2. \A y \in Threads : pc'[y] # "insert"
    BY <1>1, <2>1 DEF Critical
  <2>3. Listed' /\ \A d \in rec[n] : owner'[d] \notin {n, Dead}
    BY <1>0, <1>n, <1>1, <2>1, <2>2, ListedRemoves
  <2>4. \A y \in Threads : pc'[y] = "forget" => y = x
    BY <1>1 DEF Critical
  <2> QED BY <1>1, <2>1, <2>3, <2>4 DEF Removed
<1>3. CASE DestroyStuck(x) \/ DestroyCut(x)
  <2>1. Destroyed(x)
    BY <1>3 DEF DestroyStuck, StillThere, DestroyCut
  <2>2. \A y \in Threads : pc'[y] \notin {"insert", "forget"}
    BY <1>0, <1>1, <2>1, Moves DEF Critical
  <2>3. Listed'
    <3>1. CASE UNCHANGED <<owner, list>>
      <4>1. \A m \in Names : ~InTheMaking(m)
        BY <1>0, <1>1 DEF InTheMaking, Critical, Threads
      <4>2. Listed /\ Clients \subseteq Threads
        BY DEF RInv, Threads
      <4> QED BY <1>1, <2>2, <3>1, <4>1, <4>2 DEF Listed
    <3>2. CASE \E removed \in BOOLEAN, S \in SUBSET list[n] :
                 /\ Unreserve(n, S, removed)
                 /\ \/ UNCHANGED list
                    \/ S = list[n] /\ list' = [list EXCEPT ![n] = {}]
      BY <1>0, <1>n, <1>1, <2>2, <3>2, ListedRemoves
    <3>3. CASE DestroyStuck(x)
      BY <1>n, <3>2, <3>3 DEF DestroyStuck
    <3>4. CASE DestroyCut(x)
      BY <1>n, <3>1, <3>2, <3>4 DEF DestroyCut
    <3> QED BY <1>3, <3>3, <3>4
  <2> QED BY <2>2, <2>3 DEF Removed
<1> QED BY <1>2, <1>3

LEMMA ListedForgets ==
    ASSUME RInv, AtMostOneFailure, NEW x \in Threads, DestroyForget(x)
    PROVE  Listed' /\ Removed'
<1> USE DEF kernel, table, pass, At
<1>0. /\ Types /\ Writes(x) /\ on[x] \in Names /\ Clients \subseteq Threads
      /\ Listed
  BY WritesAlone DEF RInv, GInv, IInv, TypeOK, AtMostOneFailure, Writes, Threads
<1>1. /\ \A y \in Threads \ {x} : pc[y] \notin Critical /\ pc'[y] = pc[y]
      /\ pc[x] = "forget" /\ owner' = owner /\ list' = list
  BY <1>0, WritesAlone DEF RInv, GInv, AtMostOneFailure, DestroyForget
<1>2. \A m \in Names : ~InTheMaking(m) /\ rec'[m] \in {{}, rec[m]}
  BY <1>0, <1>1 DEF InTheMaking, Critical, DestroyForget, Types
<1>3. Destroyed(x) \/ Return(x)
  BY DEF DestroyForget
<1>4. \A y \in Threads : pc'[y] \notin {"insert", "forget"}
  BY <1>0, <1>1, <1>3 DEF Destroyed, Return, Critical, Types
<1> QED BY <1>0, <1>1, <1>2, <1>4 DEF Listed, Removed

LEMMA Counting ==
    ASSUME NEW f \in Nat, NEW c \in Nat, NEW g \in {f, f + 1}, NEW e \in {c, c + 1},
           g + e <= 1
    PROVE  f + c <= 1 /\ (g = f + 1 \/ e = c + 1 => f = 0 /\ c = 0)
OBVIOUS

LEMMA StillListed ==
    ASSUME RInv, [Next]_vars, AtMostOneFailure'
    PROVE  Listed' /\ Removed'
<1> USE DEF Recorded
<1>0. IInv /\ Types /\ GInv /\ Clients \subseteq Threads
  BY DEF RInv, GInv, IInv, TypeOK, AtMostOneFailure, Threads
<1>1. AtMostOneFailure /\ (Fault \/ Crash => Tidy)
  <2>1. ~split /\ faults' \in {faults, faults + 1} /\ crashes' \in {crashes, crashes + 1}
    BY <1>0, FailuresCount DEF AtMostOneFailure
  <2>0. faults \in Nat /\ crashes \in Nat /\ faults' + crashes' <= 1
    BY <1>0 DEF AtMostOneFailure, Types
  <2>2. AtMostOneFailure
    <3>1. faults + crashes <= 1
      BY <2>0, <2>1, Counting
    <3> QED BY <2>1, <3>1, Zenon DEF AtMostOneFailure
  <2>3. Fault \/ Crash => NoFailure
    <3>1. (Crash => crashes' = crashes + 1) /\ (Fault => faults' = faults + 1)
      BY DEF Crash, Fault
    <3>2. Fault \/ Crash => faults = 0 /\ crashes = 0
      BY <2>0, <2>1, <3>1, Counting
    <3> QED BY <2>1, <3>2, Zenon DEF NoFailure
  <2> QED BY <2>2, <2>3 DEF RInv, TidyUnlessFailed
<1>2. Listed /\ Removed
  BY <1>1 DEF RInv
<1>3. ASSUME NEW x \in Threads, Writes(x) PROVE Listed' /\ Removed'
  <2>1. pc[x] \in {"create", "insert"} => x \in Clients
    BY <1>0 DEF IInv, TypeOK, Invariant, Roles, Threads
  <2>2. CreateCut(x) => Tidy
    BY <1>1 DEF CreateCut
  <2> QED BY <1>1, <1>3, <2>1, <2>2, ListedCreates, ListedRecords, ListedDestroys,
             ListedForgets
          DEF Writes, CreateScript, CreateCut, CreateRecord, At
<1>4. CASE Crash
  <2>1. rec' = rec /\ \A x \in Threads : pc'[x] = "idle"
    BY <1>4 DEF Crash, table
  <2>2. \A n \in Names : InTheMaking(n) => rec[n] = {}
    BY <1>1, <1>4 DEF InTheMaking, Tidy
  <2>3. CASE UNCHANGED kernel
    BY <1>0, <1>2, <2>1, <2>2, <2>3 DEF kernel, Listed, Removed
  <2>4. CASE owner' = [d \in Devices |-> None]
    <3>1. \A n \in Names : \A d \in rec[n] : owner'[d] = None
      BY <1>0, <2>4 DEF Types
    <3>2. None \notin Names /\ None # Dead
      BY SbxAssumption
    <3> QED BY <1>0, <2>1, <3>1, <3>2 DEF Listed, Removed
  <2> QED BY <1>4, <2>3, <2>4 DEF Crash
<1>5. CASE Quiet
  <2> QED BY <1>0, <1>2, <1>5 DEF Quiet, HalfWay, Listed, Removed, InTheMaking
<1> QED BY <1>0, <1>3, <1>4, <1>5, OthersAreQuiet

LEMMA RemovedAlways == Spec => []RInv
<1>1. Init => (AtMostOneFailure => Listed /\ Removed)
  BY DEF Init, Listed, Removed, Threads
<1>2. RInv /\ [Next]_vars => (AtMostOneFailure => Listed /\ Removed)'
  BY StillListed
<1> QED BY <1>1, <1>2, TidyAlways, PTL DEF Spec, RInv

\* While there is one SbxManager object: when a record goes, after at most one
\* failed script, failed write or crash, the directory and the process are gone
\* and every device of the record is free in the kernel, so that the next owner
\* finds no key of the last one.
THEOREM NothingLeftBehind == Spec => FreedForEveryone
<1>1. ASSUME RInv, [Next]_vars, NEW n \in Names, AtMostOneFailure, n \in recorded \ recorded'
      PROVE  ~cg[n] /\ ~inside[n] /\ \A d \in rec[n] : owner[d] \notin {n, Dead}
  <2>0. IInv /\ Types /\ Gone /\ Housed /\ Removed
    BY <1>1 DEF RInv, GInv, IInv, TypeOK, AtMostOneFailure
  <2>1. ~Crash /\ ~Quiet
    BY <1>1 DEF Crash, Quiet, table
  <2>2. PICK x \in Threads : Writes(x)
    BY <1>1, <2>0, <2>1, OthersAreQuiet
  <2>3. DestroyForget(x)
    <3>1. CreateRecord(x) => recorded \subseteq recorded'
      BY DEF CreateRecord, table
    <3>2. CreateScript(x) \/ CreateCut(x) \/ DestroyClear(x) \/ DestroyStuck(x)
          \/ DestroyCut(x) => recorded' = recorded
      BY DEF CreateScript, CreateCut, DestroyClear, DestroyStuck, DestroyCut, table
    <3> QED BY <1>1, <2>2, <3>1, <3>2 DEF Writes
  <2>4. pc[x] = "forget" /\ n = on[x]
    BY <1>1, <2>3 DEF DestroyForget, At, table
  <2> QED BY <2>0, <2>4 DEF Gone, Housed, Removed
<1>2. RInv /\ [Next]_vars =>
        \A n \in Names : faults + crashes <= 1 /\ ~split /\ n \in recorded \ recorded' =>
          /\ ~cg[n] /\ ~inside[n]
          /\ \A d \in rec[n] : owner[d] \notin {n, Dead}
  BY <1>1 DEF AtMostOneFailure
<1>3. RInv /\ [Next]_vars => [\A n \in Names : faults + crashes <= 1 /\ ~split /\ n \in recorded \ recorded' =>
          /\ ~cg[n] /\ ~inside[n]
          /\ \A d \in rec[n] : owner[d] \notin {n, Dead}]_vars
  BY <1>2
<1> QED BY <1>3, RemovedAlways, PTL DEF Spec, FreedForEveryone


-----------------------------------------------------------------------------
(* Whom the Reaper spares. *)

\* A start that is on has a young record, unless it is marked as late.
Started ==
    \A x \in Clients :
        pc[x] = "granted" /\ Recorded(on[x]) /\ on[x] \notin late => young[on[x]]

\* The sandbox that the Reaper has condemned: no start will enter it, and none
\* has since the second look.
Condemned ==
    ~split /\ phase = "records" /\ pc[Reaper] \in {"confirm", "script", "clear"}
      /\ on[Reaper] \notin late =>
        /\ \A x \in Clients : pc[x] = "granted" /\ on[x] = on[Reaper] => ~cg[on[x]]
        /\ pc[Reaper] # "confirm" => ~inside[on[Reaper]]

\* Steps after which no start is on that was not before, and no record is newer.
LEMMA StartedStays ==
    ASSUME Started,
           \A y \in Clients : pc'[y] = "granted" => pc[y] = "granted" /\ on'[y] = on[y],
           UNCHANGED <<recorded, young, late>>
    PROVE  Started'
BY DEF Started, Recorded

LEMMA StillStarted ==
    ASSUME IInv, Started, [Next]_vars
    PROVE  Started'
<1> USE DEF kernel, table, pass, marks, threads, At
<1>0. Types /\ KnowsItsSandbox /\ Clients \subseteq Threads /\ Reaper \in Threads
      /\ Reaper \notin Clients
  BY SbxAssumption DEF IInv, TypeOK, Invariant, Threads
<1>1. ASSUME NEW x \in Threads, Locked(x) PROVE Started'
  <2>1. CASE CreateExists(x)
    BY <1>0, <2>1 DEF CreateExists, Started, Recorded, Types
  <2>2. CASE CreateRefused(x) \/ CreateScript(x) \/ CreateCut(x)
    <3>1. Return(x) \/ (pc' = [pc EXCEPT ![x] = "insert"] /\ on' = on)
      BY <2>2 DEF CreateRefused, CreateScript, CreateCut
    <3>2. \A y \in Clients : pc'[y] = "granted" => pc[y] = "granted" /\ on'[y] = on[y]
      BY <1>0, <3>1 DEF Return, Types
    <3>3. UNCHANGED <<recorded, young, late>>
      BY <2>2 DEF CreateRefused, CreateScript, CreateCut
    <3> QED BY <3>2, <3>3, StartedStays
  <2>3. CASE CreateRecord(x)
    <3>0. on[x] \in Names
      BY <1>0, <2>3 DEF CreateRecord, KnowsItsSandbox, Busy
    <3>1. CASE Return(x) /\ UNCHANGED <<recorded, young, late>>
      BY <1>0, <3>1, StartedStays DEF Return, Types
    <3>2. CASE /\ recorded' = recorded \cup {on[x]}
               /\ young' = [young EXCEPT ![on[x]] = TRUE]
               /\ late' = late \ {on[x]}
               /\ pc' = [pc EXCEPT ![x] = "granted"]
               /\ on' = on
      BY <1>0, <3>0, <3>2 DEF Started, Recorded, Types
    <3> QED BY <2>3, <3>1, <3>2 DEF CreateRecord
  <2>4. CASE DestroyKill(x) \/ DestroyClear(x)
    <3>1. /\ \E s \in {"clear", "forget"} : pc' = [pc EXCEPT ![x] = s]
          /\ UNCHANGED <<on, recorded, young, late>>
      BY <2>4 DEF DestroyKill, DestroyClear
    <3> QED BY <1>0, <3>1, StartedStays DEF Types
  <2>5. CASE DestroyStuck(x) \/ DestroyCut(x)
    <3>1. Destroyed(x) /\ UNCHANGED <<recorded, young, late>>
      BY <2>5 DEF DestroyStuck, StillThere, DestroyCut
    <3> QED BY <1>0, <3>1, StartedStays DEF Destroyed, Return, Types
  <2>6. CASE DestroyForget(x)
    <3>0. on[x] \in Names /\ (Destroyed(x) \/ Return(x))
      BY <1>0, <2>6 DEF DestroyForget, KnowsItsSandbox, Busy
    <3>1. \A y \in Clients : pc'[y] = "granted" => pc[y] = "granted" /\ on'[y] = on[y]
      BY <1>0, <3>0 DEF Destroyed, Return, Types
    <3>2. CASE UNCHANGED <<recorded, young, late>>
      BY <3>1, <3>2, StartedStays
    <3>3. CASE /\ recorded' = recorded \ {on[x]}
               /\ young' = [young EXCEPT ![on[x]] = FALSE]
               /\ late' = late \ {on[x]}
      BY <1>0, <3>0, <3>1, <3>3 DEF Started, Recorded, Types
    <3> QED BY <2>6, <3>2, <3>3 DEF DestroyForget
  <2> QED BY <1>1, <2>1, <2>2, <2>3, <2>4, <2>5, <2>6 DEF Locked
<1>2. ASSUME NEW x \in Clients, ClientNext(x) PROVE Started'
  <2>1. ASSUME NEW n \in Names, Allocate(x, n) \/ DestroyBegin(x, n) PROVE Started'
    <3>1. \A y \in Clients : pc'[y] = "granted" => pc[y] = "granted" /\ on'[y] = on[y]
      BY <1>0, <2>1 DEF Allocate, DestroyBegin, Return, Types
    <3> QED BY <2>1, <3>1, StartedStays DEF Allocate, DestroyBegin
  <2>2. CASE Start(x)
    <3>1. pc' = [pc EXCEPT ![x] = "holding"] /\ UNCHANGED <<on, recorded, young, late>>
      BY <2>2 DEF Start, Join, Preexec, JoinFails, Enter
    <3> QED BY <1>0, <3>1, StartedStays DEF Types
  <2> QED BY <1>0, <1>1, <1>2, <2>1, <2>2 DEF ClientNext
<1>3. CASE PassBegin \/ ReaperPass \/ Restart
  <2>1. CASE Locked(Reaper)
    BY <1>0, <1>1, <2>1
  <2>2. ASSUME NEW n \in Names, Scan(n) \/ Recover(n) PROVE Started'
    <3>1. /\ pc' = pc \/ \E s \in Step : pc' = [pc EXCEPT ![Reaper] = s]
          /\ \E m \in Names \cup {None} : on' = [on EXCEPT ![Reaper] = m]
          /\ UNCHANGED <<recorded, young, late>>
      BY <2>2 DEF Scan, ScanRecord, Recover, AtWorkOn, Step
    <3> QED BY <1>0, <3>1, StartedStays DEF Types
  <2>3. CASE Confirm
    <3>1. /\ \E s \in Step : pc' = [pc EXCEPT ![Reaper] = s]
          /\ on' = [on EXCEPT ![Reaper] = IF pc'[Reaper] = "scan" THEN None ELSE on[Reaper]]
          /\ UNCHANGED <<recorded, young, late>>
      BY <2>3 DEF Confirm, AtWorkOn, Step
    <3> QED BY <1>0, <3>1, StartedStays DEF Types
  <2>4. CASE PassBegin \/ ScanOrphans \/ PassEnd \/ Serve \/ Restart
    BY <1>0, <2>4, StartedStays DEF PassBegin, ScanOrphans, PassEnd, Serve, Restart, Return, Types
  <2> QED BY <1>3, <2>1, <2>2, <2>3, <2>4 DEF ReaperPass
<1>4. CASE Crash
  BY <1>0, <1>4 DEF Crash, Started
<1>5. ASSUME NEW n \in Names, Exit(n) \/ GrowOld(n) PROVE Started'
  <2>1. CASE Exit(n)
    BY <2>1, StartedStays DEF Exit
  <2>2. CASE GrowOld(n)
    BY <1>0, <2>2 DEF GrowOld, Started, Recorded, Types
  <2> QED BY <1>5, <2>1, <2>2
<1>6. CASE UNCHANGED vars
  BY <1>6, StartedStays DEF vars
<1> QED BY <1>2, <1>3, <1>4, <1>5, <1>6 DEF Next

\* Only the Reaper condemns, and only what no start can enter; while it does,
\* the others can but start, and that in other sandboxes.
LEMMA StillCondemned ==
    ASSUME GInv, Started, Condemned, [Next]_vars, ~split
    PROVE  Condemned'
<1> USE DEF kernel, table, pass, marks, threads, At
<1>0. /\ IInv /\ Types /\ KnowsItsSandbox /\ Roles /\ Housed
      /\ Clients \subseteq Threads /\ Reaper \in Threads /\ Reaper \notin Clients
  BY SbxAssumption DEF GInv, IInv, TypeOK, Invariant, Threads
<1>1. CASE Locked(Reaper)
  <2>1. CASE DestroyKill(Reaper)
    <3>1. on[Reaper] \in Names
      BY <1>0, <2>1 DEF DestroyKill, KnowsItsSandbox, Busy
    <3>2. /\ ~inside'[on[Reaper]] /\ pc[Reaper] = "script"
          /\ \A x \in Clients : pc'[x] = pc[x]
          /\ UNCHANGED <<split, phase, on, late, cg>>
      BY <1>0, <2>1, <3>1 DEF DestroyKill, worker, Types
    <3> QED BY <3>2 DEF Condemned
  <2>2. CASE DestroyClear(Reaper)
    BY <1>0, <2>2 DEF DestroyClear, Condemned, Types
  <2>3. CASE DestroyStuck(Reaper) \/ DestroyCut(Reaper) \/ DestroyForget(Reaper)
    <3>1. Destroyed(Reaper) \/ Return(Reaper)
      BY <2>3 DEF DestroyStuck, StillThere, DestroyCut, DestroyForget
    <3> QED BY <1>0, <3>1, Moves DEF Condemned
  <2> QED BY <1>0, <1>1, <2>1, <2>2, <2>3
          DEF Locked, Roles, CreateExists, CreateRefused, CreateScript, CreateCut, CreateRecord
<1>2. ASSUME NEW n \in Names, Scan(n) PROVE Condemned'
  <2>1. CASE phase = "records" /\ ScanRecord(n)
    <3>1. /\ pc'[Reaper] \in {"scan", "script", "confirm"}
          /\ pc'[Reaper] = "script" => ~cg[n]
          /\ pc'[Reaper] = "confirm" => Recorded(n) /\ ~young[n]
      BY <1>0, <2>1 DEF ScanRecord, Types
    <3>2. pc'[Reaper] # "scan" => on'[Reaper] = n
      BY <1>0, <1>2 DEF Scan, AtWorkOn, Types
    <3>3. \A x \in Clients : pc'[x] = pc[x] /\ on'[x] = on[x]
      BY <1>0, <1>2, <2>1 DEF Scan, ScanRecord, AtWorkOn, Types
    <3>4. UNCHANGED <<cg, inside, late>>
      BY <1>2 DEF Scan
    <3> QED BY <1>0, <3>1, <3>2, <3>3, <3>4 DEF Condemned, Started, Housed
  <2>2. CASE phase = "records" /\ UNCHANGED pc
    BY <1>2, <2>2 DEF Scan, Condemned
  <2>3. CASE phase = "orphans"
    BY <1>2, <2>3 DEF Scan, Condemned
  <2> QED BY <1>2, <2>1, <2>2, <2>3 DEF Scan
<1>3. ASSUME NEW n \in Names, Recover(n) PROVE Condemned'
  <2>1. pc'[Reaper] = "scan" \/ (pc'[Reaper] = "script" /\ on'[Reaper] = n /\ ~cg[n])
    BY <1>0, <1>3 DEF Recover, AtWorkOn, Types
  <2>2. \A x \in Clients : pc'[x] = "idle"
    BY <1>0, <1>3 DEF Recover, Roles, Types
  <2>3. UNCHANGED <<cg, inside>>
    BY <1>3 DEF Recover
  <2> QED BY <1>0, <2>1, <2>2, <2>3 DEF Condemned, Housed
<1>4. CASE Confirm
  <2>1. pc'[Reaper] = "scan" \/ (pc'[Reaper] = "script" /\ ~inside[on[Reaper]])
    BY <1>0, <1>4 DEF Confirm, Types
  <2>2. pc'[Reaper] # "scan" => on'[Reaper] = on[Reaper]
    BY <1>0, <1>4 DEF Confirm, AtWorkOn, Types
  <2>3. \A x \in Clients : pc'[x] = pc[x] /\ on'[x] = on[x]
    BY <1>0, <1>4 DEF Confirm, AtWorkOn, Types
  <2>4. UNCHANGED <<split, phase, cg, inside, late>> /\ pc[Reaper] = "confirm"
    BY <1>4 DEF Confirm, worker
  <2> QED BY <2>1, <2>2, <2>3, <2>4 DEF Condemned
<1>5. CASE PassBegin \/ ScanOrphans \/ PassEnd \/ Serve \/ Restart \/ Crash
  <2>1. pc'[Reaper] \in {"scan", "idle"}
    BY <1>0, <1>5 DEF PassBegin, ScanOrphans, PassEnd, Serve, Restart, Crash, Return, Types
  <2> QED BY <2>1 DEF Condemned
<1>6. ASSUME NEW x \in Clients, ClientNext(x) PROVE Condemned'
  <2>1. CASE pc[Reaper] \notin {"confirm", "script", "clear"}
    <3>1. pc'[Reaper] = pc[Reaper]
      <4>1. CASE Locked(x)
        BY <1>0, <4>1, LockedMoves DEF Return, Types
      <4>2. CASE Start(x)
        BY <1>0, <4>2 DEF Start, Join, Preexec, JoinFails, Enter, Types
      <4> QED BY <1>0, <1>6, <4>1, <4>2 DEF ClientNext, Allocate, DestroyBegin, Return, Types
    <3> QED BY <2>1, <3>1 DEF Condemned
  <2>2. CASE pc[Reaper] \in {"confirm", "script", "clear"}
    <3>1. pc[x] \notin Critical
      BY <1>0, <2>2, OnlyOne DEF Critical
    <3>2. ~(up = "serving" /\ LockFree(x))
      BY <1>0, <2>2, OnlyOne DEF Critical
    <3>3. Start(x)
      BY <1>0, <1>6, <3>1, <3>2, LockedMoves DEF ClientNext, Allocate, DestroyBegin
    <3>4. /\ pc[x] = "granted" /\ pc' = [pc EXCEPT ![x] = "holding"]
          /\ UNCHANGED <<on, cg, late, phase, split>>
          /\ inside' = inside \/ (cg[on[x]] /\ inside' = [inside EXCEPT ![on[x]] = TRUE])
      BY <3>3 DEF Start, Join, Preexec, JoinFails, Enter, worker
    <3>5. on[x] \in Names /\ on[Reaper] \in Names
      BY <1>0, <2>2, <3>4 DEF KnowsItsSandbox, Busy
    <3>6. pc'[Reaper] = pc[Reaper] /\ \A y \in Clients : pc'[y] = "granted" => pc[y] = "granted"
      BY <1>0, <3>4 DEF Types
    <3>7. Condemned /\ on[x] = on[Reaper] /\ cg[on[x]] => ~(phase = "records" /\ on[Reaper] \notin late)
      BY <2>2, <3>4 DEF Condemned
    <3>8. phase = "records" /\ on[Reaper] \notin late => inside'[on[Reaper]] = inside[on[Reaper]]
      BY <1>0, <3>4, <3>5, <3>7 DEF Types
    <3> QED BY <3>4, <3>6, <3>8 DEF Condemned
  <2> QED BY <2>1, <2>2
<1>7. ASSUME NEW n \in Names, Exit(n) \/ GrowOld(n) PROVE Condemned'
  <2>1. /\ \A m \in Names : inside'[m] => inside[m]
        /\ UNCHANGED <<split, phase, pc, on, cg>> /\ late \subseteq late'
    BY <1>0, <1>7 DEF Exit, GrowOld, worker, Types
  <2>2. pc[Reaper] \in {"confirm", "script", "clear"} => on[Reaper] \in Names
    BY <1>0 DEF KnowsItsSandbox, Busy
  <2> QED BY <2>1, <2>2 DEF Condemned
<1>8. CASE UNCHANGED vars
  BY <1>8 DEF vars, worker, Condemned
<1> QED BY <1>1, <1>2, <1>3, <1>4, <1>5, <1>6, <1>7, <1>8 DEF Next, ReaperPass

\* While there is one SbxManager object, for all interleavings of clients, failed
\* scripts, exits and crashes: the Reaper destroys no recorded sandbox with a
\* process inside, unless the start outlived the grace period or used a sandbox
\* that was there already.
THEOREM LivingAreSpared == Spec => []ReaperSparesTheLiving
<1> DEFINE SInv == GInv /\ Started /\ Condemned
<1>1. Init => SInv
  <2>1. ASSUME Init PROVE Reaper \in Threads /\ pc[Reaper] = "idle" /\ \A x \in Clients : pc[x] = "idle"
    BY <2>1 DEF Init, Threads
  <2> QED BY <2>1, GoneFirst DEF Started, Condemned
<1>2. SInv /\ [Next]_vars => SInv'
  <2> SUFFICES ASSUME SInv, [Next]_vars PROVE SInv'
    OBVIOUS
  <2>1. GInv' /\ Started'
    BY GoneStep, StillStarted DEF GInv
  <2>2. ~split' => ~split
    BY FailuresCount DEF GInv, IInv, TypeOK
  <2> QED BY <2>1, <2>2, StillCondemned DEF Condemned
<1>3. SInv => ReaperSparesTheLiving
  BY DEF Condemned, ReaperSparesTheLiving
<1> QED BY <1>1, <1>2, <1>3, PTL DEF Spec

=============================================================================
