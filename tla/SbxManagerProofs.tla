-------------------------- MODULE SbxManagerProofs --------------------------
(***************************************************************************)
(* Theorems about SbxManager for any number of sandboxes, devices, client  *)
(* threads, SbxManager objects, faults and crashes: its variables keep     *)
(* their types, its locks are held by those in a critical section, and no  *)
(* object records a device for two sandboxes.                              *)
(***************************************************************************)
EXTENDS SbxManager, TLAPS

-----------------------------------------------------------------------------
(* The inductive invariant.                                                *)

\* A thread at work on a sandbox knows which.
Busy == {"create", "insert", "granted", "holding", "confirm", "script", "clear", "forget"}

KnowsItsSandbox == \A x \in Threads : pc[x] \in Busy => on[x] \in Names

\* The Reaper scans, the clients do the rest, and the recovery runs alone.
Roles ==
    /\ up # "serving" => \A x \in Clients : pc[x] = "idle"
    /\ up = "down" => pc[Reaper] = "idle"
    /\ \A x \in Clients : pc[x] \notin {"scan", "confirm"}
    /\ pc[Reaper] \in {"idle", "scan", "confirm", "script", "clear", "forget"}

\* Until a Worker is left with two SbxManager objects, all threads have one.
Single == ~split => OneObject(mgr)

\* What is about to be recorded is in no record, or in one that another object
\* of this Worker has made meanwhile.
ChosenIsFree ==
    \A x \in Clients : pc[x] \in {"create", "insert"} =>
        \A n \in Names : devs[x] \cap rec[n] # {} =>
            ~OneObject(mgr) /\ by[n].life = crashes /\ by[n].object # mgr[x]

Invariant == KnowsItsSandbox /\ Roles /\ Single /\ ChosenIsFree /\ NoDoubleAllocation

IInv == TypeOK /\ Invariant

-----------------------------------------------------------------------------
(* Types. *)

LEMMA MovesTypes ==
    ASSUME Types, NEW x \in Threads
    PROVE  /\ Return(x) \/ Destroyed(x) =>
                /\ pc' \in [Threads -> Step]
                /\ on' \in [Threads -> Names \cup {None}]
                /\ devs' \in [Threads -> SUBSET Devices]
                /\ lock' \in [Instances -> Threads \cup {None}]
           /\ Take(x) => lock' \in [Instances -> Threads \cup {None}]
           /\ Unlock(x) => lock' \in [Instances -> Threads \cup {None}]
BY DEF Types, Return, Destroyed, Take, Unlock, Step

\* The end of a call, for its thread and for the others.
LEMMA Moves ==
    ASSUME Types, NEW x \in Threads, NEW y \in Threads
    PROVE  /\ Return(x) =>
                /\ pc'[y] = IF y = x THEN "idle" ELSE pc[y]
                /\ on'[y] = IF y = x THEN None ELSE on[y]
                /\ devs'[y] = IF y = x THEN {} ELSE devs[y]
           /\ Destroyed(x) =>
                /\ pc'[y] = IF y # x THEN pc[y] ELSE IF x = Reaper THEN "scan" ELSE "idle"
                /\ on'[y] = IF y = x THEN None ELSE on[y]
                /\ y # x => devs'[y] = devs[y]
BY DEF Types, Return, Destroyed

LEMMA OwnerTypes ==
    ASSUME Types, NEW n \in Names, NEW S \in SUBSET Devices
    PROVE  /\ Reserve(n, S) => owner' \in [Devices -> Names \cup {None, Dead}]
           /\ \A b \in BOOLEAN : Unreserve(n, S, b) =>
                owner' \in [Devices -> Names \cup {None, Dead}]
BY DEF Types, Reserve, Unreserve

LEMMA MakerTypes ==
    ASSUME Types, NEW x \in Threads
    PROVE  Maker(x) \in [life : Nat, object : Instances \cup {None}]
BY DEF Types, Maker, Nobody

LEMMA CreateTypes ==
    ASSUME Types, KnowsItsSandbox, NEW x \in Threads
    PROVE  /\ \A n \in Names : Allocate(x, n) => Types'
           /\ CreateExists(x) \/ CreateRefused(x) => Types'
           /\ CreateScript(x) \/ CreateCut(x) => Types'
           /\ CreateRecord(x) => Types'
<1> USE DEF kernel, table, worker, pass, marks, Fault, At
<1>1. ASSUME NEW n \in Names, Allocate(x, n) PROVE Types'
  <2>1. devs' \in [Threads -> SUBSET Devices]
    BY <1>1 DEF Allocate, Free, Types
  <2>2. lock' \in [Instances -> Threads \cup {None}]
    BY <1>1, MovesTypes DEF Allocate
  <2> QED BY <1>1, <2>1, <2>2 DEF Allocate, Types, Step
<1>2. ASSUME CreateExists(x) \/ CreateRefused(x) PROVE Types'
  <2>1. CASE CreateExists(x)
    <3>1. on[x] \in Names
      BY <2>1 DEF CreateExists, KnowsItsSandbox, Busy
    <3> QED BY <2>1, <3>1, MovesTypes DEF CreateExists, Types, Step
  <2>2. CASE CreateRefused(x)
    BY <2>2, MovesTypes DEF CreateRefused, Types
  <2> QED BY <1>2, <2>1, <2>2
<1>3. ASSUME CreateScript(x) PROVE Types'
  <2>1. on[x] \in Names /\ devs[x] \in SUBSET Devices
    BY <1>3 DEF CreateScript, KnowsItsSandbox, Busy, Types
  <2>2. owner' \in [Devices -> Names \cup {None, Dead}]
    BY <1>3, <2>1, OwnerTypes DEF CreateScript
  <2> QED BY <1>3, <2>1, <2>2 DEF CreateScript, Types, Step
<1>4. ASSUME CreateCut(x) PROVE Types'
  <2>1. on[x] \in Names /\ devs[x] \in SUBSET Devices
    BY <1>4 DEF CreateCut, KnowsItsSandbox, Busy, Types
  <2>2. PICK reserved \in SUBSET devs[x], listed \in SUBSET devs[x] :
           /\ Reserve(on[x], reserved)
           /\ \/ list' = [list EXCEPT ![on[x]] = listed]
              \/ UNCHANGED list
           /\ limited' \in {[limited EXCEPT ![on[x]] = b] :
                               b \in {FALSE, listed = devs[x] /\ devs[x] # {}}}
    BY <1>4 DEF CreateCut
  <2>3. owner' \in [Devices -> Names \cup {None, Dead}]
    BY <2>1, <2>2, OwnerTypes
  <2>4. list' \in [Names -> SUBSET Devices] /\ limited' \in [Names -> BOOLEAN]
    BY <2>1, <2>2 DEF Types
  <2>5. /\ pc' \in [Threads -> Step]
        /\ on' \in [Threads -> Names \cup {None}]
        /\ devs' \in [Threads -> SUBSET Devices]
        /\ lock' \in [Instances -> Threads \cup {None}]
    BY <1>4, MovesTypes DEF CreateCut
  <2>6. cg' \in [Names -> BOOLEAN] /\ faults' \in Nat
    BY <1>4, <2>1 DEF CreateCut, Types
  <2> QED BY <1>4, <2>3, <2>4, <2>5, <2>6 DEF CreateCut, Types
<1>5. ASSUME CreateRecord(x) PROVE Types'
  <2>1. on[x] \in Names /\ devs[x] \in SUBSET Devices
    BY <1>5 DEF CreateRecord, KnowsItsSandbox, Busy, Types
  <2>2. /\ recorded' \in SUBSET Names
        /\ rec' \in [Names -> SUBSET Devices]
        /\ young' \in [Names -> BOOLEAN]
        /\ by' \in [Names -> [life : Nat, object : Instances \cup {None}]]
        /\ late' \in SUBSET Names
        /\ faults' \in Nat
    <3>1. CASE UNCHANGED <<table, late>> /\ faults' = faults + 1
      BY <2>1, <3>1 DEF Types
    <3>2. CASE /\ recorded' = recorded \cup {on[x]}
               /\ rec' = [rec EXCEPT ![on[x]] = devs[x]]
               /\ young' = [young EXCEPT ![on[x]] = TRUE]
               /\ by' = [by EXCEPT ![on[x]] = Maker(x)]
               /\ late' = late \ {on[x]}
               /\ UNCHANGED faults
      BY <2>1, <3>2, MakerTypes DEF Types
    <3> QED BY <1>5, <3>1, <3>2 DEF CreateRecord
  <2>3. /\ pc' \in [Threads -> Step]
        /\ on' \in [Threads -> Names \cup {None}]
        /\ devs' \in [Threads -> SUBSET Devices]
        /\ lock' \in [Instances -> Threads \cup {None}]
    BY <1>5, MovesTypes DEF CreateRecord, Types, Step
  <2> QED BY <1>5, <2>2, <2>3 DEF CreateRecord, Types
<1> QED BY <1>1, <1>2, <1>3, <1>4, <1>5

LEMMA DestroyTypes ==
    ASSUME Types, KnowsItsSandbox, NEW x \in Threads
    PROVE  /\ \A n \in Names : DestroyBegin(x, n) => Types'
           /\ DestroyKill(x) \/ DestroyClear(x) => Types'
           /\ DestroyStuck(x) => Types'
           /\ DestroyCut(x) => Types'
           /\ DestroyForget(x) => Types'
<1> USE DEF kernel, table, worker, pass, marks, Fault, At
<1>1. ASSUME NEW n \in Names, DestroyBegin(x, n) PROVE Types'
  BY <1>1, MovesTypes DEF DestroyBegin, Types, Step
<1>2. ASSUME DestroyKill(x) PROVE Types'
  BY <1>2 DEF DestroyKill, Types, Step
<1>3. ASSUME DestroyClear(x) PROVE Types'
  <2>1. on[x] \in Names /\ list[on[x]] \in SUBSET Devices
    BY <1>3 DEF DestroyClear, KnowsItsSandbox, Busy, Types
  <2>2. owner' \in [Devices -> Names \cup {None, Dead}]
    BY <1>3, <2>1, OwnerTypes DEF DestroyClear
  <2> QED BY <1>3, <2>1, <2>2 DEF DestroyClear, Types, Step
<1>4. ASSUME DestroyStuck(x) PROVE Types'
  <2>1. on[x] \in Names /\ list[on[x]] \in SUBSET Devices
    BY <1>4 DEF DestroyStuck, KnowsItsSandbox, Busy, Types
  <2>2. owner' \in [Devices -> Names \cup {None, Dead}]
    BY <1>4, <2>1, OwnerTypes DEF DestroyStuck
  <2>3. /\ pc' \in [Threads -> Step]
        /\ on' \in [Threads -> Names \cup {None}]
        /\ devs' \in [Threads -> SUBSET Devices]
        /\ lock' \in [Instances -> Threads \cup {None}]
    BY <1>4, MovesTypes DEF DestroyStuck, StillThere
  <2>4. inside' \in [Names -> BOOLEAN] /\ slipped' \in SUBSET Names /\ faults' \in Nat
    <3>1. CASE slipped' = slipped \cup {on[x]} /\ UNCHANGED <<inside, faults>>
      BY <2>1, <3>1 DEF Types
    <3>2. CASE inside' = [inside EXCEPT ![on[x]] = FALSE] /\ faults' = faults + 1
               /\ UNCHANGED slipped
      BY <2>1, <3>2 DEF Types
    <3> QED BY <1>4, <3>1, <3>2 DEF DestroyStuck
  <2>6. list' \in [Names -> SUBSET Devices]
    BY <1>4, <2>1 DEF DestroyStuck, Types
  <2>5. limited' \in [Names -> BOOLEAN]
    BY <1>4, Zenon DEF DestroyStuck, Types
  <2> QED BY <1>4, <2>2, <2>3, <2>4, <2>5, <2>6 DEF DestroyStuck, Types
<1>5. ASSUME DestroyCut(x) PROVE Types'
  <2>1. on[x] \in Names /\ list[on[x]] \in SUBSET Devices
    BY <1>5 DEF DestroyCut, KnowsItsSandbox, Busy, Types
  <2>2. /\ inside' \in [Names -> BOOLEAN]
        /\ cg' \in [Names -> BOOLEAN]
        /\ limited' \in [Names -> BOOLEAN]
        /\ list' \in [Names -> SUBSET Devices]
        /\ owner' \in [Devices -> Names \cup {None, Dead}]
    <3>1. inside \in [Names -> BOOLEAN] /\ cg \in [Names -> BOOLEAN]
          /\ limited \in [Names -> BOOLEAN] /\ list \in [Names -> SUBSET Devices]
      BY DEF Types
    <3>2. CASE /\ inside' \in {inside, [inside EXCEPT ![on[x]] = FALSE]}
               /\ UNCHANGED <<cg, owner, limited, list>>
      BY <3>2 DEF Types
    <3>3. CASE \E removed \in BOOLEAN, S \in SUBSET list[on[x]] :
                 /\ inside' \in {[inside EXCEPT ![on[x]] = b] :
                                    b \in {FALSE, inside[on[x]] /\ ~removed}}
                 /\ cg' = [cg EXCEPT ![on[x]] = @ /\ ~removed]
                 /\ Unreserve(on[x], S, removed)
                 /\ limited' \in {[limited EXCEPT ![on[x]] = @ /\ b] :
                                     b \in {~removed, ~removed /\ S = {}}}
                 /\ \/ UNCHANGED list
                    \/ S = list[on[x]] /\ list' = [list EXCEPT ![on[x]] = {}]
      <4>1. PICK removed \in BOOLEAN, S \in SUBSET list[on[x]] :
                 /\ inside' \in {[inside EXCEPT ![on[x]] = b] :
                                    b \in {FALSE, inside[on[x]] /\ ~removed}}
                 /\ cg' = [cg EXCEPT ![on[x]] = @ /\ ~removed]
                 /\ Unreserve(on[x], S, removed)
                 /\ limited' \in {[limited EXCEPT ![on[x]] = @ /\ b] :
                                     b \in {~removed, ~removed /\ S = {}}}
                 /\ \/ UNCHANGED list
                    \/ S = list[on[x]] /\ list' = [list EXCEPT ![on[x]] = {}]
        BY <3>3
      <4>2. inside' \in [Names -> BOOLEAN]
        <5>1. PICK b \in BOOLEAN : inside' = [inside EXCEPT ![on[x]] = b]
          <6>1. inside[on[x]] \in BOOLEAN
            BY <2>1, <3>1
          <6> QED BY <4>1, <6>1
        <5> QED BY <3>1, <5>1
      <4>3. cg' \in [Names -> BOOLEAN]
        <5> DEFINE left == cg[on[x]] /\ ~removed
        <5>1. left \in BOOLEAN
          BY Zenon
        <5>2. cg' = [cg EXCEPT ![on[x]] = left]
          BY <4>1, Zenon
        <5> HIDE DEF left
        <5> QED BY <3>1, <5>1, <5>2
      <4>4. limited' \in [Names -> BOOLEAN]
        <5>1. PICK b \in BOOLEAN : limited' = [limited EXCEPT ![on[x]] = @ /\ b]
          BY <4>1, Zenon
        <5> DEFINE left == limited[on[x]] /\ b
        <5>2. left \in BOOLEAN
          BY Zenon
        <5>3. limited' = [limited EXCEPT ![on[x]] = left]
          BY <5>1, Zenon
        <5> HIDE DEF left
        <5> QED BY <3>1, <5>2, <5>3
      <4>5. list' \in [Names -> SUBSET Devices]
        BY <3>1, <4>1
      <4>6. owner' \in [Devices -> Names \cup {None, Dead}]
        BY <2>1, <4>1, OwnerTypes
      <4> QED BY <4>2, <4>3, <4>4, <4>5, <4>6
    <3> QED BY <1>5, <3>2, <3>3 DEF DestroyCut
  <2>3. /\ pc' \in [Threads -> Step]
        /\ on' \in [Threads -> Names \cup {None}]
        /\ devs' \in [Threads -> SUBSET Devices]
        /\ lock' \in [Instances -> Threads \cup {None}]
    BY <1>5, MovesTypes DEF DestroyCut
  <2> QED BY <1>5, <2>2, <2>3 DEF DestroyCut, Types
<1>6. ASSUME DestroyForget(x) PROVE Types'
  <2>1. on[x] \in Names
    BY <1>6 DEF DestroyForget, KnowsItsSandbox, Busy
  <2>2. /\ recorded' \in SUBSET Names
        /\ rec' \in [Names -> SUBSET Devices]
        /\ young' \in [Names -> BOOLEAN]
        /\ by' \in [Names -> [life : Nat, object : Instances \cup {None}]]
        /\ late' \in SUBSET Names
        /\ faults' \in Nat
        /\ todo' \in SUBSET Names
    <3>1. CASE UNCHANGED <<table, late>> /\ faults' = faults + 1 /\ todo' \in {{}, todo}
      BY <3>1 DEF Types
    <3>2. CASE /\ recorded' = recorded \ {on[x]}
               /\ rec' = [rec EXCEPT ![on[x]] = {}]
               /\ young' = [young EXCEPT ![on[x]] = FALSE]
               /\ by' = [by EXCEPT ![on[x]] = Nobody]
               /\ late' = late \ {on[x]}
               /\ UNCHANGED <<todo, faults>>
      BY <2>1, <3>2 DEF Types, Nobody
    <3> QED BY <1>6, <3>1, <3>2 DEF DestroyForget
  <2>3. /\ pc' \in [Threads -> Step]
        /\ on' \in [Threads -> Names \cup {None}]
        /\ devs' \in [Threads -> SUBSET Devices]
        /\ lock' \in [Instances -> Threads \cup {None}]
    BY <1>6, MovesTypes DEF DestroyForget
  <2> QED BY <1>6, <2>2, <2>3 DEF DestroyForget, Types
<1> QED BY <1>1, <1>2, <1>3, <1>4, <1>5, <1>6

LEMMA OtherTypes ==
    ASSUME Types, KnowsItsSandbox
    PROVE  /\ \A x \in Clients : Start(x) => Types'
           /\ PassBegin \/ Confirm \/ ScanOrphans \/ PassEnd => Types'
           /\ \A n \in Names : Scan(n) \/ Recover(n) => Types'
           /\ Crash \/ Restart \/ Serve => Types'
           /\ \A n \in Names : Exit(n) \/ GrowOld(n) => Types'
<1> USE DEF kernel, table, worker, pass, threads, marks, Fault, At, Threads, AtWorkOn
<1>1. ASSUME NEW x \in Clients, Start(x) PROVE Types'
  BY <1>1 DEF Start, Join, Preexec, JoinFails, Enter, Types, Step
<1>2. ASSUME PassBegin \/ Confirm PROVE Types'
  <2>1. CASE PassBegin
    BY <2>1, MovesTypes DEF PassBegin, Types, Step
  <2>2. CASE Confirm
    <3>1. on[Reaper] \in Names
      BY <2>2 DEF Confirm, KnowsItsSandbox, Busy
    <3>2. pc' \in [Threads -> Step] /\ faults' \in Nat
      BY <2>2 DEF Confirm, Types, Step
    <3> QED BY <2>2, <3>1, <3>2 DEF Confirm, Types
  <2> QED BY <1>2, <2>1, <2>2
<1>3. ASSUME ScanOrphans \/ PassEnd PROVE Types'
  BY <1>3, MovesTypes DEF ScanOrphans, PassEnd, Types
<1>4. ASSUME NEW n \in Names, Scan(n) PROVE Types'
  <2>1. pc' \in [Threads -> Step] /\ faults' \in Nat
    BY <1>4 DEF Scan, ScanRecord, Types, Step
  <2> QED BY <1>4, <2>1 DEF Scan, Types
<1>5. ASSUME NEW n \in Names, Recover(n) PROVE Types'
  BY <1>5 DEF Recover, Types, Step
<1>6. ASSUME Crash PROVE Types'
  <2>1. /\ cg' \in [Names -> BOOLEAN] /\ inside' \in [Names -> BOOLEAN]
        /\ owner' \in [Devices -> Names \cup {None, Dead}]
        /\ limited' \in [Names -> BOOLEAN]
        /\ list' \in [Names -> SUBSET Devices]
        /\ slipped' \in SUBSET Names
    <3>1. CASE UNCHANGED <<kernel, slipped>>
      BY <3>1 DEF Types
    <3>2. CASE ~ UNCHANGED <<kernel, slipped>>
      BY <1>6, <3>2 DEF Crash, Types
    <3> QED BY <3>1, <3>2
  <2>2. /\ pc' \in [Threads -> Step]
        /\ on' \in [Threads -> Names \cup {None}]
        /\ devs' \in [Threads -> SUBSET Devices]
        /\ lock' \in [Instances -> Threads \cup {None}]
        /\ crashes' \in Nat
    BY <1>6 DEF Crash, Types, Step
  <2> QED BY <1>6, <2>1, <2>2 DEF Crash, Types
<1>7. ASSUME Restart \/ Serve PROVE Types'
  <2>1. CASE Restart
    <3>1. mgr' \in [Threads -> Instances] /\ split' \in BOOLEAN
      <4>1. split \in BOOLEAN
        BY DEF Types
      <4> QED BY <2>1, <4>1, SbxAssumption DEF Restart, OneObject
    <3> QED BY <2>1, <3>1 DEF Restart, Types, Step
  <2>2. CASE Serve
    BY <2>2, MovesTypes DEF Serve, Types, Step
  <2> QED BY <1>7, <2>1, <2>2
<1>8. ASSUME NEW n \in Names, Exit(n) \/ GrowOld(n) PROVE Types'
  BY <1>8 DEF Exit, GrowOld, Types
<1> QED BY <1>1, <1>2, <1>3, <1>4, <1>5, <1>6, <1>7, <1>8

LEMMA TypeStep ==
    ASSUME Types, KnowsItsSandbox, [Next]_vars
    PROVE  Types'
<1>1. ASSUME NEW x \in Threads, Locked(x) PROVE Types'
  BY <1>1, CreateTypes, DestroyTypes DEF Locked
<1>2. ASSUME NEW x \in Clients, ClientNext(x) PROVE Types'
  BY <1>1, <1>2, CreateTypes, DestroyTypes, OtherTypes DEF ClientNext, Threads
<1>3. ASSUME ReaperPass PROVE Types'
  BY <1>1, <1>3, OtherTypes DEF ReaperPass, Threads
<1>4. CASE UNCHANGED vars
  BY <1>4 DEF vars, kernel, table, worker, threads, pass, marks, Types
<1> QED BY <1>2, <1>3, <1>4, OtherTypes DEF Next

-----------------------------------------------------------------------------
(* The lock and the records. *)

\* A sandbox is in a thread's hands from the step that names it to the last.
LEMMA ThreadKnows ==
    ASSUME Types, KnowsItsSandbox, [Next]_vars
    PROVE  KnowsItsSandbox'
<1> USE DEF kernel, table, pass, threads, Fault, At, KnowsItsSandbox, Busy, Types, Threads
<1>1. ASSUME NEW x \in Threads, Locked(x) PROVE KnowsItsSandbox'
  <2>1. CASE CreateExists(x) \/ CreateRefused(x) \/ CreateScript(x) \/ CreateCut(x)
             \/ CreateRecord(x)
    <3>1. CASE CreateExists(x)
      BY <3>1 DEF CreateExists
    <3>2. CASE CreateRefused(x)
      BY <3>2 DEF CreateRefused, Return
    <3>3. CASE CreateScript(x)
      BY <3>3 DEF CreateScript
    <3>4. CASE CreateCut(x)
      BY <3>4 DEF CreateCut, Return
    <3>5. CASE CreateRecord(x)
      BY <3>5 DEF CreateRecord, Return
    <3> QED BY <2>1, <3>1, <3>2, <3>3, <3>4, <3>5
  <2>2. CASE DestroyKill(x) \/ DestroyClear(x)
    BY <2>2 DEF DestroyKill, DestroyClear
  <2>3. CASE DestroyStuck(x) \/ DestroyCut(x) \/ DestroyForget(x)
    <3>1. Return(x) \/ Destroyed(x) => KnowsItsSandbox'
      BY Moves
    <3> QED BY <2>3, <3>1 DEF DestroyStuck, StillThere, DestroyCut, DestroyForget
  <2> QED BY <1>1, <2>1, <2>2, <2>3 DEF Locked
<1>2. ASSUME NEW x \in Clients, ClientNext(x) PROVE KnowsItsSandbox'
  <2>1. ASSUME NEW n \in Names, Allocate(x, n) \/ DestroyBegin(x, n) PROVE KnowsItsSandbox'
    BY <2>1 DEF Allocate, DestroyBegin, Return
  <2>2. CASE Start(x)
    BY <2>2 DEF Start, Join, Preexec, JoinFails, Enter
  <2> QED BY <1>1, <1>2, <2>1, <2>2 DEF ClientNext
<1>3. ASSUME ReaperPass PROVE KnowsItsSandbox'
  <2>1. ASSUME NEW n \in Names, Scan(n) \/ Recover(n) PROVE KnowsItsSandbox'
    BY <2>1 DEF Scan, ScanRecord, Recover, AtWorkOn
  <2>2. CASE Confirm
    BY <2>2 DEF Confirm, AtWorkOn
  <2>3. CASE ScanOrphans \/ PassEnd \/ Serve
    BY <2>3 DEF ScanOrphans, PassEnd, Serve, Return
  <2> QED BY <1>1, <1>3, <2>1, <2>2, <2>3 DEF ReaperPass
<1>4. CASE PassBegin \/ Crash \/ Restart \/ UNCHANGED vars
  BY <1>4 DEF PassBegin, Crash, Restart, vars
<1>5. ASSUME NEW n \in Names, Exit(n) \/ GrowOld(n) PROVE KnowsItsSandbox'
  BY <1>5 DEF Exit, GrowOld
<1> QED BY <1>2, <1>3, <1>4, <1>5 DEF Next

-----------------------------------------------------------------------------
(* The locks and the threads. *)

\* Next to the holder of a lock, or to a thread that finds it free, no thread of
\* that object is in a critical section.
LEMMA Alone ==
    ASSUME LocksHeld, NEW x \in Threads, lock[mgr[x]] \in {x, None}, up = "serving",
           NEW y \in Threads \ {x}, pc[y] \in Critical
    PROVE  mgr[y] # mgr[x] /\ ~OneObject(mgr)
<1>1. lock[mgr[y]] = y
  BY DEF LocksHeld
<1>2. y # None
  BY SbxAssumption
<1> QED BY <1>1, <1>2 DEF OneObject

\* A thread takes a free lock and enters a critical section, is at work in one,
\* leaves it and gives the lock back, or is at work outside.
LEMMA LockMoves ==
    ASSUME Types, LocksHeld, NEW x \in Threads, NEW s \in Step,
           pc' = [pc EXCEPT ![x] = s], mgr' = mgr
    PROVE  /\ LockFree(x) /\ Take(x) /\ s \in Critical /\ up' = up => LocksHeld'
           /\ pc[x] \in Critical /\ s \in Critical /\ lock' = lock /\ up' = up => LocksHeld'
           /\ /\ lock[mgr[x]] \in {x, None}
              /\ Unlock(x)
              /\ s \notin Critical
              /\ up' = up \/ \A y \in Threads \ {x} : pc[y] = "idle"
              => LocksHeld'
           /\ /\ pc[x] \notin Critical /\ s \notin Critical
              /\ lock' = lock /\ up' = up
              => LocksHeld'
<1> USE DEF LocksHeld
<1>0. /\ mgr[x] \in Instances /\ \A y \in Threads : y # None
      /\ \A y \in Threads \ {x} : pc'[y] = pc[y]
      /\ pc'[x] = s
      /\ \A y \in Threads : mgr[y] \in Instances
      /\ \A i \in Instances : lock[i] \in Threads \cup {None}
  BY SbxAssumption DEF Types
<1>1. ASSUME LockFree(x), Take(x), s \in Critical, up' = up PROVE LocksHeld'
  <2>1. \A i \in Instances : lock'[i] = IF i = mgr[x] THEN x ELSE lock[i]
    BY <1>1 DEF Take, Types
  <2> QED BY <1>0, <1>1, <2>1 DEF LockFree
<1>2. ASSUME pc[x] \in Critical, s \in Critical, lock' = lock, up' = up PROVE LocksHeld'
  BY <1>0, <1>2
<1>3. ASSUME lock[mgr[x]] \in {x, None}, Unlock(x), s \notin Critical,
             up' = up \/ \A y \in Threads \ {x} : pc[y] = "idle"
      PROVE  LocksHeld'
  <2>1. \A i \in Instances : lock'[i] = IF i = mgr[x] THEN None ELSE lock[i]
    BY <1>3 DEF Unlock, Types
  <2>2. "idle" \notin Critical
    BY DEF Critical
  <2> QED BY <1>0, <1>3, <2>1, <2>2
<1>4. ASSUME pc[x] \notin Critical, s \notin Critical, lock' = lock, up' = up PROVE LocksHeld'
  BY <1>0, <1>4
<1> QED BY <1>1, <1>2, <1>3, <1>4

\* In the recovery nobody else holds a lock.
LEMMA HoldsOrFree ==
    ASSUME Types, LocksHeld, Roles, NEW x \in Threads, pc[x] \in Critical
    PROVE  lock[mgr[x]] \in {x, None}
<1>1. CASE up = "serving"
  BY <1>1 DEF LocksHeld
<1>2. CASE up # "serving"
  <2>1. \A y \in Clients : pc[y] \notin Critical
    BY <1>2 DEF Roles, Critical
  <2> QED BY <2>1 DEF LocksHeld, Types, Threads
<1> QED BY <1>1, <1>2

\* What a step in a critical section does to its thread and its lock.
LEMMA LockedMoves ==
    ASSUME Types, NEW x \in Threads, Locked(x)
    PROVE  /\ pc[x] \in Critical /\ up # "down"
           /\ UNCHANGED <<up, mgr, split, crashes>>
           /\ \/ Return(x) /\ (up = "serving" \/ x # Reaper \/ pc[x] \in {"create", "insert"})
              \/ /\ pc[x] \in {"create", "insert"}
                 /\ pc' = [pc EXCEPT ![x] = "granted"] /\ Unlock(x)
                 /\ devs' = [devs EXCEPT ![x] = {}]
              \/ /\ pc[x] = "create"
                 /\ pc' = [pc EXCEPT ![x] = "insert"]
                 /\ UNCHANGED <<lock, devs>>
              \/ /\ pc[x] \in {"script", "clear", "forget"}
                 /\ \E s \in {"clear", "forget"} : pc' = [pc EXCEPT ![x] = s]
                 /\ UNCHANGED <<lock, devs>>
              \/ /\ x = Reaper
                 /\ pc' = [pc EXCEPT ![x] = "scan"]
                 /\ UNCHANGED <<lock, devs>>
<1> USE DEF At, Critical, worker
<1>1. CASE CreateExists(x) \/ CreateRefused(x) \/ CreateScript(x) \/ CreateCut(x)
  BY <1>1 DEF CreateExists, CreateRefused, CreateScript, CreateCut
<1>2. CASE CreateRecord(x)
  BY <1>2 DEF CreateRecord
<1>3. CASE DestroyKill(x) \/ DestroyClear(x)
  BY <1>3 DEF DestroyKill, DestroyClear
<1>4. CASE DestroyStuck(x)
  BY <1>4 DEF DestroyStuck, StillThere, Destroyed
<1>5. CASE DestroyCut(x)
  BY <1>5 DEF DestroyCut, Destroyed
<1>6. CASE DestroyForget(x)
  BY <1>6 DEF DestroyForget, Destroyed
<1> QED BY <1>1, <1>2, <1>3, <1>4, <1>5, <1>6 DEF Locked

\* The locks, the roles and the objects.
Order == LocksHeld /\ Roles /\ Single

LEMMA LockedOrder ==
    ASSUME Types, Order, NEW x \in Threads, Locked(x)
    PROVE  Order'
<1>0. x \in Threads /\ Reaper \in Threads /\ Reaper \notin Clients /\ Clients \subseteq Threads
  BY SbxAssumption DEF Threads
<1>1. /\ pc[x] \in Critical
      /\ UNCHANGED <<up, mgr, split>>
      /\ lock[mgr[x]] \in {x, None}
  BY LockedMoves, HoldsOrFree DEF Order
<1>2. \/ /\ \E s \in {"idle", "granted"} : pc' = [pc EXCEPT ![x] = s]
         /\ Unlock(x)
      \/ /\ \E s \in {"insert", "scan", "clear", "forget"} : pc' = [pc EXCEPT ![x] = s]
         /\ lock' = lock
  BY LockedMoves DEF Return
<1>3. LocksHeld'
  <2>1. CASE \E s \in {"idle", "granted"} : pc' = [pc EXCEPT ![x] = s] /\ Unlock(x)
    BY <1>1, <2>1, LockMoves DEF Order, Step, Critical
  <2>2. CASE \E s \in {"insert", "scan", "clear", "forget"} :
                pc' = [pc EXCEPT ![x] = s] /\ lock' = lock
    BY <1>1, <2>2, LockMoves DEF Order, Step, Critical
  <2> QED BY <1>2, <2>1, <2>2
<1>4. Roles'
  <2>1. up # "down" /\ (x \in Clients => up = "serving")
    BY <1>0, <1>1, LockedMoves DEF Order, Roles, Critical
  <2>2. x = Reaper => pc[x] \notin {"create", "insert"}
    BY DEF Order, Roles
  <2> QED BY <1>0, <1>1, <2>1, <2>2, LockedMoves DEF Order, Roles, Return, Types
<1>5. Single'
  BY <1>1 DEF Order, Single
<1> QED BY <1>3, <1>4, <1>5 DEF Order

LEMMA ClientOrder ==
    ASSUME Types, Order, NEW x \in Clients, ClientNext(x)
    PROVE  Order'
<1>0. x \in Threads /\ x # Reaper /\ Clients \subseteq Threads
  BY SbxAssumption DEF Threads
<1>1. ASSUME NEW n \in Names, Allocate(x, n) PROVE Order'
  <2>1. LocksHeld'
    BY <1>0, <1>1, LockMoves DEF Allocate, Order, worker, Step, Critical
  <2> QED BY <1>0, <1>1, <2>1 DEF Allocate, Order, worker, Roles, Single, Types
<1>2. ASSUME NEW n \in Names, DestroyBegin(x, n) PROVE Order'
  <2>1. LocksHeld'
    <3>1. UNCHANGED <<up, mgr>> /\ LockFree(x)
      BY <1>2 DEF DestroyBegin, worker
    <3>2. \/ pc' = [pc EXCEPT ![x] = "script"] /\ Take(x)
          \/ pc' = [pc EXCEPT ![x] = "idle"] /\ Unlock(x)
      BY <1>2 DEF DestroyBegin, Return
    <3> QED BY <1>0, <3>1, <3>2, LockMoves DEF Order, Step, Critical, LockFree
  <2>2. \A y \in Threads :
            pc'[y] = pc[y] \/ (y = x /\ pc'[y] \in {"script", "idle"})
    <3>1. Return(x) \/ pc' = [pc EXCEPT ![x] = "script"]
      BY <1>2 DEF DestroyBegin
    <3> QED BY <1>0, <3>1 DEF Return, Types
  <2>3. up = "serving" /\ UNCHANGED worker
    BY <1>2 DEF DestroyBegin
  <2>4. Roles'
    BY <1>0, <2>2, <2>3, SbxAssumption DEF Threads, Order, worker, Roles
  <2> QED BY <2>1, <2>3, <2>4 DEF Order, worker, Single
<1>3. ASSUME Start(x) PROVE Order'
  <2>1. /\ pc[x] = "granted" /\ pc' = [pc EXCEPT ![x] = "holding"]
        /\ UNCHANGED <<lock, worker>>
    BY <1>3 DEF Start, Join, Preexec, JoinFails, Enter, At, threads
  <2>2. LocksHeld'
    BY <1>0, <2>1, LockMoves DEF Order, worker, Step, Critical
  <2> QED BY <1>0, <2>1, <2>2 DEF Order, worker, Roles, Single, Types
<1> QED BY <1>0, <1>1, <1>2, <1>3, LockedOrder DEF ClientNext

LEMMA ReaperOrder ==
    ASSUME Types, Order, PassBegin \/ ReaperPass
    PROVE  Order'
<1>0. Reaper \in Threads /\ Reaper \notin Clients /\ Clients \subseteq Threads
  BY SbxAssumption DEF Threads
<1>1. CASE PassBegin
  <2>1. LocksHeld'
    BY <1>0, <1>1, LockMoves DEF PassBegin, Order, worker, Step, Critical
  <2> QED BY <1>0, <1>1, <2>1 DEF PassBegin, Order, worker, Roles, Single, Types
<1>2. ASSUME \/ \E n \in Names : Scan(n) \/ Recover(n)
             \/ Confirm \/ ScanOrphans
      PROVE  Order'
  <2>1. /\ pc[Reaper] \in {"scan", "confirm"} /\ up # "down"
        /\ \/ UNCHANGED pc
           \/ \E s \in {"scan", "confirm", "script"} : pc' = [pc EXCEPT ![Reaper] = s]
        /\ UNCHANGED <<lock, up, mgr, split>>
    BY <1>2 DEF Scan, ScanRecord, Recover, Confirm, ScanOrphans, At, worker, threads
  <2>2. LocksHeld'
    <3>1. CASE UNCHANGED pc
      BY <2>1, <3>1 DEF Order, LocksHeld
    <3>2. CASE \E s \in {"scan", "confirm", "script"} : pc' = [pc EXCEPT ![Reaper] = s]
      BY <1>0, <2>1, <3>2, LockMoves DEF Order, Step, Critical
    <3> QED BY <2>1, <3>1, <3>2
  <2> QED BY <1>0, <2>1, <2>2 DEF Order, Roles, Single, Types
<1>3. ASSUME PassEnd \/ Serve PROVE Order'
  <2>1. /\ pc[Reaper] = "scan"
        /\ Return(Reaper)
        /\ UNCHANGED <<mgr, split>>
        /\ up' = "serving" /\ (up' = up \/ up # "serving")
    BY <1>3 DEF PassEnd, Serve, At, worker
  <2>2. lock[mgr[Reaper]] \in {Reaper, None}
    BY <1>0, <2>1, HoldsOrFree DEF Order, Critical
  <2>3. up' = up \/ \A y \in Threads \ {Reaper} : pc[y] = "idle"
    BY <2>1 DEF Order, Roles, Threads
  <2>4. LocksHeld'
    BY <1>0, <2>1, <2>2, <2>3, LockMoves DEF Order, Return, Step, Critical
  <2> QED BY <1>0, <2>1, <2>4 DEF Order, Roles, Single, Types, Return
<1> QED BY <1>0, <1>1, <1>2, <1>3, LockedOrder DEF ReaperPass

LEMMA OrderStep ==
    ASSUME Types, Order, [Next]_vars
    PROVE  Order'
<1>0. Reaper \in Threads /\ Reaper \notin Clients /\ Clients \subseteq Threads
  BY SbxAssumption DEF Threads
<1>1. CASE Crash
  <2>1. /\ \A i \in Instances : lock'[i] = None
        /\ \A x \in Threads : pc'[x] = "idle"
        /\ up' = "down" /\ UNCHANGED <<mgr, split>>
    BY <1>1 DEF Crash
  <2> QED BY <1>0, <2>1 DEF Order, LocksHeld, Roles, Single
<1>2. CASE Restart
  <2>1. /\ up = "down" /\ up' = "recovering" /\ lock' = lock
        /\ pc' = [pc EXCEPT ![Reaper] = "scan"]
        /\ split' = (split \/ ~OneObject(mgr'))
    BY <1>2 DEF Restart
  <2>2. \A x \in Threads : pc[x] = "idle"
    BY <2>1 DEF Order, Roles, Threads
  <2>3. \A i \in Instances : lock[i] = None
    BY <2>2 DEF Order, LocksHeld, Types, Critical
  <2>4. LocksHeld'
    BY <2>1, <2>3 DEF LocksHeld
  <2>5. Roles'
    BY <1>0, <2>1, <2>2 DEF Roles, Types
  <2> QED BY <2>1, <2>4, <2>5 DEF Order, Single
<1>3. CASE UNCHANGED vars
  BY <1>3 DEF vars, worker, threads, Order, LocksHeld, Roles, Single
<1>4. ASSUME NEW n \in Names, Exit(n) \/ GrowOld(n) PROVE Order'
  BY <1>4 DEF Exit, GrowOld, worker, threads, Order, LocksHeld, Roles, Single
<1> QED BY <1>1, <1>2, <1>3, <1>4, ClientOrder, ReaperOrder DEF Next

-----------------------------------------------------------------------------
(* The records. *)

Records == ChosenIsFree /\ NoDoubleAllocation

\* A step that records nothing new and chooses nothing new is harmless.
LEMMA QuietStep ==
    ASSUME Records,
           \A n \in Names : rec'[n] \subseteq rec[n] /\ (rec'[n] # {} => by'[n] = by[n]),
           \A y \in Clients : pc'[y] \in {"create", "insert"} =>
                /\ pc[y] \in {"create", "insert"} /\ devs'[y] = devs[y]
                /\ UNCHANGED <<mgr, crashes>>
    PROVE  Records'
BY DEF Records, ChosenIsFree, NoDoubleAllocation, OneObject

\* The record of x: another choice that meets it is one of another object.
LEMMA RecordStep ==
    ASSUME Types, Invariant, LocksHeld, NEW x \in Clients, CreateRecord(x)
    PROVE  Records'
<1> USE DEF At
<1>0. x \in Threads /\ Clients \subseteq Threads
  BY DEF Threads
<1>1. /\ pc[x] = "insert" /\ on[x] \in Names
      /\ up = "serving" /\ lock[mgr[x]] = x
      /\ UNCHANGED <<mgr, crashes>>
  BY <1>0 DEF CreateRecord, Invariant, KnowsItsSandbox, Busy, Roles, LocksHeld, Critical, worker
<1>2. CASE UNCHANGED table /\ Return(x)
  <2>1. \A y \in Clients : pc'[y] \in {"create", "insert"} =>
              pc[y] \in {"create", "insert"} /\ devs'[y] = devs[y]
    BY <1>0, <1>2 DEF Return, Types
  <2> QED BY <1>1, <1>2, <2>1, QuietStep DEF Invariant, Records, table
<1>3. CASE /\ rec' = [rec EXCEPT ![on[x]] = devs[x]]
           /\ by' = [by EXCEPT ![on[x]] = Maker(x)]
           /\ pc' = [pc EXCEPT ![x] = "granted"]
           /\ devs' = [devs EXCEPT ![x] = {}]
  <2>1. /\ \A n \in Names : rec'[n] = IF n = on[x] THEN devs[x] ELSE rec[n]
        /\ \A n \in Names : by'[n] = IF n = on[x] THEN Maker(x) ELSE by[n]
        /\ \A y \in Clients : pc'[y] = IF y = x THEN "granted" ELSE pc[y]
        /\ \A y \in Clients \ {x} : devs'[y] = devs[y]
    BY <1>0, <1>1, <1>3 DEF Types
  <2>2. \A n \in Names : devs[x] \cap rec[n] # {} =>
            ~OneObject(mgr) /\ by[n].life = crashes /\ by[n].object # mgr[x]
    BY <1>1 DEF Invariant, ChosenIsFree
  <2>3. ~OneObject(mgr) => Maker(x).life = crashes /\ Maker(x).object = mgr[x]
    BY DEF Maker
  <2>4. NoDoubleAllocation'
    <3> SUFFICES ASSUME NEW m \in Names, NEW n \in Names, m # n, rec'[m] \cap rec'[n] # {}
                 PROVE  by'[m].life = by'[n].life /\ by'[m].object # by'[n].object
      BY DEF NoDoubleAllocation
    <3>1. CASE m # on[x] /\ n # on[x]
      BY <2>1, <3>1 DEF Invariant, NoDoubleAllocation
    <3>2. CASE m = on[x]
      BY <2>1, <2>2, <2>3, <3>2
    <3>3. CASE n = on[x]
      BY <2>1, <2>2, <2>3, <3>3
    <3> QED BY <3>1, <3>2, <3>3
  <2>5. ASSUME NEW y \in Clients, pc'[y] \in {"create", "insert"},
               NEW n \in Names, devs'[y] \cap rec'[n] # {}
        PROVE  ~OneObject(mgr) /\ by'[n].life = crashes /\ by'[n].object # mgr[y]
    <3>1. y # x /\ pc[y] \in {"create", "insert"} /\ devs'[y] = devs[y]
      BY <2>1, <2>5
    <3>2. mgr[y] # mgr[x] /\ ~OneObject(mgr)
      BY <1>0, <1>1, <3>1, Alone DEF Critical
    <3>3. CASE n = on[x]
      BY <2>1, <2>3, <3>2, <3>3
    <3>4. CASE n # on[x]
      BY <2>1, <2>5, <3>1, <3>4 DEF Invariant, ChosenIsFree
    <3> QED BY <3>3, <3>4
  <2>6. ChosenIsFree'
    BY <1>1, <2>5 DEF ChosenIsFree, OneObject
  <2> QED BY <2>4, <2>6 DEF Records
<1> QED BY <1>2, <1>3 DEF CreateRecord

LEMMA LockedRecords ==
    ASSUME Types, Invariant, LocksHeld, NEW x \in Threads, Locked(x)
    PROVE  Records'
<1>0. x \in Threads /\ Clients \subseteq Threads /\ Threads = Clients \cup {Reaper}
  BY DEF Threads
<1>1. CASE CreateRecord(x)
  <2>1. x \in Clients
    BY <1>0, <1>1 DEF CreateRecord, At, Invariant, Roles
  <2> QED BY <1>1, <2>1, RecordStep
<1>2. CASE ~CreateRecord(x)
  <2>1. \A n \in Names : rec'[n] \subseteq rec[n] /\ (rec'[n] # {} => by'[n] = by[n])
    <3>1. CASE DestroyForget(x)
      <4>1. \/ UNCHANGED <<rec, by>>
            \/ /\ rec' = [rec EXCEPT ![on[x]] = {}]
               /\ by' = [by EXCEPT ![on[x]] = Nobody]
        BY <3>1 DEF DestroyForget, table
      <4> QED BY <4>1 DEF Types
    <3>2. CASE ~DestroyForget(x)
      <4>1. UNCHANGED table
        BY <1>2, <3>2 DEF Locked, CreateExists, CreateRefused, CreateScript, CreateCut,
                          DestroyKill, DestroyClear, DestroyStuck, DestroyCut
      <4> QED BY <4>1 DEF table
    <3> QED BY <3>1, <3>2
  <2>2. UNCHANGED <<mgr, crashes>>
    BY LockedMoves
  <2>3. \A y \in Clients : pc'[y] \in {"create", "insert"} =>
              pc[y] \in {"create", "insert"} /\ devs'[y] = devs[y]
    <3>1. CASE Return(x)
      BY <1>0, <3>1, Moves
    <3>2. CASE /\ \E s \in {"granted", "scan", "clear", "forget"} : pc' = [pc EXCEPT ![x] = s]
               /\ devs' = [devs EXCEPT ![x] = {}] \/ UNCHANGED devs
      BY <1>0, <3>2 DEF Types
    <3>3. CASE pc[x] = "create" /\ pc' = [pc EXCEPT ![x] = "insert"] /\ UNCHANGED devs
      BY <1>0, <3>3 DEF Types
    <3> QED BY <3>1, <3>2, <3>3, LockedMoves
  <2> QED BY <2>1, <2>2, <2>3, QuietStep DEF Invariant, Records
<1> QED BY <1>1, <1>2

LEMMA RecordsStep ==
    ASSUME Types, Invariant, LocksHeld, [Next]_vars
    PROVE  Records'
<1>0. Clients \subseteq Threads /\ Reaper \notin Clients /\ Reaper \in Threads
  BY SbxAssumption DEF Threads
<1>1. ASSUME NEW x \in Clients, NEW n \in Names, Allocate(x, n) PROVE Records'
  <2>1. UNCHANGED <<rec, by, mgr, crashes>>
    BY <1>1 DEF Allocate, table, worker
  <2>2. ASSUME NEW y \in Clients \ {x} PROVE pc'[y] = pc[y] /\ devs'[y] = devs[y]
    BY <1>0, <1>1 DEF Allocate, Types
  <2>3. devs'[x] \subseteq Free
    BY <1>0, <1>1 DEF Allocate, Types
  <2> QED BY <2>1, <2>2, <2>3 DEF Invariant, ChosenIsFree, Records, NoDoubleAllocation,
                                  Free, Allocated, OneObject
<1>2. ASSUME UNCHANGED <<rec, by>>,
             \/ \A y \in Clients : pc'[y] = "idle"
             \/ /\ \A y \in Clients : pc'[y] \in {"create", "insert"} =>
                      pc[y] \in {"create", "insert"} /\ devs'[y] = devs[y]
                /\ UNCHANGED <<mgr, crashes>>
      PROVE  Records'
  BY <1>2, QuietStep DEF Invariant, Records
<1>3. CASE Crash \/ Restart
  <2>1. \A y \in Clients : pc'[y] = "idle"
    BY <1>0, <1>3 DEF Crash, Restart, Types, Invariant, Roles
  <2> QED BY <1>2, <1>3, <2>1 DEF Crash, Restart, table
<1>4. ASSUME NEW x \in Clients, Start(x) \/ \E n \in Names : DestroyBegin(x, n) PROVE Records'
  <2>1. /\ UNCHANGED <<rec, by, mgr, crashes>>
        /\ \/ /\ \E s \in {"holding", "script"} : pc' = [pc EXCEPT ![x] = s]
              /\ UNCHANGED devs
           \/ Return(x)
    BY <1>4 DEF Start, Join, Preexec, JoinFails, Enter, DestroyBegin, table, worker
  <2>2. \A y \in Clients : pc'[y] \in {"create", "insert"} =>
                      pc[y] \in {"create", "insert"} /\ devs'[y] = devs[y]
    BY <1>0, <2>1 DEF Return, Types
  <2> QED BY <1>2, <2>1, <2>2
<1>5. ASSUME \/ PassBegin \/ Confirm \/ ScanOrphans \/ PassEnd \/ Serve
             \/ \E n \in Names : Scan(n) \/ Recover(n)
      PROVE  Records'
  <2>1. /\ UNCHANGED <<rec, by, mgr, crashes>>
        /\ \/ /\ \/ UNCHANGED pc
                 \/ \E s \in {"scan", "confirm", "script"} : pc' = [pc EXCEPT ![Reaper] = s]
              /\ UNCHANGED devs
           \/ Return(Reaper)
    BY <1>5 DEF PassBegin, Confirm, ScanOrphans, PassEnd, Serve, Scan, ScanRecord, Recover,
                table, worker, threads
  <2>2. \A y \in Clients : pc'[y] = pc[y] /\ devs'[y] = devs[y]
    BY <1>0, <2>1 DEF Return, Types
  <2> QED BY <1>2, <2>1, <2>2
<1>6. ASSUME UNCHANGED vars \/ \E n \in Names : Exit(n) \/ GrowOld(n) PROVE Records'
  BY <1>2, <1>6 DEF vars, Exit, GrowOld, table, worker, threads
<1>7. ASSUME NEW x \in Clients, ClientNext(x) PROVE Records'
  BY <1>0, <1>1, <1>4, <1>7, LockedRecords DEF ClientNext
<1>8. CASE PassBegin \/ ReaperPass
  BY <1>0, <1>5, <1>8, LockedRecords DEF ReaperPass
<1> QED BY <1>3, <1>6, <1>7, <1>8 DEF Next

-----------------------------------------------------------------------------
LEMMA Inductive == IInv /\ [Next]_vars => IInv'
<1> SUFFICES ASSUME TypeOK, Invariant, [Next]_vars PROVE IInv'
  BY DEF IInv
<1>1. Types' /\ KnowsItsSandbox'
  BY TypeStep, ThreadKnows DEF TypeOK, Invariant
<1>2. Order'
  BY OrderStep DEF TypeOK, Invariant, Order
<1>3. Records'
  BY RecordsStep DEF TypeOK
<1> QED BY <1>1, <1>2, <1>3 DEF IInv, TypeOK, Invariant, Order, Records

LEMMA Initially == Init => IInv
<1> SUFFICES ASSUME Init PROVE IInv
  OBVIOUS
<1>1. Types
  <2>1. mgr \in [Threads -> Instances] /\ split \in BOOLEAN
    BY SbxAssumption DEF Init, OneObject
  <2> QED BY <2>1, SbxAssumption DEF Init, Types, Step, Nobody
<1>2. LocksHeld
  BY DEF Init, LocksHeld, Critical
<1>3. KnowsItsSandbox /\ Roles /\ Single /\ ChosenIsFree /\ NoDoubleAllocation
  BY DEF Init, KnowsItsSandbox, Busy, Roles, Single, ChosenIsFree, NoDoubleAllocation, Threads
<1> QED BY <1>1, <1>2, <1>3 DEF IInv, TypeOK, Invariant

\* Every variable keeps its type, and who is in a critical section holds the
\* lock of its object, whatever scripts fail, threads interleave and Workers
\* crash, with any number of SbxManager objects.
THEOREM TypeCorrect == Spec => []TypeOK
<1>1. IInv => TypeOK
  BY DEF IInv
<1> QED BY <1>1, Initially, Inductive, PTL DEF Spec

\* No SbxManager object records a device for two sandboxes, however
\* create_sandbox and destroy_sandbox fail or are cut: two records share a
\* device only when two objects of one Worker made them.
THEOREM DeviceInOneRecord == Spec => []NoDoubleAllocation
<1>1. IInv => NoDoubleAllocation
  BY DEF IInv, Invariant
<1> QED BY <1>1, Initially, Inductive, PTL DEF Spec

=============================================================================
