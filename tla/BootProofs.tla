------------------------------ MODULE BootProofs ------------------------------
(***************************************************************************)
(* What a VM is installed from, for any number of processes, failures and  *)
(* kills: the artifacts of ArtifactCache are whole, the medium of          *)
(* InstallMedium is whole and wired, and on macOS the VM of Vfkit boots    *)
(* the disk that was installed and is up when it is recorded so.           *)
(*                                                                         *)
(* Each component is proved about by itself: the three have their own      *)
(* variables and specifications, Spec, MediumSpec and MacSpec.             *)
(***************************************************************************)
EXTENDS ArtifactCache, InstallMedium, Vfkit, TLAPS

-----------------------------------------------------------------------------
(* The cache: what its states are. *)

Steps == {"idle", "check", "fetch", "copy", "spool", "spooling", "unpack", "unpacking",
          "enumerate", "bake", "pack", "use"}

FileStates == {"absent", "whole", "torn"} \cup Procs
TempStates == {"absent", "torn"} \cup Procs \cup Tools

CacheTypes ==
  /\ file \in [Artifacts -> FileStates] /\ temp \in [Temps -> TempStates]
  /\ pc \in [Procs -> Steps] /\ at \in [Procs -> 1..Len(Order)]
  /\ got \in [Procs -> SUBSET (Arches \cup Tools)]
  /\ faults \in [{"connect", "copy", "local"} -> Nat] /\ crashes \in Nat /\ overlaps \in Nat

\* Which artifacts each way of getting one is for.
Suits(l, f) ==
  /\ l = "fetch" => f \notin Tools \cup {"store"}
  /\ l = "copy" => f \notin Tools
  /\ l \in {"spool", "spooling", "unpack", "unpacking"} => f \in Tools
  /\ l \in {"enumerate", "bake", "pack"} => f = "store"

Ways == \A p \in Procs : Suits(pc[p], Cur(p)) /\ (pc[p] = "idle" => at[p] = 1)

\* No store is packed from nothing, whatever goes wrong.
StoreFilled ==
  /\ \A p \in Procs : (pc[p] = "bake" => got[p] # {}) /\ (pc[p] = "pack" => overlay # {})
  /\ file["store"] # "absent" => packed # {}

\* What a process has for itself as long as no other one runs.
Holds(p) ==
  /\ pc[p] \in {"copy", "unpacking"} => file[Cur(p)] = p
  /\ pc[p] = "spooling" => temp[Temp(Cur(p))] = p
  /\ pc[p] \in {"unpack", "unpacking"} => temp[Temp(Cur(p))] = Cur(p)
  /\ pc[p] = "unpacking" => got[p] = {Cur(p)}

Alone ==
  overlaps = 0 =>
    /\ \A p, q \in Procs : pc[p] # "idle" /\ pc[q] # "idle" => p = q
    /\ \A p \in Procs : Holds(p)

\* The files of S are whole or not there, but for one that is being written, and
\* whole if a create is past them.
Sound(S) ==
  /\ \A f \in S :
       file[f] \in {"absent", "whole"}
         \/ \E p \in Procs : pc[p] \in {"copy", "unpacking"} /\ Cur(p) = f
  /\ \A p \in Procs, i \in 1..Len(Order) :
       (i < at[p] \/ pc[p] = "use") /\ Order[i] \in S => Whole(Order[i])

SparedSound == (Spared("copy") => Sound(Tools)) /\ (Spared("connect") => Sound(Artifacts))

CacheInv == CacheTypes /\ Ways /\ StoreFilled /\ Alone /\ SparedSound

\* The order of the artifacts, each of which is asked for once, the store last.
LEMMA OrderIs ==
  /\ Len(Order) \in Nat \ {0}
  /\ \A i \in 1..Len(Order) : Order[i] \in Artifacts /\ (Order[i] = "store" <=> i = Len(Order))
  /\ \A i, j \in 1..Len(Order) : Order[i] = Order[j] => i = j
  /\ \A f \in Artifacts : \E i \in 1..Len(Order) : f = Order[i]
  /\ "store" \in Artifacts
<1>1. CASE Darwin
  <2>1. Order = <<"openshift-install", "oc", "initramfs", "rootfs", "kernel", "store">>
    BY <1>1 DEF Order
  <2>2. Len(Order) = 6
    BY <2>1
  <2>3. /\ Order[1] = "openshift-install" /\ Order[2] = "oc" /\ Order[3] = "initramfs"
        /\ Order[4] = "rootfs" /\ Order[5] = "kernel" /\ Order[6] = "store"
    BY <2>1
  <2>4. QED BY <2>2, <2>3 DEF Artifacts
<1>2. CASE ~Darwin
  <2>1. Order = <<"openshift-install", "oc", "coreos-installer", "iso", "store">>
    BY <1>2 DEF Order
  <2>2. Len(Order) = 5
    BY <2>1
  <2>3. /\ Order[1] = "openshift-install" /\ Order[2] = "oc" /\ Order[3] = "coreos-installer"
        /\ Order[4] = "iso" /\ Order[5] = "store"
    BY <2>1
  <2>4. QED BY <2>2, <2>3 DEF Artifacts
<1>3. QED BY <1>1, <1>2

LEMMA ToolsAre ==
  /\ Tools \subseteq Artifacts /\ "store" \notin Tools
  /\ \A f \in Tools : Temp(f) \in Temps
  /\ \A p \in Procs : p \notin {"absent", "whole", "torn"} \cup Artifacts
  BY CacheAssumption DEF Tools, Temps

LEMMA StatesAre ==
  /\ {"absent", "whole", "torn"} \subseteq FileStates /\ {"absent", "torn"} \subseteq TempStates
  /\ Procs \subseteq FileStates /\ Procs \subseteq TempStates /\ Tools \subseteq TempStates
  BY DEF FileStates, TempStates

\* Where a process is after the two ways of leaving a step.
LEMMA GotoIs ==
  ASSUME pc \in [Procs -> Steps], NEW p \in Procs, NEW l \in Steps, Goto(p, l)
  PROVE  pc' \in [Procs -> Steps] /\ pc'[p] = l /\ \A q \in Procs \ {p} : pc'[q] = pc[q]
  BY DEF Goto

LEMMA ExitIs ==
  ASSUME CacheTypes, NEW p \in Procs, Exit(p)
  PROVE  /\ pc' \in [Procs -> Steps] /\ at' \in [Procs -> 1..Len(Order)]
         /\ got' \in [Procs -> SUBSET (Arches \cup Tools)]
         /\ pc'[p] = "idle" /\ at'[p] = 1
         /\ \A q \in Procs \ {p} : pc'[q] = pc[q] /\ at'[q] = at[q] /\ got'[q] = got[q]
  BY OrderIs DEF Exit, Goto, CacheTypes, Steps

LEMMA OnwardIs ==
  ASSUME CacheTypes, NEW p \in Procs, Onward(p)
  PROVE  /\ pc' \in [Procs -> Steps] /\ at' \in [Procs -> 1..Len(Order)]
         /\ got' \in [Procs -> SUBSET (Arches \cup Tools)]
         /\ \/ at[p] = Len(Order) /\ pc'[p] = "use" /\ at'[p] = at[p]
            \/ at[p] # Len(Order) /\ pc'[p] = "check" /\ at'[p] = at[p] + 1
         /\ \A q \in Procs \ {p} : pc'[q] = pc[q] /\ at'[q] = at[q] /\ got'[q] = got[q]
<1>1. got' \in [Procs -> SUBSET (Arches \cup Tools)] /\ \A q \in Procs \ {p} : got'[q] = got[q]
  BY DEF Onward, CacheTypes
<1>2. at[p] \in 1..Len(Order) /\ Len(Order) \in Nat
  BY OrderIs DEF CacheTypes
<1>3. CASE at[p] = Len(Order)
  BY <1>1, <1>3 DEF Onward, Goto, CacheTypes, Steps
<1>4. CASE at[p] # Len(Order)
  <2>1. at[p] + 1 \in 1..Len(Order)
    BY <1>2, <1>4
  <2>2. Goto(p, "check") /\ at' = [at EXCEPT ![p] = @ + 1]
    BY <1>4 DEF Onward
  <2>3. QED BY <1>1, <1>4, <2>1, <2>2 DEF Goto, CacheTypes, Steps
<1>5. QED BY <1>3, <1>4

\* What ending or failing leaves of a process's files, and finishing one.
LEMMA AbandonedIs ==
  ASSUME NEW S, NEW V, "torn" \in V, NEW F \in [S -> V], NEW p
  PROVE  /\ Abandoned(F, p) \in [S -> V]
         /\ \A f \in S : Abandoned(F, p)[f] = IF F[f] = p THEN "torn" ELSE F[f]
  BY DEF Abandoned

LEMMA FinishedIs ==
  ASSUME NEW S, NEW V, NEW F \in [S -> V], NEW p, NEW g, NEW v \in V
  PROVE  /\ Finished(F, p, g, v) \in [S -> V]
         /\ \A f \in S : f # g => Finished(F, p, g, v)[f] = F[f]
         /\ g \in S => Finished(F, p, g, v)[g] = IF F[g] = p THEN v ELSE F[g]
  BY DEF Finished

LEMMA FaultIs ==
  ASSUME CacheTypes, NEW kind \in {"connect", "copy", "local"}, Fault(kind)
  PROVE  /\ faults' \in [{"connect", "copy", "local"} -> Nat] /\ faults'[kind] # 0
         /\ \A k \in {"connect", "copy", "local"} : faults'[k] = 0 => faults[k] = 0
         /\ crashes' = crashes /\ overlaps' = overlaps
  BY DEF Fault, CacheTypes

\* The step of p leaves the other processes where they are, and p where its
\* artifact is got that way.
LEMMA WaysKept ==
  ASSUME Ways, NEW p \in Procs, \A q \in Procs \ {p} : pc'[q] = pc[q] /\ at'[q] = at[q],
         Suits(pc'[p], Order[at'[p]]), pc'[p] = "idle" => at'[p] = 1
  PROVE  Ways'
  BY DEF Ways, Cur

LEMMA GotoKept ==
  ASSUME CacheTypes, Ways, NEW p \in Procs, NEW l \in Steps \ {"idle"}, Goto(p, l), at' = at,
         Suits(l, Cur(p))
  PROVE  pc' \in [Procs -> Steps] /\ Ways'
  BY GotoIs, WaysKept DEF CacheTypes, Cur

LEMMA ExitKept == ASSUME CacheTypes, Ways, NEW p \in Procs, Exit(p) PROVE Ways'
  BY ExitIs, WaysKept DEF Suits

LEMMA OnwardKept == ASSUME CacheTypes, Ways, NEW p \in Procs, Onward(p) PROVE Ways'
<1>1. pc'[p] \in {"use", "check"} /\ \A q \in Procs \ {p} : pc'[q] = pc[q] /\ at'[q] = at[q]
  BY OnwardIs
<1>2. QED BY <1>1, WaysKept DEF Suits

\* The ends of a create: what it was writing is abandoned or discarded.
LEMMA EndKept ==
  ASSUME CacheTypes, Ways, NEW p \in Procs, Exit(p),
         file' = file \/ file' = Abandoned(file, p) \/ file' = Finished(file, p, "store", "absent"),
         temp' = temp \/ temp' = Abandoned(temp, p) \/ Discard(p),
         overlay' = overlay, packed' = packed,
         faults' \in [{"connect", "copy", "local"} -> Nat], crashes' \in Nat, overlaps' \in Nat
  PROVE  CacheTypes' /\ Ways'
<1>1. file' \in [Artifacts -> FileStates]
  <2>1. file \in [Artifacts -> FileStates]
    BY DEF CacheTypes
  <2>2. Abandoned(file, p) \in [Artifacts -> FileStates]
    BY <2>1, StatesAre, AbandonedIs
  <2>3. Finished(file, p, "store", "absent") \in [Artifacts -> FileStates]
    BY <2>1, StatesAre, FinishedIs
  <2>4. QED BY <2>1, <2>2, <2>3
<1>2. temp' \in [Temps -> TempStates]
  <2>1. temp \in [Temps -> TempStates]
    BY DEF CacheTypes
  <2>2. Abandoned(temp, p) \in [Temps -> TempStates]
    BY <2>1, StatesAre, AbandonedIs
  <2>3. CASE Discard(p)
    BY <2>1, <2>3, StatesAre DEF Discard
  <2>4. QED BY <2>1, <2>2, <2>3
<1>3. QED BY <1>1, <1>2, ExitIs, ExitKept DEF CacheTypes

LEMMA CacheTypesStep == CacheTypes /\ Ways /\ [Next]_vars => CacheTypes' /\ Ways'
<1> SUFFICES ASSUME CacheTypes, Ways, [Next]_vars PROVE CacheTypes' /\ Ways'
  OBVIOUS
<1> USE DEF CacheTypes, host, bounds
<1>1. CASE UNCHANGED vars
  BY <1>1 DEF vars, Ways, Cur
<1>2. ASSUME NEW p \in Procs, LaunchCreate(p) PROVE CacheTypes' /\ Ways'
  <2>1. overlaps' \in Nat
    BY <1>2 DEF LaunchCreate
  <2>2. QED BY <1>2, <2>1, GotoKept DEF LaunchCreate, Steps, Suits
<1>3. ASSUME NEW p \in Procs, Cached(p) PROVE CacheTypes' /\ Ways'
  <2>1. Ways'
    BY <1>3, OnwardKept DEF Cached
  <2>2. CacheTypes'
    BY <1>3, OnwardIs DEF Cached
  <2>3. QED BY <2>1, <2>2
<1>4. ASSUME NEW p \in Procs, Missing(p) PROVE CacheTypes' /\ Ways'
  BY <1>4, GotoKept, ToolsAre DEF Missing, Staged, Steps, Suits
<1>5. ASSUME NEW p \in Procs, Open(p) PROVE CacheTypes' /\ Ways'
  <2>1. Suits("copy", Cur(p)) /\ file' \in [Artifacts -> FileStates]
    BY <1>5, StatesAre DEF Open, Ways, Suits
  <2>2. QED BY <1>5, <2>1, GotoKept DEF Open, Steps
<1>6. ASSUME NEW p \in Procs, Copied(p) PROVE CacheTypes' /\ Ways'
  <2>1. file' \in [Artifacts -> FileStates]
    BY <1>6, StatesAre, FinishedIs DEF Copied
  <2>2. Ways'
    BY <1>6, OnwardKept DEF Copied
  <2>3. CacheTypes'
    BY <1>6, <2>1, OnwardIs DEF Copied
  <2>4. QED BY <2>2, <2>3
<1>7. ASSUME NEW p \in Procs, Spool(p) PROVE CacheTypes' /\ Ways'
  <2>1. Suits("spooling", Cur(p)) /\ temp' \in [Temps -> TempStates]
    BY <1>7, StatesAre DEF Spool, Ways, Suits
  <2>2. QED BY <1>7, <2>1, GotoKept DEF Spool, Steps
<1>8. ASSUME NEW p \in Procs, Spooled(p) PROVE CacheTypes' /\ Ways'
  <2>1. Suits("unpack", Cur(p)) /\ Cur(p) \in TempStates
    BY <1>8, StatesAre DEF Spooled, Ways, Suits
  <2>2. temp' \in [Temps -> TempStates]
    BY <1>8, <2>1, FinishedIs DEF Spooled
  <2>3. QED BY <1>8, <2>1, <2>2, GotoKept DEF Spooled, Steps
<1>9. ASSUME NEW p \in Procs, Unpack(p) PROVE CacheTypes' /\ Ways'
  <2>1. Suits("unpacking", Cur(p)) /\ file' \in [Artifacts -> FileStates]
    BY <1>9, StatesAre DEF Unpack, Ways, Suits
  <2>2. QED BY <1>9, <2>1, GotoKept DEF Unpack, Steps
<1>11. ASSUME NEW p \in Procs, Unpacked(p) PROVE CacheTypes' /\ Ways'
  <2>1. file' \in [Artifacts -> FileStates]
    BY <1>11, StatesAre, FinishedIs DEF Unpacked
  <2>2. temp' \in [Temps -> TempStates]
    BY <1>11, StatesAre DEF Unpacked, Discard
  <2>3. Ways'
    BY <1>11, OnwardKept DEF Unpacked
  <2>4. CacheTypes'
    BY <1>11, <2>1, <2>2, OnwardIs DEF Unpacked
  <2>5. QED BY <2>3, <2>4
<1>12. ASSUME NEW p \in Procs, Enumerate(p) PROVE CacheTypes' /\ Ways'
  <2>1. PICK lost \in SUBSET Arches :
          /\ UNCHANGED bounds \/ Fault("connect")
          /\ Exit(p) \/ (got' = [got EXCEPT ![p] = Arches \ lost] /\ Goto(p, "bake") /\ UNCHANGED at)
    BY <1>12 DEF Enumerate
  <2>2. faults' \in [{"connect", "copy", "local"} -> Nat] /\ crashes' \in Nat /\ overlaps' \in Nat
    BY <2>1, FaultIs
  <2>3. CASE Exit(p)
    BY <1>12, <2>2, <2>3, EndKept DEF Enumerate
  <2>4. CASE got' = [got EXCEPT ![p] = Arches \ lost] /\ Goto(p, "bake") /\ UNCHANGED at
    <3>1. Suits("bake", Cur(p))
      BY <1>12 DEF Enumerate, Ways, Suits
    <3>2. QED BY <1>12, <2>2, <2>4, <3>1, GotoKept DEF Enumerate, Steps
  <2>5. QED BY <2>1, <2>3, <2>4
<1>13. ASSUME NEW p \in Procs, Bake(p) PROVE CacheTypes' /\ Ways'
  <2>1. Suits("pack", Cur(p)) /\ file' \in [Artifacts -> FileStates]
    BY <1>13, StatesAre DEF Bake, Ways, Suits
  <2>2. QED BY <1>13, <2>1, GotoKept DEF Bake, Steps
<1>14. ASSUME NEW p \in Procs, Pack(p) PROVE CacheTypes' /\ Ways'
  <2>1. Suits("copy", Cur(p)) /\ file' \in [Artifacts -> FileStates]
    BY <1>14, StatesAre, ToolsAre DEF Pack, Ways, Suits
  <2>2. QED BY <1>14, <2>1, GotoKept DEF Pack, Steps
<1>16. ASSUME NEW p \in Procs, UnpackRefused(p) \/ UnpackTorn(p) \/ Use(p) PROVE CacheTypes' /\ Ways'
  BY <1>16, EndKept DEF UnpackRefused, UnpackTorn, Use
<1>17. ASSUME NEW p \in Procs, ConnectFails(p) \/ CopyFails(p) \/ LocalFails(p)
       PROVE  CacheTypes' /\ Ways'
  <2>1. \E k \in {"connect", "copy", "local"} : Fault(k)
    BY <1>17 DEF ConnectFails, CopyFails, LocalFails
  <2>2. faults' \in [{"connect", "copy", "local"} -> Nat] /\ crashes' \in Nat /\ overlaps' \in Nat
    BY <2>1, FaultIs
  <2>3. QED BY <1>17, <2>2, EndKept DEF ConnectFails, CopyFails, LocalFails
<1>18. ASSUME NEW p \in Procs, Crash(p) PROVE CacheTypes' /\ Ways'
  BY <1>18, EndKept DEF Crash
<1>19. QED
  BY <1>1, <1>2, <1>3, <1>4, <1>5, <1>6, <1>7, <1>8, <1>9, <1>11, <1>12, <1>13, <1>14, <1>16,
     <1>17, <1>18 DEF Next, Step

-----------------------------------------------------------------------------
(* The store that is packed. *)

LEMMA StoreKept ==
  ASSUME StoreFilled, NEW p \in Procs,
         \A q \in Procs \ {p} : pc'[q] = pc[q] /\ got'[q] = got[q],
         pc'[p] = "bake" => got'[p] # {}, pc'[p] = "pack" => overlay' # {},
         overlay # {} => overlay' # {}, packed # {} => packed' # {},
         file'["store"] # "absent" => file["store"] # "absent" \/ packed' # {}
  PROVE  StoreFilled'
  BY DEF StoreFilled

LEMMA StoreStep == CacheTypes /\ Ways /\ StoreFilled /\ [Next]_vars => StoreFilled'
<1> SUFFICES ASSUME CacheTypes, Ways, StoreFilled, [Next]_vars PROVE StoreFilled'
  OBVIOUS
<1> USE DEF host, bounds
<1>0. /\ \A p \in Procs : Abandoned(file, p)["store"] # "absent" => file["store"] # "absent"
      /\ \A p \in Procs : \A f, v :
           Finished(file, p, f, v)["store"] # "absent" => file["store"] # "absent"
  <2>1. file \in [Artifacts -> FileStates] /\ "store" \in Artifacts /\ "torn" \in FileStates
    BY OrderIs, StatesAre DEF CacheTypes
  <2>2. \A p \in Procs : p # "absent"
    BY ToolsAre
  <2>3. \A p \in Procs : Abandoned(file, p)["store"] # "absent" => file["store"] # "absent"
    BY <2>1, <2>2, AbandonedIs
  <2>4. ASSUME NEW p \in Procs, NEW f, NEW v, Finished(file, p, f, v)["store"] # "absent"
        PROVE  file["store"] # "absent"
    BY <2>1, <2>2, <2>4 DEF Finished
  <2>5. QED BY <2>3, <2>4
<1>1. CASE UNCHANGED vars
  BY <1>1 DEF vars, StoreFilled
<1>2. ASSUME NEW p \in Procs, LaunchCreate(p) \/ Missing(p) \/ Spool(p) \/ Spooled(p)
      PROVE  StoreFilled'
  <2>1. PICK l \in Steps \ {"bake", "pack"} : Goto(p, l) /\ UNCHANGED <<file, overlay, packed, got>>
    BY <1>2 DEF LaunchCreate, Missing, Spool, Spooled, Steps
  <2>2. QED BY <2>1, GotoIs, StoreKept DEF CacheTypes
<1>3. ASSUME NEW p \in Procs, Onward(p), UNCHANGED <<overlay, packed>>,
             file'["store"] # "absent" => file["store"] # "absent"
      PROVE  StoreFilled'
  <2>1. pc'[p] \in {"use", "check"} /\ \A q \in Procs \ {p} : pc'[q] = pc[q] /\ got'[q] = got[q]
    BY <1>3, OnwardIs
  <2>2. QED BY <1>3, <2>1, StoreKept
<1>4. ASSUME NEW p \in Procs, Exit(p), UNCHANGED <<overlay, packed>>,
             file'["store"] # "absent" => file["store"] # "absent"
      PROVE  StoreFilled'
  BY <1>4, ExitIs, StoreKept
<1>5. ASSUME NEW p \in Procs, Cached(p) \/ Copied(p) \/ Unpacked(p) PROVE StoreFilled'
  BY <1>0, <1>3, <1>5 DEF Cached, Copied, Unpacked
<1>6. ASSUME NEW p \in Procs, Open(p) PROVE StoreFilled'
  <2>1. file'["store"] = file["store"]
    BY <1>6, OrderIs DEF Open, Ways, Suits, CacheTypes
  <2>2. QED BY <1>6, <2>1, GotoIs, StoreKept DEF Open, CacheTypes, Steps
<1>7. ASSUME NEW p \in Procs, Unpack(p) PROVE StoreFilled'
  <2>1. file'["store"] = file["store"] /\ Goto(p, "unpacking") /\ UNCHANGED <<overlay, packed>>
    BY <1>7, OrderIs, ToolsAre DEF Unpack, CacheTypes
  <2>2. \A q \in Procs \ {p} : got'[q] = got[q]
    BY <1>7 DEF Unpack, CacheTypes
  <2>3. QED BY <2>1, <2>2, GotoIs, StoreKept DEF CacheTypes, Steps
<1>8. ASSUME NEW p \in Procs, Enumerate(p) PROVE StoreFilled'
  <2>1. PICK lost \in SUBSET Arches :
          Exit(p) \/ (lost # Arches /\ got' = [got EXCEPT ![p] = Arches \ lost] /\ Goto(p, "bake"))
    BY <1>8 DEF Enumerate
  <2>2. CASE Exit(p)
    BY <1>4, <1>8, <2>2 DEF Enumerate
  <2>3. CASE lost # Arches /\ got' = [got EXCEPT ![p] = Arches \ lost] /\ Goto(p, "bake")
    <3>1. got'[p] # {} /\ \A q \in Procs \ {p} : got'[q] = got[q]
      BY <2>3 DEF CacheTypes
    <3>2. QED BY <1>8, <2>3, <3>1, GotoIs, StoreKept DEF Enumerate, CacheTypes, Steps
  <2>4. QED BY <2>1, <2>2, <2>3
<1>9. ASSUME NEW p \in Procs, Bake(p) PROVE StoreFilled'
  <2>1. overlay' # {} /\ file'["store"] = "absent"
    BY <1>9, OrderIs DEF Bake, StoreFilled, CacheTypes
  <2>2. QED BY <1>9, <2>1, GotoIs, StoreKept DEF Bake, CacheTypes, Steps
<1>10. ASSUME NEW p \in Procs, Pack(p) PROVE StoreFilled'
  <2>1. packed' # {}
    BY <1>10 DEF Pack, StoreFilled
  <2>2. QED BY <1>10, <2>1, GotoIs, StoreKept DEF Pack, CacheTypes, Steps
<1>11. ASSUME NEW p \in Procs,
              UnpackRefused(p) \/ UnpackTorn(p) \/ Use(p) \/ ConnectFails(p) \/ CopyFails(p)
                \/ LocalFails(p) \/ Crash(p)
       PROVE StoreFilled'
  <2>1. /\ Exit(p) /\ UNCHANGED <<overlay, packed>>
        /\ file' = file \/ file' = Abandoned(file, p) \/ file' = Finished(file, p, "store", "absent")
    BY <1>11 DEF UnpackRefused, UnpackTorn, Use, ConnectFails, CopyFails, LocalFails, Crash
  <2>2. file'["store"] # "absent" => file["store"] # "absent"
    BY <1>0, <2>1
  <2>3. QED BY <1>4, <2>1, <2>2
<1>12. QED
  BY <1>1, <1>2, <1>5, <1>6, <1>7, <1>8, <1>9, <1>10, <1>11 DEF Next, Step

-----------------------------------------------------------------------------
(* One process at a time. *)

Solo(p) == \A q \in Procs \ {p} : pc[q] = "idle"

\* A create that is launched next to another one is counted.
LEMMA OverlapsGrow ==
  ASSUME CacheTypes, Alone, Next, overlaps' = 0
  PROVE  overlaps = 0 /\ \E p \in Procs : (LaunchCreate(p) \/ Step(p) \/ Crash(p)) /\ Solo(p)
<1>1. PICK p \in Procs : LaunchCreate(p) \/ Step(p) \/ Crash(p)
  BY DEF Next
<1>2. CASE LaunchCreate(p)
  <2>1. overlaps' # overlaps + 1
    BY DEF CacheTypes
  <2>2. (\A q \in Procs : pc[q] = "idle") /\ overlaps' = overlaps
    BY <1>2, <2>1 DEF LaunchCreate
  <2>3. QED BY <1>1, <2>2 DEF Solo
<1>3. CASE Step(p) \/ Crash(p)
  <2>1. pc[p] # "idle"
    BY <1>3 DEF Step, Crash, Cached, Missing, Open, Copied, Use, Spool, Spooled, Unpack,
       UnpackRefused,
       Unpacked, UnpackTorn, Enumerate, Bake, Pack, ConnectFails, CopyFails, LocalFails
  <2>2. overlaps' = overlaps
    BY <1>3 DEF Step, Crash, Cached, Missing, Open, Copied, Use, Spool, Spooled, Unpack,
       UnpackRefused,
       Unpacked, UnpackTorn, Enumerate, Bake, Pack, ConnectFails, CopyFails, LocalFails, Fault, bounds
  <2>3. QED BY <1>1, <2>1, <2>2 DEF Alone, Solo
<1>4. QED BY <1>1, <1>2, <1>3

LEMMA AloneKept ==
  ASSUME NEW p \in Procs, Solo(p), \A q \in Procs \ {p} : pc'[q] = pc[q], Holds(p)'
  PROVE  Alone'
<1>1. \A q \in Procs \ {p} : pc'[q] = "idle"
  BY DEF Solo
<1>2. \A q \in Procs : Holds(q)'
  BY <1>1 DEF Holds
<1>3. QED BY <1>1, <1>2 DEF Alone

LEMMA CurIs ==
  ASSUME CacheTypes, Ways, NEW p \in Procs
  PROVE  /\ Cur(p) \in Artifacts
         /\ pc[p] \in {"spool", "spooling", "unpack", "unpacking"} =>
              Cur(p) \in Tools /\ Temp(Cur(p)) \in Temps
         /\ pc[p] \in {"enumerate", "bake", "pack"} => Cur(p) = "store"
  BY OrderIs, ToolsAre DEF CacheTypes, Ways, Suits, Cur

\* The tarball of a process that runs alone is whole, and its own.
LEMMA OwnTarball ==
  ASSUME CacheTypes, Ways, Alone, overlaps = 0, NEW p \in Procs, pc[p] \in {"unpack", "unpacking"}
  PROVE  Held(p) = Cur(p) /\ ~UnpackRefused(p) /\ ~UnpackTorn(p)
<1>1. Held(p) = Cur(p) /\ Cur(p) \in Tools /\ (pc[p] = "unpacking" => got[p] = {Cur(p)})
  BY CurIs DEF Alone, Holds, Held
<1>2. QED BY <1>1 DEF UnpackRefused, UnpackTorn

LEMMA HoldsStep ==
  ASSUME CacheTypes, Ways, Alone, overlaps = 0, NEW p \in Procs, Solo(p),
         LaunchCreate(p) \/ Step(p) \/ Crash(p)
  PROVE  Holds(p)' /\ \A q \in Procs \ {p} : pc'[q] = pc[q]
<1>0. pc \in [Procs -> Steps] /\ file \in [Artifacts -> FileStates] /\ temp \in [Temps -> TempStates]
  BY DEF CacheTypes
<1>1. ASSUME NEW l \in {"check", "enumerate", "spool", "fetch", "bake", "pack"}, Goto(p, l)
      PROVE  Holds(p)' /\ \A q \in Procs \ {p} : pc'[q] = pc[q]
  BY <1>0, <1>1, GotoIs DEF Holds, Steps
<1>2. CASE LaunchCreate(p) \/ Missing(p) \/ Bake(p)
  BY <1>1, <1>2 DEF LaunchCreate, Missing, Bake
<1>3. CASE Exit(p)
  BY <1>3, ExitIs DEF Holds
<1>4. CASE Onward(p)
  <2>1. pc'[p] \in {"use", "check"} /\ \A q \in Procs \ {p} : pc'[q] = pc[q]
    BY <1>4, OnwardIs
  <2>2. QED BY <2>1 DEF Holds
<1>5. CASE Open(p)
  BY <1>0, <1>5, GotoIs, CurIs DEF Open, Holds, Cur, Steps
<1>6. CASE Pack(p)
  BY <1>0, <1>6, GotoIs, CurIs DEF Pack, Holds, Cur, Steps
<1>7. CASE Spool(p)
  <2>1. temp'[Temp(Cur(p))] = p /\ Cur(p)' = Cur(p) /\ Goto(p, "spooling")
    BY <1>0, <1>7, CurIs DEF Spool, Cur
  <2>2. QED BY <1>0, <2>1, GotoIs DEF Holds, Steps
<1>8. CASE Spooled(p)
  <2>1. temp[Temp(Cur(p))] = p /\ Temp(Cur(p)) \in Temps
    BY <1>8, CurIs DEF Spooled, Alone, Holds
  <2>2. temp'[Temp(Cur(p))] = Cur(p) /\ Cur(p)' = Cur(p) /\ Goto(p, "unpack")
    BY <1>0, <1>8, <2>1 DEF Spooled, Finished, Cur
  <2>3. QED BY <1>0, <2>2, GotoIs DEF Holds, Steps
<1>9. CASE Unpack(p)
  <2>1. Held(p) = Cur(p) /\ Cur(p) \in Artifacts
    BY <1>9, OwnTarball, CurIs DEF Unpack
  <2>2. /\ file'[Cur(p)] = p /\ got'[p] = {Cur(p)} /\ temp' = temp /\ Cur(p)' = Cur(p)
        /\ temp[Temp(Cur(p))] = Cur(p) /\ Goto(p, "unpacking")
    BY <1>0, <1>9, <2>1 DEF Unpack, Held, Cur, CacheTypes
  <2>3. QED BY <1>0, <2>2, GotoIs DEF Holds, Steps
<1>10. CASE Enumerate(p)
  <2>1. Exit(p) \/ Goto(p, "bake")
    BY <1>10 DEF Enumerate
  <2>2. QED BY <1>1, <1>3, <2>1
<1>11. QED
  BY <1>2, <1>3, <1>4, <1>5, <1>6, <1>7, <1>8, <1>9, <1>10
     DEF Step, Crash, Cached, Copied, Use, UnpackRefused, Unpacked, UnpackTorn, ConnectFails,
        CopyFails,
         LocalFails

-----------------------------------------------------------------------------
(* The artifacts of a create that is spared. *)

\* No file is being written when the one process that runs is not at it.
LEMMA Settled ==
  ASSUME CacheTypes, NEW S, S \subseteq Artifacts, Sound(S), NEW p \in Procs, Solo(p), NEW f \in S,
         pc[p] \notin {"copy", "unpacking"} \/ Cur(p) # f
  PROVE  file[f] \in {"absent", "whole"}
  BY DEF Sound, Solo

\* What a step of the one process that runs does to the files.
LEMMA SoundKept ==
  ASSUME CacheTypes, Ways, NEW S, S \subseteq Artifacts, Sound(S), NEW p \in Procs, Solo(p),
         \A q \in Procs \ {p} : pc'[q] = pc[q] /\ at'[q] = at[q],
         \A f \in S \ {Cur(p)} : file'[f] = file[f],
         Cur(p) \in S =>
           \/ file'[Cur(p)] \in {"absent", "whole"}
           \/ pc'[p] \in {"copy", "unpacking"} /\ at'[p] = at[p],
         \A i \in 1..Len(Order) :
           i < at'[p] \/ pc'[p] = "use" =>
             i < at[p] \/ pc[p] = "use" \/ (i = at[p] /\ (Cur(p) \in S => file'[Cur(p)] = "whole")),
         pc[p] = "use" => file' = file
  PROVE  Sound(S)'
<1>1. at[p] \in 1..Len(Order) /\ \A q \in Procs \ {p} : pc'[q] = "idle" /\ at'[q] = 1
  BY DEF CacheTypes, Ways, Solo
<1>2. ASSUME NEW f \in S
      PROVE  file'[f] \in {"absent", "whole"}
               \/ \E q \in Procs : pc'[q] \in {"copy", "unpacking"} /\ Cur(q)' = f
  <2>1. CASE f = Cur(p)
    BY <2>1 DEF Cur
  <2>2. CASE f # Cur(p)
    BY <2>2, Settled
  <2>3. QED BY <2>1, <2>2
<1>3. ASSUME NEW q \in Procs, NEW i \in 1..Len(Order), i < at'[q] \/ pc'[q] = "use", Order[i] \in S
      PROVE  file'[Order[i]] = "whole"
  <2>1. q = p
    BY <1>1, <1>3
  <2>2. CASE pc[p] = "use"
    BY <1>3, <2>2 DEF Sound, Whole
  <2>3. CASE pc[p] # "use" /\ i < at[p]
    <3>1. Order[i] # Cur(p)
      BY <1>1, <2>3, OrderIs DEF Cur
    <3>2. QED BY <1>3, <2>3, <3>1 DEF Sound, Whole
  <2>4. CASE i = at[p] /\ (Cur(p) \in S => file'[Cur(p)] = "whole")
    BY <1>3, <2>4 DEF Cur
  <2>5. QED BY <1>3, <2>1, <2>2, <2>3, <2>4
<1>4. QED BY <1>2, <1>3 DEF Sound, Whole

\* An artifact is passed when it is whole.
LEMMA SoundOnward ==
  ASSUME CacheTypes, Ways, NEW S, S \subseteq Artifacts, Sound(S), NEW p \in Procs, Solo(p),
         Onward(p), pc[p] # "use", \A f \in S \ {Cur(p)} : file'[f] = file[f],
         Cur(p) \in S => file'[Cur(p)] = "whole"
  PROVE  Sound(S)'
<1>1. at[p] \in 1..Len(Order) /\ Len(Order) \in Nat
  BY OrderIs DEF CacheTypes
<1>2. /\ \A q \in Procs \ {p} : pc'[q] = pc[q] /\ at'[q] = at[q]
      /\ \/ at[p] = Len(Order) /\ pc'[p] = "use" /\ at'[p] = at[p]
         \/ at[p] # Len(Order) /\ pc'[p] = "check" /\ at'[p] = at[p] + 1
  BY OnwardIs
<1>3. \A i \in 1..Len(Order) : i < at'[p] \/ pc'[p] = "use" => i < at[p] \/ i = at[p]
  BY <1>1, <1>2
<1>4. QED BY <1>2, <1>3, SoundKept

\* A process goes on at the same artifact, or ends.
LEMMA SoundStays ==
  ASSUME CacheTypes, Ways, NEW S, S \subseteq Artifacts, Sound(S), NEW p \in Procs, Solo(p),
         Exit(p) \/ (at' = at /\ \E l \in Steps \ {"use"} : Goto(p, l)),
         pc[p] = "use" => file' = file,
         \A f \in S \ {Cur(p)} : file'[f] = file[f],
         Cur(p) \in S =>
           file'[Cur(p)] \in {"absent", "whole"} \/ Goto(p, "copy") \/ Goto(p, "unpacking")
  PROVE  Sound(S)'
<1>1. CASE Exit(p)
  <2>1. pc'[p] = "idle" /\ at'[p] = 1 /\ \A q \in Procs \ {p} : pc'[q] = pc[q] /\ at'[q] = at[q]
    BY <1>1, ExitIs
  <2>2. ~Goto(p, "copy") /\ ~Goto(p, "unpacking")
    BY <2>1, GotoIs DEF Steps, CacheTypes
  <2>3. QED BY <2>1, <2>2, SoundKept
<1>2. CASE at' = at /\ \E l \in Steps \ {"use"} : Goto(p, l)
  <2>1. pc'[p] # "use" /\ \A q \in Procs \ {p} : pc'[q] = pc[q]
    BY <1>2, GotoIs DEF CacheTypes
  <2>2. Goto(p, "copy") \/ Goto(p, "unpacking") => pc'[p] \in {"copy", "unpacking"}
    BY GotoIs DEF CacheTypes, Steps
  <2>3. QED BY <1>2, <2>1, <2>2, SoundKept
<1>3. QED BY <1>1, <1>2

\* The step of the one process that runs, when what it does does not fail.
LEMMA SoundStep ==
  ASSUME CacheTypes, Ways, Alone, overlaps = 0, NEW S \in {Tools, Artifacts}, Sound(S),
         NEW p \in Procs, Solo(p), LaunchCreate(p) \/ Step(p),
         ~LocalFails(p), CopyFails(p) => S = Tools
  PROVE  Sound(S)'
<1>0. S \subseteq Artifacts /\ file \in [Artifacts -> FileStates] /\ Cur(p) \in Artifacts
  BY ToolsAre, CurIs DEF CacheTypes
<1>1. CASE Cached(p)
  <2>1. file' = file /\ Onward(p) /\ pc[p] = "check" /\ file[Cur(p)] # "absent"
    BY <1>1 DEF Cached, host
  <2>2. Cur(p) \in S => file[Cur(p)] = "whole"
    BY <1>0, <2>1, Settled
  <2>3. QED BY <1>0, <2>1, <2>2, SoundOnward
<1>2. CASE LaunchCreate(p) \/ Missing(p) \/ Spool(p) \/ Spooled(p)
  <2>1. file' = file /\ pc[p] \notin {"copy", "unpacking", "use"} /\ at' = at
    BY <1>2 DEF LaunchCreate, Missing, Spool, Spooled, host
  <2>2. \E l \in Steps \ {"use"} : Goto(p, l)
    BY <1>2 DEF LaunchCreate, Missing, Spool, Spooled, Steps
  <2>3. Cur(p) \in S => file[Cur(p)] \in {"absent", "whole"}
    BY <1>0, <2>1, Settled
  <2>4. QED BY <1>0, <2>1, <2>2, <2>3, SoundStays
<1>3. CASE Open(p)
  <2>1. /\ Goto(p, "copy") /\ at' = at /\ pc[p] # "use"
        /\ \A f \in Artifacts \ {Cur(p)} : file'[f] = file[f]
    BY <1>0, <1>3 DEF Open
  <2>2. QED BY <1>0, <2>1, SoundStays DEF Steps
<1>4. CASE Pack(p)
  <2>1. Cur(p) = "store"
    BY <1>4, CurIs DEF Pack
  <2>2. /\ Goto(p, "copy") /\ at' = at /\ pc[p] # "use"
        /\ \A f \in Artifacts \ {Cur(p)} : file'[f] = file[f]
    BY <1>0, <1>4, <2>1 DEF Pack
  <2>3. QED BY <1>0, <2>2, SoundStays DEF Steps
<1>5. CASE Bake(p)
  <2>1. Cur(p) = "store"
    BY <1>5, CurIs DEF Bake
  <2>2. /\ Goto(p, "pack") /\ at' = at /\ pc[p] # "use" /\ file'[Cur(p)] = "absent"
        /\ \A f \in Artifacts \ {Cur(p)} : file'[f] = file[f]
    BY <1>0, <1>5, <2>1 DEF Bake
  <2>3. QED BY <1>0, <2>2, SoundStays DEF Steps
<1>6. CASE Unpack(p)
  <2>1. Held(p) = Cur(p)
    BY <1>6, OwnTarball DEF Unpack
  <2>2. /\ Goto(p, "unpacking") /\ at' = at /\ pc[p] # "use"
        /\ \A f \in Artifacts \ {Cur(p)} : file'[f] = file[f]
    BY <1>0, <1>6, <2>1 DEF Unpack
  <2>3. QED BY <1>0, <2>2, SoundStays DEF Steps
<1>7. CASE Copied(p) \/ Unpacked(p)
  <2>1. Onward(p) /\ pc[p] # "use" /\ file[Cur(p)] = p
    BY <1>7 DEF Copied, Unpacked, Alone, Holds
  <2>2. file' = Finished(file, p, Cur(p), "whole")
    <3>1. CASE Copied(p)
      BY <3>1 DEF Copied
    <3>2. CASE Unpacked(p)
      <4>1. got[p] = {Cur(p)}
        BY <3>2 DEF Unpacked, Alone, Holds
      <4>2. (CHOOSE f \in got[p] : TRUE) = Cur(p)
        BY <4>1
      <4>3. QED BY <3>2, <4>2 DEF Unpacked
    <3>3. QED BY <1>7, <3>1, <3>2
  <2>3. file'[Cur(p)] = "whole" /\ \A f \in Artifacts \ {Cur(p)} : file'[f] = file[f]
    BY <1>0, <2>1, <2>2 DEF Finished
  <2>4. QED BY <1>0, <2>1, <2>3, SoundOnward
<1>8. CASE Use(p) \/ ConnectFails(p)
  <2>1. file' = file /\ Exit(p) /\ pc[p] \notin {"copy", "unpacking"}
    BY <1>8 DEF Use, ConnectFails, host
  <2>2. Cur(p) \in S => file[Cur(p)] \in {"absent", "whole"}
    BY <1>0, <2>1, Settled
  <2>3. QED BY <1>0, <2>1, <2>2, SoundStays
<1>9. CASE Enumerate(p)
  <2>1. file' = file /\ pc[p] = "enumerate"
    BY <1>9 DEF Enumerate, host
  <2>2. Cur(p) \in S => file[Cur(p)] \in {"absent", "whole"}
    BY <1>0, <2>1, Settled
  <2>3. Exit(p) \/ (at' = at /\ \E l \in Steps \ {"use"} : Goto(p, l))
    BY <1>9 DEF Enumerate, Steps
  <2>4. QED BY <1>0, <2>1, <2>2, <2>3, SoundStays
<1>10. CASE CopyFails(p)
  <2>1. S = Tools /\ Exit(p) /\ file' = Abandoned(file, p) /\ pc[p] \in {"copy", "spooling"}
    BY <1>10 DEF CopyFails
  <2>2. pc[p] = "copy" => Cur(p) \notin Tools
    BY DEF Ways, Suits
  <2>3. \A f \in S : file[f] \in {"absent", "whole"}
    BY <1>0, <2>1, <2>2, Settled
  <2>4. \A f \in S : file'[f] = file[f]
    BY <1>0, <2>1, <2>3, ToolsAre, AbandonedIs, StatesAre
  <2>5. QED BY <1>0, <2>1, <2>3, <2>4, SoundStays
<1>11. QED
  BY <1>1, <1>2, <1>3, <1>4, <1>5, <1>6, <1>7, <1>8, <1>9, <1>10, OwnTarball
     DEF Step, UnpackRefused, UnpackTorn

\* What spares a create has spared it so far.
LEMMA SparedStep ==
  ASSUME CacheTypes, NEW k \in {"copy", "connect"}, Spared(k)', NEW p \in Procs,
         LaunchCreate(p) \/ Step(p) \/ Crash(p)
  PROVE  Spared(k) /\ ~Crash(p) /\ ~LocalFails(p) /\ (CopyFails(p) => k = "copy")
<1>1. crashes \in Nat /\ overlaps \in Nat /\ crashes' = 0 /\ overlaps' = 0
  BY DEF CacheTypes, Spared
<1>2. faults'["local"] = 0 /\ (k = "connect" => faults'["copy"] = 0)
  BY DEF Spared
<1>3. crashes' # crashes + 1 /\ overlaps' # overlaps + 1
  BY <1>1
<1>4. ~Crash(p)
  BY <1>3, Zenon DEF Crash
<1>5. ~Fault("local") /\ (Fault("copy") => k = "copy")
  BY <1>2, FaultIs
<1>6. UNCHANGED bounds \/ \E kind \in {"connect", "copy", "local"} : Fault(kind)
  BY <1>3, <1>4 DEF LaunchCreate, Step, Cached, Missing, Open, Copied, Use, Spool, Spooled, Unpack,
     UnpackRefused, Unpacked, UnpackTorn, Enumerate, Bake, Pack, ConnectFails, CopyFails, LocalFails,
     bounds
<1>7. Spared(k)
  <2>1. CASE UNCHANGED bounds
    BY <2>1 DEF Spared, bounds
  <2>2. CASE \E kind \in {"connect", "copy", "local"} : Fault(kind)
    BY <1>1, <1>2, <2>2, FaultIs DEF Spared
  <2>3. QED BY <1>6, <2>1, <2>2
<1>8. QED BY <1>4, <1>5, <1>7 DEF LocalFails, CopyFails

LEMMA CacheInit == Init => CacheInv
<1> SUFFICES ASSUME Init PROVE CacheInv
  OBVIOUS
<1>1. Len(Order) \in Nat \ {0} /\ "store" \in Artifacts
  BY OrderIs
<1>2. CacheTypes
  BY <1>1, CacheAssumption, StatesAre DEF Init, CacheTypes, Steps
<1>3. Ways
  BY DEF Init, Ways, Suits
<1>4. StoreFilled
  BY <1>1 DEF Init, StoreFilled
<1>5. Alone
  BY DEF Init, Alone, Holds
<1>6. SparedSound
  <2>1. \A S : S \subseteq Artifacts => Sound(S)
    BY DEF Init, Sound
  <2>2. QED BY <2>1, ToolsAre DEF SparedSound
<1>7. QED BY <1>2, <1>3, <1>4, <1>5, <1>6 DEF CacheInv

LEMMA CacheStep == CacheInv /\ [Next]_vars => CacheInv'
<1> SUFFICES ASSUME CacheInv, [Next]_vars PROVE CacheInv'
  OBVIOUS
<1> USE DEF CacheInv
<1>1. CacheTypes' /\ Ways' /\ StoreFilled'
  BY CacheTypesStep, StoreStep
<1>2. CASE UNCHANGED vars
  <2>1. Alone' /\ SparedSound'
    BY <1>2 DEF vars, host, bounds, Alone, Holds, Cur, SparedSound, Spared, Sound, Whole
  <2>2. QED BY <1>1, <2>1
<1>3. CASE Next
  <2>1. ASSUME overlaps' = 0 PROVE Alone'
    <3>1. PICK p \in Procs : overlaps = 0 /\ (LaunchCreate(p) \/ Step(p) \/ Crash(p)) /\ Solo(p)
      BY <1>3, <2>1, OverlapsGrow
    <3>2. QED BY <3>1, HoldsStep, AloneKept
  <2>2. Alone'
    BY <2>1 DEF Alone
  <2>3. ASSUME NEW k \in {"copy", "connect"}, Spared(k)'
        PROVE  Sound(IF k = "copy" THEN Tools ELSE Artifacts)'
    <3> DEFINE S == IF k = "copy" THEN Tools ELSE Artifacts
    <3>1. PICK p \in Procs : overlaps = 0 /\ (LaunchCreate(p) \/ Step(p) \/ Crash(p)) /\ Solo(p)
      BY <1>3, <2>3, OverlapsGrow DEF Spared
    <3>2. Spared(k) /\ ~Crash(p) /\ ~LocalFails(p) /\ (CopyFails(p) => k = "copy")
      BY <2>3, <3>1, SparedStep
    <3>3. S \in {Tools, Artifacts} /\ Sound(S) /\ (CopyFails(p) => S = Tools)
      BY <3>2 DEF SparedSound
    <3> HIDE DEF S
    <3>4. Sound(S)'
      BY <3>1, <3>2, <3>3, SoundStep
    <3>5. QED BY <3>4 DEF S
  <2>4. SparedSound'
    BY <2>3 DEF SparedSound
  <2>5. QED BY <1>1, <2>2, <2>4
<1>4. QED BY <1>2, <1>3

LEMMA CacheInvariant == Spec => []CacheInv
  BY CacheInit, CacheStep, PTL DEF Spec

\* For any number of processes and failures, a create that was not overlapped
\* gets past the caching stages with whole tools if only downloads broke off,
\* and with everything whole, and a store of something, if only requests failed.
THEOREM CacheUsesWhole == Spec => []UsesWhole
<1>1. ASSUME CacheInv, InUse PROVE Spared("copy") => \A f \in Tools : Whole(f)
  BY <1>1, OrderIs, ToolsAre DEF CacheInv, SparedSound, Sound, InUse
<1>2. ASSUME CacheInv, InUse, Spared("connect") PROVE packed # {} /\ \A f \in Artifacts : Whole(f)
  <2>1. \A f \in Artifacts : Whole(f)
    BY <1>2, OrderIs DEF CacheInv, SparedSound, Sound, InUse
  <2>2. file["store"] = "whole"
    BY <2>1, OrderIs DEF Whole
  <2>3. QED BY <1>2, <2>1, <2>2 DEF CacheInv, StoreFilled
<1>3. CacheInv => UsesWhole
  BY <1>1, <1>2 DEF UsesWhole
<1>4. QED BY CacheInvariant, <1>3, PTL

-----------------------------------------------------------------------------
(* The medium. *)

SSHKey == {"key", "pub"}
Generating == {"readkey", "manifests", "store", "ignition"}
Embedding == {"merge", "merged", "embed", "keyfile", "import", "upload"}
Publishing == {"publish", "published", "mergeserved", "servedmerged"}

\* A stage is entered when those before it are recorded, on its own host.
StageOrder ==
  /\ step \in SSHKey => applied = 0
  /\ step \in Generating => applied = 1
  /\ step \in Embedding => applied = 2 /\ ~darwin
  /\ step \in Publishing => applied = 2 /\ darwin
  /\ step = "record" => applied < 3
  /\ step \in {"create", "boot"} => applied = 3
  /\ applied = 3 => step \in {"idle", "create", "boot"}

\* The manifest of the store is there when the ignition is rendered, and only
\* for a cluster that has one.
ManifestFirst ==
  /\ store => bake
  /\ step = "store" => made /\ bake
  /\ step = "ignition" /\ bake => made /\ store

Wires(f) == f.installed = bake /\ (f.live > 0) = bake

\* The ignition of a recorded generate-ignition wires the installed node.  Only
\* the ISO's stage touches it after that, and only for a store.
IgnitionWired ==
  (applied > 1 \/ (applied = 1 /\ step = "record")) =>
    /\ ign.installed = bake
    /\ darwin \/ ~bake => ign.live = 0 /\ ign.st = "whole"

\* The medium as far as it is made.
MediumWired ==
  /\ step = "merged" => bake
  /\ step = "embed" => ign.st = "whole" /\ Wires(ign)
  /\ step = "keyfile" => iso.st = "whole" /\ Wires(iso)
  /\ step \in {"import", "upload"} => iso.st = "whole" /\ Wires(iso) /\ iso.static
  /\ step = "published" => iso.installed = bake /\ iso.live = 0 /\ iso.static
  /\ step \in {"mergeserved", "servedmerged"} => bake /\ iso.installed = bake /\ iso.static
  /\ (step = "record" /\ applied = 2) \/ applied = 3 =>
       medium.st = "whole" /\ Wires(medium) /\ medium.static

\* The create that published the medium goes on with the command line; only
\* one that ends before the VM loses it.
Named ==
  /\ darwin /\ step = "record" /\ applied = 2 => bootArgs
  /\ darwin /\ applied = 3 /\ ~stranded => bootArgs /\ step # "idle"

MediumInv ==
  TypeOK /\ StageOrder /\ ManifestFirst /\ IgnitionWired /\ MediumWired /\ Named

LEMMA RecordTypes ==
  /\ Absent \in Ignitions
  /\ \A f \in Ignitions :
       /\ Torn(f) \in Ignitions /\ Complete(f) \in Ignitions
       /\ [f EXCEPT !.live = Again(@)] \in Ignitions
       /\ [f EXCEPT !.static = TRUE] \in Ignitions
       /\ \A b \in BOOLEAN : [f EXCEPT !.installed = b] \in Ignitions
<1>1. Absent \in Ignitions
  BY DEF Absent, Ignitions
<1>2. ASSUME NEW f \in Ignitions
      PROVE  Torn(f) \in Ignitions /\ Complete(f) \in Ignitions
               /\ [f EXCEPT !.static = TRUE] \in Ignitions
  BY DEF Ignitions, Torn, Complete
<1>3. ASSUME NEW f \in Ignitions PROVE [f EXCEPT !.live = Again(@)] \in Ignitions
  <2>1. Again(f.live) \in 0..2
    BY DEF Again
  <2>2. QED BY <2>1 DEF Ignitions
<1>4. ASSUME NEW f \in Ignitions, NEW b \in BOOLEAN
      PROVE  [f EXCEPT !.installed = b] \in Ignitions
  BY DEF Ignitions
<1>5. QED BY <1>1, <1>2, <1>3, <1>4

\* What the edits of an ignition leave alone.
LEMMA Fields ==
  ASSUME NEW f \in Ignitions
  PROVE  /\ Complete(f).st = "whole" /\ Complete(f).installed = f.installed
         /\ Complete(f).live = f.live /\ Complete(f).static = f.static
         /\ Torn(f).installed = f.installed /\ Torn(f).live = f.live
                  /\ Torn(f).static = f.static
         /\ [f EXCEPT !.static = TRUE].static = TRUE
         /\ [f EXCEPT !.static = TRUE].installed = f.installed
         /\ [f EXCEPT !.static = TRUE].live = f.live
         /\ [f EXCEPT !.static = TRUE].st = f.st
  BY DEF Ignitions, Complete, Torn

LEMMA MergedFields ==
  ASSUME NEW f \in Ignitions
  PROVE  /\ [f EXCEPT !.live = Again(@)].installed = f.installed
         /\ [f EXCEPT !.live = Again(@)].static = f.static
         /\ [f EXCEPT !.live = Again(@)].live > 0
<1>1. Again(f.live) > 0
  BY DEF Again
<1>2. QED BY <1>1 DEF Ignitions

LEMMA MediumStarts == MediumInit => MediumInv
<1> SUFFICES ASSUME MediumInit PROVE MediumInv
  OBVIOUS
<1>1. mediumFaults \in 0..MaxMediumFaults /\ mediumCrashes \in 0..MaxMediumCrashes
  BY MediumAssumption DEF MediumInit
<1>2. TypeOK
  <2>1. ign \in Ignitions /\ iso \in Ignitions /\ medium \in Ignitions
    BY RecordTypes DEF MediumInit
  <2>2. applied \in 0..3
    BY DEF MediumInit
  <2>3. QED BY <1>1, <2>1, <2>2 DEF MediumInit, TypeOK
<1>3. StageOrder /\ ManifestFirst /\ IgnitionWired /\ MediumWired /\ Named
  BY DEF MediumInit, StageOrder, ManifestFirst, IgnitionWired, MediumWired, Named,
         SSHKey, Generating, Embedding, Publishing
<1>4. QED BY <1>2, <1>3 DEF MediumInv

LEMMA LaunchKeeps == MediumInv /\ MakeMedium => MediumInv'
<1> SUFFICES ASSUME MediumInv, MakeMedium PROVE MediumInv'
  OBVIOUS
<1> USE DEF MediumInv, MakeMedium, given, context, files, mediumBounds
<1>1. /\ applied \in 0..3
      /\ applied = 0 => step' = "key"
      /\ applied = 1 => step' = "readkey"
      /\ applied = 2 => step' = IF darwin THEN "publish" ELSE "merge"
      /\ applied = 3 => step' = "create"
  BY DEF FirstStep, TypeOK
<1>2. step' \in {"key", "readkey", "publish", "merge", "create"}
  BY <1>1
<1>3. bootArgs' \in BOOLEAN
  OBVIOUS
<1>4. TypeOK'
  BY <1>2, <1>3 DEF TypeOK
<1>5. StageOrder' /\ ManifestFirst' /\ IgnitionWired' /\ MediumWired' /\ Named'
  BY <1>1 DEF TypeOK, StageOrder, ManifestFirst, IgnitionWired, MediumWired, Named,
              SSHKey, Generating, Embedding, Publishing, Wires
<1>6. QED BY <1>4, <1>5

LEMMA RecordKeeps == MediumInv /\ Record => MediumInv'
<1> SUFFICES ASSUME MediumInv, Record PROVE MediumInv'
  OBVIOUS
<1> USE DEF MediumInv, Record, given, context, files, mediumBounds
<1>1. /\ applied \in 0..2 /\ applied' = applied + 1
      /\ applied = 0 => step' = "readkey"
      /\ applied = 1 => step' = IF darwin THEN "publish" ELSE "merge"
      /\ applied = 2 => step' = "create"
  BY DEF FirstStep, TypeOK, StageOrder
<1>2. TypeOK'
  BY <1>1 DEF TypeOK
<1>3. StageOrder' /\ ManifestFirst'
  BY <1>1 DEF TypeOK, StageOrder, ManifestFirst, SSHKey, Generating, Embedding, Publishing
<1>4. IgnitionWired' /\ MediumWired' /\ Named'
  BY <1>1 DEF TypeOK, IgnitionWired, MediumWired, Named, Wires
<1>5. QED BY <1>2, <1>3, <1>4

LEMMA CreateKeepsMedium == MediumInv /\ CreateVM => MediumInv'
<1> SUFFICES ASSUME MediumInv, CreateVM PROVE MediumInv'
  OBVIOUS
<1> USE DEF MediumInv, CreateVM, given, context, files, mediumBounds
<1>1. TypeOK' /\ StageOrder' /\ ManifestFirst'
  BY DEF TypeOK, StageOrder, ManifestFirst, SSHKey, Generating, Embedding, Publishing
<1>2. IgnitionWired' /\ MediumWired' /\ Named'
  BY DEF TypeOK, StageOrder, IgnitionWired, MediumWired, Named, Wires
<1>3. QED BY <1>1, <1>2

LEMMA KeyKeeps == MediumInv /\ KeyStep => MediumInv'
<1> SUFFICES ASSUME MediumInv, KeyStep PROVE MediumInv'
  OBVIOUS
<1> USE DEF MediumInv, KeyStep, KeyThere, WritePrivateKey,
            WritePublicKey, given, context, files, mediumBounds
<1>1. TypeOK'
  BY DEF TypeOK
<1>2. StageOrder' /\ ManifestFirst' /\ IgnitionWired' /\ MediumWired' /\ Named'
  BY DEF TypeOK, StageOrder, ManifestFirst, IgnitionWired, MediumWired, Named,
         SSHKey, Generating, Embedding, Publishing, Wires
<1>3. QED BY <1>1, <1>2

LEMMA IgnitionKeeps == MediumInv /\ IgnitionStep => MediumInv'
<1> SUFFICES ASSUME MediumInv, IgnitionStep PROVE MediumInv'
  OBVIOUS
<1> USE DEF MediumInv, IgnitionStep, ReadPublicKey, NoPublicKey,
            CreateManifests,
            WriteImageStoreManifest, CreateSingleNodeIgnition, given,
            context, files, mediumBounds
<1>1. TypeOK'
  BY RecordTypes DEF TypeOK
<1>2. StageOrder' /\ ManifestFirst'
  BY DEF TypeOK, StageOrder, ManifestFirst, SSHKey, Generating, Embedding, Publishing
<1>3. IgnitionWired'
  BY DEF TypeOK, StageOrder, ManifestFirst, IgnitionWired, Generating, Absent,
     Complete
<1>4. MediumWired' /\ Named'
  BY DEF TypeOK, StageOrder, MediumWired, Named, Generating, Wires
<1>5. QED BY <1>1, <1>2, <1>3, <1>4

LEMMA EmbedKeeps == MediumInv /\ EmbedStep => MediumInv'
<1> SUFFICES ASSUME MediumInv, EmbedStep PROVE MediumInv'
  OBVIOUS
<1> USE DEF MediumInv, EmbedStep, SkipMerge, Merge, MergeRefused,
            Merged, EmbedIgnition,
            EmbedKeyfile, ImportISO, Upload, given, context, files,
            mediumBounds
<1>1. TypeOK'
  BY RecordTypes DEF TypeOK
<1>2. StageOrder' /\ ManifestFirst'
  BY DEF TypeOK, StageOrder, ManifestFirst, SSHKey, Generating, Embedding, Publishing
<1> DEFINE again == [ign EXCEPT !.live = Again(@)]
<1>3. applied = 2 /\ applied' = 2 /\ ~darwin /\ UNCHANGED <<darwin, bake>> /\ step' # "boot"
  BY DEF StageOrder, Embedding
<1>9. Named'
  BY <1>3 DEF Named
<1>4. CASE Merge
  <2>1. ign'.installed = ign.installed
    BY <1>4, Fields DEF TypeOK
  <2>2. ign.installed = bake
    BY <1>3 DEF IgnitionWired
  <2>3. ign'.installed = bake' /\ ~(darwin' \/ ~bake') /\ step' = "merged"
    BY <1>3, <1>4, <2>1, <2>2
  <2>4. IgnitionWired' /\ MediumWired'
    BY <1>3, <2>3 DEF IgnitionWired, MediumWired
  <2>5. QED BY <1>1, <1>2, <1>9, <2>4
<1>5. CASE Merged
  <2>1. again \in Ignitions /\ again.installed = ign.installed /\ again.live > 0
    BY RecordTypes, MergedFields DEF TypeOK
  <2>2. ign' = Complete(again) /\ UNCHANGED <<iso, medium>> /\ step' = "embed" /\ bake
    BY <1>5 DEF MediumWired
  <2>3. ign'.st = "whole" /\ ign'.installed = ign.installed /\ ign'.live > 0
    BY <2>1, <2>2, Fields
  <2> HIDE DEF again
  <2>4. ign'.installed = bake' /\ ~(darwin' \/ ~bake') /\ (ign'.live > 0) = bake'
    <3>1. ign.installed = bake
      BY <1>3 DEF IgnitionWired
    <3>2. QED BY <1>3, <2>2, <2>3, <3>1
  <2>5. IgnitionWired' /\ MediumWired'
    BY <1>3, <2>2, <2>3, <2>4 DEF IgnitionWired, MediumWired, Wires
  <2>6. QED BY <1>1, <1>2, <1>9, <2>5
<1>6. CASE EmbedKeyfile
  <2>1. iso'.st = iso.st /\ iso'.installed = iso.installed /\ iso'.live = iso.live /\ iso'.static
    BY <1>6, Fields DEF TypeOK
  <2>2. QED BY <1>1, <1>2, <1>3, <1>6, <1>9, <2>1 DEF IgnitionWired, MediumWired, Wires
<1>7. CASE SkipMerge \/ MergeRefused \/ EmbedIgnition \/ ImportISO
         \/ Upload
  BY <1>1, <1>2, <1>3, <1>7, <1>9 DEF TypeOK, IgnitionWired, MediumWired, Wires
<1>8. QED BY <1>4, <1>5, <1>6, <1>7

LEMMA PublishKeeps == MediumInv /\ PublishStep => MediumInv'
<1> SUFFICES ASSUME MediumInv, PublishStep PROVE MediumInv'
  OBVIOUS
<1> USE DEF MediumInv, PublishStep, Publish, Published, MergeServed,
            ServedMerged,
            given, context, files, mediumBounds
<1>1. TypeOK'
  BY RecordTypes DEF TypeOK
<1>2. StageOrder' /\ ManifestFirst'
  BY DEF TypeOK, StageOrder, ManifestFirst, SSHKey, Generating, Embedding, Publishing
<1>3. IgnitionWired'
  BY DEF TypeOK, StageOrder, IgnitionWired, Publishing
<1>4. applied = 2 /\ applied' = 2 /\ darwin /\ UNCHANGED <<darwin, bake>>
  BY DEF StageOrder, Publishing
<1>5. MediumWired'
  <2>1. CASE Publish
    <3> DEFINE pinned == [ign EXCEPT !.static = TRUE]
    <3>1. pinned \in Ignitions /\ pinned.static /\ pinned.installed = ign.installed
             /\ pinned.live = ign.live
      BY RecordTypes, Fields DEF TypeOK
    <3>2. iso'.static /\ iso'.installed = ign.installed /\ iso'.live = ign.live
      BY <2>1, <3>1, Fields
    <3> HIDE DEF pinned
    <3>3. QED BY <1>4, <2>1, <3>2 DEF IgnitionWired, MediumWired
  <2>2. CASE Published
    <3>1. /\ iso'.st = "whole" /\ iso'.static = iso.static
          /\ iso'.installed = iso.installed /\ iso'.live = iso.live
      BY <2>2, Fields DEF TypeOK
    <3>2. QED BY <1>4, <2>2, <3>1 DEF TypeOK, MediumWired, Wires
  <2>3. CASE MergeServed
    <3>1. iso'.static = iso.static /\ iso'.installed = iso.installed
      BY <2>3, Fields DEF TypeOK
    <3>2. bake /\ iso.installed = bake /\ iso.static
      BY <2>3 DEF MediumWired
    <3>3. bake' /\ iso'.installed = bake' /\ iso'.static /\ step' = "servedmerged"
      BY <1>4, <2>3, <3>1, <3>2
    <3>4. QED BY <1>4, <3>3 DEF MediumWired
  <2>4. CASE ServedMerged
    <3> DEFINE again == [iso EXCEPT !.live = Again(@)]
    <3>1. again \in Ignitions /\ again.static = iso.static
             /\ again.installed = iso.installed /\ again.live > 0
      BY RecordTypes, MergedFields DEF TypeOK
    <3>2. iso' = Complete(again) /\ medium' = iso' /\ step' = "record" /\ UNCHANGED ign
      BY <2>4
    <3>3. iso'.st = "whole" /\ iso'.static = iso.static /\ iso'.installed = iso.installed
             /\ iso'.live > 0
      BY <3>1, <3>2, Fields
    <3> HIDE DEF again
    <3>4. bake /\ iso.installed = bake /\ iso.static
      BY <2>4 DEF MediumWired
    <3>5. QED BY <1>4, <3>2, <3>3, <3>4 DEF MediumWired, Wires
  <2>5. QED BY <2>1, <2>2, <2>3, <2>4
<1>6. Named'
  BY <1>4 DEF TypeOK, Named
<1>7. QED BY <1>1, <1>2, <1>3, <1>5, <1>6

LEMMA EndKeeps == MediumInv /\ (Fails \/ MediumCrash) => MediumInv'
<1> SUFFICES ASSUME MediumInv, Fails \/ MediumCrash PROVE MediumInv'
  OBVIOUS
<1> USE DEF MediumInv, Fails, MediumCrash, Ends, given, context, files
<1>1. mediumFaults' \in 0..MaxMediumFaults /\ mediumCrashes' \in 0..MaxMediumCrashes
  BY MediumAssumption DEF TypeOK
<1>2. stranded' = (stranded \/ (darwin /\ step = "create"))
  BY Zenon
<1>3. stranded' \in BOOLEAN /\ (stranded' \/ ~(stranded \/ (darwin /\ step = "create")))
  BY <1>2, Zenon
<1>4. TypeOK'
  BY <1>1, <1>3 DEF TypeOK
<1>5. StageOrder' /\ ManifestFirst' /\ IgnitionWired' /\ MediumWired'
  BY DEF TypeOK, StageOrder, ManifestFirst, IgnitionWired, MediumWired,
         SSHKey, Generating, Embedding, Publishing, Wires
<1>6. Named'
  BY <1>3 DEF TypeOK, StageOrder, Named
<1>7. QED BY <1>4, <1>5, <1>6

LEMMA MediumInvariant == MediumSpec => []MediumInv
<1>1. MediumInv /\ UNCHANGED mediumVars => MediumInv'
  BY DEF MediumInv, TypeOK, StageOrder, ManifestFirst, IgnitionWired, MediumWired, Named,
         Wires, mediumVars, given, context, files, mediumBounds
<1>2. MediumInv /\ [MediumNext]_mediumVars => MediumInv'
  BY <1>1, LaunchKeeps, RecordKeeps, CreateKeepsMedium, KeyKeeps, IgnitionKeeps, EmbedKeeps,
     PublishKeeps, EndKeeps
  DEF MediumNext, MediumStep
<1>3. QED BY MediumStarts, <1>2, PTL DEF MediumSpec

\* Every stage, failure and kill keeps the types.
THEOREM MediumTypeCorrect == MediumSpec => []TypeOK
<1>1. MediumInv => TypeOK
  BY DEF MediumInv
<1>2. QED BY MediumInvariant, <1>1, PTL

\* However often a create fails or is killed on the way, the medium that the VM
\* boots in the end is whole, pins the address and is wired to the store; on macOS
\* its kernel is told of the medium, unless a create ended between the record of
\* publish-pxe-assets and the VM.
THEOREM BootsAlwaysWired == MediumSpec => []BootsWired
<1>1. MediumInv => BootsWired
  BY DEF MediumInv, StageOrder, MediumWired, Named, Wires, BootsWired
<1>2. QED BY MediumInvariant, <1>1, PTL

-----------------------------------------------------------------------------
(* vfkit: types, and where each thread can be. *)

Stations == {"idle", "pxe", "prepare", "persist", "phase", "write", "launch", "spawn",
             "record", "wait", "finish", "poll", "watch", "check", "mark"}

Stationed ==
  /\ thread \in [Threads -> Stations]
  /\ thread["create"] \in {"idle", "pxe", "prepare", "persist", "phase", "write", "launch",
                            "spawn", "record", "wait", "finish"}
  /\ thread["watcher"] \in {"idle", "poll", "phase", "write", "launch", "spawn"}
  /\ thread["watchdog"] \in {"idle", "watch", "check", "phase", "write", "launch", "spawn"}
  /\ thread["start"] \in {"idle", "check", "phase", "write", "launch", "spawn", "mark"}

MachineTypes ==
  /\ phase \in {"install", "run", "empty"} /\ spec \in {"none", "bare", "full"}
  /\ disk \in {"blank", "installed"}
  /\ vm \in {"off", "install", "run"} /\ guest \in {"down", "live", "rebooted"} /\ boots \in 0..2
  /\ cluster \in {"absent", "creating", "running", "stopped"}
  /\ stages \subseteq {"pxe", "vm", "wait"}
  /\ seen \in [Threads -> {"install", "run", "empty"}]
  /\ macFaults \in Nat /\ macCrashes \in Nat

LEMMA VfkitTypeInit == MacInit => Stationed /\ MachineTypes
  BY DEF MacInit, Stationed, MachineTypes, Threads, Stations

LEMMA ThreadMoves ==
  ASSUME thread \in [Threads -> Stations], NEW t \in Threads, NEW l \in Stations,
         MoveTo(t, l)
  PROVE  /\ thread' \in [Threads -> Stations] /\ thread'[t] = l
         /\ \A u \in Threads \ {t} : thread'[u] = thread[u]
  BY DEF MoveTo

\* Where the threads are when a launch has returned.
LEMMA ReturnIs ==
  ASSUME thread \in [Threads -> Stations], NEW t \in Threads, Return(t)
  PROVE  /\ thread' \in [Threads -> Stations] /\ thread'[t] = Afterwards[t]
         /\ \A u \in Threads \ {t, "watcher"} : thread'[u] = thread[u]
         /\ t # "watcher" =>
              thread'["watcher"] = IF seen[t] = "install" /\ thread["watcher"] = "idle"
                                 THEN "poll" ELSE thread["watcher"]
  BY DEF Return, Afterwards, Threads, Stations

LEMMA EnterStageIs ==
  ASSUME thread \in [Threads -> Stations], NEW S, EnterStage(S)
  PROVE  /\ thread' \in [Threads -> Stations] /\ thread'["create"] = NextStage(S)
         /\ thread'["watchdog"] = IF NextStage(S) = "wait" THEN "watch" ELSE "idle"
         /\ thread'["watcher"] = thread["watcher"] /\ thread'["start"] = thread["start"]
  BY DEF EnterStage, NextStage, Threads, Stations

LEMMA AllIdleIs ==
  ASSUME thread' = [t \in Threads |-> "idle"]
  PROVE  thread' \in [Threads -> Stations] /\ \A t \in Threads : thread'[t] = "idle"
  BY DEF Threads, Stations

LEMMA StationedStep == Stationed /\ [MacNext]_macVars => Stationed'
<1> SUFFICES ASSUME Stationed, [MacNext]_macVars PROVE Stationed'
  OBVIOUS
<1>0. thread \in [Threads -> Stations]
  BY DEF Stationed
<1>1. ASSUME NEW t \in Threads,
             Launch(t) \/ Start(t) \/ StartFindsRunning(t) \/ TruncatePhase(t) \/ WritePhase(t)
      PROVE  Stationed'
  <2>1. \E l \in {"spawn", "phase", "write", "launch", Afterwards[t]} :
          /\ MoveTo(t, l) /\ l \in Stations
          /\ thread[t] \in {"launch", "check", "phase", "write"}
          /\ thread[t] = "check" \/ l \in {"spawn", "write", "launch"}
    BY <1>1 DEF Launch, Start, StartFindsRunning, TruncatePhase, WritePhase, Afterwards,
                Stations, Threads
  <2>2. QED BY <1>0, <2>1, ThreadMoves DEF Stationed, Threads, Afterwards
<1>2. ASSUME NEW t \in Threads, SpawnRuns(t) \/ SpawnFails(t) PROVE Stationed'
  <2>1. Return(t)
    BY <1>2 DEF SpawnRuns, SpawnFails
  <2>2. QED BY <1>0, <2>1, ReturnIs DEF Stationed, Threads, Afterwards
<1>3. ASSUME NEW t \in Threads, LaunchFails(t) PROVE Stationed'
  <2>1. CASE t = "create"
    BY <1>3, <2>1, AllIdleIs DEF LaunchFails, Stationed, Threads
  <2>2. CASE t # "create"
    <3>1. \E l \in {"watch", "idle"} : MoveTo(t, l) /\ l \in Stations
             /\ (l = "watch" => t = "watchdog")
      BY <1>3, <2>2 DEF LaunchFails, Stations
    <3>2. QED BY <1>0, <2>2, <3>1, ThreadMoves DEF Stationed, Threads
  <2>3. QED BY <2>1, <2>2
<1>4. CASE PublishPXE \/ RecordVM \/ InstallCompletes \/ LaunchMacCreate
  <2>1. PICK S : EnterStage(S)
    BY <1>4 DEF PublishPXE, RecordVM, InstallCompletes, LaunchMacCreate
  <2>2. QED BY <1>0, <2>1, EnterStageIs DEF NextStage, Stationed
<1>5. CASE Finish \/ WaitGivesUp \/ MacCrash
  BY <1>5, AllIdleIs DEF Finish, WaitGivesUp, MacCrash, Stationed, Threads
<1>6. CASE Prepare \/ Persist
  BY <1>0, <1>6, ThreadMoves DEF Prepare, Persist, Stationed, Threads, Stations
<1>7. CASE WatcherLeaves \/ WatcherTimesOut \/ ForceStop
  <2>1. \E l \in {"idle", "phase"} : MoveTo("watcher", l) /\ l \in Stations
    BY <1>7 DEF WatcherLeaves, WatcherTimesOut, ForceStop, Stations
  <2>2. QED BY <1>0, <2>1, ThreadMoves DEF Stationed, Threads
<1>8. CASE Tick
  BY <1>0, <1>8, ThreadMoves DEF Tick, Stationed, Threads, Stations
<1>9. CASE LaunchStart \/ NoSpec \/ MarkStarted
  <2>1. \E l \in {"idle", "check"} : MoveTo("start", l) /\ l \in Stations
    BY <1>9 DEF LaunchStart, NoSpec, MarkStarted, Stations
  <2>2. QED BY <1>0, <2>1, ThreadMoves DEF Stationed, Threads
<1>10. CASE Stop \/ Delete \/ GuestStep \/ Dies \/ UNCHANGED macVars
  <2>1. thread' = thread
    BY <1>10 DEF Stop, Delete, GuestStep, GuestBoots, GuestInstalls,
       GuestLoops, Terminates, Dies,
       createVars, macVars
  <2>2. QED BY <2>1 DEF Stationed
<1>11. QED
  BY <1>1, <1>2, <1>3, <1>4, <1>5, <1>6, <1>7, <1>8, <1>9, <1>10
     DEF MacNext, CreateStep, WatcherStep, WatchdogStep, StartStep, Thread,
        Threads

LEMMA MachineStep == MachineTypes /\ [MacNext]_macVars => MachineTypes'
<1> SUFFICES ASSUME MachineTypes, [MacNext]_macVars PROVE MachineTypes'
  OBVIOUS
<1> USE DEF MachineTypes, hostVars, cliVars, createVars, macBounds
<1>1. ASSUME NEW t \in Threads, Launch(t) PROVE MachineTypes'
  BY <1>1 DEF Launch
<1>2. ASSUME NEW t \in Threads, Start(t) PROVE MachineTypes'
  BY <1>2 DEF Start
<1>3. ASSUME NEW t \in Threads, StartFindsRunning(t) PROVE MachineTypes'
  BY <1>3 DEF StartFindsRunning
<1>4. ASSUME NEW t \in Threads, SpawnRuns(t) PROVE MachineTypes'
  BY <1>4 DEF SpawnRuns
<1>5. ASSUME NEW t \in Threads, SpawnFails(t) PROVE MachineTypes'
  BY <1>5 DEF SpawnFails
<1>6. ASSUME NEW t \in Threads, LaunchFails(t) PROVE MachineTypes'
  BY <1>6 DEF LaunchFails
<1>7. CASE PublishPXE
  BY <1>7 DEF PublishPXE
<1>8. CASE Prepare
  BY <1>8 DEF Prepare
<1>9. CASE RecordVM
  BY <1>9 DEF RecordVM
<1>10. CASE LaunchMacCreate
  BY <1>10 DEF LaunchMacCreate
<1>11. CASE InstallCompletes
  BY <1>11 DEF InstallCompletes
<1>12. CASE WaitGivesUp
  BY <1>12 DEF WaitGivesUp
<1>13. CASE MacCrash
  BY <1>13 DEF MacCrash
<1>14. CASE WatcherLeaves
  BY <1>14 DEF WatcherLeaves
<1>15. CASE WatcherTimesOut
  BY <1>15 DEF WatcherTimesOut
<1>16. CASE ForceStop
  BY <1>16 DEF ForceStop
<1>17. CASE Persist \/ Finish
  BY <1>17 DEF Persist, Finish
<1>18. CASE Tick
  BY <1>18 DEF Tick
<1>19. CASE LaunchStart
  BY <1>19 DEF LaunchStart
<1>20. CASE MarkStarted
  BY <1>20 DEF MarkStarted
<1>21. CASE Stop
  BY <1>21 DEF Stop
<1>22. CASE Delete
  BY <1>22 DEF Delete
<1>23. CASE GuestBoots
  BY <1>23 DEF GuestBoots
<1>24. CASE GuestInstalls
  BY <1>24 DEF GuestInstalls
<1>25. CASE GuestLoops
  BY <1>25 DEF GuestLoops
<1>26. CASE Terminates
  BY <1>26 DEF Terminates, Off
<1>27. CASE Dies
  BY <1>27 DEF Dies, Off
<1>28. CASE UNCHANGED macVars
  BY <1>28 DEF macVars
<1>29. ASSUME NEW t \in Threads, TruncatePhase(t) \/ WritePhase(t) PROVE MachineTypes'
  BY <1>29 DEF TruncatePhase, WritePhase
<1>30. CASE NoSpec
  BY <1>30 DEF NoSpec
<1>31. QED
  BY <1>1, <1>2, <1>3, <1>4, <1>5, <1>6, <1>7, <1>8, <1>9, <1>10, <1>11, <1>12, <1>13, <1>14,
     <1>15, <1>16, <1>17, <1>18, <1>19, <1>20, <1>21, <1>22, <1>23, <1>24, <1>25, <1>26, <1>27, <1>28, <1>29, <1>30
     DEF MacNext, CreateStep, WatcherStep, WatchdogStep, StartStep, GuestStep,
        Thread, Threads

-----------------------------------------------------------------------------
(* An install that nothing disturbs. *)

\* Until the disk is installed, there is one create and its first launch, of a
\* VM whose phase, ignition and watcher are those of an install.
FirstInstall ==
  /\ phase = (IF thread["create"] = "write" THEN "empty" ELSE "install")
  /\ ~term /\ thread["start"] = "idle" /\ thread["create"] # "finish"
  /\ thread["create"] = "idle" => cluster = "absent" /\ stages = {}
  /\ thread["create"] = "pxe" => stages = {}
  /\ thread["create"] \in {"prepare", "persist", "phase", "write", "launch", "spawn"} =>
       stages = {"pxe"} /\ mem
  /\ thread["create"] \in {"phase", "write", "launch", "spawn"} => spec = "full"
  /\ thread["create"] = "spawn" => seen["create"] = "install"
  /\ thread["create"] \in {"record", "wait"} =>
       /\ vm = "install" /\ pid /\ wired /\ spec = "full"
       /\ "pxe" \in stages /\ "wait" \notin stages
       /\ thread["watcher"] = "poll" /\ boots < 2
       /\ thread["watchdog"] = IF thread["create"] = "wait" THEN "watch" ELSE "idle"
       /\ guest = "down" => boots = 0
       /\ guest # "rebooted"
  /\ thread["create"] \notin {"record", "wait"} =>
       /\ vm = "off" /\ guest = "down" /\ boots = 0
       /\ thread["watcher"] = "idle" /\ thread["watchdog"] = "idle"

DiskInv ==
  Undisturbed =>
    /\ disk = "blank" => FirstInstall
    /\ disk = "installed" =>
         /\ "pxe" \in stages /\ ("vm" \in stages \/ thread["create"] = "record")
         /\ thread["create"] \in {"idle", "record", "wait", "finish"}
    /\ thread["create"] \in {"record", "wait"} => "wait" \notin stages

\* One command at a time; what a stop has told to go is there until it goes,
\* with no thread about to launch it; a VM in its run phase stays in it.
RunInv ==
  Undisturbed =>
    /\ thread["create"] = "idle" => thread["watcher"] = "idle" /\ thread["watchdog"] = "idle"
    /\ thread["create"] # "idle" =>
         cluster \in {"creating", "stopped"} /\ thread["start"] = "idle"
    /\ thread["create"] \in {"wait", "finish"} \/ cluster \in {"running", "stopped"} =>
         {"pxe", "vm"} \subseteq stages
    /\ "wait" \in stages => cluster \in {"running", "stopped"} \/ thread["create"] = "finish"
    /\ cluster \in {"running", "absent"} => Quiet
    /\ thread["start"] = "mark" \/ cluster = "running" => presumed \/ (vm # "off" /\ ~term)
    /\ thread["create"] = "finish" => presumed \/ (vm = "run" /\ ~term)
    /\ vm = "run" \/ (\E t \in Threads : thread[t] = "spawn" /\ seen[t] = "run") =>
         phase # "install"
    /\ thread["start"] = "launch" => phase # "install"
    /\ thread["start"] = "spawn" => seen["start"] # "install"
    /\ thread["watcher"] # "idle" => ~term
    /\ (\E t \in Threads : thread[t] \in {"phase", "write", "launch", "spawn"}) => ~term
    /\ term => vm # "off" /\ pid /\ cluster \in {"running", "stopped"}

MachineInv == Stationed /\ MachineTypes /\ DiskInv /\ RunInv

\* A launch, or a Start, by any thread.
LEMMA ThreadKeeps ==
  ASSUME MachineInv, Undisturbed, NEW t \in Threads, Thread(t)
  PROVE  DiskInv' /\ RunInv'
<1> USE DEF MachineInv, Stationed, MachineTypes, Undisturbed, DiskInv, RunInv, FirstInstall,
            Quiet, IsRunning, Threads, Afterwards, hostVars, cliVars,
            macBounds
<1>1. CASE Launch(t)
  <2>1. /\ thread[t] = "launch" /\ seen' = [seen EXCEPT ![t] = phase]
        /\ UNCHANGED <<phase, spec, disk, vm, term, pid, guest, boots, cluster, stages, mem>>
        /\ UNCHANGED <<presumed, macFaults, macCrashes>> /\ wired' = FALSE
    BY <1>1 DEF Launch
  <2>2. /\ thread'[t] = "spawn" /\ \A u \in Threads \ {t} : thread'[u] = thread[u]
    BY <1>1, ThreadMoves DEF Launch, Stations
  <2>3. DiskInv'
    BY <2>1, <2>2
  <2>4. RunInv'
    BY <2>1, <2>2
  <2>5. QED BY <2>3, <2>4
<1>2. CASE SpawnRuns(t)
  <2>1. /\ thread[t] = "spawn" /\ vm = "off" /\ pid' /\ wired'
        /\ vm' = (IF seen[t] = "run" THEN "run" ELSE "install") /\ boots' \in {0, boots}
        /\ UNCHANGED <<phase, spec, disk, term, guest, cluster, stages, mem, seen>>
        /\ UNCHANGED <<presumed, macFaults, macCrashes>>
    BY <1>2 DEF SpawnRuns
  <2>2. /\ thread'[t] = Afterwards[t]
        /\ \A u \in Threads \ {t, "watcher"} : thread'[u] = thread[u]
        /\ t # "watcher" =>
              thread'["watcher"] = IF seen[t] = "install" /\ thread["watcher"] = "idle"
                                 THEN "poll" ELSE thread["watcher"]
    BY <1>2, ReturnIs DEF SpawnRuns
  <2>3. DiskInv'
    BY <2>1, <2>2
  <2>4. RunInv'
    BY <2>1, <2>2
  <2>5. QED BY <2>3, <2>4
<1>3. CASE SpawnFails(t)
  BY <1>3, ReturnIs DEF SpawnFails
<1>4. CASE Start(t)
  BY <1>4, ThreadMoves DEF Start, Stations
<1>5. CASE StartFindsRunning(t)
  <2>1. presumed \/ term => presumed'
    BY <1>5, Zenon DEF StartFindsRunning
  <2>2. thread'[t] = Afterwards[t] /\ \A u \in Threads \ {t} : thread'[u] = thread[u]
    BY <1>5, ThreadMoves DEF StartFindsRunning, Stations
  <2>3. QED BY <1>5, <2>1, <2>2 DEF StartFindsRunning
<1>6. CASE TruncatePhase(t)
  BY <1>6, ThreadMoves DEF TruncatePhase, Stations
<1>7. CASE WritePhase(t)
  BY <1>7, ThreadMoves DEF WritePhase, Stations
<1>8. QED BY <1>1, <1>2, <1>3, <1>4, <1>5, <1>6, <1>7 DEF Thread

\* The create's own steps.
LEMMA CreateKeeps ==
  ASSUME MachineInv, Undisturbed,
         LaunchMacCreate \/ PublishPXE \/ Prepare \/ Persist \/ RecordVM
                  \/ InstallCompletes \/ WaitGivesUp \/ Finish
  PROVE  DiskInv' /\ RunInv'
<1> USE DEF MachineInv, Stationed, MachineTypes, Undisturbed, DiskInv, RunInv, FirstInstall,
            Quiet, Threads, hostVars, cliVars, macBounds
<1>1. CASE LaunchMacCreate
  <2>1. presumed' = (presumed \/ (cluster = "stopped" /\ "wait" \in stages))
    BY <1>1, Zenon DEF LaunchMacCreate
  <2>2. presumed' \/ ~(presumed \/ (cluster = "stopped" /\ "wait" \in stages))
    BY <2>1, Zenon
  <2>3. QED BY <1>1, <2>2, EnterStageIs DEF LaunchMacCreate, NextStage
<1>2. CASE PublishPXE
  <2>1. NextStage(stages') = IF "vm" \notin stages THEN "prepare"
                             ELSE IF "wait" \notin stages THEN "wait" ELSE "finish"
    BY <1>2 DEF PublishPXE, NextStage
  <2>2. /\ thread'["create"] = NextStage(stages')
        /\ thread'["watchdog"] = IF NextStage(stages') = "wait" THEN "watch" ELSE "idle"
        /\ thread'["watcher"] = thread["watcher"] /\ thread'["start"] = thread["start"]
    BY <1>2, EnterStageIs DEF PublishPXE
  <2>3. QED BY <1>2, <2>1, <2>2 DEF PublishPXE
<1>3. CASE Prepare
  BY <1>3, ThreadMoves DEF Prepare, Stations
<1>4. CASE RecordVM
  <2>1. NextStage(stages') = IF "pxe" \notin stages THEN "pxe"
                             ELSE IF "wait" \notin stages THEN "wait" ELSE "finish"
    BY <1>4 DEF RecordVM, NextStage
  <2>2. /\ thread'["create"] = NextStage(stages')
        /\ thread'["watchdog"] = IF NextStage(stages') = "wait" THEN "watch" ELSE "idle"
        /\ thread'["watcher"] = thread["watcher"] /\ thread'["start"] = thread["start"]
    BY <1>4, EnterStageIs DEF RecordVM
  <2>3. QED BY <1>4, <2>1, <2>2 DEF RecordVM
<1>5. CASE InstallCompletes
  <2>1. NextStage(stages') = "finish"
    BY <1>5 DEF InstallCompletes, NextStage
  <2>2. /\ thread'["create"] = "finish" /\ thread'["watchdog"] = "idle"
        /\ thread'["watcher"] = thread["watcher"] /\ thread'["start"] = thread["start"]
    BY <1>5, <2>1, EnterStageIs DEF InstallCompletes
  <2>3. QED BY <1>5, <2>2 DEF InstallCompletes
<1>6. CASE WaitGivesUp
  BY <1>6, AllIdleIs DEF WaitGivesUp, Stuck
<1>7. CASE Finish
  BY <1>7, AllIdleIs DEF Finish
<1>8. CASE Persist
  BY <1>8, ThreadMoves DEF Persist, Stations
<1>9. QED BY <1>1, <1>2, <1>3, <1>4, <1>5, <1>6, <1>7, <1>8

\* The watcher, whose watch does not time out, and the watchdog.
LEMMA WatchersKeep ==
  ASSUME MachineInv, Undisturbed, WatcherLeaves \/ ForceStop \/ Tick
  PROVE  DiskInv' /\ RunInv'
<1> USE DEF MachineInv, Stationed, MachineTypes, Undisturbed, DiskInv, RunInv, FirstInstall,
            Quiet, IsRunning, Threads, Stations, hostVars, cliVars, macBounds
<1>1. CASE WatcherLeaves
  BY <1>1, ThreadMoves DEF WatcherLeaves
<1>2. CASE ForceStop
  BY <1>2, ThreadMoves DEF ForceStop, rebootDetected
<1>3. CASE Tick
  BY <1>3, ThreadMoves DEF Tick
<1>4. QED BY <1>1, <1>2, <1>3

\* start, stop and delete.
LEMMA CommandsKeep ==
  ASSUME MachineInv, Undisturbed, LaunchStart \/ NoSpec \/ MarkStarted \/ Stop \/ Delete
  PROVE  DiskInv' /\ RunInv'
<1> USE DEF MachineInv, Stationed, MachineTypes, Undisturbed, DiskInv, RunInv, FirstInstall,
            Quiet, Threads, Stations, hostVars, cliVars, createVars, macBounds
<1>1. CASE LaunchStart
  BY <1>1, ThreadMoves DEF LaunchStart
<1>2. CASE MarkStarted
  BY <1>2, ThreadMoves DEF MarkStarted
<1>3. CASE Stop
  <2>1. term' => term \/ IsRunning
    BY <1>3, Zenon DEF Stop
  <2>2. QED BY <1>3, <2>1 DEF Stop, IsRunning
<1>4. CASE Delete
  BY <1>4 DEF Delete
<1>5. CASE NoSpec
  BY <1>5, ThreadMoves DEF NoSpec
<1>6. QED BY <1>1, <1>2, <1>3, <1>4, <1>5

LEMMA GuestKeeps ==
  ASSUME MachineInv, Undisturbed, GuestStep
  PROVE  DiskInv' /\ RunInv'
<1> USE DEF MachineInv, Stationed, MachineTypes, Undisturbed, DiskInv, RunInv, FirstInstall,
            Quiet, Threads, cliVars, createVars, macBounds
<1>1. CASE GuestBoots
  BY <1>1 DEF GuestBoots
<1>2. CASE GuestInstalls
  BY <1>2 DEF GuestInstalls
<1>3. CASE GuestLoops
  BY <1>3 DEF GuestLoops
<1>4. CASE Terminates
  BY <1>4 DEF Terminates, Off
<1>5. QED BY <1>1, <1>2, <1>3, <1>4 DEF GuestStep

LEMMA MachineInit == MacInit => MachineInv
<1> SUFFICES ASSUME MacInit PROVE MachineInv
  OBVIOUS
<1>1. DiskInv /\ RunInv
  BY DEF MacInit, DiskInv, RunInv, FirstInstall, Quiet, Threads
<1>2. QED BY <1>1, VfkitTypeInit DEF MachineInv

LEMMA MachineInvStep == MachineInv /\ [MacNext]_macVars => MachineInv'
<1> SUFFICES ASSUME MachineInv, [MacNext]_macVars PROVE MachineInv'
  OBVIOUS
<1>1. Stationed' /\ MachineTypes'
  BY StationedStep, MachineStep DEF MachineInv
<1>2. ASSUME Undisturbed' PROVE DiskInv' /\ RunInv'
  <2>1. macFaults \in Nat /\ macCrashes \in Nat /\ macFaults' = 0 /\ macCrashes' = 0
    BY <1>2 DEF MachineInv, MachineTypes, Undisturbed
  <2>2. macFaults' # macFaults + 1 /\ macCrashes' # macCrashes + 1
    BY <2>1
  <2>3. ~Dies /\ ~MacCrash /\ ~WatcherTimesOut
    BY <2>2, Zenon DEF Dies, MacCrash, WatcherTimesOut
  <2>4. \A t \in Threads : ~LaunchFails(t)
    BY <2>2, Zenon DEF LaunchFails
  <2>5. CASE UNCHANGED macVars
    BY <1>2, <2>5 DEF MachineInv, DiskInv, RunInv, FirstInstall, Undisturbed, Quiet,
       macVars, hostVars,
       cliVars, createVars, macBounds
  <2>6. CASE MacNext
    <3>1. CASE \E t \in Threads : Thread(t)
      <4>1. PICK t \in Threads : Thread(t)
        BY <3>1
      <4>2. macFaults' = macFaults /\ macCrashes' = macCrashes
        BY <4>1 DEF Thread, Launch, SpawnRuns, SpawnFails, Start,
           StartFindsRunning, TruncatePhase, WritePhase, macBounds
      <4>3. QED BY <1>2, <4>1, <4>2, ThreadKeeps DEF Undisturbed
    <3>2. CASE LaunchMacCreate \/ PublishPXE \/ Prepare \/ Persist \/ RecordVM
             \/ InstallCompletes \/ WaitGivesUp \/ Finish
      <4>1. macFaults' = macFaults /\ macCrashes' = macCrashes
        BY <3>2 DEF LaunchMacCreate, PublishPXE, Prepare, Persist, RecordVM,
           InstallCompletes, WaitGivesUp, Finish, macBounds
      <4>2. QED BY <1>2, <3>2, <4>1, CreateKeeps DEF Undisturbed
    <3>3. CASE WatcherLeaves \/ ForceStop \/ Tick
      <4>1. macFaults' = macFaults /\ macCrashes' = macCrashes
        BY <3>3 DEF WatcherLeaves, ForceStop, Tick, macBounds
      <4>2. QED BY <1>2, <3>3, <4>1, WatchersKeep DEF Undisturbed
    <3>4. CASE LaunchStart \/ NoSpec \/ MarkStarted \/ Stop \/ Delete
      <4>1. macFaults' = macFaults /\ macCrashes' = macCrashes
        BY <3>4 DEF LaunchStart, NoSpec, MarkStarted, Stop, Delete, macBounds
      <4>2. QED BY <1>2, <3>4, <4>1, CommandsKeep DEF Undisturbed
    <3>5. CASE GuestStep
      <4>1. macFaults' = macFaults /\ macCrashes' = macCrashes
        BY <3>5 DEF GuestStep, GuestBoots, GuestInstalls, GuestLoops,
           Terminates, macBounds
      <4>2. QED BY <1>2, <3>5, <4>1, GuestKeeps DEF Undisturbed
    <3>6. QED
      BY <2>3, <2>4, <2>6, <3>1, <3>2, <3>3, <3>4, <3>5
         DEF MacNext, CreateStep, WatcherStep, WatchdogStep, StartStep, Threads
  <2>7. QED BY <2>5, <2>6
<1>3. DiskInv' /\ RunInv'
  <2>1. CASE Undisturbed'
    BY <1>2, <2>1
  <2>2. CASE ~Undisturbed'
    BY <2>2 DEF DiskInv, RunInv
  <2>3. QED BY <2>1, <2>2
<1>4. QED BY <1>1, <1>3 DEF MachineInv

LEMMA MachineInvariant == MacSpec => []MachineInv
  BY MachineInit, MachineInvStep, PTL DEF MacSpec

\* However create, start, stop and delete follow each other, in an install that
\* nothing disturbs the EFI boot of the run phase finds an installed disk.
THEOREM RunPhaseBootsInstalledDisk == MacSpec => []BootsInstalledDisk
<1>1. MachineInv => BootsInstalledDisk
  BY DEF MachineInv, MachineTypes, DiskInv, FirstInstall, BootsInstalledDisk
<1>2. QED BY MachineInvariant, <1>1, PTL

\* Under the same premise a cluster recorded as running has its VM, unless the
\* last start took a VM on its way down for running, or the last create was of
\* a stopped cluster whose install is recorded.
THEOREM RecordedRunningIsUp == MacSpec => []RunningIsUp
<1>1. MachineInv => RunningIsUp
  BY DEF MachineInv, RunInv, RunningIsUp
<1>2. QED BY MachineInvariant, <1>1, PTL
=============================================================================
