---------------------------- MODULE Server_proofs ----------------------------
(***************************************************************************)
(* Proofs about Server: for any number of groups, connections and uploads  *)
(* and any period of saving.                                               *)
(***************************************************************************)
EXTENDS Server, SequenceTheorems, TLAPS

(* The socket at every place of the start-up: what makes the results that  *)
(* main() ignores harmless.  A socket means that init() of the database    *)
(* was tried, and one that went well left a connection.                    *)
StartInv ==
  /\ pc \in {"init", "bind", "reinit", "dobind"} => sock \in {"none", "open"}
  /\ pc = "listen" => sock \in {"none", "bound"}
  /\ pc = "start" => sock \in {"none", "listening"}
  /\ LoopListens
  /\ sock # "none" => dbinit # "untried"
  /\ dbinit = "ok" => mysql # "null"

(* A scan begins at the first group; the best group so far has no more     *)
(* clients than any group looked at.                                       *)
ScanInv ==
  /\ pc # "scan" => next = 1
  /\ pc = "scan" => \A g \in Group : g < next => num[best] <= seen[g]

(* What is loaded is at least as recent as the last complete upload, which *)
(* only gets more recent: fields stored by the upload under way have its   *)
(* number, the others that of the one before.                              *)
Complete == IF storing > 0 THEN uploads - 1 ELSE uploads
DataInv ==
  /\ uploads > 0 \/ storing = 0
  /\ data["temp"] >= IF storing > 0 THEN uploads ELSE Complete
  /\ data["rh"] >= IF storing > 1 THEN uploads ELSE Complete
  /\ data["db"] >= Complete
  /\ base <= Complete
  /\ pc # "save" => loaded = <<>>

-----------------------------------------------------------------------------

LEMMA InitType == Init => TypeOK
<1> SUFFICES ASSUME Init PROVE TypeOK
  OBVIOUS
<1>1. Groups \in Nat \ {0} /\ Period \in Nat \ {0}
  BY ConstantsAssumption
<1>2. Unset \in [Field -> Nat]
  BY DEF Unset
<1>3. loaded \in Seq(Nat) /\ Len(loaded) <= 4
  BY DEF Init
<1>4. num \in [Group -> Int] /\ seen \in [Group -> Int]
  BY DEF Init
<1>5. best \in Group /\ next \in 1 .. Groups + 1 /\ mytimer \in 0 .. Period - 1
  BY <1>1 DEF Init, Group
<1> QED
  BY <1>1, <1>2, <1>3, <1>4, <1>5 DEF Init, TypeOK

LEMMA StartType ==
  ASSUME TypeOK, NEW from, NEW to \in {"bind", "dobind"},
         \/ MInit(from, to) \/ MBind \/ DoBind \/ MListen \/ MStart \/ WaitFails
  PROVE  TypeOK'
<1> USE DEF TypeOK
<1>1. CASE MInit(from, to)
  BY <1>1 DEF MInit, InitDb, Connected, scanvars, datavars, savevars, startvars
<1>2. CASE MBind
  BY <1>2 DEF MBind, scanvars, datavars, savevars
<1>3. CASE DoBind
  BY <1>3 DEF DoBind, scanvars, datavars, savevars
<1>4. CASE MListen
  BY <1>4 DEF MListen, scanvars, datavars, savevars
<1>5. CASE MStart
  BY <1>5 DEF MStart, startvars, scanvars, datavars, savevars
<1>6. CASE WaitFails
  BY <1>6 DEF WaitFails, startvars, scanvars, datavars, savevars
<1> QED
  BY <1>1, <1>2, <1>3, <1>4, <1>5, <1>6

LEMMA TypeStep == TypeOK /\ DataInv /\ [Next]_vars => TypeOK'
<1> SUFFICES ASSUME TypeOK, DataInv, [Next]_vars PROVE TypeOK'
  OBVIOUS
<1>a. Groups \in Nat \ {0} /\ Period \in Nat \ {0} /\ MaxUploads \in Nat
  BY ConstantsAssumption
<1>1. CASE MInit("init", "bind") \/ MBind \/ MInit("reinit", "dobind") \/ DoBind
            \/ MListen \/ MStart \/ WaitFails
  BY <1>1, StartType
<1>2. CASE NoClient
  BY <1>2 DEF TypeOK, NoClient, startvars, scanvars, datavars, savevars
<1>3. CASE Accept
  BY <1>3 DEF TypeOK, Accept, startvars, scanvars, datavars, savevars
<1>4. ASSUME NEW g \in Group, Scan(g) PROVE TypeOK'
  <2>1. best' \in Group /\ next' \in 1 .. Groups + 1
    BY <1>4, <1>a DEF TypeOK, Scan, Group
  <2>2. seen' \in [Group -> Int]
    BY <1>4 DEF TypeOK, Scan
  <2> QED
    BY <1>4, <2>1, <2>2 DEF TypeOK, Scan, startvars, datavars, savevars
<1>5. CASE AddClient
  BY <1>5, <1>a DEF TypeOK, AddClient, startvars, datavars, savevars, Group
<1>6. CASE Tick
  <2>1. mytimer' \in 0 .. Period - 1 /\ pc' \in {"save", "loop"}
    BY <1>6, <1>a DEF TypeOK, Tick
  <2>2. base' \in Nat
    BY <1>6 DEF TypeOK, Tick, DataInv
  <2> QED
    BY <1>6, <2>1, <2>2 DEF TypeOK, Tick, startvars, scanvars, datavars
<1>7. CASE Load
  <2>1. LoadOrder[Len(loaded) + 1] \in Field
    BY <1>7, SMTT(30) DEF TypeOK, Load, LoadOrder, Field
  <2>2. loaded' \in Seq(Nat) /\ Len(loaded') <= 4
    BY <1>7, <2>1 DEF TypeOK, Load
  <2> QED
    BY <1>7, <2>2 DEF TypeOK, Load, startvars, scanvars, datavars
<1>8. CASE Insert
  <2>1. Row \in [Field -> Nat]
    <3>1. Len(loaded) = 4 /\ loaded \in Seq(Nat)
      BY <1>8 DEF TypeOK, Insert
    <3>2. \A n \in 1 .. 4 : loaded[n] \in Nat
      BY <3>1, ElementOfSeq
    <3>3. loaded[1] \in Nat /\ loaded[2] \in Nat /\ loaded[3] \in Nat
          /\ loaded[4] \in Nat
      BY <3>2
    <3> DEFINE i == loaded[1]
               t == loaded[2]
               r == loaded[3]
               d == loaded[4]
    <3> HIDE DEF i, t, r, d
    <3>4. Row = [illu |-> i, temp |-> t, rh |-> r, db |-> d]
      BY DEF Row, i, t, r, d
    <3>5. i \in Nat /\ t \in Nat /\ r \in Nat /\ d \in Nat
      BY <3>3 DEF i, t, r, d
    <3> QED
      BY <3>4, <3>5 DEF Field
  <2>2. loaded' \in Seq(Nat) /\ Len(loaded') <= 4
    BY <1>8 DEF Insert
  <2> QED
    BY <1>8, <2>1, <2>2 DEF TypeOK, Insert, startvars, scanvars, datavars
<1>9. CASE Connect
  BY <1>9 DEF TypeOK, Connect, startvars, scanvars, datavars, savevars
<1>10. CASE Store
  <2>1. uploads' \in Nat /\ storing' \in 0 .. 2
    BY <1>10 DEF TypeOK, Store, Last
  <2>2. data' \in [Field -> Nat]
    BY <1>10, <2>1 DEF TypeOK, Store
  <2> QED
    BY <1>10, <2>1, <2>2 DEF TypeOK, Store, startvars, scanvars, savevars
<1>11. CASE SetIllu
  BY <1>11 DEF TypeOK, SetIllu, startvars, scanvars, savevars
<1>12. ASSUME NEW g \in Group, Drop(g) PROVE TypeOK'
  BY <1>12 DEF TypeOK, Drop, startvars, scanvars, datavars, savevars
<1>13. CASE UNCHANGED vars
  BY <1>13 DEF TypeOK, vars, startvars, scanvars, datavars, savevars
<1> QED
  BY <1>1, <1>2, <1>3, <1>4, <1>5, <1>6, <1>7, <1>8, <1>9, <1>10, <1>11, <1>12,
     <1>13 DEF Next, MainStep

-----------------------------------------------------------------------------
(* The start-up. *)

LEMMA StartStep == TypeOK /\ StartInv /\ [Next]_vars => StartInv'
<1> SUFFICES ASSUME TypeOK, StartInv, [Next]_vars PROVE StartInv'
  OBVIOUS
<1> USE DEF StartInv, LoopListens
<1>1. ASSUME NEW from, NEW to,
             \/ from = "init" /\ to = "bind"
             \/ from = "reinit" /\ to = "dobind",
             MInit(from, to)
      PROVE  StartInv'
  BY <1>1 DEF MInit, InitDb, Connected, startvars
<1>2. CASE MBind
  BY <1>2 DEF MBind
<1>3. CASE DoBind
  BY <1>3 DEF DoBind
<1>4. CASE MListen
  BY <1>4 DEF MListen
<1>5. CASE MStart
  BY <1>5 DEF MStart, startvars
<1>6. CASE WaitFails \/ NoClient \/ Accept \/ AddClient \/ Tick \/ Load
           \/ \E g \in Group : Scan(g)
  BY <1>6 DEF WaitFails, NoClient, Accept, AddClient, Tick, Load, Scan, startvars
<1>7. CASE Insert
  BY <1>7 DEF Insert, startvars
<1>8. CASE Connect \/ Store \/ SetIllu \/ \E g \in Group : Drop(g)
  BY <1>8 DEF Connect, Store, SetIllu, Drop, startvars
<1>9. CASE UNCHANGED vars
  BY <1>9 DEF vars, startvars
<1> QED
  BY <1>1, <1>2, <1>3, <1>4, <1>5, <1>6, <1>7, <1>8, <1>9 DEF Next, MainStep

(* A crash needs a connection that is gone, and only a failed init() loses *)
(* it: the row is inserted in the loop, where there is a socket and so     *)
(* init() was tried.                                                       *)
LEMMA CrashStep ==
  StartInv /\ CrashNeedsFailedInit /\ TypeOK /\ [Next]_vars => CrashNeedsFailedInit'
<1> SUFFICES ASSUME StartInv, CrashNeedsFailedInit, TypeOK, [Next]_vars
             PROVE  CrashNeedsFailedInit'
  OBVIOUS
<1> USE DEF CrashNeedsFailedInit
<1>1. ASSUME NEW from, NEW to \in {"bind", "dobind"}, from # "crashed",
             MInit(from, to)
      PROVE  CrashNeedsFailedInit'
  BY <1>1 DEF MInit, InitDb, startvars
<1>2. CASE MBind \/ DoBind \/ MListen \/ MStart
  BY <1>2 DEF MBind, DoBind, MListen, MStart
<1>3. CASE WaitFails \/ NoClient \/ Accept \/ AddClient \/ Tick \/ Load
           \/ \E g \in Group : Scan(g)
  BY <1>3 DEF WaitFails, NoClient, Accept, AddClient, Tick, Load, Scan
<1>4. CASE Insert
  <2>1. ExecCrashes /\ pc = "save" => dbinit = "failed"
    BY DEF ExecCrashes, StartInv, LoopListens, TypeOK
  <2> QED
    BY <1>4, <2>1 DEF Insert, startvars
<1>5. CASE Connect \/ Store \/ SetIllu \/ \E g \in Group : Drop(g)
  BY <1>5 DEF Connect, Store, SetIllu, Drop, Running, startvars
<1>6. CASE UNCHANGED vars
  BY <1>6 DEF vars, startvars
<1> QED
  BY <1>1, <1>2, <1>3, <1>4, <1>5, <1>6 DEF Next, MainStep

-----------------------------------------------------------------------------
(* The choice of a group. *)

LEMMA ScanStep == TypeOK /\ ScanInv /\ [Next]_vars => ScanInv'
<1> SUFFICES ASSUME TypeOK, ScanInv, [Next]_vars PROVE ScanInv'
  OBVIOUS
<1>a. Groups \in Nat \ {0}
  BY ConstantsAssumption
<1> USE DEF ScanInv
<1>1. ASSUME NEW from \in {"init", "reinit"}, NEW to \in {"bind", "dobind"},
             MInit(from, to)
      PROVE  ScanInv'
  BY <1>1 DEF MInit, InitDb, scanvars
<1>2. CASE MBind \/ DoBind \/ MListen \/ MStart \/ WaitFails \/ NoClient
  BY <1>2 DEF MBind, DoBind, MListen, MStart, WaitFails, NoClient, scanvars
<1>3. CASE Accept
  BY <1>3, <1>a DEF Accept, scanvars, Group
<1>4. ASSUME NEW g \in Group, Scan(g)
      PROVE  ScanInv'
  <2>1. num[best'] <= num[g] /\ \A h \in Group : h < g => num[best'] <= seen[h]
    <3>1. num \in [Group -> Int] /\ seen \in [Group -> Int] /\ best \in Group
      BY DEF TypeOK
    <3>2. num[best] \in Int /\ num[g] \in Int /\ \A h \in Group : seen[h] \in Int
      BY <3>1
    <3> QED
      BY <1>4, <3>2 DEF Scan, MoreThan
  <2>2. \A h \in Group : h < next' => h < g \/ h = g
    BY <1>4 DEF Scan, Group
  <2>3. seen' = [seen EXCEPT ![g] = num[g]] /\ num' = num /\ seen \in [Group -> Int]
    BY <1>4 DEF Scan, TypeOK
  <2>4. pc' = "scan"
    BY <1>4 DEF Scan
  <2> QED
    BY <2>1, <2>2, <2>3, <2>4
<1>5. CASE AddClient \/ Tick \/ Load \/ Insert
  BY <1>5 DEF AddClient, Tick, Load, Insert, scanvars
<1>6. CASE Connect \/ Store \/ SetIllu
  BY <1>6 DEF Connect, Store, SetIllu, scanvars
<1>7. ASSUME NEW d \in Group, Drop(d)
      PROVE  ScanInv'
  <2>1. num'[best] <= num[best] /\ num'[best] \in Int /\ num[best] \in Int
    BY <1>7 DEF Drop, TypeOK
  <2>2. \A g \in Group : seen[g] \in Int
    BY DEF TypeOK
  <2> QED
    BY <1>7, <2>1, <2>2 DEF Drop, scanvars
<1>8. CASE UNCHANGED vars
  BY <1>8 DEF vars, scanvars
<1> QED
  BY <1>1, <1>2, <1>3, <1>4, <1>5, <1>6, <1>7, <1>8 DEF Next, MainStep

-----------------------------------------------------------------------------
(* The row. *)

LEMMA DataStep == TypeOK /\ DataInv /\ [Next]_vars => DataInv'
<1> SUFFICES ASSUME TypeOK, DataInv, [Next]_vars PROVE DataInv'
  OBVIOUS
<1> USE DEF DataInv, Complete
<1>1. ASSUME NEW from \in {"init", "reinit"}, NEW to \in {"bind", "dobind"},
             MInit(from, to)
      PROVE  DataInv'
  BY <1>1 DEF MInit, InitDb, datavars, savevars
<1>2. CASE MBind \/ DoBind \/ MListen \/ MStart \/ WaitFails \/ NoClient \/ Accept
           \/ AddClient \/ \E g \in Group : Scan(g)
  BY <1>2 DEF MBind, DoBind, MListen, MStart, WaitFails, NoClient, Accept, AddClient,
              Scan, datavars, savevars
<1>3. CASE Tick
  BY <1>3 DEF Tick, datavars, TypeOK
<1>4. CASE Load \/ Insert
  BY <1>4 DEF Load, Insert, datavars
<1>5. CASE Connect \/ \E g \in Group : Drop(g)
  BY <1>5 DEF Connect, Drop, datavars, savevars
<1>6. CASE Store
  <2>0. data \in [Field -> Nat] /\ uploads \in Nat /\ storing \in {0, 1, 2}
        /\ base \in Nat
    BY DEF TypeOK
  <2>f. data["temp"] \in Nat /\ data["rh"] \in Nat /\ data["db"] \in Nat
    BY <2>0 DEF Field
  <2>1. CASE storing = 0
    <3>1. storing' = 1 /\ uploads' = uploads + 1 /\ pc' = pc /\ base' = base
          /\ loaded' = loaded /\ data' = [data EXCEPT !["temp"] = uploads']
      BY <1>6, <2>1 DEF Store, StoreOrder, Last, savevars
    <3>2. data'["temp"] = uploads' /\ data'["rh"] = data["rh"] /\ data'["db"] = data["db"]
      BY <3>1, <2>0 DEF Field
    <3> QED
      BY <2>0, <2>f, <2>1, <3>1, <3>2
  <2>2. CASE storing = 1
    <3>1. storing' = 2 /\ uploads' = uploads /\ pc' = pc /\ base' = base
          /\ loaded' = loaded /\ data' = [data EXCEPT !["rh"] = uploads']
      BY <1>6, <2>2 DEF Store, StoreOrder, Last, savevars
    <3>2. data'["temp"] = data["temp"] /\ data'["rh"] = uploads' /\ data'["db"] = data["db"]
      BY <3>1, <2>0 DEF Field
    <3> QED
      BY <2>0, <2>f, <2>2, <3>1, <3>2
  <2>3. CASE storing = 2
    <3>1. storing' = 0 /\ uploads' = uploads /\ pc' = pc /\ base' = base
          /\ loaded' = loaded /\ data' = [data EXCEPT !["db"] = uploads']
      BY <1>6, <2>3 DEF Store, StoreOrder, Last, savevars
    <3>2. data'["temp"] = data["temp"] /\ data'["rh"] = data["rh"] /\ data'["db"] = uploads'
      BY <3>1, <2>0 DEF Field
    <3> QED
      BY <2>0, <2>f, <2>3, <3>1, <3>2
  <2> QED
    BY <2>0, <2>1, <2>2, <2>3
<1>7. CASE SetIllu
  <2>1. /\ data'["temp"] = data["temp"] /\ data'["rh"] = data["rh"]
        /\ data'["db"] = data["db"]
    BY <1>7 DEF SetIllu, TypeOK, Field
  <2> QED
    BY <1>7, <2>1 DEF SetIllu, savevars
<1>8. CASE UNCHANGED vars
  BY <1>8 DEF vars, datavars, savevars
<1> QED
  BY <1>1, <1>2, <1>3, <1>4, <1>5, <1>6, <1>7, <1>8 DEF Next, MainStep

LEMMA FreshStep == TypeOK /\ DataInv /\ RowIsFresh /\ [Next]_vars => RowIsFresh'
<1> SUFFICES ASSUME TypeOK, DataInv, RowIsFresh, [Next]_vars PROVE RowIsFresh'
  OBVIOUS
<1> USE DEF RowIsFresh
<1>1. CASE Load
  <2>1. loaded \in Seq(Nat) /\ Len(loaded) < 4 /\ base' = base
        /\ loaded' = Append(loaded, data[LoadOrder[Len(loaded) + 1]])
    BY <1>1 DEF Load, TypeOK
  <2>2. /\ base \in Nat /\ uploads \in Nat
        /\ data["temp"] \in Nat /\ data["rh"] \in Nat /\ data["db"] \in Nat
    BY DEF TypeOK, Field
  <2>3. data["temp"] >= base /\ data["rh"] >= base /\ data["db"] >= base
    BY <2>2 DEF DataInv, Complete
  <2>4. ASSUME NEW n \in 2 .. Len(loaded')
        PROVE  loaded'[n] >= base
    <3>1. CASE n <= Len(loaded)
      BY <2>1, <3>1
    <3>2. CASE n = Len(loaded) + 1
      <4>1. n \in {2, 3, 4} /\ loaded'[n] = data[LoadOrder[n]]
        BY <2>1, <3>2
      <4>2. LoadOrder[n] \in {"temp", "rh", "db"}
        BY <4>1 DEF LoadOrder
      <4> QED
        BY <4>1, <4>2, <2>3
    <3> QED
      BY <2>1, <3>1, <3>2
  <2> QED
    BY <2>1, <2>4
<1>2. CASE Insert
  BY <1>2 DEF Insert
<1>3. CASE Tick
  BY <1>3 DEF Tick, DataInv
<1>4. ASSUME NEW from, NEW to, MInit(from, to)
      PROVE  RowIsFresh'
  BY <1>4 DEF MInit, savevars
<1>5. CASE MBind \/ DoBind \/ MListen \/ MStart \/ WaitFails \/ NoClient \/ Accept
           \/ AddClient \/ \E g \in Group : Scan(g)
  BY <1>5 DEF MBind, DoBind, MListen, MStart, WaitFails, NoClient, Accept, AddClient,
              Scan, savevars
<1>6. CASE Connect \/ Store \/ SetIllu \/ \E g \in Group : Drop(g)
  BY <1>6 DEF Connect, Store, SetIllu, Drop, savevars
<1>7. CASE UNCHANGED vars
  BY <1>7 DEF vars, savevars
<1> QED
  BY <1>1, <1>2, <1>3, <1>4, <1>5, <1>6, <1>7 DEF Next, MainStep

-----------------------------------------------------------------------------
(* The invariants of the main thread, and what follows from them. *)

ServerInv == TypeOK /\ StartInv /\ CrashNeedsFailedInit /\ ScanInv /\ DataInv /\ RowIsFresh

LEMMA Invariance == Spec => []ServerInv
<1>1. Init => ServerInv
  <2> SUFFICES ASSUME Init PROVE ServerInv
    OBVIOUS
  <2>1. TypeOK
    BY InitType
  <2>2. StartInv /\ CrashNeedsFailedInit /\ ScanInv
    BY DEF Init, StartInv, LoopListens, CrashNeedsFailedInit, ScanInv
  <2>3. DataInv
    BY DEF Init, DataInv, Complete, Unset, Field
  <2>4. RowIsFresh
    BY DEF Init, RowIsFresh
  <2> QED
    BY <2>1, <2>2, <2>3, <2>4 DEF ServerInv
<1>2. ServerInv /\ [Next]_vars => ServerInv'
  BY TypeStep, StartStep, CrashStep, ScanStep, DataStep, FreshStep DEF ServerInv
<1> QED
  BY <1>1, <1>2, PTL DEF Spec

(* Every variable keeps its type: above all, the iterators of              *)
(* addclient_main() stay in the vector of groups.                          *)
THEOREM TypeCorrect == Spec => []TypeOK
BY Invariance, PTL DEF ServerInv

(* The loop is only entered with a listening socket, whichever of the      *)
(* calls before it failed (pi_net.cpp:17-22).                              *)
THEOREM LoopStartsListening == Spec => []LoopListens
BY Invariance, PTL DEF ServerInv, StartInv

(* Only a failed init() of the database lets the server crash              *)
(* (m_db.cpp:33-38).                                                       *)
THEOREM OnlyFailedInitCrashes == Spec => []CrashNeedsFailedInit
BY Invariance, PTL DEF ServerInv

(* savedata() never loads a temperature, humidity or noise older than the  *)
(* last upload complete when it began (m_server.cpp:226-236).              *)
THEOREM RowsAreFresh == Spec => []RowIsFresh
BY Invariance, PTL DEF ServerInv

(* The group addclient_main() chooses has no more clients than any group   *)
(* had when it was looked at (m_server.cpp:213-222).                       *)
THEOREM ChoiceIsFewest == Spec => FewestClients
<1>1. ServerInv /\ [Next]_vars => [AddClient => \A g \in Group : num[best] <= seen[g]]_vars
  <2> SUFFICES ASSUME ServerInv, AddClient, NEW g \in Group
               PROVE  num[best] <= seen[g]
    OBVIOUS
  <2>1. pc = "scan" /\ g < next
    BY ConstantsAssumption DEF AddClient, Group, ServerInv, TypeOK
  <2> QED
    BY <2>1 DEF ServerInv, ScanInv
<1> QED
  BY <1>1, Invariance, PTL DEF Spec, FewestClients
==============================================================================
