--------------------------- MODULE EnforcerProofs ---------------------------
(* Theorems about Enforcer, for every set of programs and ports, any       *)
(* number of handles, edits, moves and failing recv calls, and whatever    *)
(* order the three threads meet in.                                        *)
EXTENDS Enforcer, TLAPS

-----------------------------------------------------------------------------
(* The places of the loop where the thread has let go of its handle: only  *)
(* from there it opens another one.  At "last_unpublish" it still holds    *)
(* the handle it has closed.                                               *)
Without == {"none", "unpublish", "open", "error"}

HandleInv ==
  /\ TypeOK
  /\ enf.pc \in Without => enf.handle = NoHandle
  /\ enf.pc = "last_unpublish" => open \subseteq abandoned
  /\ open \subseteq {enf.handle} \cup abandoned
  /\ abandoned \subseteq open

LEMMA ThreadType ==
  ASSUME NEW pc \in EnfPCs
  PROVE  /\ Thread(pc) \in [pc: EnfPCs, handle: Handles \cup {NoHandle}, filter: SUBSET Ports]
         /\ Thread(pc).pc = pc /\ Thread(pc).handle = NoHandle
BY DEF Thread

LEMMA FreeType == Free \in [Ports -> Exes \cup {Nobody}]
BY DEF Free

LEMMA GotoFacts ==
  ASSUME TypeOK, NEW pc \in EnfPCs, Goto(pc)
  PROVE  /\ enf' \in [pc: EnfPCs, handle: Handles \cup {NoHandle}, filter: SUBSET Ports]
         /\ enf'.pc = pc /\ enf'.handle = enf.handle
BY DEF TypeOK, Goto

(* Whoever closes a handle, leaves none open but the enforcer's and the    *)
(* abandoned ones; the enforcer leaves only the abandoned ones.            *)
LEMMA CloseFacts ==
  ASSUME HandleInv, NEW h, Close(h)
  PROVE  /\ open' \in SUBSET Handles /\ abandoned' \in SUBSET Handles
         /\ filter' \in [Handles -> SUBSET Ports]
         /\ open' \subseteq {enf.handle} \cup abandoned' /\ abandoned' \subseteq open'
         /\ open \subseteq abandoned => open' \subseteq abandoned'
         /\ h = enf.handle => open' \subseteq abandoned'
BY DEF HandleInv, TypeOK, Close

LEMMA InitInv == Init => HandleInv
<1> SUFFICES ASSUME Init
             PROVE  HandleInv
  OBVIOUS
<1>1. enf \in [pc: EnfPCs, handle: Handles \cup {NoHandle}, filter: SUBSET Ports]
      /\ enf.handle = NoHandle
  BY ThreadType DEF Init, EnfPCs
<1>2. gui \in [pc: GuiPCs, handle: Handles \cup {NoHandle}]
  BY DEF Init, GuiPCs
<1>3. mon \in [pc: MonPCs, conns: [Ports -> Exes \cup {Nobody}], ports: SUBSET Ports,
               handle: Handles \cup {NoHandle}]
  BY FreeType DEF Init, MonPCs
<1>4. left \in [edits: Nat, moves: Nat, fails: Nat]
  BY BoundsAssumption DEF Init
<1>5. QED
  BY <1>1, <1>2, <1>3, <1>4, RulesAssumption DEF Init, HandleInv, TypeOK

LEMMA SyncEnforcerFacts ==
  ASSUME HandleInv, SyncEnforcer, UNCHANGED <<open, abandoned>>
  PROVE  /\ enf' \in [pc: EnfPCs, handle: Handles \cup {NoHandle}, filter: SUBSET Ports]
         /\ enf'.pc \in Without => enf'.handle = NoHandle
         /\ enf'.pc = "last_unpublish" => open' \subseteq abandoned'
         /\ open' \subseteq {enf'.handle} \cup abandoned'
<1>1. CASE rules # {} /\ ~Alive
  <2>1. enf.pc = "none" /\ enf.handle = NoHandle
    BY <1>1 DEF HandleInv, TypeOK, Alive, LiveAt, Without
  <2>2. enf' = Thread("test")
    BY <1>1 DEF SyncEnforcer
  <2>3. QED
    BY <2>1, <2>2, ThreadType DEF HandleInv, EnfPCs
<1>2. CASE ~(rules # {} /\ ~Alive)
  BY <1>2 DEF SyncEnforcer, HandleInv, TypeOK
<1>3. QED
  BY <1>1, <1>2

LEMMA GuiType ==
  ASSUME NEW pc \in GuiPCs, NEW h \in Handles \cup {NoHandle}, Gui(pc, h)
  PROVE  gui' \in [pc: GuiPCs, handle: Handles \cup {NoHandle}]
BY DEF Gui

(* The GUI thread. *)
LEMMA GuiInv ==
  ASSUME HandleInv, GuiStep \/ SyncRules \/ Stop
  PROVE  HandleInv'
<1> USE DEF shared, driver
<1>1. CASE Boot
  <2>1. gui' \in [pc: GuiPCs, handle: Handles \cup {NoHandle}]
    BY <1>1, GuiType DEF Boot, GuiPCs
  <2>2. QED
    BY <1>1, <2>1, SyncEnforcerFacts DEF Boot, HandleInv, TypeOK
<1>2. CASE Start
  <2>1. gui' \in [pc: GuiPCs, handle: Handles \cup {NoHandle}]
    BY <1>2, GuiType DEF Start, GuiPCs
  <2>2. QED
    BY <1>2, <2>1 DEF Start, HandleInv, TypeOK
<1>3. CASE ReadHandle
  <2>1. gui' \in [pc: GuiPCs, handle: Handles \cup {NoHandle}]
    BY <1>3, GuiType DEF ReadHandle, GuiPCs, HandleInv, TypeOK
  <2>2. QED
    BY <1>3, <2>1 DEF ReadHandle, HandleInv, TypeOK
<1>4. CASE CloseHandle
  <2>1. gui' \in [pc: GuiPCs, handle: Handles \cup {NoHandle}]
    BY <1>4, GuiType DEF CloseHandle, GuiPCs
  <2>2. QED
    BY <1>4, <2>1, CloseFacts DEF CloseHandle, HandleInv, TypeOK
<1>5. CASE EndSync
  <2>1. gui' \in [pc: GuiPCs, handle: Handles \cup {NoHandle}]
    BY <1>5, GuiType DEF EndSync, GuiPCs
  <2>2. QED
    BY <1>5, <2>1, SyncEnforcerFacts DEF EndSync, HandleInv, TypeOK
<1>6. CASE Exit
  <2>1. gui' \in [pc: GuiPCs, handle: Handles \cup {NoHandle}]
    BY <1>6, GuiType DEF Exit, GuiPCs
  <2>2. mon' \in [pc: MonPCs, conns: [Ports -> Exes \cup {Nobody}], ports: SUBSET Ports,
                  handle: Handles \cup {NoHandle}]
    BY <1>6 DEF Exit, HandleInv, TypeOK, MonPCs
  <2>3. QED
    BY <1>6, <2>1, <2>2, ThreadType DEF Exit, HandleInv, TypeOK, EnfPCs
<1>7. CASE SyncRules
  <2>1. PICK r \in SUBSET Rules : /\ rules' = r
                                  /\ Gui(IF r = {} THEN "wake" ELSE "sync", NoHandle)
    BY <1>7 DEF SyncRules
  <2>2. gui' \in [pc: GuiPCs, handle: Handles \cup {NoHandle}]
    BY <2>1, GuiType DEF GuiPCs
  <2>3. left' \in [edits: Nat, moves: Nat, fails: Nat]
    BY <1>7 DEF SyncRules, HandleInv, TypeOK
  <2>4. QED
    BY <1>7, <2>1, <2>2, <2>3 DEF SyncRules, HandleInv, TypeOK
<1>8. CASE Stop
  <2>1. gui' \in [pc: GuiPCs, handle: Handles \cup {NoHandle}]
    BY <1>8, GuiType DEF Stop, GuiPCs
  <2>2. QED
    BY <1>8, <2>1 DEF Stop, HandleInv, TypeOK
<1>9. QED
  BY <1>1, <1>2, <1>3, <1>4, <1>5, <1>6, <1>7, <1>8 DEF GuiStep

(* The monitor thread and the programs. *)
LEMMA MonInv ==
  ASSUME HandleInv, MonStep \/ Move
  PROVE  HandleInv'
<1> USE DEF shared, driver
<1> DEFINE Mon == [pc: MonPCs, conns: [Ports -> Exes \cup {Nobody}], ports: SUBSET Ports,
                   handle: Handles \cup {NoHandle}]
<1>1. CASE ReadConnections
  <2>1. mon' \in Mon
    BY <1>1 DEF ReadConnections, HandleInv, TypeOK, MonPCs
  <2>2. QED
    BY <1>1, <2>1 DEF ReadConnections, HandleInv, TypeOK
<1>2. CASE ReadLimits
  <2>1. mon' \in Mon
    BY <1>2, FreeType DEF ReadLimits, HandleInv, TypeOK, MonPCs
  <2>2. QED
    BY <1>2, <2>1 DEF ReadLimits, HandleInv, TypeOK
<1>3. CASE SetEnforcedPorts
  <2>1. mon' \in Mon /\ enforced' \in SUBSET Ports
    BY <1>3 DEF SetEnforcedPorts, HandleInv, TypeOK, MonPCs
  <2>2. QED
    BY <1>3, <2>1 DEF SetEnforcedPorts, HandleInv, TypeOK
<1>4. CASE BreakRecv
  <2>1. mon' \in Mon
    BY <1>4 DEF BreakRecv, HandleInv, TypeOK, MonPCs
  <2>2. QED
    BY <1>4, <2>1, CloseFacts DEF BreakRecv, HandleInv, TypeOK
<1>5. CASE Move
  <2>1. owner' \in [Ports -> Exes \cup {Nobody}] /\ left' \in [edits: Nat, moves: Nat, fails: Nat]
    BY <1>5 DEF Move, HandleInv, TypeOK
  <2>2. QED
    BY <1>5, <2>1 DEF Move, HandleInv, TypeOK
<1>6. QED
  BY <1>1, <1>2, <1>3, <1>4, <1>5 DEF MonStep

(* A new handle is opened only when the enforcer holds none, so only       *)
(* abandoned ones are open beside it.                                      *)
LEMMA OpenNewInv ==
  ASSUME HandleInv, OpenNew
  PROVE  HandleInv'
<1> DEFINE used == {published, gui.handle, mon.handle} \cup open
           h == CHOOSE x \in Handles : x \notin used
<1>1. open \subseteq abandoned
  BY HandlesAssumption DEF OpenNew, HandleInv, TypeOK, Without
<1>2. h \in Handles
  BY DEF OpenNew
<1>3. /\ open' = open \cup {h}
      /\ filter' = [filter EXCEPT ![h] = enf.filter]
      /\ enf' = [enf EXCEPT !.pc = "publish", !.handle = h]
      /\ UNCHANGED <<shared, owner, abandoned, gui, mon, left>>
  BY DEF OpenNew
<1> HIDE DEF h
<1>4. filter' \in [Handles -> SUBSET Ports]
  BY <1>2, <1>3 DEF HandleInv, TypeOK
<1>5. /\ enf' \in [pc: EnfPCs, handle: Handles \cup {NoHandle}, filter: SUBSET Ports]
      /\ enf'.pc = "publish" /\ enf'.handle = h
  BY <1>2, <1>3 DEF HandleInv, TypeOK, EnfPCs
<1>6. QED
  BY <1>1, <1>2, <1>3, <1>4, <1>5 DEF HandleInv, TypeOK, Without, shared

(* The enforcer thread. *)
LEMMA EnfInv ==
  ASSUME HandleInv, EnfStep \/ RecvFails
  PROVE  HandleInv'
<1> USE DEF shared, driver
<1> DEFINE Enf == [pc: EnfPCs, handle: Handles \cup {NoHandle}, filter: SUBSET Ports]
           Ended == Without \cup {"last_unpublish"}
<1>0. TypeOK
  BY DEF HandleInv
<1>1. CASE Test
  <2>1. enf' \in Enf /\ enf'.pc \notin Ended /\ enf'.handle = enf.handle
    BY <1>0, <1>1, GotoFacts DEF Test, EnfPCs, Without
  <2>2. QED
    BY <1>1, <2>1 DEF Test, HandleInv, TypeOK
<1>2. CASE Build
  <2>1. BuildFilter \in SUBSET Ports
    BY <1>0 DEF BuildFilter, TypeOK
  <2>2. /\ enf' \in Enf /\ enf'.handle = enf.handle
        /\ enf'.pc \in Ended => enf'.pc = "open" /\ enf.handle = NoHandle
    BY <1>0, <1>2, <2>1 DEF Build, TypeOK, EnfPCs, Without
  <2>3. QED
    BY <1>2, <2>2 DEF Build, HandleInv, TypeOK
<1>3. CASE CloseOld
  <2>1. enf' \in Enf /\ enf'.handle = NoHandle /\ enf'.pc # "last_unpublish"
    BY <1>0, <1>3 DEF CloseOld, TypeOK, EnfPCs
  <2>2. /\ open' \in SUBSET Handles /\ abandoned' \in SUBSET Handles
        /\ filter' \in [Handles -> SUBSET Ports]
        /\ open' \subseteq abandoned' /\ abandoned' \subseteq open'
    BY <1>3, CloseFacts DEF CloseOld
  <2>3. QED
    BY <1>3, <2>1, <2>2 DEF CloseOld, HandleInv, TypeOK
<1>4. CASE Unpublish \/ RecvError
  <2>1. enf.handle = NoHandle
    BY <1>4 DEF Unpublish, RecvError, HandleInv, Without
  <2>2. enf' \in Enf /\ enf'.handle = NoHandle /\ enf'.pc # "last_unpublish"
    BY <1>0, <1>4, <2>1, GotoFacts DEF Unpublish, RecvError, EnfPCs
  <2>3. QED
    BY <1>4, <2>1, <2>2 DEF Unpublish, RecvError, HandleInv, TypeOK
<1>5. CASE OpenNone \/ Recv \/ Judge \/ Send
  <2>1. enf' \in Enf /\ enf'.pc \notin Ended /\ enf'.handle = enf.handle
    BY <1>0, <1>5, GotoFacts DEF OpenNone, Recv, Judge, Send, EnfPCs, Without
  <2>2. QED
    BY <1>5, <2>1 DEF OpenNone, Recv, Judge, Send, HandleInv, TypeOK
<1>6. CASE Publish
  <2>1. enf' \in Enf /\ enf'.pc \notin Ended /\ enf'.handle = enf.handle
    BY <1>0, <1>6, GotoFacts DEF Publish, EnfPCs, Without
  <2>2. published' \in Handles \cup {NoHandle}
    BY <1>0, <1>6 DEF Publish, TypeOK
  <2>3. QED
    BY <1>6, <2>1, <2>2 DEF Publish, HandleInv, TypeOK
<1>7. CASE RecvRaises
  <2>1. enf' \in Enf /\ enf'.handle = NoHandle /\ enf'.pc # "last_unpublish"
    BY <1>0, <1>7 DEF RecvRaises, DropHandle, TypeOK, EnfPCs
  <2>2. open' \subseteq abandoned'
    BY <1>7 DEF RecvRaises, HandleInv
  <2>3. QED
    BY <1>7, <2>1, <2>2 DEF RecvRaises, HandleInv, TypeOK
<1>8. CASE Last
  <2>1. CASE enf.handle = NoHandle
    <3>1. enf' \in Enf /\ enf'.handle = NoHandle /\ enf'.pc # "last_unpublish"
      BY <1>8, <2>1, ThreadType DEF Last, EnfPCs
    <3>2. QED
      BY <1>8, <2>1, <3>1 DEF Last, HandleInv, TypeOK
  <2>2. CASE enf.handle # NoHandle
    <3>1. enf' \in Enf /\ enf'.pc \notin Without /\ enf'.handle = enf.handle
      BY <1>0, <1>8, <2>2, GotoFacts DEF Last, EnfPCs, Without
    <3>2. /\ open' \in SUBSET Handles /\ abandoned' \in SUBSET Handles
          /\ filter' \in [Handles -> SUBSET Ports]
          /\ open' \subseteq abandoned' /\ abandoned' \subseteq open'
      BY <1>8, <2>2, CloseFacts DEF Last
    <3>3. QED
      BY <1>8, <3>1, <3>2 DEF Last, HandleInv, TypeOK
  <2>3. QED
    BY <2>1, <2>2
<1>9. CASE LastUnpublish
  <2>1. enf' \in Enf /\ enf'.handle = NoHandle /\ enf'.pc # "last_unpublish"
    BY <1>9, ThreadType DEF LastUnpublish, EnfPCs
  <2>2. QED
    BY <1>9, <2>1 DEF LastUnpublish, HandleInv, TypeOK
<1>10. CASE RecvFails
  <2>1. enf' \in Enf /\ enf'.handle = NoHandle /\ enf'.pc # "last_unpublish"
    BY <1>0, <1>10 DEF RecvFails, DropHandle, TypeOK, EnfPCs
  <2>2. left' \in [edits: Nat, moves: Nat, fails: Nat]
    BY <1>0, <1>10 DEF RecvFails, TypeOK
  <2>3. /\ abandoned' \in SUBSET Handles
        /\ open' \subseteq abandoned' /\ abandoned' \subseteq open'
    BY <1>0, <1>10 DEF RecvFails, HandleInv, TypeOK
  <2>4. QED
    BY <1>10, <2>1, <2>2, <2>3 DEF RecvFails, HandleInv, TypeOK
<1>11. QED
  BY <1>1, <1>2, <1>3, <1>4, <1>5, <1>6, <1>7, <1>8, <1>9, <1>10, OpenNewInv DEF EnfStep

LEMMA NextInv == HandleInv /\ [Next]_vars => HandleInv'
<1> SUFFICES ASSUME HandleInv, [Next]_vars
             PROVE  HandleInv'
  OBVIOUS
<1>1. CASE UNCHANGED vars
  BY <1>1 DEF vars, shared, driver, HandleInv, TypeOK
<1>2. QED
  BY <1>1, GuiInv, MonInv, EnfInv DEF Next

-----------------------------------------------------------------------------
(* The rules, ports and handles and the places and locals of the three     *)
(* threads keep their types; a thread only ever holds handles that exist.  *)
THEOREM EnforcerTyped == Spec => []TypeOK
<1>1. HandleInv => TypeOK
  BY DEF HandleInv
<1>2. QED
  BY <1>1, InitInv, NextInv, PTL DEF Spec

(* A handle that diverts packets is in the hands of the thread that reads  *)
(* it, whoever closes, replaces or publishes handles in between, unless a  *)
(* recv has failed on it: nothing but a failing recv orphans a handle.     *)
THEOREM NoHandleIsOrphaned == Spec => []NoOrphanHandle
<1>1. HandleInv => NoOrphanHandle
  BY DEF HandleInv, NoOrphanHandle
<1>2. QED
  BY <1>1, InitInv, NextInv, PTL DEF Spec

=============================================================================
