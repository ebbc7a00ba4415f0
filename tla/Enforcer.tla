------------------------------ MODULE Enforcer ------------------------------
(***************************************************************************)
(* The throttle's divert handle: three threads of WinDivertBackend around  *)
(* the rule tables, the enforced ports and the published handle.           *)
(*   gui  replaces the tables (sync_rules) and starts the enforcer thread, *)
(*   mon  tells it the ports of the limited programs (set_enforced_ports), *)
(*   enf  opens a handle for these ports and judges what it receives.      *)
(* The enforcer blocks in recv; the other two wake it by closing the       *)
(* handle it has published.  _rules_lock makes single accesses atomic,     *)
(* nothing orders one access with the next.                                *)
(***************************************************************************)
EXTENDS Naturals, FiniteSets

CONSTANTS Exes,        \* executables
          Group,       \* a tag limit that no running program carries
          Nobody,      \* owner of a free port
          Ports,       \* local ports
          NoHandle,    \* None
          MaxHandles,  \* bound: handle objects in use at a time
          FilterRoom,  \* ports that fit a filter of 1800 characters
          DriverRefuses, \* whether the driver may refuse to open a handle
          FirstRules,  \* the limits settings.txt may hold at the start
          MaxEdits,    \* bound: edits of the rules
          MaxMoves,    \* bound: ports that change hands
          MaxFails     \* bound: recv calls that fail on an open handle

Handles == 1..MaxHandles
Rules == Exes \cup {Group}

ASSUME NamesAssumption == Group \notin Exes /\ Nobody \notin Rules
ASSUME HandlesAssumption == MaxHandles \in Nat /\ NoHandle \notin Handles
ASSUME RoomAssumption == FilterRoom \in Nat /\ DriverRefuses \in BOOLEAN
ASSUME RulesAssumption == FirstRules \subseteq SUBSET Rules
ASSUME BoundsAssumption == MaxEdits \in Nat /\ MaxMoves \in Nat /\ MaxFails \in Nat

VARIABLES
  rules,     \* programs and groups with a bucket: _buckets, _tag_buckets
  enforced,  \* _enforced_ports
  published, \* _enforce_handle
  running,   \* _running
  owner,     \* the program behind each local port
  open,      \* handles the driver has open
  filter,    \* the ports each open handle diverts
  abandoned, \* history: the open handles on which a recv has failed
  gui,       \* GUI thread: where it is in sync_rules or stop, the handle it read
  mon,       \* monitor thread: where it is in the tick, what it has read
  enf,       \* enforcer thread: where it is in its loop, handle, current_filter
  left       \* what remains of the bounds

shared == <<rules, enforced, published, running>>
driver == <<open, filter, abandoned>>
vars == <<shared, owner, driver, gui, mon, enf, left>>

GuiPCs == {"boot", "start", "idle", "wake", "close", "sync", "stop", "stop_close", "exit", "gone"}
MonPCs == {"idle", "limits", "set", "close"}
EnfPCs == {"none", "test", "build", "close", "unpublish", "open", "publish",
           "recv", "error", "judge", "send", "last", "last_unpublish"}
LiveAt == EnfPCs \ {"none"}

TypeOK ==
  /\ rules \in SUBSET Rules
  /\ enforced \in SUBSET Ports
  /\ published \in Handles \cup {NoHandle}
  /\ running \in BOOLEAN
  /\ owner \in [Ports -> Exes \cup {Nobody}]
  /\ open \in SUBSET Handles
  /\ filter \in [Handles -> SUBSET Ports]
  /\ abandoned \in SUBSET Handles
  /\ gui \in [pc: GuiPCs, handle: Handles \cup {NoHandle}]
  /\ mon \in [pc: MonPCs, conns: [Ports -> Exes \cup {Nobody}], ports: SUBSET Ports,
              handle: Handles \cup {NoHandle}]
  /\ enf \in [pc: EnfPCs, handle: Handles \cup {NoHandle}, filter: SUBSET Ports]
  /\ left \in [edits: Nat, moves: Nat, fails: Nat]

Free == [p \in Ports |-> Nobody]
Thread(pc) == [pc |-> pc, handle |-> NoHandle, filter |-> {}]

Init ==
  /\ rules \in FirstRules
  /\ enforced = {} /\ published = NoHandle /\ running = FALSE
  /\ owner \in [Ports -> Exes \cup {Nobody}]
  /\ open = {} /\ filter = [h \in Handles |-> {}] /\ abandoned = {}
  /\ gui = [pc |-> "boot", handle |-> NoHandle]
  /\ mon = [pc |-> "idle", conns |-> Free, ports |-> {}, handle |-> NoHandle]
  /\ enf = Thread("none")
  /\ left = [edits |-> MaxEdits, moves |-> MaxMoves, fails |-> MaxFails]

Alive == enf.pc \in LiveAt
Close(h) == open' = open \ {h} /\ abandoned' = abandoned \ {h} /\ UNCHANGED filter

-----------------------------------------------------------------------------
(* The GUI thread.                                                         *)

Gui(pc, h) == gui' = [pc |-> pc, handle |-> h]

(* _sync_enforcer: a thread that is about to end counts as alive           *)
SyncEnforcer ==
  enf' = IF rules # {} /\ ~Alive THEN Thread("test") ELSE enf

(* Monitor.start: the tables come first (apply_settings), ...              *)
Boot ==
  /\ gui.pc = "boot"
  /\ SyncEnforcer
  /\ Gui("start", NoHandle)
  /\ UNCHANGED <<shared, owner, driver, mon, left>>

(* ... then WinDivertBackend.start                                         *)
Start ==
  /\ gui.pc = "start"
  /\ running' = TRUE
  /\ Gui("idle", NoHandle)
  /\ UNCHANGED <<rules, enforced, published, owner, driver, mon, enf, left>>

(* sync_rules: all tables at once; an empty set of rules wakes the thread  *)
SyncRules ==
  /\ gui.pc = "idle" /\ left.edits > 0
  /\ left' = [left EXCEPT !.edits = @ - 1]
  /\ \E r \in SUBSET Rules :
       /\ rules' = r
       /\ Gui(IF r = {} THEN "wake" ELSE "sync", NoHandle)
  /\ UNCHANGED <<enforced, published, running, owner, driver, mon, enf>>

ReadHandle ==
  /\ gui.pc \in {"wake", "stop"}
  /\ Gui(IF gui.pc = "wake" THEN "close" ELSE "stop_close", published)
  /\ UNCHANGED <<shared, owner, driver, mon, enf, left>>

CloseHandle ==
  /\ gui.pc \in {"close", "stop_close"}
  /\ Close(gui.handle)
  /\ Gui(IF gui.pc = "close" THEN "sync" ELSE "exit", NoHandle)
  /\ UNCHANGED <<shared, owner, mon, enf, left>>

EndSync ==
  /\ gui.pc = "sync"
  /\ SyncEnforcer
  /\ Gui("idle", NoHandle)
  /\ UNCHANGED <<shared, owner, driver, mon, left>>

Stop ==
  /\ gui.pc = "idle"
  /\ running' = FALSE
  /\ Gui("stop", NoHandle)
  /\ UNCHANGED <<rules, enforced, published, owner, driver, mon, enf, left>>

(* the joins have timeouts; the process and its handles end in any case    *)
Exit ==
  /\ gui.pc = "exit"
  /\ Gui("gone", NoHandle)
  /\ open' = {} /\ abandoned' = {} /\ enf' = Thread("none") /\ mon' = [mon EXCEPT !.pc = "idle"]
  /\ UNCHANGED <<shared, owner, filter, left>>

-----------------------------------------------------------------------------
(* The monitor thread: the part of Monitor._tick that feeds the enforcer.  *)

ReadConnections ==
  /\ mon.pc = "idle" /\ running
  /\ mon' = [mon EXCEPT !.pc = "limits", !.conns = owner]
  /\ UNCHANGED <<shared, owner, driver, gui, enf, left>>

ReadLimitsUnbound ==  \* mutant: sockets without a local port count as port 0
  /\ mon.pc = "limits"
  /\ mon' = [mon EXCEPT !.pc = "set", !.conns = Free,
                        !.ports = {0} \cup {p \in Ports : mon.conns[p] \in rules}]
  /\ UNCHANGED <<shared, owner, driver, gui, enf, left>>

(* limited_exes, and the ports of these programs                           *)
ReadLimits ==
  /\ mon.pc = "limits"
  /\ mon' = [mon EXCEPT !.pc = "set", !.conns = Free,
                        !.ports = {p \in Ports : mon.conns[p] \in rules}]
  /\ UNCHANGED <<shared, owner, driver, gui, enf, left>>

ComparedLate ==  \* mutant: the ports are compared after they have been stored
  /\ mon.pc = "set"
  /\ enforced' = mon.ports
  /\ mon' = [mon EXCEPT !.pc = "close", !.ports = {}, !.handle = NoHandle]
  /\ UNCHANGED <<rules, published, running, owner, driver, gui, enf, left>>

SetEnforcedPorts ==
  /\ mon.pc = "set"
  /\ enforced' = mon.ports
  /\ mon' = [mon EXCEPT !.pc = "close", !.ports = {},
                        !.handle = IF mon.ports # enforced THEN published ELSE NoHandle]
  /\ UNCHANGED <<rules, published, running, owner, driver, gui, enf, left>>

(* outside the lock: break the recv of the handle read inside it           *)
BreakRecv ==
  /\ mon.pc = "close"
  /\ Close(mon.handle)
  /\ mon' = [mon EXCEPT !.pc = "idle", !.handle = NoHandle]
  /\ UNCHANGED <<shared, owner, gui, enf, left>>

-----------------------------------------------------------------------------
(* The enforcer thread: _enforce_loop.  The empty filter stands for None.  *)

Goto(pc) == enf' = [enf EXCEPT !.pc = pc]

Test ==
  /\ enf.pc = "test"
  /\ Goto(IF running /\ rules # {} THEN "build" ELSE "last")
  /\ UNCHANGED <<shared, owner, driver, gui, mon, left>>

BuildFilter == IF Cardinality(enforced) > FilterRoom THEN {} ELSE enforced

BuildOnce ==  \* mutant: the filter is built for the first handle only
  /\ enf.pc = "build"
  /\ enf' = IF enf.handle # NoHandle \/ BuildFilter = enf.filter
            THEN [enf EXCEPT !.pc = "recv"]
            ELSE [enf EXCEPT !.pc = "open", !.filter = BuildFilter]
  /\ UNCHANGED <<shared, owner, driver, gui, mon, left>>

Build ==
  /\ enf.pc = "build"
  /\ enf' = IF BuildFilter = enf.filter THEN [enf EXCEPT !.pc = "recv"]
            ELSE [enf EXCEPT !.pc = IF enf.handle # NoHandle THEN "close" ELSE "open",
                             !.filter = BuildFilter]
  /\ UNCHANGED <<shared, owner, driver, gui, mon, left>>

DropOldUnclosed ==  \* mutant: the handle is replaced without being closed
  /\ enf.pc = "close"
  /\ enf' = [enf EXCEPT !.pc = "unpublish", !.handle = NoHandle]
  /\ UNCHANGED <<shared, owner, driver, gui, mon, left>>

CloseOld ==
  /\ enf.pc = "close"
  /\ Close(enf.handle)
  /\ enf' = [enf EXCEPT !.pc = "unpublish", !.handle = NoHandle]
  /\ UNCHANGED <<shared, owner, gui, mon, left>>

Unpublish ==
  /\ enf.pc = "unpublish"
  /\ published' = NoHandle
  /\ Goto("open")
  /\ UNCHANGED <<rules, enforced, running, owner, driver, gui, mon, left>>

(* Without a filter there is nothing to open; the driver may also refuse.  *)
OpenNone ==
  /\ enf.pc = "open" /\ (enf.filter = {} \/ DriverRefuses)
  /\ Goto("test")
  /\ UNCHANGED <<shared, owner, driver, gui, mon, left>>

(* a new object: none that any thread still refers to                      *)
OpenNew ==
  /\ enf.pc = "open" /\ enf.filter # {}
  /\ LET used == {published, gui.handle, mon.handle} \cup open
         h == CHOOSE x \in Handles : x \notin used
     IN /\ Handles \ used # {}
        /\ open' = open \cup {h}
        /\ filter' = [filter EXCEPT ![h] = enf.filter]
        /\ enf' = [enf EXCEPT !.pc = "publish", !.handle = h]
  /\ UNCHANGED <<shared, owner, abandoned, gui, mon, left>>

Publish ==
  /\ enf.pc = "publish"
  /\ published' = enf.handle
  /\ Goto("recv")
  /\ UNCHANGED <<rules, enforced, running, owner, driver, gui, mon, left>>

Packets == {p \in Ports : owner[p] # Nobody}

(* recv blocks until a diverted packet comes                               *)
Recv ==
  /\ enf.pc = "recv" /\ enf.handle \in open
  /\ filter[enf.handle] \cap Packets # {}
  /\ Goto("judge")
  /\ UNCHANGED <<shared, owner, driver, gui, mon, left>>

(* whatever recv raises, the loop forgets its handle and does not close it *)
DropHandle == enf' = [enf EXCEPT !.pc = "error", !.handle = NoHandle, !.filter = {}]

(* recv of a closed handle, or of None, raises                             *)
RecvRaises ==
  /\ enf.pc = "recv" /\ enf.handle \notin open
  /\ DropHandle
  /\ UNCHANGED <<shared, owner, driver, gui, mon, left>>

(* ... and recv may fail on a handle that is still open                    *)
RecvFails ==
  /\ enf.pc = "recv" /\ enf.handle \in open /\ left.fails > 0
  /\ left' = [left EXCEPT !.fails = @ - 1]
  /\ abandoned' = abandoned \cup {enf.handle}
  /\ DropHandle
  /\ UNCHANGED <<shared, owner, open, filter, gui, mon>>

RecvError ==
  /\ enf.pc = "error"
  /\ published' = NoHandle
  /\ Goto("test")
  /\ UNCHANGED <<rules, enforced, running, owner, driver, gui, mon, left>>

(* _allow_packet: with any limit set, a bucket may be too low for a packet *)
Judge ==
  /\ enf.pc = "judge"
  /\ \/ Goto("send")
     \/ rules # {} /\ Goto("test")
  /\ UNCHANGED <<shared, owner, driver, gui, mon, left>>

SendStays ==  \* mutant: the loop receives on without looking at the rules
  /\ enf.pc = "send"
  /\ Goto("recv")
  /\ UNCHANGED <<shared, owner, driver, gui, mon, left>>

(* an allowed packet is reinjected; on a closed handle send just fails     *)
Send ==
  /\ enf.pc = "send"
  /\ Goto("test")
  /\ UNCHANGED <<shared, owner, driver, gui, mon, left>>

Last ==
  /\ enf.pc = "last"
  /\ IF enf.handle = NoHandle
     THEN enf' = Thread("none") /\ UNCHANGED driver
     ELSE Close(enf.handle) /\ Goto("last_unpublish")
  /\ UNCHANGED <<shared, owner, gui, mon, left>>

LastUnpublish ==
  /\ enf.pc = "last_unpublish"
  /\ published' = NoHandle
  /\ enf' = Thread("none")
  /\ UNCHANGED <<rules, enforced, running, owner, driver, gui, mon, left>>

-----------------------------------------------------------------------------
(* The programs open and close connections.                                *)

Move ==
  /\ left.moves > 0
  /\ left' = [left EXCEPT !.moves = @ - 1]
  /\ \E p \in Ports : \E e \in Exes \cup {Nobody} :
       e # owner[p] /\ owner' = [owner EXCEPT ![p] = e]
  /\ UNCHANGED <<shared, driver, gui, mon, enf>>

GuiStep == Boot \/ Start \/ ReadHandle \/ CloseHandle \/ EndSync \/ Exit
MonStep == ReadConnections \/ ReadLimits \/ SetEnforcedPorts \/ BreakRecv
EnfStep ==
  \/ Test \/ Build \/ CloseOld \/ Unpublish \/ OpenNone \/ OpenNew \/ Publish
  \/ Recv \/ RecvRaises \/ RecvError \/ Judge \/ Send \/ Last \/ LastUnpublish

Next == GuiStep \/ MonStep \/ EnfStep \/ RecvFails \/ SyncRules \/ Stop \/ Move

Spec == Init /\ [][Next]_vars

(* Three scheduled threads, and an enforcer whose programs keep sending:   *)
(* Recv is enabled as long as a diverted port has an owner.  Nothing makes *)
(* a recv fail.                                                            *)
Fairness == WF_vars(GuiStep) /\ WF_vars(MonStep) /\ WF_vars(EnfStep)

LiveSpec == Spec /\ Fairness

-----------------------------------------------------------------------------
(* Properties.                                                             *)

(* README: the throttle "can never take you offline".  An open handle      *)
(* swallows the packets of its ports: whoever replaces, closes and         *)
(* publishes handles in between, each one is in the hands of the thread    *)
(* that reads it.  The handles on which recv has failed are the exception: *)
(* the loop drops them unclosed (capture.py 520-526).                      *)
NoOrphanHandle == open \subseteq {enf.handle} \cup abandoned

(* README: the enforcer handle "opens only while a speed limit is active". *)
(* As long as the diverted ports carry packets, a handle does not outlive  *)
(* the last limit, in whatever order the threads meet.                     *)
Serving == enf.handle \in open /\ filter[enf.handle] \cap Packets # {}
HandleFollowsRules == (rules = {} /\ Serving) ~> (rules # {} \/ ~Serving)

(* README: the filter is "rebuilt as those ports change": a handle that    *)
(* serves packets does not keep a filter that is out of date.              *)
Stale == Serving /\ filter[enf.handle] # BuildFilter
FilterFollowsPorts == Stale ~> ~Stale

(* sync_rules: "wake the enforcer so it releases its divert handle now     *)
(* instead of waiting for the next packet"; set_enforced_ports: "break the *)
(* blocking recv".  A thread that waits in recv when one of them starts to *)
(* wake it does wake up, packets or not.                                   *)
Waiting == enf.pc = "recv" /\ enf.handle \in open
WakeUpsArrive ==
  /\ (gui.pc = "wake" /\ Waiting) ~> enf.handle \notin open
  /\ (mon.pc = "set" /\ mon.ports # enforced /\ Waiting) ~> enf.pc # "recv"

(* capture.py: "nothing to police yet; wait for ports": without a handle   *)
(* the thread sleeps, it does not spin through recv.                       *)
RecvHasHandle == enf.pc = "recv" => enf.handle # NoHandle

(* README: rules "stick to the app across restarts" and limits are         *)
(* enforced: the ports of a limited program are diverted in the end.       *)
Diverted(p) == \E h \in open : p \in filter[h]
LimitEngages ==
  \A p \in Ports :
    (running /\ owner[p] \in rules) ~> (~running \/ owner[p] \notin rules \/ Diverted(p))

=============================================================================
