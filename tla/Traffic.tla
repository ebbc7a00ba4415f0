------------------------------ MODULE Traffic ------------------------------
(***************************************************************************)
(* From a packet to a row of the process list and a line of the activity   *)
(* log: the sniffer thread (capture._on_packet), the process map           *)
(* (procmap.py), the monitor's tick (monitor._tick) and the activity log   *)
(* (module History).                                                       *)
(*                                                                         *)
(* The sniffer, the tick and the statistics window are threads.  A tick is *)
(* one step per lock it takes and one per process it visits; packets,      *)
(* sockets and processes come and go between any two of them.  A packet    *)
(* is one byte, and only one direction is counted: the code has the same   *)
(* expressions for both.                                                   *)
(***************************************************************************)
EXTENDS History, Sequences, SequencesExt

CONSTANTS
    Pid,
    Conn,         \* connection keys: protocol, local and remote endpoint
    PortOf,       \* [Conn -> ports]: several local addresses share a port
    NoPid,
    NoExe,        \* no process has this pid
    Unknown,      \* "": the executable of a process cannot be read
    NoEntry,      \* not in the cache
    PacketRing,   \* packet_ring: packets kept per connection
    MaxConns,     \* _max_conns
    Scenes        \* what a behaviour starts from and may do: the processes
                  \* (proc) and sockets (sock) it starts from, the processes
                  \* that may start (starts, each once), a bound on its
                  \* packets, the operations (ops) that occur in it besides
                  \* packets and ticks, and the ticks that stand for
                  \* idle_hide_minutes (idle; 0: never hide)

ASSUME TrafficAssumption ==
    /\ IsFiniteSet(Pid) /\ IsFiniteSet(Conn)
    /\ NoPid \notin Pid
    /\ NoExe \notin Exe /\ Unknown \notin Exe /\ NoEntry \notin Exe
    /\ NoExe # Unknown /\ NoEntry # Unknown /\ NoExe # NoEntry
    /\ DOMAIN PortOf = Conn
    /\ PacketRing \in Nat \ {0} /\ MaxConns \in Nat
    /\ \A s \in Scenes : /\ s.proc \in [Pid -> Exe \cup {NoExe}]
                         /\ s.sock \in [Conn -> Pid \cup {NoPid}]
                         /\ \A c \in Conn : s.sock[c] \in Pid => s.proc[s.sock[c]] # NoExe
                         /\ s.idle \in Nat /\ s.packets \in Nat /\ s.starts \subseteq Pid \X Exe

VARIABLES
    proc,      \* the system: executable of each running process
    sock,      \* the system: owner of each open socket
    started,   \* the members of scene.starts that did
    exact,     \* ProcessMap._exact
    loose,     \* ProcessMap._loose
    exeOf,     \* ProcessMap._exes
    timed,     \* pids whose _ctime entry is the start time of the process
    acc,       \* _pid_acc: bytes since the last drain; 0 is no entry
    total,     \* _pid_total
    connTotal, \* _conn_total
    packets,   \* _packets: time stamps of the packets kept
    clock,     \* number of the packet captured last, the time stamp
    mon,       \* the tick in progress
    prev,      \* _prev_pid_totals; 0 is no entry
    prevConns, \* _prev_conns
    quiet,     \* ticks since _last_active
    shown,     \* pids of _procs, the list that the windows read
    logged,    \* history variable: bytes of each pid given to the log
    ran,       \* history variable: what proc has been for the pid since the
               \* tick last looked at it
    scene      \* one of Scenes

systemVars == <<proc, sock, started>>
mapVars == <<exact, loose, exeOf, timed>>
backendVars == <<acc, total, connTotal, packets, clock>>
tickVars == <<mon, prev, prevConns, quiet, shown>>
ghostVars == <<logged, ran>>
vars == <<systemVars, mapVars, backendVars, tickVars, ghostVars, scene, historyVars>>

Port == {PortOf[c] : c \in Conn}
Owner == Pid \cup {NoPid}
None == [p \in Pid |-> 0]
Asleep == [at |-> "sleep", conns |-> [c \in Conn |-> NoPid], rates |-> {},
           tot |-> None, todo |-> {}, dead |-> {}, rows |-> {}]

Alive(p) == proc[p] # NoExe
ConnsOf(p, owners) == {c \in Conn : owners[c] = p}

TypeOK ==
    /\ HistoryTypeOK
    /\ proc \in [Pid -> Exe \cup {NoExe}]
    /\ sock \in [Conn -> Owner]
    /\ started \subseteq scene.starts
    /\ exact \in [Conn -> Owner]
    /\ loose \in [Port -> Owner]
    /\ exeOf \in [Pid -> Exe \cup {Unknown, NoEntry}]
    /\ timed \in SUBSET Pid
    /\ acc \in [Pid -> Nat]
    /\ total \in [Pid -> Nat]
    /\ connTotal \in [Conn -> Nat]
    /\ packets \in [Conn -> Seq(Nat)]
    /\ clock \in Nat
    /\ mon \in [at : {"sleep", "drain", "totals", "purge", "visit", "flush", "publish"},
                conns : [Conn -> Owner], rates : SUBSET Pid, tot : [Pid -> Nat],
                todo : SUBSET Pid, dead : SUBSET Pid, rows : SUBSET Pid]
    /\ prev \in [Pid -> Nat]
    /\ prevConns \in [Pid -> (SUBSET Conn) \cup {NoEntry}]
    /\ quiet \in [Pid -> 0 .. scene.idle]
    /\ shown \in SUBSET Pid
    /\ logged \in [Pid -> Nat]
    /\ ran \in [Pid -> SUBSET (Exe \cup {NoExe})]
    /\ scene \in Scenes

Init ==
    /\ HistoryInit
    /\ scene \in Scenes
    /\ proc = scene.proc
    /\ sock = scene.sock
    /\ started = {}
    /\ exact = [c \in Conn |-> NoPid]
    /\ loose = [o \in Port |-> NoPid]
    /\ exeOf = [p \in Pid |-> NoEntry]
    /\ timed = {}
    /\ acc = None
    /\ total = None
    /\ connTotal = [c \in Conn |-> 0]
    /\ packets = [c \in Conn |-> <<>>]
    /\ clock = 0
    /\ mon = Asleep
    /\ prev = None
    /\ prevConns = [p \in Pid |-> NoEntry]
    /\ quiet = [p \in Pid |-> 0]
    /\ shown = {}
    /\ logged = None
    /\ ran = [p \in Pid |-> {proc[p]}]
-----------------------------------------------------------------------------
(* The system: processes start, also with a pid used before, open and      *)
(* close sockets, and end, which closes theirs.                            *)
Spawn(p, e) ==
    /\ <<p, e>> \in scene.starts \ started
    /\ ~Alive(p)
    /\ started' = started \cup {<<p, e>>}
    /\ proc' = [proc EXCEPT ![p] = e]
    /\ timed' = timed \ {p}
    /\ ran' = [ran EXCEPT ![p] = @ \cup {e}]
    /\ UNCHANGED <<sock, exact, loose, exeOf, backendVars, tickVars, logged, scene,
                   historyVars>>

Connect(p, c) ==
    /\ "connect" \in scene.ops
    /\ Alive(p)
    /\ sock[c] = NoPid
    /\ sock' = [sock EXCEPT ![c] = p]
    /\ UNCHANGED <<proc, started, mapVars, backendVars, tickVars, ghostVars, scene,
                   historyVars>>

Close(c) ==
    /\ "close" \in scene.ops
    /\ sock[c] # NoPid
    /\ sock' = [sock EXCEPT ![c] = NoPid]
    /\ UNCHANGED <<proc, started, mapVars, backendVars, tickVars, ghostVars, scene,
                   historyVars>>

End(p) ==
    /\ "end" \in scene.ops
    /\ Alive(p)
    /\ proc' = [proc EXCEPT ![p] = NoExe]
    /\ sock' = [c \in Conn |-> IF sock[c] = p THEN NoPid ELSE sock[c]]
    /\ ran' = [ran EXCEPT ![p] = @ \cup {NoExe}]
    /\ UNCHANGED <<started, mapVars, backendVars, tickVars, logged, scene, historyVars>>
-----------------------------------------------------------------------------
(* pid_for_endpoint: the exact endpoint, else whoever has the port.        *)
PidForEndpoint(c) == IF exact[c] # NoPid THEN exact[c] ELSE loose[PortOf[c]]

(* append to a deque of PacketRing elements. *)
Keep(s, x) == IF Len(s) < PacketRing THEN Append(s, x) ELSE Append(Tail(s), x)

(* _sniff_loop and _on_packet: a packet of a connection that is open, or   *)
(* was open when the tables were built (its last segments).                *)
Sniff(c) ==
    /\ clock < scene.packets
    /\ sock[c] # NoPid \/ exact[c] # NoPid
    /\ clock' = clock + 1
    /\ LET p == PidForEndpoint(c)
       IN  IF p = NoPid
             THEN UNCHANGED <<acc, total>>
             ELSE /\ acc' = [acc EXCEPT ![p] = @ + 1]
                  /\ total' = [total EXCEPT ![p] = @ + 1]
    /\ connTotal' = [connTotal EXCEPT ![c] = @ + 1]
    /\ packets' = [packets EXCEPT ![c] = Keep(@, clock + 1)]
    /\ UNCHANGED <<systemVars, mapVars, tickVars, ghostVars, scene, historyVars>>
-----------------------------------------------------------------------------
(* refresh: both tables from the sockets of now, then the caches: entries  *)
(* of pids without a socket go, and so do those of a pid that belongs to   *)
(* another process than when they were made.                               *)
Live(owners) == {p \in Pid : ConnsOf(p, owners) # {}}

ReuseUnseen(p, cached) == cached  \* mutant: the start time is not looked at

CheckReuse(p, cached) ==
    IF Alive(p) /\ p \notin timed THEN NoEntry ELSE cached

TickRefresh ==
    /\ mon.at = "sleep"
    /\ exact' = sock
    /\ loose' \in {l \in [Port -> Owner] :
                     \A o \in Port :
                        LET owners == {sock[c] : c \in {d \in Conn : PortOf[d] = o}} \ {NoPid}
                        IN  IF owners = {} THEN l[o] = NoPid ELSE l[o] \in owners}
    /\ exeOf' = [p \in Pid |-> IF p \in Live(sock) THEN CheckReuse(p, exeOf[p]) ELSE NoEntry]
    /\ timed' = {p \in Live(sock) : Alive(p)}
    /\ mon' = [Asleep EXCEPT !.at = "drain"]
    /\ UNCHANGED <<systemVars, backendVars, prev, prevConns, quiet, shown, ghostVars, scene,
                   historyVars>>

(* snapshot_connections takes the list of the refresh when it is fresh and *)
(* asks the system again when that was slow; then drain_rates.             *)
TickDrain ==
    /\ mon.at = "drain"
    /\ \E owners \in {exact, sock} :
         mon' = [mon EXCEPT !.at = "totals", !.conns = owners,
                            !.rates = {p \in Pid : acc[p] > 0}]
    /\ acc' = None
    /\ UNCHANGED <<systemVars, mapVars, total, connTotal, packets, clock, prev, prevConns,
                   quiet, shown, ghostVars, scene, historyVars>>

(* pid_totals: a packet may have come since the drain. *)
TickTotals ==
    /\ mon.at = "totals"
    /\ mon' = [mon EXCEPT !.at = "purge", !.tot = total,
                          !.todo = Live(mon.conns) \cup mon.rates
                                     \cup {p \in Pid : total[p] > 0}]
    /\ UNCHANGED <<systemVars, mapVars, backendVars, prev, prevConns, quiet, shown,
                   ghostVars, scene, historyVars>>

(* purge_packets: the packets before the first one inside the window of    *)
(* the settings go, then the connections above the ceiling, those with the *)
(* oldest last packet first; a connection takes its total along.           *)
Young(s, cut) == {i \in 1 .. Len(s) : s[i] >= cut}
Newer(cut) ==
    [c \in Conn |-> LET young == Young(packets[c], cut)
                    IN  IF young = {} THEN <<>>
                        ELSE SubSeq(packets[c], Min(young), Len(packets[c]))]
LastSeen(pk, c) == Last(pk[c])

Evict(pk) ==
    LET there == {c \in Conn : pk[c] # <<>>}
        stale == CHOOSE s \in SUBSET there :
                   /\ Cardinality(s) = IF Cardinality(there) > MaxConns
                                         THEN Cardinality(there) - MaxConns ELSE 0
                   /\ \A c \in s, d \in there \ s : LastSeen(pk, c) < LastSeen(pk, d)
    IN  [c \in Conn |-> IF c \in stale THEN <<>> ELSE pk[c]]

TotalsStay(pk) == connTotal  \* mutant: eviction forgets the totals

KeepTotals(pk) ==
    [c \in Conn |-> IF packets[c] # <<>> /\ pk[c] = <<>> THEN 0 ELSE connTotal[c]]

TickPurge ==
    /\ mon.at = "purge"
    /\ mon' = [mon EXCEPT !.at = "visit"]
    /\ \E cut \in IF "purge" \in scene.ops THEN 0 .. clock ELSE {0} :
         /\ packets' = Evict(Newer(cut))
         /\ connTotal' = KeepTotals(Evict(Newer(cut)))
    /\ UNCHANGED <<systemVars, mapVars, acc, total, clock, prev, prevConns, quiet, shown,
                   ghostVars, scene, historyVars>>
-----------------------------------------------------------------------------
(* ProcessMap.exe: from the cache, else from the system.  A process that   *)
(* is gone has none, and that of a protected one cannot be read.           *)
Denied == IF "deny" \in scene.ops THEN {Unknown} ELSE {}

ExeOfGone(p) ==  \* mutant: None, not "", is cached for a process that is gone
    IF exeOf[p] # NoEntry THEN {exeOf[p]} ELSE {proc[p]} \cup Denied

ExeFor(p) ==
    IF exeOf[p] # NoEntry THEN {exeOf[p]}
    ELSE IF Alive(p) THEN {proc[p]} \cup Denied
    ELSE {Unknown}

WholeTotal(p) == mon.tot[p]  \* mutant: the total is logged at each tick

Delta(p) == IF mon.tot[p] >= prev[p] THEN mon.tot[p] - prev[p] ELSE mon.tot[p]

(* The body of the loop over pids.  A pid with neither sockets nor traffic *)
(* whose process is gone is put aside.                                     *)
VisitDead(p) ==
    /\ mon.at = "visit"
    /\ p \in mon.todo
    /\ p \notin Live(mon.conns) \cup mon.rates
    /\ ~Alive(p)
    /\ mon' = [mon EXCEPT !.todo = @ \ {p}, !.dead = @ \cup {p}]
    /\ UNCHANGED <<systemVars, mapVars, backendVars, prev, prevConns, quiet, shown,
                   ghostVars, scene, historyVars>>

(* Any other pid: activity for hiding idle processes, its row, and the     *)
(* bytes since the last tick to the log of its executable.                 *)
ActiveBySockets(p) ==  \* mutant: traffic is no activity
    prevConns[p] # ConnsOf(p, mon.conns)

Active(p) == p \in mon.rates \/ prevConns[p] # ConnsOf(p, mon.conns)
QuietNow(p) == IF Active(p) THEN 0 ELSE IF quiet[p] < scene.idle THEN quiet[p] + 1 ELSE quiet[p]
Hidden(p) == scene.idle > 0 /\ QuietNow(p) = scene.idle

Visit(p, exe) ==
    /\ mon.at = "visit"
    /\ p \in mon.todo
    /\ p \in Live(mon.conns) \cup mon.rates \/ Alive(p)
    /\ mon' = [mon EXCEPT !.todo = @ \ {p},
                          !.rows = IF Hidden(p) THEN @ ELSE @ \cup {p}]
    /\ prevConns' = [prevConns EXCEPT ![p] = ConnsOf(p, mon.conns)]
    /\ quiet' = [quiet EXCEPT ![p] = QuietNow(p)]
    /\ exeOf' = [exeOf EXCEPT ![p] = exe]
    /\ IF exe \in Exe /\ Delta(p) > 0
         THEN /\ Record(exe, Delta(p))
              /\ logged' = [logged EXCEPT ![p] = @ + Delta(p)]
         ELSE UNCHANGED <<historyVars, logged>>
    /\ prev' = [prev EXCEPT ![p] = mon.tot[p]]
    /\ ran' = [ran EXCEPT ![p] = {proc[p]}]
    /\ UNCHANGED <<systemVars, exact, loose, timed, backendVars, shown, scene>>

(* After the loop: whatever is known of dead pids is forgotten, the        *)
(* backend's counters included, and so is that of pids nobody lists now.   *)
Unlisted == {p \in Pid : p \notin Live(mon.conns) \cup mon.rates /\ mon.tot[p] = 0}
Without(f, gone, nothing) == [p \in Pid |-> IF p \in gone THEN nothing ELSE f[p]]

KeepCounters(gone) == UNCHANGED <<acc, total>>  \* mutant: no forget_pids

ForgetPids(gone) ==
    /\ acc' = Without(acc, gone, 0)
    /\ total' = Without(total, gone, 0)

TickForget ==
    /\ mon.at = "visit"
    /\ mon.todo = {}
    /\ prev' = Without(prev, mon.dead \cup Unlisted, 0)
    /\ prevConns' = Without(prevConns, mon.dead \cup Unlisted, NoEntry)
    /\ quiet' = Without(quiet, mon.dead \cup Unlisted, 0)
    /\ ForgetPids(mon.dead)
    /\ mon' = [Asleep EXCEPT !.at = "flush", !.rows = mon.rows]
    /\ UNCHANGED <<systemVars, mapVars, connTotal, packets, clock, shown, ghostVars, scene,
                   historyVars>>

(* maybe_flush: when the interval is over, a flush of this thread, which   *)
(* the tick waits for.                                                     *)
TickFlush ==
    /\ "flush" \in scene.ops
    /\ mon.at = "flush"
    /\ FlushStart("mon", "idle")
    /\ mon' = [mon EXCEPT !.at = "publish"]
    /\ UNCHANGED <<systemVars, mapVars, backendVars, prev, prevConns, quiet, shown,
                   ghostVars, scene>>

(* The rows become the list the windows read. *)
TickPublish ==
    /\ mon.at \in {"flush", "publish"}
    /\ ~Busy("mon")
    /\ shown' = mon.rows
    /\ mon' = Asleep
    /\ UNCHANGED <<systemVars, mapVars, backendVars, prev, prevConns, quiet, ghostVars, scene,
                   historyVars>>

Tick ==
    \/ TickRefresh
    \/ TickDrain
    \/ TickTotals
    \/ TickPurge
    \/ \E p \in Pid : VisitDead(p) \/ \E exe \in ExeFor(p) : Visit(p, exe)
    \/ TickForget
    \/ TickFlush
    \/ TickPublish
-----------------------------------------------------------------------------
(* The steps inside flush, _clear_log and load_history. *)
Flushing(t) ==
    /\ FlushStep(t)
    /\ UNCHANGED <<systemVars, mapVars, backendVars, tickVars, ghostVars, scene>>

(* The statistics window: Refresh, Flush now, and Clear log, which flushes *)
(* first.                                                                  *)
Reload ==
    /\ "flush" \in scene.ops
    /\ LoadStart("gui")
    /\ UNCHANGED <<systemVars, mapVars, backendVars, tickVars, ghostVars, scene>>

FlushNow ==
    /\ "flush" \in scene.ops
    /\ FlushStart("gui", "load")
    /\ UNCHANGED <<systemVars, mapVars, backendVars, tickVars, ghostVars, scene>>

ClearLog ==
    /\ "flush" \in scene.ops
    /\ FlushStart("gui", "remove")
    /\ UNCHANGED <<systemVars, mapVars, backendVars, tickVars, ghostVars, scene>>

Next ==
    \/ \E p \in Pid, e \in Exe : Spawn(p, e)
    \/ \E p \in Pid, c \in Conn : Connect(p, c)
    \/ \E c \in Conn : Close(c)
    \/ \E p \in Pid : End(p)
    \/ \E c \in Conn : Sniff(c)
    \/ Tick
    \/ \E t \in Thread : Flushing(t)
    \/ Reload
    \/ FlushNow
    \/ ClearLog

(* The monitor thread runs on: every step of a tick is taken. *)
Spec == Init /\ [][Next]_vars /\ WF_vars(Tick) /\ WF_vars(Flushing("mon"))
-----------------------------------------------------------------------------
(* Unless the monitor and the statistics window met inside flush, every    *)
(* recorded byte is in the bucket, the file or the backup, once, except    *)
(* for what a rotation, Clear log or a failed write threw away (flush,     *)
(* _maybe_rotate, _clear_log).                                             *)
BooksBalance ==
    raced \/ \A e \in Exe :
       due[e] = Loaded(e) + (IF \E t \in Thread : flusher[t].at = "clear"
                               THEN 0 ELSE bucket[e])

(* purge_packets and _on_packet keep the two maps of connections together: *)
(* one never has an entry the other has not, and the total covers at least *)
(* the packets kept, also after an eviction and new traffic.               *)
StoreInStep ==
    \A c \in Conn : /\ connTotal[c] > 0 <=> packets[c] # <<>>
                    /\ Len(packets[c]) <= connTotal[c]

(* What the tick logs for a pid goes to an executable that has run as this *)
(* pid since the tick looked at it before: the caches of the process map   *)
(* do not survive the reuse of a pid (_check_reuse and the pruning).       *)
LoggedToOwner ==
    [][\A e \in Exe : due'[e] > due[e] =>
          \E p \in Pid : logged'[p] > logged[p] /\ e \in ran[p]]_vars

(* The total of a pid less what the last tick has seen of it: the bytes    *)
(* that wait for the next tick.                                            *)
Fresh == [p \in Pid |-> total[p] - prev[p]]

(* While one process keeps a pid, each byte attributed to the pid is       *)
(* logged: none is settled or forgotten without it (_tick, forget_pids).   *)
(* The exception is a process whose executable could not be read: _exes    *)
(* then has "" for it, and its bytes are settled without being logged.     *)
RunningIsLogged ==
    [][\A p \in Pid :
          (Alive(p) /\ ran[p] = {proc[p]} /\ Fresh'[p] < Fresh[p]) =>
             \/ logged'[p] - logged[p] = Fresh[p] - Fresh'[p]
             \/ exeOf'[p] \in Denied]_vars

(* The accounting implements the ledger: no byte of a pid is logged twice  *)
(* or without having been counted, whatever ends, restarts or is forgotten *)
(* in between.                                                             *)
Abstract == INSTANCE Ledger WITH fresh <- Fresh
LedgerSpec == Abstract!Spec

(* A process that ends leaves the list, and its counters are forgotten.    *)
(* (README: "The list self-cleans".)                                       *)
EndedIsForgotten ==
    \A p \in Pid : ~Alive(p) ~> (Alive(p) \/ (p \notin shown /\ total[p] = 0))

(* A process whose traffic was measured appears in the list, also one that *)
(* was hidden as idle (README: "reappears").  Only a pid that was taken    *)
(* over from a process the tick was about to forget may miss it.           *)
Same(p) == Alive(p) /\ ran[p] = {proc[p]}
TrafficShows ==
    \A p \in Pid : (acc[p] > 0 /\ Same(p)) ~> (p \in shown \/ ~Alive(p))
=============================================================================
