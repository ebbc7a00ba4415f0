--------------------------- MODULE TrafficProofs ---------------------------
(* Theorems about Traffic and the activity log it feeds, for every set of  *)
(* processes, connections and executables, any limits and any scenes: the  *)
(* packet store, then the accounting, that nothing is lost, counted twice  *)
(* or counted for another program.                                         *)
EXTENDS Traffic, FiniteSetTheorems, WellFoundedInduction, TLAPS

-----------------------------------------------------------------------------
(* Sequences and least elements.                                           *)

Below == {ss \in Nat \X Nat : ss[1] < ss[2]}

LEMMA LeastNat ==
  ASSUME NEW T \in SUBSET Nat, T # {}
  PROVE  \E x \in T : \A y \in T : x <= y
<1>1. OpToRel(<, Nat) = Below
  BY DEF OpToRel, Below
<1>2. IsWellFoundedOn(Below, Nat)
  BY <1>1, NatLessThanWellFounded
<1>3. PICK x \in T : \A y \in T : ~ (<<y, x>> \in Below)
  <2>1. T \subseteq Nat
    OBVIOUS
  <2>2. QED
    BY <1>2, <2>1, WFMin, Zenon
<1>4. ASSUME NEW y \in T
      PROVE  x <= y
  <2>1. y < x => <<y, x>> \in Below
    BY DEF Below
  <2>2. ~ (y < x) /\ x \in Nat /\ y \in Nat
    BY <1>3, <2>1
  <2>3. QED
    BY <2>2
<1>5. QED
  BY <1>3, <1>4

LEMMA MinFacts ==
  ASSUME NEW T \in SUBSET Nat, T # {}
  PROVE  Min(T) \in T
BY LeastNat DEF Min

LEMMA KeepFacts ==
  ASSUME NEW s \in Seq(Nat), NEW x \in Nat
  PROVE  /\ Keep(s, x) \in Seq(Nat) /\ Keep(s, x) # <<>>
         /\ Len(Keep(s, x)) <= Len(s) + 1
<1>1. CASE Len(s) < PacketRing
  BY <1>1 DEF Keep
<1>2. CASE ~(Len(s) < PacketRing)
  <2>1. s # <<>>
    BY <1>2, TrafficAssumption
  <2>2. Tail(s) \in Seq(Nat) /\ Len(Tail(s)) = Len(s) - 1
    BY <2>1
  <2>3. Keep(s, x) = Append(Tail(s), x)
    BY <1>2 DEF Keep
  <2>4. QED
    BY <2>2, <2>3
<1>3. QED
  BY <1>1, <1>2

(* Purging leaves a suffix of what was kept of a connection, and evicting  *)
(* leaves all or nothing of it.                                            *)
LEMMA NewerFacts ==
  ASSUME packets \in [Conn -> Seq(Nat)], NEW cut \in Nat, NEW c \in Conn
  PROVE  /\ Newer(cut)[c] \in Seq(Nat)
         /\ Len(Newer(cut)[c]) <= Len(packets[c])
<1> DEFINE s == packets[c]
           young == Young(s, cut)
<1>1. s \in Seq(Nat) /\ Len(s) \in Nat
  OBVIOUS
<1>2. young \in SUBSET (1..Len(s))
  BY DEF Young
<1>3. Newer(cut)[c] = IF young = {} THEN <<>> ELSE SubSeq(s, Min(young), Len(s))
  BY DEF Newer
<1> HIDE DEF s, young
<1>4. CASE young = {}
  BY <1>1, <1>3, <1>4
<1>5. CASE young # {}
  <2>1. Min(young) \in 1..Len(s)
    <3>1. young \in SUBSET Nat
      BY <1>1, <1>2
    <3>2. QED
      BY <1>2, <1>5, <3>1, MinFacts
  <2>2. SubSeq(s, Min(young), Len(s)) \in Seq(Nat)
        /\ Len(SubSeq(s, Min(young), Len(s))) <= Len(s)
    BY <1>1, <2>1
  <2>3. QED
    BY <1>3, <1>5, <2>2 DEF s
<1>6. QED
  BY <1>4, <1>5, <1>3 DEF s

LEMMA EvictFacts ==
  ASSUME NEW pk, NEW c \in Conn
  PROVE  Evict(pk)[c] = <<>> \/ Evict(pk)[c] = pk[c]
BY DEF Evict

-----------------------------------------------------------------------------
(* Types: the activity log.                                                *)

Place == {"idle", "write", "clear", "remove", "load", "backup", "file"}
After == {"idle", "remove", "load"}
FlushType == [at : Place, keys : SUBSET Exe, buf : [Exe -> Nat], next : After]

LEMMA EmptyType == Empty \in [Exe -> Nat] /\ Empty \in [Exe -> Int]
BY DEF Empty

LEMMA IdleType == Idle \in FlushType /\ Idle.at = "idle"
BY EmptyType DEF Idle, FlushType, Place, After

LEMMA AtType ==
  ASSUME NEW at \in Place
  PROVE  /\ At(at) \in FlushType /\ At(at).at = at
BY IdleType DEF At, FlushType

LEMMA StartType ==
  ASSUME NEW at \in Place, NEW keys \in SUBSET Exe, NEW next \in After
  PROVE  [Idle EXCEPT !.at = at, !.keys = keys, !.next = next] \in FlushType
BY IdleType DEF FlushType

LEMMA FlusherType ==
  ASSUME HistoryTypeOK
  PROVE  flusher \in [Thread -> FlushType]
BY DEF HistoryTypeOK, FlushType, Place, After

LEMMA ClosedType ==
  ASSUME HistoryTypeOK, NEW t \in Thread,
         flusher' = [flusher EXCEPT ![t].at = "clear", ![t].buf = Empty]
  PROVE  flusher' \in [Thread -> FlushType]
<1> DEFINE f == [flusher[t] EXCEPT !.at = "clear", !.buf = Empty]
<1>1. flusher \in [Thread -> FlushType]
  BY DEF HistoryTypeOK, FlushType, Place, After
<1>2. f \in FlushType
  BY <1>1, EmptyType DEF FlushType, Place
<1>3. flusher' = [flusher EXCEPT ![t] = f]
  BY <1>1 DEF FlushType
<1>4. QED
  BY <1>1, <1>2, <1>3

LEMMA PlusMinusType ==
  /\ \A f \in [Exe -> Nat], g \in [Exe -> Nat] : Plus(f, g) \in [Exe -> Nat]
  /\ \A f \in [Exe -> Int], g \in [Exe -> Nat] : Minus(f, g) \in [Exe -> Int]
BY DEF Plus, Minus

LEMMA RecordType ==
  ASSUME HistoryTypeOK, NEW e \in Exe, NEW n \in Nat, Record(e, n)
  PROVE  HistoryTypeOK'
<1>1. bucket' \in [Exe -> Nat] /\ due' \in [Exe -> Int]
  BY DEF Record, HistoryTypeOK
<1>2. raced' \in BOOLEAN
  BY DEF Record, HistoryTypeOK
<1>3. QED
  BY <1>1, <1>2 DEF Record, HistoryTypeOK

LEMMA FlushStartType ==
  ASSUME HistoryTypeOK, NEW t \in Thread, NEW next \in After,
         FlushStart(t, next)
  PROVE  HistoryTypeOK'
<1>1. Entries \in SUBSET Exe
  BY DEF Entries
<1>2. flusher' \in [Thread -> FlushType]
  <2> DEFINE at == IF Entries = {} THEN "clear" ELSE "write"
             f == [Idle EXCEPT !.at = at, !.keys = Entries, !.next = next]
  <2>1. at \in Place
    BY DEF Place
  <2>2. flusher \in [Thread -> FlushType] /\ flusher' = [flusher EXCEPT ![t] = f]
    BY DEF FlushStart, HistoryTypeOK, FlushType, Place, After
  <2> HIDE DEF at
  <2>3. f \in FlushType
    BY <1>1, <2>1, StartType
  <2> HIDE DEF f
  <2>4. QED
    BY <2>2, <2>3
<1>3. raced' \in BOOLEAN
  BY DEF FlushStart, HistoryTypeOK
<1>4. QED
  BY <1>2, <1>3 DEF FlushStart, HistoryTypeOK, FlushType, Place, After

(* Reading changes nothing but the place of the reader.                    *)
LEMMA LoadStartFacts ==
  ASSUME HistoryTypeOK, NEW t \in Thread, LoadStart(t)
  PROVE  /\ flusher' \in [Thread -> FlushType]
         /\ flusher[t].at = "idle" /\ flusher'[t].at = "load"
         /\ \A o \in Thread \ {t} : flusher'[o] = flusher[o]
         /\ UNCHANGED <<bucket, live, lines, backup, due, raced>>
<1>1. At("load") \in FlushType /\ At("load").at = "load"
  BY AtType DEF Place
<1>2. flusher \in [Thread -> FlushType]
  BY DEF HistoryTypeOK, FlushType, Place, After
<1>3. QED
  BY <1>1, <1>2 DEF LoadStart, Busy

LEMMA LoadNextFacts ==
  ASSUME HistoryTypeOK, NEW t \in Thread, LoadNext(t)
  PROVE  /\ flusher' \in [Thread -> FlushType]
         /\ flusher[t].at \in {"load", "backup", "file"}
         /\ flusher'[t].at \in {"backup", "file", "idle"}
         /\ \A o \in Thread \ {t} : flusher'[o] = flusher[o]
         /\ UNCHANGED <<bucket, live, lines, backup, due, raced>>
<1> DEFINE to == IF flusher[t].at = "load" /\ backup # Empty THEN At("backup")
                 ELSE IF flusher[t].at # "file" /\ lines > 0 THEN At("file")
                 ELSE Idle
<1>1. /\ At("backup") \in FlushType /\ At("backup").at = "backup"
      /\ At("file") \in FlushType /\ At("file").at = "file"
      /\ Idle \in FlushType /\ Idle.at = "idle"
  BY IdleType, AtType DEF Place
<1>2. to \in FlushType /\ to.at \in {"backup", "file", "idle"}
  BY <1>1
<1>3. flusher \in [Thread -> FlushType]
  BY DEF HistoryTypeOK, FlushType, Place, After
<1>4. flusher' = [flusher EXCEPT ![t] = to]
  BY DEF LoadNext
<1> HIDE DEF to
<1>5. QED
  BY <1>2, <1>3, <1>4 DEF LoadNext

LEMMA FlushStepType ==
  ASSUME HistoryTypeOK, NEW t \in Thread, FlushStep(t)
  PROVE  HistoryTypeOK'
<1>1. CASE WriteLine(t)
  <2>1. flusher' \in [Thread -> FlushType]
    BY <1>1, SMTT(30) DEF WriteLine, HistoryTypeOK, FlushType, Place, After, Entries
  <2>2. QED
    BY <1>1, <2>1 DEF WriteLine, HistoryTypeOK, FlushType, Place, After
<1>2. CASE WriteEnd(t)
  <2>1. flusher' \in [Thread -> FlushType]
    BY <1>2, ClosedType DEF WriteEnd
  <2>2. live' \in [Exe -> Nat]
    <3>1. flusher[t].buf \in [Exe -> Nat]
      BY DEF HistoryTypeOK
    <3>2. QED
      BY <1>2, <3>1, PlusMinusType DEF WriteEnd, HistoryTypeOK
  <2>3. lines' \in Nat
    <3>1. Cardinality({e \in Exe : flusher[t].buf[e] > 0}) \in Nat
      BY HistoryAssumption, FS_Subset, FS_CardinalityType
    <3>2. QED
      BY <1>2, <3>1 DEF WriteEnd, HistoryTypeOK
  <2>4. QED
    BY <1>2, <2>1, <2>2, <2>3 DEF WriteEnd, HistoryTypeOK, FlushType, Place, After
<1>3. CASE WriteFail(t)
  <2>1. flusher' \in [Thread -> FlushType]
    BY <1>3, ClosedType DEF WriteFail
  <2>2. QED
    BY <1>3, <2>1, PlusMinusType DEF WriteFail, HistoryTypeOK, FlushType, Place, After
<1>4. CASE ClearBucket(t)
  <2>0. flusher[t].next \in After /\ flusher[t].next \in Place
    BY DEF HistoryTypeOK, After, Place
  <2>1. flusher' \in [Thread -> FlushType]
    BY <1>4, <2>0, AtType, FlusherType DEF ClearBucket
  <2>2. /\ live' \in [Exe -> Nat] /\ lines' \in Nat /\ backup' \in [Exe -> Nat]
        /\ due' \in [Exe -> Int]
    BY <1>4, EmptyType, PlusMinusType DEF ClearBucket, Rotate, HistoryTypeOK
  <2>3. QED
    BY <1>4, <2>1, <2>2, EmptyType DEF ClearBucket, HistoryTypeOK, FlushType, Place, After
<1>5. CASE RemoveLog(t)
  <2>1. flusher' \in [Thread -> FlushType]
    <3>1. At("load") \in FlushType
      BY AtType DEF Place
    <3>2. QED
      BY <1>5, <3>1, FlusherType DEF RemoveLog
  <2>2. live' \in [Exe -> Nat] /\ lines' \in Nat /\ due' \in [Exe -> Int]
    BY <1>5, EmptyType, PlusMinusType DEF RemoveLog, HistoryTypeOK
  <2>3. QED
    BY <1>5, <2>1, <2>2 DEF RemoveLog, HistoryTypeOK, FlushType, Place, After
<1>6. CASE LoadNext(t)
  <2>1. flusher' \in [Thread -> FlushType]
    BY <1>6, LoadNextFacts
  <2>2. QED
    BY <1>6, <2>1 DEF LoadNext, HistoryTypeOK, FlushType, Place, After
<1>7. QED
  BY <1>1, <1>2, <1>3, <1>4, <1>5, <1>6 DEF FlushStep

-----------------------------------------------------------------------------
(* Types: processes, sockets, counters and the tick.                       *)

TickType == [at : {"sleep", "drain", "totals", "purge", "visit", "flush", "publish"},
             conns : [Conn -> Owner], rates : SUBSET Pid, tot : [Pid -> Nat],
             todo : SUBSET Pid, dead : SUBSET Pid, rows : SUBSET Pid]

LEMMA NoneType == None \in [Pid -> Nat]
BY DEF None

LEMMA AsleepType ==
  /\ Asleep \in TickType
  /\ [Asleep EXCEPT !.at = "drain"] \in TickType
  /\ \A r \in SUBSET Pid : [Asleep EXCEPT !.at = "flush", !.rows = r] \in TickType
BY NoneType DEF Asleep, TickType, Owner

LEMMA SceneFacts ==
  ASSUME TypeOK
  PROVE  /\ scene \in Scenes
         /\ scene.proc \in [Pid -> Exe \cup {NoExe}]
         /\ scene.sock \in [Conn -> Owner]
         /\ \A c \in Conn : scene.sock[c] \in Pid => scene.proc[scene.sock[c]] # NoExe
         /\ scene.idle \in Nat /\ scene.packets \in Nat
         /\ scene.starts \subseteq Pid \X Exe
BY TrafficAssumption DEF TypeOK, Owner

LEMMA InitTypes == Init => TypeOK
<1> SUFFICES ASSUME Init
             PROVE  TypeOK
  OBVIOUS
<1>1. HistoryTypeOK
  <2>1. flusher \in [Thread -> FlushType]
    BY IdleType DEF Init, HistoryInit
  <2>2. QED
    BY <2>1, EmptyType DEF Init, HistoryInit, HistoryTypeOK, FlushType, Place, After
<1>2. /\ scene \in Scenes /\ scene.idle \in Nat
      /\ proc \in [Pid -> Exe \cup {NoExe}] /\ sock \in [Conn -> Owner]
  BY TrafficAssumption DEF Init, Owner
<1>3. /\ exact \in [Conn -> Owner] /\ loose \in [Port -> Owner]
      /\ exeOf \in [Pid -> Exe \cup {Unknown, NoEntry}]
  BY DEF Init, Owner
<1>4. /\ acc \in [Pid -> Nat] /\ total \in [Pid -> Nat] /\ prev \in [Pid -> Nat]
      /\ logged \in [Pid -> Nat]
  BY NoneType DEF Init
<1>5. connTotal \in [Conn -> Nat] /\ packets \in [Conn -> Seq(Nat)] /\ clock \in Nat
  <2>1. <<>> \in Seq(Nat)
    OBVIOUS
  <2>2. packets \in [Conn -> Seq(Nat)]
    BY <2>1, Zenon DEF Init
  <2>3. QED
    BY <2>2 DEF Init
<1>6. mon \in TickType
  BY AsleepType DEF Init
<1>7. prevConns \in [Pid -> (SUBSET Conn) \cup {NoEntry}] /\ quiet \in [Pid -> 0 .. scene.idle]
  BY <1>2 DEF Init
<1>8. ran \in [Pid -> SUBSET (Exe \cup {NoExe})]
  BY <1>2 DEF Init
<1>9. started \subseteq scene.starts /\ timed \in SUBSET Pid /\ shown \in SUBSET Pid
  BY DEF Init
<1>10. QED
  BY <1>1, <1>2, <1>3, <1>4, <1>5, <1>6, <1>7, <1>8, <1>9 DEF TypeOK, TickType

(* The system. *)
LEMMA SpawnType ==
  ASSUME TypeOK, NEW p \in Pid, NEW e \in Exe, Spawn(p, e)
  PROVE  TypeOK'
<1>1. proc' \in [Pid -> Exe \cup {NoExe}] /\ timed' \in SUBSET Pid
  BY DEF Spawn, TypeOK
<1>2. started' \subseteq scene.starts
  BY DEF Spawn, TypeOK
<1>3. ran' \in [Pid -> SUBSET (Exe \cup {NoExe})]
  BY DEF Spawn, TypeOK
<1>4. QED
  BY <1>1, <1>2, <1>3
     DEF Spawn, TypeOK, backendVars, tickVars, historyVars, HistoryTypeOK

LEMMA ConnectType ==
  ASSUME TypeOK, NEW p \in Pid, NEW c \in Conn, Connect(p, c)
  PROVE  TypeOK'
<1>1. sock' \in [Conn -> Owner]
  BY DEF Connect, TypeOK, Owner
<1>2. QED
  BY <1>1 DEF Connect, TypeOK, mapVars, backendVars, tickVars, ghostVars, historyVars,
              HistoryTypeOK

LEMMA CloseType ==
  ASSUME TypeOK, NEW c \in Conn, Close(c)
  PROVE  TypeOK'
<1>1. sock' \in [Conn -> Owner]
  BY DEF Close, TypeOK, Owner
<1>2. QED
  BY <1>1 DEF Close, TypeOK, mapVars, backendVars, tickVars, ghostVars, historyVars,
              HistoryTypeOK

LEMMA EndType ==
  ASSUME TypeOK, NEW p \in Pid, End(p)
  PROVE  TypeOK'
<1>1. proc' \in [Pid -> Exe \cup {NoExe}] /\ sock' \in [Conn -> Owner]
  BY DEF End, TypeOK, Owner
<1>2. ran' \in [Pid -> SUBSET (Exe \cup {NoExe})]
  BY DEF End, TypeOK
<1>3. QED
  BY <1>1, <1>2 DEF End, TypeOK, mapVars, backendVars, tickVars, historyVars, HistoryTypeOK

(* The sniffer. *)
LEMMA PidForEndpointType ==
  ASSUME TypeOK, NEW c \in Conn
  PROVE  PidForEndpoint(c) \in Owner
BY DEF PidForEndpoint, TypeOK, Port

LEMMA SniffType ==
  ASSUME TypeOK, NEW c \in Conn, Sniff(c)
  PROVE  TypeOK'
<1> DEFINE p == PidForEndpoint(c)
<1>1. acc' \in [Pid -> Nat] /\ total' \in [Pid -> Nat]
  <2>1. p \in Owner
    BY PidForEndpointType
  <2>2. CASE p = NoPid
    BY <2>2 DEF Sniff, TypeOK
  <2>3. CASE p # NoPid
    <3>1. /\ acc' = [acc EXCEPT ![p] = @ + 1] /\ total' = [total EXCEPT ![p] = @ + 1]
      BY <2>3 DEF Sniff
    <3>2. p \in Pid
      BY <2>1, <2>3 DEF Owner
    <3> HIDE DEF p
    <3>3. QED
      BY <3>1, <3>2 DEF TypeOK
  <2>4. QED
    BY <2>2, <2>3
<1>2. clock' \in Nat /\ connTotal' \in [Conn -> Nat]
  BY DEF Sniff, TypeOK
<1>3. packets' \in [Conn -> Seq(Nat)]
  <2>1. Keep(packets[c], clock + 1) \in Seq(Nat)
    BY KeepFacts DEF TypeOK
  <2>2. packets' = [packets EXCEPT ![c] = Keep(packets[c], clock + 1)]
    BY DEF Sniff
  <2>3. QED
    BY <2>1, <2>2 DEF TypeOK
<1>4. QED
  BY <1>1, <1>2, <1>3
     DEF Sniff, TypeOK, systemVars, mapVars, tickVars, ghostVars, historyVars, HistoryTypeOK

(* The tick. *)
LEMMA TickRefreshType ==
  ASSUME TypeOK, TickRefresh
  PROVE  TypeOK'
<1>1. exact' \in [Conn -> Owner] /\ loose' \in [Port -> Owner] /\ timed' \in SUBSET Pid
  <2>1. loose' \in [Port -> Owner]
    BY DEF TickRefresh
  <2>2. timed' \subseteq Pid
    BY DEF TickRefresh, Live
  <2>3. QED
    BY <2>1, <2>2 DEF TickRefresh, TypeOK
<1>2. exeOf' \in [Pid -> Exe \cup {Unknown, NoEntry}]
  BY DEF TickRefresh, TypeOK, CheckReuse
<1>3. mon' \in TickType
  BY AsleepType DEF TickRefresh
<1>4. QED
  BY <1>1, <1>2, <1>3
     DEF TickRefresh, TypeOK, systemVars, backendVars, ghostVars, historyVars, HistoryTypeOK,
         TickType

LEMMA TickDrainType ==
  ASSUME TypeOK, TickDrain
  PROVE  TypeOK'
<1>1. PICK owners \in {exact, sock} :
         mon' = [mon EXCEPT !.at = "totals", !.conns = owners,
                            !.rates = {p \in Pid : acc[p] > 0}]
  BY DEF TickDrain
<1>2. owners \in [Conn -> Owner]
  BY DEF TypeOK
<1>3. mon' \in TickType
  BY <1>1, <1>2 DEF TypeOK, TickType
<1>4. QED
  BY <1>3, NoneType
     DEF TickDrain, TypeOK, systemVars, mapVars, ghostVars, historyVars, HistoryTypeOK, TickType

LEMMA TickTotalsType ==
  ASSUME TypeOK, TickTotals
  PROVE  TypeOK'
<1>1. mon' \in TickType
  BY DEF TickTotals, TypeOK, TickType, Live
<1>2. QED
  BY <1>1 DEF TickTotals, TypeOK, systemVars, mapVars, backendVars, ghostVars, historyVars,
              HistoryTypeOK, TickType

LEMMA TickPurgeFacts ==
  ASSUME TypeOK, TickPurge
  PROVE  \E cut \in Nat : /\ packets' = Evict(Newer(cut))
                          /\ connTotal' = KeepTotals(Evict(Newer(cut)))
<1>1. PICK cut \in IF "purge" \in scene.ops THEN 0 .. clock ELSE {0} :
         /\ packets' = Evict(Newer(cut))
         /\ connTotal' = KeepTotals(Evict(Newer(cut)))
  BY DEF TickPurge
<1>2. cut \in Nat
  BY DEF TypeOK
<1>3. QED
  BY <1>1, <1>2

LEMMA TickPurgeType ==
  ASSUME TypeOK, TickPurge
  PROVE  TypeOK'
<1>1. PICK cut \in Nat : /\ packets' = Evict(Newer(cut))
                         /\ connTotal' = KeepTotals(Evict(Newer(cut)))
  BY TickPurgeFacts
<1>2. packets' \in [Conn -> Seq(Nat)]
  <2>1. ASSUME NEW c \in Conn
        PROVE  Evict(Newer(cut))[c] \in Seq(Nat)
    <3>1. Newer(cut)[c] \in Seq(Nat)
      BY NewerFacts DEF TypeOK
    <3>2. <<>> \in Seq(Nat)
      OBVIOUS
    <3>3. Evict(Newer(cut))[c] = <<>> \/ Evict(Newer(cut))[c] = Newer(cut)[c]
      BY EvictFacts
    <3>4. QED
      BY <3>1, <3>2, <3>3
  <2>2. Evict(Newer(cut)) = [c \in Conn |-> Evict(Newer(cut))[c]]
    BY DEF Evict
  <2>3. QED
    BY <1>1, <2>1, <2>2
<1>3. connTotal' \in [Conn -> Nat]
  BY <1>1 DEF KeepTotals, TypeOK
<1>4. mon' \in TickType
  BY DEF TickPurge, TypeOK, TickType
<1>5. QED
  BY <1>2, <1>3, <1>4
     DEF TickPurge, TypeOK, systemVars, mapVars, ghostVars, historyVars, HistoryTypeOK, TickType

LEMMA VisitDeadType ==
  ASSUME TypeOK, NEW p \in Pid, VisitDead(p)
  PROVE  TypeOK'
<1>1. mon' \in TickType
  BY DEF VisitDead, TypeOK, TickType
<1>2. QED
  BY <1>1 DEF VisitDead, TypeOK, systemVars, mapVars, backendVars, ghostVars, historyVars,
              HistoryTypeOK, TickType

LEMMA DeltaType ==
  ASSUME TypeOK, NEW p \in Pid
  PROVE  Delta(p) \in Nat
BY DEF Delta, TypeOK

LEMMA QuietNowType ==
  ASSUME TypeOK, NEW p \in Pid
  PROVE  QuietNow(p) \in 0 .. scene.idle
<1>1. quiet[p] \in 0 .. scene.idle /\ scene.idle \in Nat
  BY SceneFacts DEF TypeOK
<1>2. QED
  BY <1>1 DEF QuietNow

(* The step of the tick that looks at a process.                           *)
Visits == \E p \in Pid : \E exe \in ExeFor(p) : Visit(p, exe)

LEMMA VisitType ==
  ASSUME TypeOK, NEW p \in Pid, NEW exe \in ExeFor(p), Visit(p, exe)
  PROVE  TypeOK'
<1>1. mon' \in TickType
  BY DEF Visit, TypeOK, TickType
<1>2. prevConns' \in [Pid -> (SUBSET Conn) \cup {NoEntry}]
  BY DEF Visit, TypeOK, ConnsOf
<1>3. quiet' \in [Pid -> 0 .. scene.idle]
  BY QuietNowType DEF Visit, TypeOK
<1>4. exeOf' \in [Pid -> Exe \cup {Unknown, NoEntry}]
  <2>1. exe \in Exe \cup {Unknown, NoEntry}
    BY DEF TypeOK, ExeFor, Denied, Alive
  <2>2. QED
    BY <2>1 DEF Visit, TypeOK
<1>5. HistoryTypeOK' /\ logged' \in [Pid -> Nat]
  <2>1. CASE exe \in Exe /\ Delta(p) > 0
    <3>1. Record(exe, Delta(p)) /\ logged' = [logged EXCEPT ![p] = @ + Delta(p)]
      BY <2>1 DEF Visit
    <3>2. Delta(p) \in Nat
      BY DeltaType
    <3>3. HistoryTypeOK'
      BY <2>1, <3>1, <3>2, RecordType DEF TypeOK
    <3>4. QED
      BY <3>1, <3>2, <3>3 DEF TypeOK
  <2>2. CASE ~ (exe \in Exe /\ Delta(p) > 0)
    BY <2>2 DEF Visit, TypeOK, historyVars, HistoryTypeOK
  <2>3. QED
    BY <2>1, <2>2
<1>6. prev' \in [Pid -> Nat] /\ ran' \in [Pid -> SUBSET (Exe \cup {NoExe})]
  BY DEF Visit, TypeOK
<1>7. QED
  BY <1>1, <1>2, <1>3, <1>4, <1>5, <1>6
     DEF Visit, TypeOK, systemVars, backendVars, TickType

LEMMA WithoutType ==
  ASSUME NEW S, NEW f \in [Pid -> S], NEW nothing \in S, NEW gone
  PROVE  Without(f, gone, nothing) \in [Pid -> S]
BY DEF Without

LEMMA TickForgetType ==
  ASSUME TypeOK, TickForget
  PROVE  TypeOK'
<1>1. prev' \in [Pid -> Nat] /\ acc' \in [Pid -> Nat] /\ total' \in [Pid -> Nat]
  BY WithoutType DEF TickForget, ForgetPids, TypeOK
<1>2. prevConns' \in [Pid -> (SUBSET Conn) \cup {NoEntry}]
  BY DEF TickForget, Without, TypeOK
<1>3. quiet' \in [Pid -> 0 .. scene.idle]
  <2> DEFINE S == 0 .. scene.idle
  <2>1. 0 \in S /\ quiet \in [Pid -> S]
    <3>1. scene.idle \in Nat
      BY SceneFacts DEF TypeOK
    <3>2. 0 \in 0 .. scene.idle
      BY <3>1
    <3>3. QED
      BY <3>2 DEF TypeOK
  <2>2. quiet' = Without(quiet, mon.dead \cup Unlisted, 0)
    BY DEF TickForget
  <2> HIDE DEF S
  <2>3. quiet' \in [Pid -> S]
    BY <2>1, <2>2, WithoutType
  <2>4. QED
    BY <2>3 DEF S
<1>4. mon' \in TickType
  BY AsleepType DEF TickForget, TypeOK
<1>5. QED
  BY <1>1, <1>2, <1>3, <1>4
     DEF TickForget, TypeOK, systemVars, mapVars, ghostVars, historyVars, HistoryTypeOK, TickType

LEMMA TickFlushType ==
  ASSUME TypeOK, TickFlush
  PROVE  TypeOK'
<1>1. mon' \in TickType
  BY DEF TickFlush, TypeOK, TickType
<1>2. HistoryTypeOK'
  BY FlushStartType DEF TickFlush, TypeOK, Thread, After
<1>3. QED
  BY <1>1, <1>2 DEF TickFlush, TypeOK, systemVars, mapVars, backendVars, ghostVars, TickType

LEMMA TickPublishType ==
  ASSUME TypeOK, TickPublish
  PROVE  TypeOK'
<1>1. mon' \in TickType /\ shown' \in SUBSET Pid
  BY AsleepType DEF TickPublish, TypeOK
<1>2. QED
  BY <1>1 DEF TickPublish, TypeOK, systemVars, mapVars, backendVars, ghostVars, historyVars,
              HistoryTypeOK, TickType

(* The windows, and the steps of a flush. *)
LEMMA LogType ==
  ASSUME TypeOK, Reload \/ FlushNow \/ ClearLog \/ \E t \in Thread : Flushing(t)
  PROVE  TypeOK'
<1>0. HistoryTypeOK /\ "gui" \in Thread
  BY DEF TypeOK, Thread
<1>1. HistoryTypeOK'
  <2>1. CASE Reload
    <3>1. /\ flusher' \in [Thread -> FlushType]
          /\ UNCHANGED <<bucket, live, lines, backup, due, raced>>
      BY <1>0, <2>1, LoadStartFacts DEF Reload
    <3>2. QED
      BY <1>0, <3>1 DEF HistoryTypeOK, FlushType, Place, After
  <2>2. CASE FlushNow \/ ClearLog
    BY <1>0, <2>2, FlushStartType DEF FlushNow, ClearLog, After
  <2>3. CASE \E t \in Thread : Flushing(t)
    BY <1>0, <2>3, FlushStepType DEF Flushing
  <2>4. QED
    BY <2>1, <2>2, <2>3
<1>2. UNCHANGED <<systemVars, mapVars, backendVars, tickVars, ghostVars, scene>>
  BY DEF Reload, FlushNow, ClearLog, Flushing
<1>3. QED
  BY <1>1, <1>2 DEF TypeOK, systemVars, mapVars, backendVars, tickVars, ghostVars

LEMMA NextTypes == TypeOK /\ [Next]_vars => TypeOK'
<1> SUFFICES ASSUME TypeOK, [Next]_vars
             PROVE  TypeOK'
  OBVIOUS
<1>1. CASE UNCHANGED vars
  BY <1>1 DEF vars, systemVars, mapVars, backendVars, tickVars, ghostVars, historyVars,
              TypeOK, HistoryTypeOK
<1>2. CASE Tick
  BY <1>2, TickRefreshType, TickDrainType, TickTotalsType, TickPurgeType, VisitDeadType,
     VisitType, TickForgetType, TickFlushType, TickPublishType DEF Tick
<1>3. QED
  BY <1>1, <1>2, SpawnType, ConnectType, CloseType, EndType, SniffType, LogType DEF Next

(* Tables, counters and the rows of the list keep their types, and so does *)
(* the log: no count of bytes or lines ever goes below zero.               *)
THEOREM TrafficTyped == Spec => []TypeOK
BY InitTypes, NextTypes, PTL DEF Spec

-----------------------------------------------------------------------------
(* The store of packets.  The two maps change together: a packet adds to   *)
(* both, and the purge takes the total along when the packets of a         *)
(* connection are gone.                                                    *)

LEMMA SniffStore ==
  ASSUME TypeOK, StoreInStep, NEW c \in Conn, Sniff(c)
  PROVE  StoreInStep'
<1>1. /\ packets' = [packets EXCEPT ![c] = Keep(packets[c], clock + 1)]
      /\ connTotal' = [connTotal EXCEPT ![c] = @ + 1]
  BY DEF Sniff
<1>2. /\ packets[c] \in Seq(Nat) /\ Len(packets[c]) \in Nat
      /\ connTotal[c] \in Nat /\ clock + 1 \in Nat
  BY DEF TypeOK
<1>3. Keep(packets[c], clock + 1) # <<>> /\ Len(Keep(packets[c], clock + 1)) \in Nat
      /\ Len(Keep(packets[c], clock + 1)) <= Len(packets[c]) + 1
  BY <1>2, KeepFacts
<1>4. Len(packets[c]) <= connTotal[c]
  BY DEF StoreInStep
<1> SUFFICES ASSUME NEW d \in Conn
             PROVE  /\ connTotal'[d] > 0 <=> packets'[d] # <<>>
                    /\ Len(packets'[d]) <= connTotal'[d]
  BY DEF StoreInStep
<1>5. CASE d = c
  <2>1. packets'[d] = Keep(packets[c], clock + 1) /\ connTotal'[d] = connTotal[c] + 1
    BY <1>1, <1>5 DEF TypeOK
  <2> DEFINE k == Keep(packets[c], clock + 1)
  <2> HIDE DEF k
  <2>2. connTotal'[d] > 0 /\ packets'[d] # <<>>
    BY <1>2, <1>3, <2>1
  <2>3. Len(packets'[d]) <= connTotal'[d]
    BY <1>2, <1>3, <1>4, <2>1
  <2>4. QED
    BY <2>2, <2>3
<1>6. CASE d # c
  BY <1>1, <1>6 DEF StoreInStep, TypeOK
<1>7. QED
  BY <1>5, <1>6

LEMMA TickPurgeStore ==
  ASSUME TypeOK, StoreInStep, TickPurge
  PROVE  StoreInStep'
<1>1. PICK cut \in Nat : /\ packets' = Evict(Newer(cut))
                         /\ connTotal' = KeepTotals(Evict(Newer(cut)))
  BY TickPurgeFacts
<1> SUFFICES ASSUME NEW c \in Conn
             PROVE  /\ connTotal'[c] > 0 <=> packets'[c] # <<>>
                    /\ Len(packets'[c]) <= connTotal'[c]
  BY DEF StoreInStep
<1>2. /\ packets[c] \in Seq(Nat) /\ connTotal[c] \in Nat
      /\ connTotal[c] > 0 <=> packets[c] # <<>>
      /\ Len(packets[c]) <= connTotal[c]
  BY DEF TypeOK, StoreInStep
<1>3. /\ packets'[c] \in Seq(Nat) /\ Len(packets'[c]) <= Len(packets[c])
  <2>1. Newer(cut)[c] \in Seq(Nat) /\ Len(Newer(cut)[c]) <= Len(packets[c])
    BY NewerFacts DEF TypeOK
  <2>2. packets'[c] = <<>> \/ packets'[c] = Newer(cut)[c]
    BY <1>1, EvictFacts
  <2>3. <<>> \in Seq(Nat) /\ Len(<<>>) = 0 /\ 0 <= Len(packets[c])
    BY <1>2
  <2>4. QED
    BY <2>1, <2>2, <2>3
<1>4. connTotal'[c] = IF packets[c] # <<>> /\ packets'[c] = <<>> THEN 0 ELSE connTotal[c]
  BY <1>1 DEF KeepTotals
<1>5. CASE packets'[c] = <<>>
  BY <1>2, <1>4, <1>5
<1>6. CASE packets'[c] # <<>>
  <2>1. Len(packets'[c]) \in Nat /\ Len(packets'[c]) > 0 /\ Len(packets[c]) \in Nat
    BY <1>2, <1>3, <1>6
  <2>2. packets[c] # <<>> /\ connTotal'[c] = connTotal[c]
    BY <1>2, <1>3, <1>4, <1>6, <2>1
  <2>3. QED
    BY <1>2, <1>3, <1>6, <2>1, <2>2
<1>7. QED
  BY <1>5, <1>6

LEMMA StoreKept ==
  ASSUME StoreInStep, UNCHANGED <<packets, connTotal>>
  PROVE  StoreInStep'
BY DEF StoreInStep

LEMMA NextStore == TypeOK /\ StoreInStep /\ [Next]_vars => StoreInStep'
<1> SUFFICES ASSUME TypeOK, StoreInStep, [Next]_vars
             PROVE  StoreInStep'
  OBVIOUS
<1>1. CASE \/ UNCHANGED vars \/ Reload \/ FlushNow \/ ClearLog
           \/ \E t \in Thread : Flushing(t)
  BY <1>1, StoreKept DEF vars, backendVars, Reload, FlushNow, ClearLog, Flushing
<1>2. CASE \/ \E p \in Pid, e \in Exe : Spawn(p, e)
           \/ \E p \in Pid, c \in Conn : Connect(p, c)
           \/ \E c \in Conn : Close(c)
           \/ \E p \in Pid : End(p)
  BY <1>2, StoreKept DEF backendVars, Spawn, Connect, Close, End
<1>3. CASE Tick /\ ~TickPurge
  BY <1>3, StoreKept DEF Tick, backendVars, TickRefresh, TickDrain, TickTotals, VisitDead,
     Visit, TickForget, TickFlush, TickPublish
<1>4. QED
  BY <1>1, <1>2, <1>3, SniffStore, TickPurgeStore DEF Next

(* _packets and _conn_total have the same connections, and a total covers  *)
(* the packets kept, whatever the ring, the ceiling and the purge window   *)
(* are and in whatever order packets and purges come.                      *)
THEOREM StoreStaysInStep == Spec => []StoreInStep
<1>1. Init => StoreInStep
  <2> SUFFICES ASSUME Init, NEW c \in Conn
               PROVE  packets[c] = <<>> /\ connTotal[c] = 0
    BY DEF StoreInStep
  <2>1. QED
    BY DEF Init
<1>2. QED
  BY <1>1, InitTypes, NextTypes, NextStore, PTL DEF Spec

-----------------------------------------------------------------------------
(* The books of the activity log.  Without a race, at most one thread is   *)
(* in the loop of a flush, and what it has written is what the bucket      *)
(* holds: nobody records meanwhile.  The monitor flushes inside its tick,  *)
(* so that it does not record during its own flush.                        *)

Balanced(e) ==
  due[e] = Loaded(e) + (IF \E t \in Thread : flusher[t].at = "clear" THEN 0 ELSE bucket[e])

Alone ==
  /\ ~ (InLoop("mon") /\ InLoop("gui"))
  /\ \A t \in Thread : flusher[t].at = "write" =>
       /\ flusher[t].keys = Entries
       /\ \A e \in Exe : flusher[t].buf[e] \in {0, bucket[e]}

Books == raced \/ (Alone /\ \A e \in Exe : Balanced(e))

LEMMA FlusherFacts ==
  ASSUME HistoryTypeOK
  PROVE  /\ flusher \in [Thread -> FlushType]
         /\ bucket \in [Exe -> Nat] /\ live \in [Exe -> Nat] /\ backup \in [Exe -> Nat]
         /\ due \in [Exe -> Int]
BY DEF HistoryTypeOK, FlushType, Place, After

(* Alone says where the other thread is. *)
LEMMA AloneFacts ==
  ASSUME Alone, NEW t \in Thread, InLoop(t), NEW o \in Thread, o # t
  PROVE  flusher[o].at # "write" /\ flusher[o].at # "clear"
BY DEF Alone, Thread, InLoop

LEMMA RecordBooks ==
  ASSUME HistoryTypeOK, Books, ~Busy("mon"), NEW x \in Exe, NEW n \in Nat, Record(x, n)
  PROVE  Books'
<1> SUFFICES ASSUME ~raced'
             PROVE  Alone' /\ \A e \in Exe : Balanced(e)'
  BY DEF Books
<1>1. /\ ~raced /\ ~InLoop("gui") /\ \A e \in Exe : Balanced(e)
  BY DEF Record, Books
<1>2. \A t \in Thread : flusher[t].at # "write" /\ flusher[t].at # "clear"
  BY <1>1 DEF InLoop, Busy, Thread
<1>3. flusher' = flusher /\ live' = live /\ backup' = backup
      /\ bucket' = [bucket EXCEPT ![x] = @ + n] /\ due' = [due EXCEPT ![x] = @ + n]
  BY DEF Record
<1>4. Alone'
  BY <1>2, <1>3 DEF Alone, InLoop, Thread
<1>5. ASSUME NEW e \in Exe
      PROVE  Balanced(e)'
  <2>1. due[e] = backup[e] + live[e] + bucket[e]
    BY <1>1, <1>2 DEF Balanced, Loaded
  <2>2. /\ due[e] \in Int /\ backup[e] \in Nat /\ live[e] \in Nat /\ bucket[e] \in Nat
    BY FlusherFacts
  <2>3. due'[e] = backup[e] + live[e] + bucket'[e]
    BY <1>3, <2>1, <2>2, FlusherFacts
  <2>4. QED
    BY <1>2, <1>3, <2>3 DEF Balanced, Loaded
<1>6. QED
  BY <1>4, <1>5

LEMMA FlushStartBooks ==
  ASSUME HistoryTypeOK, Books, NEW t \in Thread, NEW next \in After,
         FlushStart(t, next)
  PROVE  Books'
<1> SUFFICES ASSUME ~raced'
             PROVE  Alone' /\ \A e \in Exe : Balanced(e)'
  BY DEF Books
<1>1. ~raced /\ (\A e \in Exe : Balanced(e)) /\ \A o \in Others(t) : ~InLoop(o)
  BY DEF FlushStart, Books
<1>2. \A o \in Thread : flusher[o].at # "write" /\ flusher[o].at # "clear"
  BY <1>1 DEF FlushStart, Busy, InLoop, Others
<1>3. /\ \A o \in Thread \ {t} : flusher'[o] = flusher[o]
      /\ flusher'[t].at = IF Entries = {} THEN "clear" ELSE "write"
      /\ flusher'[t].keys = Entries /\ flusher'[t].buf = Empty
      /\ UNCHANGED <<bucket, live, backup, due>>
  BY FlusherFacts DEF FlushStart, Idle
<1>4. Alone'
  <2>1. ~ (InLoop("mon")' /\ InLoop("gui")')
    BY <1>2, <1>3 DEF InLoop, Thread
  <2>2. ASSUME NEW o \in Thread, flusher'[o].at = "write"
        PROVE  /\ flusher'[o].keys = Entries'
               /\ \A e \in Exe : flusher'[o].buf[e] \in {0, bucket'[e]}
    BY <1>2, <1>3, <2>2 DEF Entries, Empty
  <2>3. QED
    BY <2>1, <2>2 DEF Alone
<1>5. ASSUME NEW e \in Exe
      PROVE  Balanced(e)'
  <2>1. due[e] = backup[e] + live[e] + bucket[e]
    BY <1>1, <1>2 DEF Balanced, Loaded
  <2>2. Entries = {} => bucket[e] = 0
    BY FlusherFacts DEF Entries
  <2>3. /\ due[e] \in Int /\ backup[e] \in Nat /\ live[e] \in Nat /\ bucket[e] \in Nat
    BY FlusherFacts
  <2>4. (\E o \in Thread : flusher'[o].at = "clear") => Entries = {}
    BY <1>2, <1>3
  <2>5. due'[e] = Loaded(e)' + (IF \E o \in Thread : flusher'[o].at = "clear"
                                  THEN 0 ELSE bucket'[e])
    BY <1>3, <2>1, <2>2, <2>3, <2>4 DEF Loaded
  <2>6. QED
    BY <2>5 DEF Balanced
<1>6. QED
  BY <1>4, <1>5

(* What a thread has written when its loop ends is the bucket.             *)
LEMMA WriteEndBuf ==
  ASSUME HistoryTypeOK, Alone, NEW t \in Thread, WriteEnd(t), NEW e \in Exe
  PROVE  flusher[t].buf[e] = bucket[e]
<1>1. flusher[t].at = "write"
  BY DEF WriteEnd
<1>2. /\ flusher[t].keys = Entries
      /\ \A x \in Exe : flusher[t].buf[x] \in {0, bucket[x]}
  BY <1>1 DEF Alone
<1>3. \A x \in Entries : flusher[t].buf[x] > 0
  BY <1>2 DEF WriteEnd
<1>4. bucket[e] \in Nat
  BY FlusherFacts
<1>5. CASE e \in Entries
  BY <1>2, <1>3, <1>4, <1>5
<1>6. CASE e \notin Entries
  BY <1>2, <1>4, <1>6 DEF Entries
<1>7. QED
  BY <1>5, <1>6

(* After the file is closed, well or not, the thread will clear the bucket.*)
LEMMA ClosedBooks ==
  ASSUME HistoryTypeOK, HistoryTypeOK', Alone, NEW t \in Thread, flusher[t].at = "write",
         flusher' = [flusher EXCEPT ![t].at = "clear", ![t].buf = Empty],
         UNCHANGED <<bucket, backup>>,
         \A e \in Exe : due'[e] = backup[e] + live'[e]
  PROVE  Alone' /\ \A e \in Exe : Balanced(e)'
<1>1. \A o \in Thread \ {t} : /\ flusher'[o] = flusher[o]
                              /\ flusher[o].at # "write" /\ flusher[o].at # "clear"
  BY AloneFacts, FlusherFacts DEF InLoop
<1>2. flusher'[t].at = "clear"
  BY FlusherFacts DEF FlushType
<1>3. Alone'
  <2>1. \A o \in Thread : flusher'[o].at # "write" /\ (o # t => flusher'[o].at # "clear")
    BY <1>1, <1>2
  <2>2. ~ (InLoop("mon") /\ InLoop("gui"))'
    BY <2>1 DEF InLoop, Thread
  <2>3. QED
    BY <2>1, <2>2 DEF Alone
<1>4. ASSUME NEW e \in Exe
      PROVE  Balanced(e)'
  <2>1. due'[e] = backup'[e] + live'[e] /\ due'[e] \in Int
    BY DEF HistoryTypeOK
  <2>2. \E o \in Thread : flusher'[o].at = "clear"
    BY <1>2
  <2>3. Loaded(e)' + 0 = due'[e]
    BY <2>1 DEF Loaded
  <2>4. QED
    BY <2>2, <2>3 DEF Balanced
<1>5. QED
  BY <1>3, <1>4

(* Steps outside the loop of a flush that only move a thread.              *)
LEMMA MovedBooks ==
  ASSUME HistoryTypeOK, Books, NEW t \in Thread,
         flusher[t].at \notin {"write", "clear"}, flusher'[t].at \notin {"write", "clear"},
         \A o \in Thread \ {t} : flusher'[o] = flusher[o],
         UNCHANGED <<bucket, live, backup, due, raced>>
  PROVE  Books'
<1>1. \A o \in Thread : flusher'[o] = flusher[o] \/ ~ (flusher'[o].at \in {"write", "clear"}
                                                      \/ flusher[o].at \in {"write", "clear"})
  OBVIOUS
<1>2. Alone => Alone'
  BY <1>1 DEF Alone, InLoop, Thread, Entries
<1>3. (\E o \in Thread : flusher'[o].at = "clear") <=> \E o \in Thread : flusher[o].at = "clear"
  BY <1>1
<1>4. \A e \in Exe : Balanced(e) => Balanced(e)'
  BY <1>3 DEF Balanced, Loaded
<1>5. QED
  BY <1>2, <1>4 DEF Books

LEMMA FlushStepBooks ==
  ASSUME HistoryTypeOK, Books, NEW t \in Thread, FlushStep(t)
  PROVE  Books'
<1> SUFFICES ASSUME ~raced'
             PROVE  Alone' /\ \A e \in Exe : Balanced(e)'
  BY DEF Books
<1>1. ~raced /\ Alone /\ \A e \in Exe : Balanced(e)
  BY DEF FlushStep, WriteLine, WriteEnd, WriteFail, ClearBucket, RemoveLog, LoadNext, Books
<1>2. \A e \in Exe : /\ due[e] \in Int /\ backup[e] \in Nat /\ live[e] \in Nat
                     /\ bucket[e] \in Nat
  BY FlusherFacts
<1>0. HistoryTypeOK'
  BY FlushStepType
<1>3. CASE WriteLine(t)
  <2>1. PICK x \in Entries : flusher' = [flusher EXCEPT ![t].buf[x] = bucket[x]]
    BY <1>3 DEF WriteLine
  <2>2. /\ \A o \in Thread \ {t} : flusher'[o] = flusher[o]
        /\ flusher'[t].at = "write" /\ flusher'[t].keys = flusher[t].keys
        /\ \A e \in Exe : flusher'[t].buf[e] = IF e = x THEN bucket[x] ELSE flusher[t].buf[e]
        /\ flusher[t].at = "write"
        /\ UNCHANGED <<bucket, live, backup, due>>
    BY <1>3, <2>1, FlusherFacts DEF WriteLine, FlushType
  <2>3. \A o \in Thread : flusher'[o].at = flusher[o].at /\ flusher'[o].keys = flusher[o].keys
    BY <2>2
  <2>4. Alone'
    <3>1. ~ (InLoop("mon")' /\ InLoop("gui")')
      BY <1>1, <2>3 DEF Alone, InLoop, Thread
    <3>2. ASSUME NEW o \in Thread, flusher'[o].at = "write"
          PROVE  /\ flusher'[o].keys = Entries'
                 /\ \A e \in Exe : flusher'[o].buf[e] \in {0, bucket'[e]}
      BY <1>1, <2>2, <2>3, <3>2 DEF Alone, Entries
    <3>3. QED
      BY <3>1, <3>2 DEF Alone
  <2>5. ASSUME NEW e \in Exe
        PROVE  Balanced(e)'
    BY <1>1, <2>2, <2>3 DEF Balanced, Loaded
  <2>6. QED
    BY <2>4, <2>5
<1>4. CASE WriteEnd(t)
  <2>1. flusher[t].at = "write" /\ \A o \in Thread : flusher[o].at # "clear"
    BY <1>1, <1>4, AloneFacts DEF WriteEnd, InLoop
  <2>2. ASSUME NEW e \in Exe
        PROVE  due'[e] = backup[e] + live'[e]
    <3>1. due[e] = backup[e] + live[e] + bucket[e]
      BY <1>1, <2>1 DEF Balanced, Loaded
    <3>2. live'[e] = live[e] + flusher[t].buf[e]
      BY <1>4 DEF WriteEnd, Plus
    <3>3. flusher[t].buf[e] = bucket[e]
      BY <1>1, <1>4, WriteEndBuf
    <3>4. QED
      BY <1>2, <1>4, <3>1, <3>2, <3>3 DEF WriteEnd
  <2>3. QED
    BY <1>0, <1>1, <1>4, <2>1, <2>2, ClosedBooks DEF WriteEnd
<1>5. CASE WriteFail(t)
  <2>1. flusher[t].at = "write" /\ \A o \in Thread : flusher[o].at # "clear"
    BY <1>1, <1>5, AloneFacts DEF WriteFail, InLoop
  <2>2. ASSUME NEW e \in Exe
        PROVE  due'[e] = backup[e] + live'[e]
    <3>1. due[e] = backup[e] + live[e] + bucket[e]
      BY <1>1, <2>1 DEF Balanced, Loaded
    <3>2. due'[e] = due[e] - bucket[e] /\ live'[e] = live[e]
      BY <1>5 DEF WriteFail, Minus
    <3>3. QED
      BY <1>2, <3>1, <3>2
  <2>3. QED
    BY <1>0, <1>1, <1>5, <2>1, <2>2, ClosedBooks DEF WriteFail
<1>6. CASE ClearBucket(t)
  <2>1. /\ flusher[t].at = "clear" /\ InLoop(t)
        /\ \A o \in Thread \ {t} : flusher[o].at # "write" /\ flusher[o].at # "clear"
    BY <1>1, <1>6, AloneFacts DEF ClearBucket, InLoop
  <2>2. /\ \A o \in Thread \ {t} : flusher'[o] = flusher[o]
        /\ flusher'[t].at \in After
    <3>1. flusher[t].next \in After /\ flusher[t].next \in Place
      BY FlusherFacts DEF FlushType, After, Place
    <3>2. At(flusher[t].next).at = flusher[t].next
      BY <3>1, AtType
    <3>3. QED
      BY <1>6, <3>1, <3>2, FlusherFacts DEF ClearBucket
  <2>3. \A o \in Thread : flusher'[o].at # "write" /\ flusher'[o].at # "clear"
    BY <2>1, <2>2 DEF After
  <2>4. Alone'
    BY <2>3 DEF Alone, InLoop, Thread
  <2>5. ASSUME NEW e \in Exe
        PROVE  Balanced(e)'
    <3>1. due[e] = backup[e] + live[e]
      BY <1>1, <1>2, <2>1 DEF Balanced, Loaded
    <3>2. due'[e] = backup'[e] + live'[e] /\ bucket'[e] = 0
          /\ backup'[e] \in Int /\ live'[e] \in Int
      BY <1>2, <1>6, <3>1 DEF ClearBucket, Rotate, Minus, Empty
    <3>3. QED
      BY <2>3, <3>2 DEF Balanced, Loaded
  <2>6. QED
    BY <2>4, <2>5
<1>7. CASE RemoveLog(t)
  <2>1. /\ \A o \in Thread \ {t} : flusher'[o] = flusher[o]
        /\ flusher'[t].at = "load" /\ flusher[t].at = "remove"
        /\ UNCHANGED <<bucket, backup>>
    <3>1. At("load").at = "load"
      BY AtType DEF Place
    <3>2. QED
      BY <1>7, <3>1, FlusherFacts DEF RemoveLog
  <2>2. Alone'
    <3>1. ~ (InLoop("mon")' /\ InLoop("gui")')
      BY <1>1, <2>1 DEF Alone, InLoop, Thread
    <3>2. ASSUME NEW o \in Thread, flusher'[o].at = "write"
          PROVE  /\ flusher'[o].keys = Entries'
                 /\ \A e \in Exe : flusher'[o].buf[e] \in {0, bucket'[e]}
      BY <1>1, <2>1, <3>2 DEF Alone, Entries
    <3>3. QED
      BY <3>1, <3>2 DEF Alone
  <2>3. (\E o \in Thread : flusher'[o].at = "clear") <=> \E o \in Thread : flusher[o].at = "clear"
    BY <2>1
  <2>4. ASSUME NEW e \in Exe
        PROVE  Balanced(e)'
    <3>1. due'[e] - live'[e] = due[e] - live[e] /\ live'[e] \in Int /\ due'[e] \in Int
      BY <1>2, <1>7 DEF RemoveLog, Minus, Empty
    <3>2. QED
      BY <1>1, <1>2, <2>1, <2>3, <3>1 DEF Balanced, Loaded
  <2>5. QED
    BY <2>2, <2>4
<1>8. CASE LoadNext(t)
  <2>1. Books'
    BY <1>8, LoadNextFacts, MovedBooks
  <2>2. QED
    BY <2>1 DEF Books
<1>9. QED
  BY <1>3, <1>4, <1>5, <1>6, <1>7, <1>8 DEF FlushStep

LEMMA BooksKept ==
  ASSUME Books, UNCHANGED historyVars
  PROVE  Books'
BY DEF Books, Alone, Balanced, Loaded, InLoop, Entries, historyVars

(* The monitor flushes at the end of a tick only.                          *)
FlushesInTick == Busy("mon") => mon.at = "publish"

LEMMA BooksInit == Init => Books /\ FlushesInTick
<1> SUFFICES ASSUME Init
             PROVE  Books /\ FlushesInTick
  OBVIOUS
<1>1. \A t \in Thread : flusher[t].at = "idle"
  BY DEF Init, HistoryInit, Idle
<1>2. Alone
  BY <1>1 DEF Alone, InLoop, Thread
<1>3. \A e \in Exe : Balanced(e)
  BY <1>1 DEF Balanced, Loaded, Init, HistoryInit, Empty
<1>4. FlushesInTick
  BY <1>1 DEF FlushesInTick, Busy, Thread
<1>5. QED
  BY <1>2, <1>3, <1>4 DEF Books

LEMMA NextBooks == TypeOK /\ Books /\ FlushesInTick /\ [Next]_vars => Books' /\ FlushesInTick'
<1> SUFFICES ASSUME TypeOK, Books, FlushesInTick, [Next]_vars
             PROVE  Books' /\ FlushesInTick'
  OBVIOUS
<1>0. HistoryTypeOK /\ mon \in TickType /\ "mon" \in Thread /\ "gui" \in Thread
  BY DEF TypeOK, TickType, Thread
<1>1. CASE \/ UNCHANGED vars
           \/ \E p \in Pid, e \in Exe : Spawn(p, e)
           \/ \E p \in Pid, c \in Conn : Connect(p, c)
           \/ \E c \in Conn : Close(c) \/ Sniff(c)
           \/ \E p \in Pid : End(p)
  <2>1. UNCHANGED historyVars /\ UNCHANGED mon
    BY <1>1 DEF vars, tickVars, Spawn, Connect, Close, Sniff, End
  <2>2. QED
    BY <2>1, BooksKept DEF FlushesInTick, Busy, historyVars
<1>2. CASE \/ TickRefresh \/ TickDrain \/ TickTotals \/ TickPurge \/ TickForget \/ TickPublish
           \/ \E p \in Pid : VisitDead(p)
  <2>1. UNCHANGED historyVars
    BY <1>2 DEF TickRefresh, TickDrain, TickTotals, TickPurge, TickForget, TickPublish, VisitDead
  <2>2. ~Busy("mon")
    BY <1>2 DEF TickRefresh, TickDrain, TickTotals, TickPurge, TickForget, TickPublish,
                VisitDead, FlushesInTick
  <2>3. QED
    BY <2>1, <2>2, BooksKept DEF FlushesInTick, Busy, historyVars
<1>3. CASE Visits
  <2>0v. PICK p \in Pid : \E exe \in ExeFor(p) : Visit(p, exe)
    BY <1>3 DEF Visits
  <2>1. PICK exe \in ExeFor(p) : Visit(p, exe)
    BY <2>0v
  <2>2. ~Busy("mon")
    BY <2>1 DEF Visit, FlushesInTick
  <2>3. CASE exe \in Exe /\ Delta(p) > 0
    <3>1. Record(exe, Delta(p)) /\ Delta(p) \in Nat
      BY <2>1, <2>3, DeltaType DEF Visit
    <3>2. Books'
      BY <1>0, <2>2, <2>3, <3>1, RecordBooks
    <3>3. flusher' = flusher
      BY <3>1 DEF Record
    <3>4. QED
      BY <2>2, <3>2, <3>3 DEF FlushesInTick, Busy
  <2>4. CASE ~ (exe \in Exe /\ Delta(p) > 0)
    <3>1. UNCHANGED historyVars
      BY <2>1, <2>4 DEF Visit
    <3>2. QED
      BY <2>2, <3>1, BooksKept DEF FlushesInTick, Busy, historyVars
  <2>5. QED
    BY <2>3, <2>4
<1>4. CASE TickFlush
  <2>1. Books'
    BY <1>0, <1>4, FlushStartBooks DEF TickFlush, After
  <2>2. mon'.at = "publish"
    BY <1>0, <1>4 DEF TickFlush, TickType
  <2>3. QED
    BY <2>1, <2>2 DEF FlushesInTick
<1>5. CASE FlushNow \/ ClearLog
  <2>1. Books'
    BY <1>0, <1>5, FlushStartBooks DEF FlushNow, ClearLog, After
  <2>2. mon' = mon /\ flusher'["mon"] = flusher["mon"]
    BY <1>0, <1>5, FlusherFacts DEF FlushNow, ClearLog, FlushStart, tickVars
  <2>3. QED
    BY <2>1, <2>2 DEF FlushesInTick, Busy
<1>6. CASE \E t \in Thread : Flushing(t)
  <2>1. PICK t \in Thread : FlushStep(t) /\ mon' = mon
    BY <1>6 DEF Flushing, tickVars
  <2>2. Books'
    BY <1>0, <2>1, FlushStepBooks
  <2>3. \A o \in Thread \ {t} : flusher'[o] = flusher[o]
    BY <1>0, <2>1, FlusherFacts
       DEF FlushStep, WriteLine, WriteEnd, WriteFail, ClearBucket, RemoveLog, LoadNext
  <2>4. Busy(t)
    BY <2>1 DEF FlushStep, WriteLine, WriteEnd, WriteFail, ClearBucket, RemoveLog, LoadNext,
                Busy
  <2>5. Busy("mon")' => Busy("mon")
    BY <1>0, <2>3, <2>4 DEF Busy
  <2>6. QED
    BY <2>1, <2>2, <2>5 DEF FlushesInTick
<1>7. CASE Reload
  <2>1. /\ flusher["gui"].at = "idle" /\ flusher'["gui"].at = "load"
        /\ \A o \in Thread \ {"gui"} : flusher'[o] = flusher[o]
        /\ UNCHANGED <<bucket, live, lines, backup, due, raced>> /\ mon' = mon
    BY <1>0, <1>7, LoadStartFacts DEF Reload, tickVars
  <2>2. Books'
    BY <1>0, <2>1, MovedBooks
  <2>3. QED
    BY <1>0, <2>1, <2>2 DEF FlushesInTick, Busy
<1>8. QED
  BY <1>1, <1>2, <1>3, <1>4, <1>5, <1>6, <1>7 DEF Next, Tick, Visits

(* As long as the two threads have not met inside a flush, every byte that *)
(* was recorded is in the bucket, the file or the backup, and in one of    *)
(* them only, wherever a flush, a rotation or Clear log is interrupted by  *)
(* the other thread and whichever write fails.                             *)
THEOREM BooksStayBalanced == Spec => []BooksBalance
<1>1. Books => BooksBalance
  BY DEF Books, Balanced, BooksBalance
<1>2. QED
  BY <1>1, InitTypes, NextTypes, BooksInit, NextBooks, PTL DEF Spec

-----------------------------------------------------------------------------
(* The counters.  The totals a tick works with lie between the ones the    *)
(* tick before has settled and the present ones, until the tick forgets    *)
(* the dead.                                                               *)

LedgerInv ==
  \A p \in Pid :
    /\ prev[p] <= total[p]
    /\ mon.at \in {"purge", "visit"} => prev[p] <= mon.tot[p] /\ mon.tot[p] <= total[p]

LEMMA TickFacts ==
  ASSUME TypeOK
  PROVE  /\ mon \in TickType /\ mon.tot \in [Pid -> Nat] /\ mon.dead \in SUBSET Pid
         /\ prev \in [Pid -> Nat] /\ total \in [Pid -> Nat] /\ logged \in [Pid -> Nat]
BY DEF TypeOK, TickType

LEMMA LedgerInit == Init => LedgerInv
<1> SUFFICES ASSUME Init, NEW p \in Pid
             PROVE  prev[p] <= total[p] /\ mon.at = "sleep"
  BY DEF LedgerInv
<1>1. QED
  BY DEF Init, None, Asleep

(* Steps that touch neither the counters nor the tick.                     *)
LEMMA LedgerIdle ==
  ASSUME [Next]_vars
  PROVE  \/ UNCHANGED <<total, prev, mon, logged>>
         \/ \E c \in Conn : Sniff(c)
         \/ Tick
BY DEF Next, vars, backendVars, tickVars, ghostVars, Spawn, Connect, Close, End, Flushing,
       Reload, FlushNow, ClearLog

(* The steps of the tick that settle nothing.                              *)
LEMMA LedgerTick ==
  ASSUME TypeOK, Tick
  PROVE  \/ UNCHANGED <<total, prev, logged>> /\ mon'.at \notin {"purge", "visit"}
         \/ UNCHANGED <<total, prev, logged>> /\ mon'.tot = total
         \/ UNCHANGED <<total, prev, logged>> /\ mon'.tot = mon.tot
              /\ mon.at \in {"purge", "visit"}
         \/ Visits
         \/ TickForget
<1> USE TickFacts DEF TickType
<1>1. CASE TickRefresh
  BY <1>1 DEF TickRefresh, backendVars, ghostVars, Asleep
<1>2. CASE TickDrain
  BY <1>2 DEF TickDrain, ghostVars
<1>3. CASE TickTotals
  BY <1>3 DEF TickTotals, backendVars, ghostVars
<1>4. CASE TickPurge
  BY <1>4 DEF TickPurge, ghostVars
<1>5. CASE \E p \in Pid : VisitDead(p)
  BY <1>5 DEF VisitDead, backendVars, ghostVars
<1>6. CASE TickFlush
  BY <1>6 DEF TickFlush, backendVars, ghostVars
<1>7. CASE TickPublish
  BY <1>7 DEF TickPublish, backendVars, ghostVars, Asleep
<1>8. QED
  BY <1>1, <1>2, <1>3, <1>4, <1>5, <1>6, <1>7 DEF Tick, Visits

LEMMA SniffCounts ==
  ASSUME TypeOK, NEW c \in Conn, Sniff(c)
  PROVE  /\ UNCHANGED <<prev, mon, logged>>
         /\ \/ total' = total
            \/ \E p \in Pid : total' = [total EXCEPT ![p] = @ + 1]
<1>1. UNCHANGED <<prev, mon, logged>>
  BY DEF Sniff, tickVars, ghostVars
<1>2. CASE PidForEndpoint(c) = NoPid
  BY <1>1, <1>2 DEF Sniff
<1>3. CASE PidForEndpoint(c) # NoPid
  BY <1>1, <1>3, PidForEndpointType DEF Sniff, Owner
<1>4. QED
  BY <1>2, <1>3

(* A visit settles what it logs: the bytes since the tick before.          *)
LEMMA VisitSettles ==
  ASSUME TypeOK, LedgerInv, NEW p \in Pid, NEW exe \in ExeFor(p), Visit(p, exe)
  PROVE  /\ total' = total /\ mon.at = "visit" /\ mon'.at = "visit" /\ mon'.tot = mon.tot
         /\ prev' = [prev EXCEPT ![p] = mon.tot[p]]
         /\ Delta(p) = mon.tot[p] - prev[p]
         /\ logged' = IF exe \in Exe /\ Delta(p) > 0
                        THEN [logged EXCEPT ![p] = @ + Delta(p)] ELSE logged
<1>1. mon.at = "visit" /\ mon'.at = "visit" /\ mon'.tot = mon.tot
  BY TickFacts DEF Visit, TickType
<1>2. prev[p] <= mon.tot[p]
  BY <1>1 DEF LedgerInv
<1>3. Delta(p) = mon.tot[p] - prev[p]
  BY <1>2 DEF Delta
<1>4. QED
  BY <1>1, <1>3 DEF Visit, backendVars

(* Forgetting drops what waits for the dead, and nothing of the others: a  *)
(* pid that nobody lists has settled nothing.                              *)
LEMMA ForgetSettles ==
  ASSUME TypeOK, LedgerInv, TickForget, NEW p \in Pid
  PROVE  /\ mon'.at = "flush" /\ logged' = logged
         /\ p \in mon.dead => total'[p] = 0 /\ prev'[p] = 0
         /\ p \notin mon.dead => total'[p] = total[p] /\ prev'[p] = prev[p]
<1>1. /\ mon.at = "visit" /\ mon'.at = "flush" /\ logged' = logged
  BY DEF TickForget, Asleep, ghostVars
<1>2. /\ prev'[p] = IF p \in mon.dead \cup Unlisted THEN 0 ELSE prev[p]
      /\ total'[p] = IF p \in mon.dead THEN 0 ELSE total[p]
  BY DEF TickForget, ForgetPids, Without
<1>3. p \in Unlisted => prev[p] = 0
  <2>1. prev[p] <= mon.tot[p] /\ prev[p] \in Nat
    BY <1>1, TickFacts DEF LedgerInv
  <2>2. QED
    BY <2>1 DEF Unlisted
<1>4. QED
  BY <1>1, <1>2, <1>3

LEMMA LedgerNext == TypeOK /\ LedgerInv /\ [Next]_vars => LedgerInv'
<1> SUFFICES ASSUME TypeOK, LedgerInv, [Next]_vars
             PROVE  LedgerInv'
  OBVIOUS
<1> SUFFICES ASSUME NEW q \in Pid
             PROVE  /\ prev'[q] <= total'[q]
                    /\ mon'.at \in {"purge", "visit"} =>
                         prev'[q] <= mon'.tot[q] /\ mon'.tot[q] <= total'[q]
  BY DEF LedgerInv
<1>0. /\ prev[q] \in Nat /\ total[q] \in Nat /\ mon.tot[q] \in Nat
      /\ prev[q] <= total[q]
      /\ mon.at \in {"purge", "visit"} => prev[q] <= mon.tot[q] /\ mon.tot[q] <= total[q]
  BY TickFacts DEF LedgerInv
<1>1. CASE UNCHANGED <<total, prev, mon, logged>>
  BY <1>0, <1>1
<1>2. CASE \E c \in Conn : Sniff(c)
  <2>1. UNCHANGED <<prev, mon>> /\ total'[q] \in {total[q], total[q] + 1}
    BY <1>2, SniffCounts, TickFacts
  <2>2. QED
    BY <1>0, <2>1
<1>3. CASE Visits
  <2>0v. PICK p \in Pid : \E exe \in ExeFor(p) : Visit(p, exe)
    BY <1>3 DEF Visits
  <2>1. PICK exe \in ExeFor(p) : Visit(p, exe)
    BY <2>0v
  <2>2. prev'[q] \in {prev[q], mon.tot[q]} /\ total' = total /\ mon.at = "visit"
        /\ mon'.tot = mon.tot
    BY <2>1, VisitSettles, TickFacts
  <2>3. QED
    BY <1>0, <2>2
<1>4. CASE TickForget
  BY <1>0, <1>4, ForgetSettles
<1>5. CASE Tick
  BY <1>0, <1>3, <1>4, <1>5, LedgerTick
<1>6. QED
  BY <1>1, <1>2, <1>5, LedgerIdle

-----------------------------------------------------------------------------
(* The refinement: a packet counts, a visit logs or drops what it settles, *)
(* forgetting drops, and every other step leaves the ledger alone.         *)

LEMMA FreshFacts ==
  ASSUME TypeOK, LedgerInv
  PROVE  Fresh \in [Pid -> Nat] /\ logged \in [Pid -> Nat]
<1>1. ASSUME NEW p \in Pid
      PROVE  total[p] - prev[p] \in Nat
  BY TickFacts DEF LedgerInv
<1>2. QED
  BY <1>1, TickFacts DEF Fresh

LEMMA FreshAt ==
  ASSUME NEW p \in Pid
  PROVE  Fresh[p] = total[p] - prev[p] /\ Fresh'[p] = total'[p] - prev'[p]
BY DEF Fresh

LEMMA DropStep ==
  ASSUME TypeOK', LedgerInv', UNCHANGED logged, \A p \in Pid : Fresh'[p] <= Fresh[p]
  PROVE  Abstract!Drop
<1>1. Fresh' \in [Pid -> Nat]
  <2>1. ASSUME NEW p \in Pid
        PROVE  total'[p] - prev'[p] \in Nat
    <3>1. prev'[p] <= total'[p]
      BY DEF LedgerInv
    <3>2. prev'[p] \in Nat /\ total'[p] \in Nat
      BY DEF TypeOK
    <3>3. QED
      BY <3>1, <3>2
  <2>2. QED
    BY <2>1 DEF Fresh
<1>2. QED
  BY <1>1 DEF Abstract!Drop

LEMMA SniffLedger ==
  ASSUME TypeOK, LedgerInv, NEW c \in Conn, Sniff(c)
  PROVE  UNCHANGED <<Fresh, logged>> \/ \E p \in Pid : Abstract!Count(p)
<1>1. UNCHANGED <<prev, logged>>
  BY SniffCounts
<1>2. CASE total' = total
  BY <1>1, <1>2 DEF Fresh
<1>3. CASE \E p \in Pid : total' = [total EXCEPT ![p] = @ + 1]
  <2>1. PICK p \in Pid : total' = [total EXCEPT ![p] = @ + 1]
    BY <1>3
  <2>2. \A q \in Pid : total'[q] - prev[q] = IF q = p THEN (total[q] - prev[q]) + 1
                                                     ELSE total[q] - prev[q]
    BY <2>1, TickFacts
  <2>3. Fresh' = [Fresh EXCEPT ![p] = @ + 1]
    BY <1>1, <2>2 DEF Fresh
  <2>4. QED
    BY <1>1, <2>3 DEF Abstract!Count
<1>4. QED
  BY <1>2, <1>3, SniffCounts

LEMMA VisitFresh ==
  ASSUME TypeOK, LedgerInv, NEW p \in Pid, NEW exe \in ExeFor(p), Visit(p, exe)
  PROVE  /\ Delta(p) \in Nat /\ Delta(p) <= Fresh[p]
         /\ Fresh' = [Fresh EXCEPT ![p] = @ - Delta(p)]
<1>1. /\ total' = total /\ prev' = [prev EXCEPT ![p] = mon.tot[p]]
      /\ Delta(p) = mon.tot[p] - prev[p] /\ mon.at = "visit"
  BY VisitSettles
<1>2. /\ prev \in [Pid -> Nat] /\ total \in [Pid -> Nat] /\ mon.tot[p] \in Nat
      /\ prev[p] <= mon.tot[p] /\ mon.tot[p] <= total[p]
  BY <1>1, TickFacts DEF LedgerInv
<1>3. Delta(p) \in Nat /\ Delta(p) <= total[p] - prev[p]
  BY <1>1, <1>2
<1>4. \A q \in Pid : total[q] - prev'[q] = IF q = p THEN (total[q] - prev[q]) - Delta(p)
                                                     ELSE total[q] - prev[q]
  BY <1>1, <1>2
<1>5. Fresh' = [Fresh EXCEPT ![p] = @ - Delta(p)]
  BY <1>1, <1>4 DEF Fresh
<1>6. QED
  BY <1>3, <1>5, FreshAt

LEMMA VisitLedger ==
  ASSUME TypeOK, LedgerInv, TypeOK', LedgerInv', NEW p \in Pid, NEW exe \in ExeFor(p), Visit(p, exe)
  PROVE  Abstract!Log(p) \/ Abstract!Drop
<1>1. /\ Delta(p) \in Nat /\ Delta(p) <= Fresh[p] /\ Fresh \in [Pid -> Nat]
      /\ Fresh' = [Fresh EXCEPT ![p] = @ - Delta(p)]
  BY VisitFresh, FreshFacts
<1>2. CASE exe \in Exe /\ Delta(p) > 0
  <2>1. logged' = [logged EXCEPT ![p] = @ + Delta(p)]
    BY <1>2, VisitSettles
  <2>2. Delta(p) \in 1 .. Fresh[p]
    BY <1>1, <1>2
  <2>3. QED
    BY <1>1, <2>1, <2>2 DEF Abstract!Log
<1>3. CASE ~ (exe \in Exe /\ Delta(p) > 0)
  <2>1. logged' = logged
    BY <1>3, VisitSettles
  <2>2. \A q \in Pid : Fresh'[q] <= Fresh[q]
    BY <1>1
  <2>3. QED
    BY <2>1, <2>2, DropStep
<1>4. QED
  BY <1>2, <1>3

LEMMA ForgetLedger ==
  ASSUME TypeOK, LedgerInv, TypeOK', LedgerInv', TickForget
  PROVE  Abstract!Drop
<1>1. UNCHANGED logged
  BY DEF TickForget, ghostVars
<1>2. ASSUME NEW p \in Pid
      PROVE  Fresh'[p] <= Fresh[p]
  <2>1. Fresh[p] \in Nat /\ Fresh[p] = total[p] - prev[p] /\ Fresh'[p] = total'[p] - prev'[p]
    BY FreshFacts, FreshAt
  <2>2. QED
    BY <2>1, ForgetSettles
<1>3. QED
  BY <1>1, <1>2, DropStep

LEMMA LedgerStep ==
  ASSUME TypeOK, LedgerInv, TypeOK', LedgerInv', [Next]_vars
  PROVE  [Abstract!Next]_<<Fresh, logged>>
<1>1. CASE UNCHANGED <<total, prev, logged>>
  BY <1>1 DEF Fresh
<1>2. CASE \E c \in Conn : Sniff(c)
  BY <1>2, SniffLedger DEF Abstract!Next
<1>3. CASE Visits
  BY <1>3, VisitLedger DEF Visits, Abstract!Next
<1>4. CASE TickForget
  BY <1>4, ForgetLedger DEF Abstract!Next
<1>5. QED
  BY <1>1, <1>2, <1>3, <1>4, LedgerIdle, LedgerTick

(* The accounting implements the ledger: a byte attributed to a pid is     *)
(* logged once or dropped once, in whatever order packets, ends, restarts  *)
(* and the steps of the ticks come.                                        *)
THEOREM AccountingImplementsLedger == Spec => LedgerSpec
<1>1. Init => Abstract!Init
  <2> SUFFICES ASSUME Init
               PROVE  Abstract!Init
    OBVIOUS
  <2>1. logged = [p \in Pid |-> 0] /\ \A p \in Pid : total[p] - prev[p] = 0
    BY DEF Init, None
  <2>2. QED
    BY <2>1 DEF Abstract!Init, Fresh
<1>2. TypeOK /\ LedgerInv /\ TypeOK' /\ LedgerInv' /\ [Next]_vars
        => [Abstract!Next]_<<Fresh, logged>>
  BY LedgerStep
<1>3. Spec => []TypeOK /\ []LedgerInv
  BY InitTypes, NextTypes, LedgerInit, LedgerNext, PTL DEF Spec
<1>4. QED
  BY <1>1, <1>2, <1>3, PTL DEF Spec, LedgerSpec, Abstract!Spec, Abstract!ledgerVars

-----------------------------------------------------------------------------
(* The executable a pid's bytes are logged for.  What the caches know of a *)
(* pid is about the process that has it now, or about one that had it      *)
(* since the tick last looked, or it is that it could not be read; a pid   *)
(* put aside as dead was without process.                                  *)

ToVisit(p) == mon.at \in {"drain", "totals", "purge"} \/ (mon.at = "visit" /\ p \in mon.todo)

OwnerOf(p) ==
  /\ proc[p] \in ran[p]
  /\ p \in timed /\ Alive(p) => exeOf[p] \in {NoEntry, proc[p]} \cup Denied
  /\ ToVisit(p) => exeOf[p] \in {NoEntry} \cup (ran[p] \cap Exe) \cup Denied
  /\ p \in mon.dead => NoExe \in ran[p] /\ p \notin mon.todo

OwnerInv ==
  /\ \A c \in Conn : sock[c] \in Pid => Alive(sock[c])
  /\ mon.at # "visit" => mon.dead = {}
  /\ \A p \in Pid : OwnerOf(p)

LEMMA ProcFacts ==
  ASSUME TypeOK
  PROVE  /\ proc \in [Pid -> Exe \cup {NoExe}] /\ sock \in [Conn -> Owner]
         /\ ran \in [Pid -> SUBSET (Exe \cup {NoExe})]
         /\ exeOf \in [Pid -> Exe \cup {Unknown, NoEntry}] /\ timed \in SUBSET Pid
         /\ \A p \in Pid : Alive(p) <=> proc[p] \in Exe
BY TrafficAssumption DEF TypeOK, Alive

LEMMA DeniedKept == [Next]_vars => UNCHANGED Denied
<1> SUFFICES ASSUME [Next]_vars
             PROVE  scene' = scene
  BY DEF Denied
<1>1. QED
  BY DEF Next, vars, Spawn, Connect, Close, End, Sniff, Tick, TickRefresh, TickDrain, TickTotals,
     TickPurge, VisitDead, Visit, TickForget, TickFlush, TickPublish, Flushing, Reload, FlushNow,
     ClearLog

LEMMA OwnerInit == Init => OwnerInv
<1> SUFFICES ASSUME Init
             PROVE  OwnerInv
  OBVIOUS
<1>1. \A c \in Conn : sock[c] \in Pid => Alive(sock[c])
  BY TrafficAssumption DEF Init, Alive
<1>2. mon.at = "sleep" /\ mon.dead = {}
  BY DEF Init, Asleep
<1>3. ASSUME NEW p \in Pid
      PROVE  OwnerOf(p)
  BY <1>2 DEF Init, OwnerOf, ToVisit
<1>4. QED
  BY <1>1, <1>2, <1>3 DEF OwnerInv

(* Processes and sockets. *)
LEMMA SpawnOwner ==
  ASSUME TypeOK, OwnerInv, UNCHANGED Denied, NEW p \in Pid, NEW e \in Exe, Spawn(p, e)
  PROVE  OwnerInv'
<1>1. /\ proc' = [proc EXCEPT ![p] = e] /\ timed' = timed \ {p}
      /\ ran' = [ran EXCEPT ![p] = @ \cup {e}] /\ ~Alive(p)
      /\ UNCHANGED <<sock, exeOf, mon>>
  BY DEF Spawn, tickVars
<1>2. \A q \in Pid : Alive(q) => Alive(q)'
  BY <1>1, ProcFacts, TrafficAssumption DEF Alive
<1>3. ASSUME NEW q \in Pid
      PROVE  OwnerOf(q)'
  <2>0. OwnerOf(q)
    BY DEF OwnerInv
  <2>1. CASE q = p
    BY <1>1, <2>0, <2>1, ProcFacts DEF OwnerOf, ToVisit
  <2>2. CASE q # p
    BY <1>1, <2>0, <2>2, ProcFacts DEF OwnerOf, ToVisit, Alive
  <2>3. QED
    BY <2>1, <2>2
<1>4. QED
  BY <1>1, <1>2, <1>3 DEF OwnerInv

LEMMA SocketOwner ==
  ASSUME TypeOK, OwnerInv, UNCHANGED Denied,
         (\E p \in Pid, c \in Conn : Connect(p, c)) \/ \E c \in Conn : Close(c)
  PROVE  OwnerInv'
<1>1. UNCHANGED <<proc, mapVars, tickVars, ghostVars>>
  BY DEF Connect, Close
<1>2. \A d \in Conn : sock'[d] \in Pid => sock'[d] = sock[d] \/ Alive(sock'[d])
  BY ProcFacts, TrafficAssumption DEF Connect, Close
<1>3. QED
  BY <1>1, <1>2 DEF OwnerInv, OwnerOf, ToVisit, Alive, mapVars, tickVars, ghostVars

LEMMA EndOwner ==
  ASSUME TypeOK, OwnerInv, UNCHANGED Denied, NEW p \in Pid, End(p)
  PROVE  OwnerInv'
<1>1. /\ proc' = [proc EXCEPT ![p] = NoExe]
      /\ sock' = [c \in Conn |-> IF sock[c] = p THEN NoPid ELSE sock[c]]
      /\ ran' = [ran EXCEPT ![p] = @ \cup {NoExe}]
      /\ UNCHANGED <<exeOf, timed, mon>>
  BY DEF End, mapVars, tickVars
<1>2. ASSUME NEW c \in Conn, sock'[c] \in Pid
      PROVE  proc'[sock'[c]] # NoExe
  BY <1>1, <1>2, ProcFacts, TrafficAssumption DEF OwnerInv, Alive
<1>3. ASSUME NEW q \in Pid
      PROVE  OwnerOf(q)'
  <2>0. OwnerOf(q)
    BY DEF OwnerInv
  <2>1. CASE q = p
    BY <1>1, <2>0, <2>1, ProcFacts DEF OwnerOf, ToVisit, Alive
  <2>2. CASE q # p
    BY <1>1, <2>0, <2>2, ProcFacts DEF OwnerOf, ToVisit, Alive
  <2>3. QED
    BY <2>1, <2>2
<1>4. \A c \in Conn : sock'[c] \in Pid => Alive(sock[c])'
  BY <1>2 DEF Alive
<1>5. mon' = mon /\ \A q \in Pid : OwnerOf(q)'
  BY <1>1, <1>3
<1>6. QED
  BY <1>4, <1>5 DEF OwnerInv

(* The tick.  A refresh throws away what it knew of a pid that nobody has, *)
(* or that somebody else has.                                              *)
LEMMA TickRefreshOwner ==
  ASSUME TypeOK, OwnerInv, UNCHANGED Denied, TickRefresh
  PROVE  OwnerInv'
<1>1. /\ exeOf' = [p \in Pid |-> IF p \in Live(sock) THEN CheckReuse(p, exeOf[p]) ELSE NoEntry]
      /\ timed' = {p \in Live(sock) : Alive(p)}
      /\ UNCHANGED <<proc, sock, ran>>
      /\ mon'.at = "drain" /\ mon'.dead = {}
  BY DEF TickRefresh, systemVars, ghostVars, Asleep
<1>2. ASSUME NEW p \in Pid
      PROVE  OwnerOf(p)'
  <2>1. proc[p] \in ran[p] /\ (p \in timed /\ Alive(p) => exeOf[p] \in {NoEntry, proc[p]} \cup Denied)
    BY DEF OwnerInv, OwnerOf
  <2>2. p \in Live(sock) => Alive(p)
    BY DEF Live, ConnsOf, OwnerInv
  <2>3. p \in Live(sock) => exeOf'[p] \in {NoEntry, proc[p]} \cup Denied /\ proc[p] \in Exe
    BY <1>1, <2>1, <2>2, ProcFacts DEF CheckReuse
  <2>4. p \notin Live(sock) => exeOf'[p] = NoEntry /\ p \notin timed'
    BY <1>1
  <2>5. QED
    BY <1>1, <2>1, <2>3, <2>4 DEF OwnerOf
<1>3. QED
  BY <1>1, <1>2 DEF OwnerInv, Alive

(* Steps that neither look at a pid nor put one aside.                     *)
LEMMA TickOnOwner ==
  ASSUME TypeOK, OwnerInv, UNCHANGED <<proc, sock, ran, exeOf, timed, Denied>>,
         mon'.dead = {}, \A p \in Pid : ToVisit(p)' => ToVisit(p)
  PROVE  OwnerInv'
BY DEF OwnerInv, OwnerOf, Alive

LEMMA TickPlainOwner ==
  ASSUME TypeOK, OwnerInv, UNCHANGED Denied, TickDrain \/ TickTotals \/ TickFlush \/ TickPublish
  PROVE  OwnerInv'
<1>1. mon.dead = {} /\ UNCHANGED <<proc, sock, ran, exeOf, timed>>
  BY DEF OwnerInv, TickDrain, TickTotals, TickFlush, TickPublish, systemVars, mapVars, ghostVars
<1>2. mon'.dead = {} /\ \A p \in Pid : ToVisit(p)' => ToVisit(p)
  <2>1. CASE TickDrain
    BY <1>1, <2>1, TickFacts DEF TickDrain, TickType, ToVisit
  <2>2. CASE TickTotals
    BY <1>1, <2>2, TickFacts DEF TickTotals, TickType, ToVisit
  <2>3. CASE TickFlush
    BY <1>1, <2>3, TickFacts DEF TickFlush, TickType, ToVisit
  <2>4. CASE TickPublish
    BY <1>1, <2>4 DEF TickPublish, Asleep, ToVisit
  <2>5. QED
    BY <2>1, <2>2, <2>3, <2>4
<1>3. QED
  BY <1>1, <1>2, TickOnOwner

LEMMA TickPurgeOwner ==
  ASSUME TypeOK, OwnerInv, UNCHANGED Denied, TickPurge
  PROVE  OwnerInv'
<1>1. mon.dead = {} /\ UNCHANGED <<proc, sock, ran, exeOf, timed>>
  BY DEF OwnerInv, TickPurge, systemVars, mapVars, ghostVars
<1>2. mon'.dead = {} /\ \A p \in Pid : ToVisit(p)' => ToVisit(p)
  BY <1>1, TickFacts DEF TickPurge, TickType, ToVisit
<1>3. QED
  BY <1>1, <1>2, TickOnOwner

LEMMA TickForgetOwner ==
  ASSUME TypeOK, OwnerInv, UNCHANGED Denied, TickForget
  PROVE  OwnerInv'
<1>1. UNCHANGED <<proc, sock, ran, exeOf, timed>>
  BY DEF TickForget, systemVars, mapVars, ghostVars
<1>2. mon'.dead = {} /\ \A p \in Pid : ToVisit(p)' => ToVisit(p)
  BY DEF TickForget, Asleep, ToVisit
<1>3. QED
  BY <1>1, <1>2, TickOnOwner

LEMMA VisitDeadOwner ==
  ASSUME TypeOK, OwnerInv, UNCHANGED Denied, NEW p \in Pid, VisitDead(p)
  PROVE  OwnerInv'
<1>1. /\ mon.at = "visit" /\ mon'.at = "visit" /\ mon'.todo = mon.todo \ {p}
      /\ mon'.dead = mon.dead \cup {p} /\ ~Alive(p)
      /\ UNCHANGED <<proc, sock, ran, exeOf, timed>>
  BY TickFacts DEF VisitDead, TickType, systemVars, mapVars, ghostVars
<1>2. ASSUME NEW q \in Pid
      PROVE  OwnerOf(q)'
  <2>1. OwnerOf(q)
    BY DEF OwnerInv
  <2>2. NoExe \in ran[p]
    BY <1>1 DEF OwnerInv, OwnerOf, Alive
  <2>3. QED
    BY <1>1, <2>1, <2>2 DEF OwnerOf, ToVisit, Alive
<1>3. QED
  BY <1>1, <1>2 DEF OwnerInv, Alive

(* The executable a visit uses is one the pid has had since the last.      *)
LEMMA ExeForFacts ==
  ASSUME TypeOK, OwnerInv, NEW p \in Pid, NEW exe \in ExeFor(p), Visit(p, exe)
  PROVE  /\ exe \in Exe => exe \in ran[p]
         /\ Alive(p) /\ ran[p] = {proc[p]} => exe \in {proc[p]} \cup Denied
         /\ p \in timed /\ Alive(p) => exe \in {proc[p]} \cup Denied
<1>1. OwnerOf(p) /\ ToVisit(p)
  BY DEF OwnerInv, Visit, ToVisit
<1>2. Denied \cap Exe = {} /\ Unknown \notin Exe
  BY TrafficAssumption DEF Denied
<1>3. CASE exeOf[p] = NoEntry
  BY <1>1, <1>2, <1>3, ProcFacts DEF OwnerOf, ExeFor
<1>4. CASE exeOf[p] # NoEntry
  BY <1>1, <1>2, <1>4, ProcFacts DEF OwnerOf, ExeFor
<1>5. QED
  BY <1>3, <1>4

LEMMA VisitOwner ==
  ASSUME TypeOK, OwnerInv, UNCHANGED Denied, NEW p \in Pid, NEW exe \in ExeFor(p), Visit(p, exe)
  PROVE  OwnerInv'
<1>1. /\ mon.at = "visit" /\ mon'.at = "visit" /\ mon'.todo = mon.todo \ {p}
      /\ mon'.dead = mon.dead /\ p \in mon.todo
      /\ exeOf' = [exeOf EXCEPT ![p] = exe]
      /\ ran' = [ran EXCEPT ![p] = {proc[p]}]
      /\ UNCHANGED <<proc, sock, timed>>
  BY TickFacts DEF Visit, TickType, systemVars
<1>2. ASSUME NEW q \in Pid
      PROVE  OwnerOf(q)'
  <2>1. OwnerOf(q)
    BY DEF OwnerInv
  <2>2. CASE q = p
    BY <1>1, <2>1, <2>2, ProcFacts, ExeForFacts DEF OwnerOf, ToVisit, Alive
  <2>3. CASE q # p
    BY <1>1, <2>1, <2>3, ProcFacts DEF OwnerOf, ToVisit, Alive
  <2>4. QED
    BY <2>2, <2>3
<1>3. QED
  BY <1>1, <1>2 DEF OwnerInv, Alive

LEMMA OwnerNext == TypeOK /\ OwnerInv /\ [Next]_vars => OwnerInv'
<1> SUFFICES ASSUME TypeOK, OwnerInv, [Next]_vars
             PROVE  OwnerInv'
  OBVIOUS
<1>0. UNCHANGED Denied
  BY DeniedKept
<1>1. CASE \/ UNCHANGED vars \/ \E c \in Conn : Sniff(c)
           \/ Reload \/ FlushNow \/ ClearLog \/ \E t \in Thread : Flushing(t)
  <2>1. UNCHANGED <<systemVars, mapVars, tickVars, ghostVars>>
    BY <1>1 DEF vars, Sniff, Reload, FlushNow, ClearLog, Flushing
  <2>2. QED
    BY <1>0, <2>1 DEF OwnerInv, OwnerOf, ToVisit, Alive, systemVars, mapVars, tickVars, ghostVars
<1>2. CASE Tick
  BY <1>0, <1>2, TickRefreshOwner, TickPlainOwner, TickPurgeOwner, TickForgetOwner, VisitDeadOwner,
     VisitOwner DEF Tick
<1>3. QED
  BY <1>0, <1>1, <1>2, SpawnOwner, SocketOwner, EndOwner DEF Next

(* Only a visit adds to what is due to an executable.                      *)
LEMMA DueFalls ==
  ASSUME TypeOK, [Next]_vars, ~ Visits, NEW e \in Exe
  PROVE  due'[e] <= due[e]
<1>0. HistoryTypeOK /\ due[e] \in Int
  BY DEF TypeOK, HistoryTypeOK
<1>1. CASE \E t \in Thread : Flushing(t)
  <2>1. PICK t \in Thread : FlushStep(t)
    BY <1>1 DEF Flushing
  <2>2. bucket[e] \in Nat /\ live[e] \in Nat /\ backup[e] \in Nat
    BY <1>0, FlusherFacts
  <2>3. due'[e] \in {due[e], due[e] - bucket[e], due[e] - live[e], due[e] - backup[e]}
    BY <1>0, <2>1, FlusherFacts
       DEF FlushStep, WriteLine, WriteEnd, WriteFail, ClearBucket, Rotate, RemoveLog, LoadNext, Minus
  <2>4. QED
    BY <1>0, <2>2, <2>3
<1>2. CASE ~ \E t \in Thread : Flushing(t)
  <2>1. due' = due
    BY <1>2 DEF Next, vars, historyVars, Spawn, Connect, Close, End, Sniff, Tick, TickRefresh,
       TickDrain, TickTotals, TickPurge, VisitDead, TickForget, TickFlush, TickPublish,
       Visits, Reload, LoadStart, FlushNow, ClearLog, FlushStart
  <2>2. QED
    BY <1>0, <2>1
<1>3. QED
  BY <1>1, <1>2

(* What the tick logs for a pid goes to an executable that has run as this *)
(* pid since the tick looked at it before, also when pids are used again   *)
(* between two steps of a tick.                                            *)
THEOREM TrafficGoesToOwner == Spec => LoggedToOwner
<1>1. TypeOK /\ LedgerInv /\ OwnerInv /\ [Next]_vars
        => [\A e \in Exe : due'[e] > due[e] =>
              \E p \in Pid : logged'[p] > logged[p] /\ e \in ran[p]]_vars
  <2> SUFFICES ASSUME TypeOK, LedgerInv, OwnerInv, [Next]_vars, NEW e \in Exe, due'[e] > due[e]
               PROVE  \E p \in Pid : logged'[p] > logged[p] /\ e \in ran[p]
    OBVIOUS
  <2>0. due \in [Exe -> Int] /\ due[e] \in Int
    BY DEF TypeOK, HistoryTypeOK
  <2>0v. PICK p \in Pid : \E exe \in ExeFor(p) : Visit(p, exe)
    <3>1. due'[e] \in Int
      BY NextTypes DEF TypeOK, HistoryTypeOK
    <3>2. QED
      BY <2>0, <3>1, DueFalls DEF Visits
  <2>1. PICK exe \in ExeFor(p) : Visit(p, exe)
    BY <2>0v
  <2>2. exe \in Exe /\ Delta(p) > 0
    BY <2>0, <2>1 DEF Visit, historyVars
  <2>3. due' = [due EXCEPT ![exe] = @ + Delta(p)]
    BY <2>1, <2>2 DEF Visit, Record
  <2>4. e = exe
    BY <2>0, <2>2, <2>3
  <2>5. logged'[p] > logged[p]
    BY <2>1, <2>2, TickFacts, DeltaType DEF Visit
  <2>6. QED
    BY <2>1, <2>2, <2>4, <2>5, ExeForFacts
<1>2. QED
  BY <1>1, InitTypes, NextTypes, LedgerInit, LedgerNext, OwnerInit, OwnerNext, PTL
     DEF Spec, LoggedToOwner

(* While one process keeps its pid, every byte attributed to the pid is    *)
(* logged for it: what a step takes from the bytes that wait, it logs,     *)
(* unless the executable of the process could not be read.                 *)
THEOREM RunningIsNotLost == Spec => RunningIsLogged
<1>1. TypeOK /\ LedgerInv /\ OwnerInv /\ [Next]_vars
        => [\A p \in Pid :
              (Alive(p) /\ ran[p] = {proc[p]} /\ Fresh'[p] < Fresh[p]) =>
                 \/ logged'[p] - logged[p] = Fresh[p] - Fresh'[p]
                 \/ exeOf'[p] \in Denied]_vars
  <2> SUFFICES ASSUME TypeOK, LedgerInv, OwnerInv, [Next]_vars, NEW p \in Pid,
                      Alive(p), ran[p] = {proc[p]}, Fresh'[p] < Fresh[p]
               PROVE  logged'[p] - logged[p] = Fresh[p] - Fresh'[p] \/ exeOf'[p] \in Denied
    OBVIOUS
  <2>0. /\ Fresh[p] \in Nat /\ logged[p] \in Nat /\ total[p] \in Nat /\ prev[p] \in Nat
        /\ Fresh[p] = total[p] - prev[p] /\ Fresh'[p] = total'[p] - prev'[p]
    BY FreshFacts, FreshAt, TickFacts
  <2>1. CASE UNCHANGED <<total, prev, logged>>
    BY <2>0, <2>1
  <2>2. CASE \E c \in Conn : Sniff(c)
    <3>1. prev' = prev /\ total'[p] \in {total[p], total[p] + 1}
      BY <2>2, SniffCounts, TickFacts
    <3>2. QED
      BY <2>0, <3>1
  <2>3. CASE TickForget
    <3>1. p \notin mon.dead
      BY ProcFacts DEF OwnerInv, OwnerOf, Alive
    <3>2. QED
      BY <2>0, <2>3, <3>1, ForgetSettles
  <2>4. CASE Visits
    <3>0v. PICK q \in Pid : \E exe \in ExeFor(q) : Visit(q, exe)
      BY <2>4 DEF Visits
    <3>1. PICK exe \in ExeFor(q) : Visit(q, exe)
      BY <3>0v
    <3>2. Delta(q) \in Nat /\ Fresh' = [Fresh EXCEPT ![q] = @ - Delta(q)]
          /\ Fresh \in [Pid -> Nat] /\ logged \in [Pid -> Nat]
      BY <3>1, VisitFresh, FreshFacts
    <3>3. q = p
      BY <2>0, <3>2
    <3>4. exe \in {proc[p]} \cup Denied /\ exeOf'[p] = exe /\ Delta(p) > 0 /\ proc[p] \in Exe
      <4>1. exe \in {proc[p]} \cup Denied /\ proc[p] \in Exe
        BY <3>1, <3>3, ExeForFacts, ProcFacts
      <4>2. Delta(p) > 0
        BY <2>0, <3>2, <3>3
      <4>3. exeOf'[p] = exe
        BY <3>1, <3>3, ProcFacts DEF Visit
      <4>4. QED
        BY <4>1, <4>2, <4>3
    <3>5. CASE exe \in Exe
      <4>1. logged'[p] = logged[p] + Delta(p)
        BY <3>1, <3>2, <3>3, <3>4, <3>5, VisitSettles
      <4>2. QED
        BY <2>0, <3>2, <3>3, <4>1
    <3>6. QED
      BY <3>4, <3>5
  <2>5. QED
    BY <2>1, <2>2, <2>3, <2>4, LedgerIdle, LedgerTick
<1>2. QED
  BY <1>1, InitTypes, NextTypes, LedgerInit, LedgerNext, OwnerInit, OwnerNext, PTL
     DEF Spec, RunningIsLogged
=============================================================================
