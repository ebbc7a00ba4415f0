---------------------------- MODULE SweepProofs ----------------------------
(* DecidedIsEnforced and QuitLeavesNothing, for every set of executables   *)
(* and tags, every settings file and every bound.                          *)
(*                                                                         *)
(* The first as long as the user only blocks, allows, answers prompts and  *)
(* quits: the sweep never looks again at what is in _lockdown_decided, and *)
(* every other action can take a pass or a rule away behind its back (TLC  *)
(* finds a counterexample for each of them).  The second where the monitor *)
(* ends within the join, no switch is used in Lockdown and nobody leaves a *)
(* tag that is blocked.                                                    *)
EXTENDS BlockProofs, SequenceTheorems

SteadyOps == Ops \subseteq {"block", "allow", "answer", "quit"}

-----------------------------------------------------------------------------
(* What is still to come of one executable.                                *)

Of(op, e) == {x \in Instr : x.op = op /\ e \in x.es}
Grant(e) == {x \in Instr : x.op = "set_allowed" /\ x.on /\ e \in x.es}
Revokes == {x \in Instr : x.op = "set_allowed" /\ ~x.on}
Exits == Named({"exit"})

(* A temporary pass: it is noted, the block of the sweep is taken out of   *)
(* the books, and then out of Windows.                                     *)
PassOps == {"temp_allow", "lockdown_unblock", "unblock"}
Pass(e) == UNION {Of(op, e) : op \in PassOps}

(* The executables the sweep has to deal with: neither allowed nor blocked *)
(* by the user, and not about to be.                                       *)
Free(e) == PermAllowed(cfg, e) \/ Ahead(Grant(e))
Listed(e) == e \in cfg.blocked \/ Ahead(Raise(e))
Denied(e) == e \in Exes \ Exempt /\ ~Free(e) /\ ~Listed(e)

(* The answer to a prompt ends with the dialog.                            *)
Ends(p, e) == p # <<>> /\ p[Len(p)] = I("finish", {e}, NoTag, FALSE)

MonAt(op, e) == At("mon", op) /\ e \in Cur("mon").es

(* The sweep counts on the books when it decides, and between two of its   *)
(* steps the handlers go on.  Who is in the books is blocked; who is being *)
(* blocked has no dialog and no pass under way; a pass is given to who has *)
(* a dialog, and before the block is lifted it is noted.                   *)
Enforced(e) ==
  /\ e \in ldBlocked \/ MonAt("note", e) => e \in osRules
  /\ e \in decided \/ MonAt("mark", e) => e \in osRules \/ temp[e] # "none"
  /\ (\E op \in {"block", "note", "ask"} : MonAt(op, e)) =>
       e \notin dialogs /\ ~Queued(e) /\ ~Ahead(Pass(e))
  /\ MonAt("ask", e) => e \in ldBlocked
  /\ e \in dialogs => ~Queued(e)
  /\ \A i, j \in 1..Len(queue) : queue[i] = e /\ queue[j] = e => i = j
  /\ e \in dialogs \/ Queued(e) =>
       e \in ldBlocked \/ (~Queued(e) /\ Ends(prog["gui"], e) /\ temp[e] = "live")
  /\ Ahead(Pass(e)) => Ends(prog["gui"], e) /\ ~Queued(e)
  /\ Ahead(Of("temp_allow", e)) => e \in ldBlocked
  /\ Ahead(Of("lockdown_unblock", e)) => temp[e] = "live" \/ Ahead(Of("temp_allow", e))
  /\ Ahead(Of("unblock", e)) => temp[e] = "live" /\ e \notin ldBlocked

(* The programs of the GUI thread.                                         *)
StopOps == {"halt", "join", "clear", "forget", "unblock_unlisted", "destroy"}
OtherOps == LockdownOps \cup TagOps \cup {"set_exe_tag", "remove_app", "set_firewall"}

Steady ==
  /\ OnlyOps(prog["gui"], OpNames \ OtherOps)
  /\ ~Ahead(Revokes)
  /\ Ahead(Named(StopOps)) => Ahead(Exits)
  /\ Ahead(Named({"remove_all"})) => ~cfg.fw
  /\ \A e \in Exes : Ahead(Lift(e)) => Free(e)
  /\ prog["gui"] # <<>> => ~Has(Tail(prog["gui"]), Named({"temp_allow"}))

(* Those of the monitor thread: what is left to do about one executable,   *)
(* and the rest of the sweep.                                              *)
Mark1(e) == DoExe("mark", e, FALSE)
Block1(e) == DoExe("block", e, FALSE)
Note1(e) == DoExe("note", e, FALSE)
Ask1(e) == DoExe("ask", e, FALSE)

SweepShape ==
  \E es \in SUBSET Exes :
    LET rest == Loop("scan", es)
    IN  \/ prog["mon"] = rest
        \/ \E e \in Exes :
             \/ prog["mon"] = Mark1(e) \o rest
             \/ prog["mon"] = Block1(e) \o (Note1(e) \o (Ask1(e) \o rest))
             \/ prog["mon"] = Note1(e) \o (Ask1(e) \o rest)
             \/ prog["mon"] = Ask1(e) \o rest

(* A process in Lockdown that has not begun to close.                      *)
Live == app = "up" /\ LockedDown /\ ~Ahead(Exits)

SweepInv ==
  /\ app # "up" => decided = {} /\ queue = <<>> /\ dialogs = {}
  /\ Steady /\ SweepShape
  /\ Live => \A e \in Exes : Denied(e) => Enforced(e)

(* What the earlier proofs have shown.                                     *)
Known == TypeOK /\ PromptInv /\ BlockInv

-----------------------------------------------------------------------------
(* Instructions and the programs built of them.                            *)

LEMMA ExeInstr ==
  ASSUME NEW op \in OpNames \ TagOps, NEW e \in Exes, NEW on \in BOOLEAN
  PROVE  LET x == I(op, {e}, NoTag, on)
         IN  /\ x \in Instr /\ x.op = op /\ x.es = {e} /\ x.on = on
             /\ DoExe(op, e, on) = <<x>> /\ DoExe(op, e, on) \in Program
             /\ \A S : Has(DoExe(op, e, on), S) <=> x \in S
             /\ OnlyOps(DoExe(op, e, on), {op})
<1>1. /\ I(op, {e}, NoTag, on) \in Instr
      /\ DoExe(op, e, on) \in Program
  BY DoExeType DEF I, Instr
<1>2. OnlyOps(DoExe(op, e, on), {op})
  BY OnlyOpsProgs
<1>3. \A S : Has(DoExe(op, e, on), S) <=> I(op, {e}, NoTag, on) \in S
  BY HasOne
<1>4. QED
  BY <1>1, <1>2, <1>3 DEF DoExe, I

LEMMA DoInstr ==
  ASSUME NEW op \in OpNames \ TagOps
  PROVE  LET x == I(op, {}, NoTag, FALSE)
         IN  /\ x \in Instr /\ x.op = op /\ x.es = {} /\ x.on = FALSE
             /\ Do(op) = <<x>> /\ Do(op) \in Program
             /\ \A S : Has(Do(op), S) <=> x \in S
             /\ OnlyOps(Do(op), {op})
<1>1. /\ I(op, {}, NoTag, FALSE) \in Instr
      /\ Do(op) \in Program
  BY DoType DEF I, Instr
<1>2. OnlyOps(Do(op), {op})
  BY OnlyOpsProgs
<1>3. \A S : Has(Do(op), S) <=> I(op, {}, NoTag, FALSE) \in S
  BY HasOne
<1>4. QED
  BY <1>1, <1>2, <1>3 DEF Do, I

LEMMA LoopInstr ==
  ASSUME NEW op \in OpNames \ TagOps, NEW es \in SUBSET Exes
  PROVE  LET x == I(op, es, NoTag, FALSE)
         IN  /\ x \in Instr /\ x.op = op /\ x.es = es /\ x.on = FALSE
             /\ Loop(op, es) = (IF es = {} THEN <<>> ELSE <<x>>)
             /\ Loop(op, es) \in Program
             /\ \A S : Has(Loop(op, es), S) <=> es # {} /\ x \in S
             /\ OnlyOps(Loop(op, es), {op})
<1>1. /\ I(op, es, NoTag, FALSE) \in Instr
      /\ Loop(op, es) \in Program
  BY LoopType DEF I, Instr
<1>2. OnlyOps(Loop(op, es), {op})
  BY OnlyOpsProgs
<1>3. \A S : Has(Loop(op, es), S) <=> es # {} /\ I(op, es, NoTag, FALSE) \in S
  BY HasOne
<1>4. QED
  BY <1>1, <1>2, <1>3 DEF Loop, I

(* The last instruction of a program stays when the first is replaced.     *)
LEMMA EndsThen ==
  ASSUME NEW p \in Program, p # <<>>, Tail(p) # <<>>, NEW s \in Program, NEW e
  PROVE  Ends(s \o Tail(p), e) <=> Ends(p, e)
<1> DEFINE u == Tail(p)
<1>1. /\ Len(p) \in Nat /\ Len(u) \in Nat /\ Len(u) > 0 /\ Len(u) = Len(p) - 1
      /\ u[Len(u)] = p[Len(p)] /\ u \in Program
  BY DEF Program
<1>2. /\ Len(s) \in Nat /\ Len(s \o u) = Len(s) + Len(u) /\ s \o u \in Program
      /\ (s \o u)[Len(s) + Len(u)] = u[Len(u)]
  BY <1>1 DEF Program
<1>3. s \o u # <<>>
  BY <1>1, <1>2
<1>4. QED
  BY <1>1, <1>2, <1>3 DEF Ends

LEMMA EndsOne ==
  ASSUME NEW p \in Program, p # <<>>, Tail(p) = <<>>, NEW e, Ends(p, e)
  PROVE  Head(p) = I("finish", {e}, NoTag, FALSE)
<1>1. Len(p) \in Nat /\ Len(p) > 0 /\ Len(Tail(p)) = Len(p) - 1 /\ Head(p) = p[1]
  BY DEF Program
<1>2. Len(p) = 1
  BY <1>1
<1>3. QED
  BY <1>1, <1>2 DEF Ends

LEMMA LastCat ==
  ASSUME NEW s \in Program, NEW u \in Program, Len(u) = 1
  PROVE  s \o u # <<>> /\ (s \o u)[Len(s \o u)] = u[1]
<1>1. s \in Seq(Instr) /\ u \in Seq(Instr)
  BY DEF Program
<1>2. /\ Len(s \o u) = Len(s) + Len(u)
      /\ \A i \in 1..Len(s) + Len(u) :
           (s \o u)[i] = IF i <= Len(s) THEN s[i] ELSE u[i - Len(s)]
  BY <1>1, ConcatProperties, Zenon
<1>3. Len(s) \in Nat
  BY <1>1
<1> DEFINE n == Len(s)
           p == s \o u
<1> HIDE DEF n, p
<1>4. Len(p) = n + 1 /\ p[n + 1] = u[1] /\ n \in Nat
  BY <1>2, <1>3 DEF n, p
<1>5. p # <<>> /\ p[Len(p)] = u[1]
  BY <1>4
<1>6. QED
  BY <1>5 DEF p

LEMMA EndsCat ==
  ASSUME NEW s \in Program, NEW e \in Exes
  PROVE  Ends(s \o DoExe("finish", e, FALSE), e)
<1>0. "finish" \in OpNames \ TagOps
  BY DEF OpNames, TagOps
<1>1. /\ DoExe("finish", e, FALSE) \in Program
      /\ Len(DoExe("finish", e, FALSE)) = 1
      /\ DoExe("finish", e, FALSE)[1] = I("finish", {e}, NoTag, FALSE)
  BY <1>0, DoExeType DEF DoExe
<1>2. QED
  BY <1>1, LastCat DEF Ends

-----------------------------------------------------------------------------
(* One instruction of the GUI thread: it is replaced by s.                 *)

GuiLoops == {"block", "unblock", "block_if_on", "unblock_unlisted", "lockdown_unblock",
             "forget"}

(* Nobody loses a permission.                                              *)
FreeStays ==
  \A e \in Exes : PermAllowed(cfg, e) \/ Cur("gui") \in Grant(e) => PermAllowed(cfg', e)

LEMMA GuiSteady ==
  ASSUME TypeOK, Steady, prog["gui"] # <<>>, NEW s \in Program, Then("gui", s),
         OnlyOps(s, GuiLoops), Has(s, Named(StopOps)) => Cur("gui") \in Named(StopOps),
         Cur("gui") \notin Exits, cfg'.fw = cfg.fw, FreeStays
  PROVE  /\ Steady'
         /\ \A e \in Exes : Free(e) => Free(e)'
         /\ Ahead(Exits)' <=> Ahead(Exits)
<1> DEFINE T == Tail(prog["gui"])
           Q == prog'["gui"]
           x == Cur("gui")
<1>0. /\ \A S : Ahead(S) <=> x \in S \/ Has(T, S)
      /\ \A S : Ahead(S)' <=> Has(s, S) \/ Has(T, S)
  BY Splits DEF Ahead
<1>1. /\ prog["gui"] \in Program /\ T \in Program /\ Q \in Program /\ Q = s \o T
      /\ OnlyOps(T, OpNames \ OtherOps)
  <2>1. prog \in [Threads -> Program] /\ "gui" \in Threads /\ prog["gui"] \in Program
    BY TypeSplit DEF Threads
  <2>2. T \in Program /\ OnlyOps(T, OpNames \ OtherOps)
    BY <2>1, CurType, OnlyOpsTail DEF Steady
  <2>3. Q = s \o T
    BY <2>1 DEF Then
  <2>4. QED
    BY <2>1, <2>2, <2>3, CatType
<1>2. OnlyOps(Q, OpNames \ OtherOps)
  <2>1. OnlyOps(s, OpNames \ OtherOps)
    BY OnlyOpsMono DEF GuiLoops, OpNames, OtherOps, LockdownOps, TagOps
  <2>2. QED
    BY <1>1, <2>1, OnlyOpsCat
<1>3. /\ ~Has(s, Revokes) /\ ~Has(s, Named({"remove_all"})) /\ ~Has(s, Exits)
      /\ ~Has(s, Named({"temp_allow"})) /\ \A e : ~Has(s, Lift(e)) /\ ~Has(s, Grant(e))
  <2>1. /\ \A y \in Revokes \cup Named({"remove_all"}) \cup Exits \cup Named({"temp_allow"}) :
             y.op \notin GuiLoops
        /\ \A e : \A y \in Lift(e) \cup Grant(e) : y.op \notin GuiLoops
    BY DEF Revokes, Named, Exits, GuiLoops, Lift, Switch, Grant
  <2>2. QED
    BY <2>1, OnlyHas
<1>4. ~Has(T, Named({"temp_allow"}))
  BY DEF Steady
<1>5. Q # <<>> => ~Has(Tail(Q), Named({"temp_allow"}))
  <2>1. ~Has(Q, Named({"temp_allow"}))
    BY <1>1, <1>3, <1>4, HasCat
  <2>2. QED
    BY <1>1, <2>1, HasTail
<1> HIDE DEF T, Q, x
<1>6. \A e \in Exes : Free(e) => Free(e)'
  BY <1>0 DEF FreeStays, Free, x
<1>7. \A e \in Exes : Ahead(Lift(e))' => Free(e)'
  BY <1>0, <1>3, <1>6 DEF Steady
<1>8. Ahead(Exits)' <=> Ahead(Exits)
  BY <1>0, <1>3 DEF x
<1>9. /\ ~Ahead(Revokes)' /\ (Ahead(Named(StopOps))' => Ahead(Exits)')
      /\ Ahead(Named({"remove_all"}))' => ~cfg'.fw
  BY <1>0, <1>3, <1>8 DEF Steady, x
<1>10. Steady'
  BY <1>2, <1>5, <1>7, <1>9 DEF Steady, Q
<1>11. QED
  BY <1>6, <1>8, <1>10

(* The instruction changes nothing for e, except that it may have taken    *)
(* the rule away that a pass lifts, or closed another dialog.              *)
Spares(s, e) ==
  /\ \A op \in PassOps : Has(s, Of(op, e)) => Cur("gui") \in Of(op, e)
  /\ Cur("gui") \notin Of("temp_allow", e)
  /\ e \in osRules => e \in osRules' \/ Cur("gui") \in Of("unblock", e)
  /\ e \in ldBlocked' <=> e \in ldBlocked
  /\ temp'[e] = temp[e]
  /\ e \in decided' => e \in decided
  /\ e \in dialogs' => e \in dialogs /\ Cur("gui") \notin Of("finish", e)
  /\ queue' = queue

(* As long as something is left of the answer, it still ends the dialog.   *)
LEMMA EndsStays ==
  ASSUME TypeOK, prog["gui"] # <<>>, NEW s \in Program, Then("gui", s),
         NEW e \in Exes, Ends(prog["gui"], e),
         Tail(prog["gui"]) # <<>> \/ Cur("gui") \notin Of("finish", e)
  PROVE  Ends(prog'["gui"], e)
<1>1. prog["gui"] \in Program /\ prog'["gui"] = s \o Tail(prog["gui"])
  BY TypeSplit DEF Threads, Then
<1>2. Tail(prog["gui"]) # <<>>
  <2>1. Cur("gui") \in Instr
    BY CurType DEF Threads
  <2>2. Cur("gui") \notin Of("finish", e) => Cur("gui") # I("finish", {e}, NoTag, FALSE)
    BY <2>1 DEF Of, I
  <2>3. QED
    BY <1>1, <2>2, EndsOne DEF Cur
<1>3. QED
  BY <1>1, <1>2, EndsThen

(* A pass is one of its three instructions.                                *)
LEMMA AheadPass ==
  ASSUME NEW e
  PROVE  /\ Ahead(Pass(e)) <=> \E op \in PassOps : Ahead(Of(op, e))
         /\ Ahead(Pass(e))' <=> \E op \in PassOps : Ahead(Of(op, e))'
BY DEF Ahead, Has, Pass

LEMMA SparedStays ==
  ASSUME TypeOK, prog["gui"] # <<>>, NEW s \in Program, Then("gui", s),
         NEW e \in Exes, Enforced(e), Spares(s, e)
  PROVE  Enforced(e)'
<1> DEFINE x == Cur("gui")
           T == Tail(prog["gui"])
<1>0. /\ \A S : Ahead(S) <=> x \in S \/ Has(T, S)
      /\ \A S : Ahead(S)' <=> Has(s, S) \/ Has(T, S)
  BY Splits DEF Ahead
<1>1. prog'["mon"] = prog["mon"]
  BY TypeSplit DEF Then, Threads
<1>2. \A op : MonAt(op, e)' <=> MonAt(op, e)
  BY <1>1 DEF MonAt, At, Cur
<1>3. Queued(e)' <=> Queued(e)
  BY DEF Spares, Queued
<1>4. Ends(prog["gui"], e) /\ (T # <<>> \/ x \notin Of("finish", e)) => Ends(prog'["gui"], e)
  BY EndsStays
<1>5. \A S : Has(T, S) => T # <<>>
  <2>1. \A S : ~Has(<<>>, S)
    BY HasOne
  <2>2. QED
    BY <2>1
<1> HIDE DEF x, T
<1>6. \A op \in PassOps : Ahead(Of(op, e))' => Ahead(Of(op, e))
  BY <1>0 DEF Spares, x
<1>7. Ahead(Pass(e))' => Ahead(Pass(e)) /\ Ends(prog'["gui"], e)
  <2>1. ASSUME NEW op \in PassOps, Ahead(Of(op, e))'
        PROVE  T # <<>> \/ x \notin Of("finish", e)
    <3>1. x \in Of(op, e) => x \notin Of("finish", e)
      BY DEF Of, PassOps
    <3>2. QED
      BY <1>0, <1>5, <2>1, <3>1 DEF Spares, x
  <2>2. Ahead(Pass(e))' => Ahead(Pass(e)) /\ (T # <<>> \/ x \notin Of("finish", e))
    BY <1>6, <2>1, AheadPass
  <2>3. Ahead(Pass(e)) => Ends(prog["gui"], e)
    BY DEF Enforced
  <2>4. QED
    BY <1>4, <2>2, <2>3
<1>8. Ahead(Of("temp_allow", e)) => Ahead(Of("temp_allow", e))'
  BY <1>0 DEF Spares, x
<1>9. /\ e \in ldBlocked' \/ MonAt("note", e)' => e \in osRules'
      /\ e \in decided' \/ MonAt("mark", e)' => e \in osRules' \/ temp'[e] # "none"
  <2>1. x \in Of("unblock", e) =>
          temp[e] = "live" /\ e \notin ldBlocked /\ ~MonAt("note", e)
    <3>1. x \in Of("unblock", e) => Ahead(Of("unblock", e)) /\ Ahead(Pass(e))
      BY <1>0, AheadPass DEF PassOps
    <3>2. QED
      BY <3>1 DEF Enforced
  <2>2. QED
    BY <1>2, <2>1 DEF Enforced, Spares, x
<1>10. /\ (\E op \in {"block", "note", "ask"} : MonAt(op, e)') =>
             e \notin dialogs' /\ ~Queued(e)' /\ ~Ahead(Pass(e))'
       /\ MonAt("ask", e)' => e \in ldBlocked'
       /\ e \in dialogs' => ~Queued(e)'
       /\ \A i, j \in 1..Len(queue') : queue'[i] = e /\ queue'[j] = e => i = j
  BY <1>2, <1>3, <1>7 DEF Enforced, Spares
<1>11. e \in dialogs' \/ Queued(e)' =>
         e \in ldBlocked' \/ (~Queued(e)' /\ Ends(prog'["gui"], e) /\ temp'[e] = "live")
  BY <1>3, <1>4 DEF Enforced, Spares, x
<1>12. /\ Ahead(Pass(e))' => Ends(prog'["gui"], e) /\ ~Queued(e)'
       /\ Ahead(Of("temp_allow", e))' => e \in ldBlocked'
       /\ Ahead(Of("lockdown_unblock", e))' =>
            temp'[e] = "live" \/ Ahead(Of("temp_allow", e))'
       /\ Ahead(Of("unblock", e))' => temp'[e] = "live" /\ e \notin ldBlocked'
  BY <1>3, <1>6, <1>7, <1>8 DEF Enforced, Spares, PassOps
<1>13. QED
  BY <1>9, <1>10, <1>11, <1>12 DEF Enforced

(* What the user has blocked stays so, and a block he asks for is noted.   *)
ListedStays ==
  \A e \in Exes :
    /\ e \in cfg.blocked => e \in cfg'.blocked \/ Cur("gui") \in Lift(e)
    /\ Cur("gui") \in Raise(e) => e \in cfg'.blocked

LEMMA GuiSweep ==
  ASSUME Known, SweepInv, prog["gui"] # <<>>, NEW s \in Program, Then("gui", s),
         OnlyOps(s, GuiLoops), Has(s, Named(StopOps)) => Cur("gui") \in Named(StopOps),
         Cur("gui") \notin Exits, FreeStays, ListedStays,
         app' = app, cfg'.fw = cfg.fw, cfg'.lock = cfg.lock,
         \A e \in Exes :
           Live /\ Denied(e) /\ Enforced(e) => Spares(s, e) \/ Enforced(e)'
  PROVE  SweepInv'
<1>1. /\ Steady' /\ \A e \in Exes : Free(e) => Free(e)'
      /\ Ahead(Exits)' <=> Ahead(Exits)
  BY GuiSteady DEF Known, SweepInv
<1>2. prog'["mon"] = prog["mon"]
  BY TypeSplit DEF Then, Threads, Known
<1>3. SweepShape'
  BY <1>2 DEF SweepInv, SweepShape
<1>4. app' = "up"
  BY DEF Known, PromptInv, LifeInv, Idle, Threads
<1>5. ASSUME NEW e \in Exes, Live', Denied(e)'
      PROVE  Enforced(e)'
  <2>1. Live
    BY <1>1, <1>5 DEF Live, LockedDown
  <2>2. ~Free(e) /\ e \notin cfg'.blocked /\ ~Ahead(Raise(e))'
    BY <1>1, <1>5 DEF Denied, Listed
  <2>3. Cur("gui") \notin Lift(e)
    <3>1. Cur("gui") \in Lift(e) => Ahead(Lift(e))
      BY Splits DEF Known
    <3>2. QED
      BY <2>2, <3>1 DEF SweepInv, Steady
  <2>4. ~Ahead(Raise(e)) /\ e \notin cfg.blocked
    BY <2>2, <2>3, Splits DEF Known, ListedStays, Ahead
  <2>5. Denied(e) /\ Enforced(e)
    BY <1>5, <2>1, <2>2, <2>4 DEF Denied, Listed, SweepInv
  <2>6. QED
    BY <2>1, <2>5, SparedStays DEF Known
<1>6. QED
  BY <1>1, <1>3, <1>4, <1>5 DEF SweepInv

-----------------------------------------------------------------------------
(* The instructions of the GUI thread one by one.                          *)

LEMMA SweepAt ==
  ASSUME Known, SweepInv, NEW op, At("gui", op)
  PROVE  /\ prog["gui"] # <<>> /\ Cur("gui").op = op /\ Cur("gui") \in Instr
         /\ Cur("gui").es \in SUBSET Exes
         /\ op \in OpNames \ OtherOps
         /\ op \in StopOps \cup {"remove_all"} => ~Live
         /\ Cur("gui") \in Named(StopOps) <=> op \in StopOps
         /\ Cur("gui") \in Exits <=> op = "exit"
         /\ Cur("gui") \notin Revokes
         /\ \A S : Cur("gui") \in S => Ahead(S)
         /\ <<>> \in Program /\ \A ops : OnlyOps(<<>>, ops) /\ \A S : ~Has(<<>>, S)
         /\ app = "up"
<1>1. /\ prog["gui"] # <<>> /\ Cur("gui").op = op /\ Cur("gui") \in Instr
      /\ Cur("gui").es \in SUBSET Exes
      /\ <<>> \in Program /\ \A ops : OnlyOps(<<>>, ops) /\ \A S : ~Has(<<>>, S)
  BY GuiAt DEF Known
<1>2. prog["gui"] \in Program
  BY TypeSplit DEF Known, Threads
<1>3. \A S : Cur("gui") \in S => Ahead(S)
  BY <1>1, <1>2, HasTail DEF Ahead, Cur
<1>4. op \in OpNames \ OtherOps
  BY <1>1, <1>2, OnlyOpsTail DEF SweepInv, Steady, Cur
<1>5. \A ops : Cur("gui") \in Named(ops) <=> op \in ops
  BY <1>1 DEF Named
<1>6. op \in StopOps \cup {"remove_all"} => ~Live
  <2>1. op \in StopOps => Ahead(Named(StopOps))
    BY <1>3, <1>5
  <2>2. op = "remove_all" => Ahead(Named({"remove_all"}))
    BY <1>3, <1>5
  <2>3. QED
    BY <2>1, <2>2 DEF SweepInv, Steady, Live, LockedDown
<1>7. app = "up"
  BY <1>1 DEF Known, PromptInv, LifeInv, Idle, Threads
<1>8. Cur("gui") \notin Revokes
  BY <1>3 DEF SweepInv, Steady
<1>9. QED
  BY <1>1, <1>3, <1>4, <1>5, <1>6, <1>7, <1>8 DEF Exits

(* What neither edits the lists nor the rules.                             *)
LEMMA QuietSweep ==
  ASSUME Known, SweepInv, NEW op, At("gui", op), Advance("gui"),
         op \notin {"set_allowed", "set_blocked", "temp_allow", "exit"},
         UNCHANGED <<cfg, app>>,
         Live => UNCHANGED <<osRules, ldBlocked, temp, queue>>,
         Live => decided' \subseteq decided,
         Live => dialogs' = IF op = "finish" THEN dialogs \ Cur("gui").es ELSE dialogs
  PROVE  SweepInv'
<1> DEFINE x == Cur("gui")
<1>1. /\ prog["gui"] # <<>> /\ x.op = op /\ x \in Instr
      /\ \A S : ~Has(<<>>, S) /\ <<>> \in Program /\ OnlyOps(<<>>, GuiLoops)
      /\ x \notin Exits /\ op \in OpNames \ OtherOps
  BY SweepAt
<1>2. FreeStays /\ ListedStays
  BY <1>1 DEF FreeStays, ListedStays, Grant, Raise
<1> HIDE DEF x
<1>3. ASSUME NEW e \in Exes, Live
      PROVE  Spares(<<>>, e)
  <2>1. x \notin Of("temp_allow", e)
    BY <1>1 DEF Of
  <2>2. e \in dialogs' => e \in dialogs /\ x \notin Of("finish", e)
    BY <1>1, <1>3 DEF Of, x
  <2>3. QED
    BY <1>1, <1>3, <2>1, <2>2 DEF Spares, x
<1>4. QED
  BY <1>1, <1>2, <1>3, GuiSweep DEF Advance, x

LEMMA QuietStepSweep ==
  ASSUME Known, SweepInv,
         \/ Save("gui") \/ AllowSettled("gui") \/ Answered("gui") \/ Finish("gui")
         \/ StartMonitor("gui") \/ ShowUI("gui") \/ Halt("gui") \/ Join("gui")
         \/ Destroy("gui") \/ ForgetLockdown("gui")
  PROVE  SweepInv'
<1>1. CASE Save("gui")
  BY <1>1, QuietSweep DEF Save, ldVars, uiVars, lifeVars
<1>2. CASE AllowSettled("gui")
  BY <1>2, QuietSweep DEF AllowSettled, uiVars, lifeVars
<1>3. CASE Answered("gui")
  BY <1>3, QuietSweep DEF Answered, uiVars, lifeVars
<1>4. CASE Finish("gui")
  BY <1>4, QuietSweep DEF Finish, ldVars, lifeVars
<1>5. CASE StartMonitor("gui") \/ ShowUI("gui")
  BY <1>5, QuietSweep DEF StartMonitor, ShowUI, ldVars, uiVars, lifeVars
<1>6. CASE Halt("gui") \/ Join("gui")
  BY <1>6, QuietSweep DEF Halt, Join, ldVars, uiVars, lifeVars
<1>7. CASE Destroy("gui")
  <2>1. ~Live
    BY <1>7, SweepAt DEF Destroy, StopOps
  <2>2. QED
    BY <1>7, <2>1, QuietSweep DEF Destroy, lifeVars
<1>8. CASE ForgetLockdown("gui")
  <2>1. ~Live
    BY <1>8, SweepAt DEF ForgetLockdown, StopOps
  <2>2. QED
    BY <1>8, <2>1, QuietSweep DEF ForgetLockdown, uiVars, lifeVars
<1>9. QED
  BY <1>1, <1>2, <1>3, <1>4, <1>5, <1>6, <1>7, <1>8

(* A loop goes on with the others.                                         *)
LEMMA SweepLoop ==
  ASSUME Known, SweepInv, NEW op \in GuiLoops \ {"forget"}, At("gui", op),
         NEW e0 \in Cur("gui").es, NEW s0 \in Program, OnlyOps(s0, GuiLoops),
         ThenRest("gui", e0, s0)
  PROVE  \E s \in Program :
           /\ OnlyOps(s, GuiLoops) /\ Then("gui", s)
           /\ \A op1, e : Has(s, Of(op1, e)) =>
                \/ Has(s0, Of(op1, e))
                \/ op1 = op /\ e \in Cur("gui").es \ {e0}
           /\ Has(s, Named(StopOps)) => op \in StopOps \/ Has(s0, Named(StopOps))
<1> DEFINE others == Cur("gui").es \ {e0}
           r == Loop(op, others)
           x == I(op, others, NoTag, FALSE)
<1>1. Cur("gui").op = op /\ others \in SUBSET Exes
  BY SweepAt
<1>2. op \in OpNames \ TagOps /\ {op} \subseteq GuiLoops
  BY DEF GuiLoops, OpNames, TagOps
<1>3. Then("gui", s0 \o r)
  BY <1>1 DEF ThenRest, Cur
<1> HIDE DEF others
<1>4. /\ x \in Instr /\ x.op = op /\ x.es = others
      /\ r \in Program /\ OnlyOps(r, {op})
      /\ \A S : Has(r, S) => x \in S
  <2>1. op \in OpNames \ TagOps
    BY <1>2
  <2>2. others \in SUBSET Exes
    BY <1>1
  <2>3. QED
    BY <2>1, <2>2, LoopInstr, Zenon
<1> HIDE DEF r, x
<1>5. OnlyOps(r, GuiLoops)
  BY <1>2, <1>4, OnlyOpsMono
<1>6. /\ s0 \o r \in Program /\ OnlyOps(s0 \o r, GuiLoops)
      /\ \A S : Has(s0 \o r, S) <=> Has(s0, S) \/ Has(r, S)
  BY <1>4, <1>5, CatType, OnlyOpsCat, HasCat
<1>7. /\ \A op1, e : Has(r, Of(op1, e)) => op1 = op /\ e \in others
      /\ Has(r, Named(StopOps)) => op \in StopOps
  BY <1>4 DEF Of, Named
<1>8. QED
  BY <1>3, <1>6, <1>7 DEF others

LEMMA SetBlockedSweep ==
  ASSUME Known, SweepInv, SetBlocked("gui")
  PROVE  SweepInv'
<1> DEFINE x == Cur("gui")
<1>1. /\ At("gui", "set_blocked") /\ Then("gui", <<>>)
      /\ cfg' = [cfg EXCEPT !.blocked = IF x.on THEN @ \cup x.es ELSE @ \ x.es]
      /\ decided' = decided \ x.es
      /\ UNCHANGED <<osRules, ldBlocked, temp, queue, dialogs, app>>
  BY DEF SetBlocked, Advance, uiVars, lifeVars
<1>2. /\ cfg'.fw = cfg.fw /\ cfg'.lock = cfg.lock /\ cfg'.allowed = cfg.allowed
      /\ cfg'.tagOf = cfg.tagOf /\ cfg'.tagAllowed = cfg.tagAllowed
      /\ cfg'.blocked = IF x.on THEN cfg.blocked \cup x.es ELSE cfg.blocked \ x.es
  BY <1>1 DEF Known, TypeOK, Settings
<1>3. /\ prog["gui"] # <<>> /\ x.op = "set_blocked" /\ x \in Instr
      /\ \A S : ~Has(<<>>, S) /\ <<>> \in Program /\ OnlyOps(<<>>, GuiLoops)
      /\ x \notin Exits
  BY <1>1, SweepAt
<1>4. FreeStays
  BY <1>2, <1>3 DEF FreeStays, PermAllowed, Grant
<1>5. ListedStays
  BY <1>2, <1>3 DEF ListedStays, Lift, Raise
<1>6. \A e : x \notin Of("temp_allow", e) /\ x \notin Of("finish", e)
  BY <1>3 DEF Of
<1> HIDE DEF x
<1>7. \A e \in Exes : Spares(<<>>, e)
  BY <1>1, <1>3, <1>6 DEF Spares, x
<1>8. QED
  BY <1>1, <1>2, <1>3, <1>4, <1>5, <1>7, GuiSweep DEF x

(* An allowance lifts the block of the one it allows.                      *)
LEMMA SetAllowedSweep ==
  ASSUME Known, SweepInv, SetAllowed("gui")
  PROVE  SweepInv'
<1> DEFINE x == Cur("gui")
           s == Loop("lockdown_unblock", x.es)
           y == I("lockdown_unblock", x.es, NoTag, FALSE)
<1>1. /\ prog["gui"] # <<>> /\ x.op = "set_allowed" /\ x \in Instr /\ x.on
      /\ x.es \in SUBSET Exes /\ x \notin Exits
      /\ \A e : x \in Grant(e) <=> e \in x.es
      /\ \A S : x \in S => Ahead(S)
  <2>1. /\ prog["gui"] # <<>> /\ x.op = "set_allowed" /\ x \in Instr /\ x \notin Revokes
        /\ x.es \in SUBSET Exes /\ x \notin Exits
        /\ \A S : x \in S => Ahead(S)
    BY SweepAt DEF SetAllowed
  <2>2. QED
    BY <2>1 DEF Revokes, Grant
<1>2. /\ cfg' = [cfg EXCEPT !.allowed = @ \cup x.es] /\ Then("gui", s)
      /\ UNCHANGED <<osRules, ldBlocked, decided, temp, queue, dialogs, app>>
  BY <1>1 DEF SetAllowed, When, ldVars, uiVars, lifeVars
<1>3. /\ cfg'.fw = cfg.fw /\ cfg'.lock = cfg.lock /\ cfg'.allowed = cfg.allowed \cup x.es
      /\ cfg'.tagOf = cfg.tagOf /\ cfg'.tagAllowed = cfg.tagAllowed
      /\ cfg'.blocked = cfg.blocked
  BY <1>2 DEF Known, TypeOK, Settings
<1>4. FreeStays
  BY <1>1, <1>3 DEF FreeStays, PermAllowed
<1>5. ListedStays
  BY <1>1, <1>3 DEF ListedStays, Raise
<1>6. /\ y \in Instr /\ y.op = "lockdown_unblock" /\ y.es = x.es
      /\ s \in Program /\ OnlyOps(s, {"lockdown_unblock"}) /\ \A S : Has(s, S) => y \in S
  <2>1. "lockdown_unblock" \in OpNames \ TagOps
    BY DEF OpNames, TagOps
  <2> DEFINE es == x.es
  <2>2. es \in SUBSET Exes
    BY <1>1
  <2> HIDE DEF es
  <2>3. LET z == I("lockdown_unblock", es, NoTag, FALSE)
        IN  /\ z \in Instr /\ z.op = "lockdown_unblock" /\ z.es = es
            /\ Loop("lockdown_unblock", es) \in Program
            /\ \A S : Has(Loop("lockdown_unblock", es), S) => z \in S
            /\ OnlyOps(Loop("lockdown_unblock", es), {"lockdown_unblock"})
    BY <2>1, <2>2, LoopInstr, Zenon
  <2>4. QED
    BY <2>3 DEF es
<1>7. /\ OnlyOps(s, GuiLoops) /\ ~Has(s, Named(StopOps))
      /\ \A op, e : Has(s, Of(op, e)) => e \in x.es
  <2>1. OnlyOps(s, GuiLoops)
    BY <1>6, OnlyOpsMono DEF GuiLoops
  <2>2. y \notin Named(StopOps) /\ \A op, e : y \in Of(op, e) => e \in x.es
    BY <1>6 DEF Named, StopOps, Of
  <2>3. QED
    BY <1>6, <2>1, <2>2
<1>8. \A e : x \notin Of("temp_allow", e) /\ x \notin Of("finish", e)
  BY <1>1 DEF Of
<1> HIDE DEF x, s, y
<1>9. ASSUME NEW e \in Exes, Denied(e)
      PROVE  Spares(s, e)
  <2>1. e \notin x.es
    BY <1>1, <1>9 DEF Denied, Free
  <2>2. QED
    BY <1>2, <1>7, <1>8, <2>1 DEF Spares, x
<1>10. QED
  BY <1>1, <1>2, <1>3, <1>4, <1>5, <1>6, <1>7, <1>9, GuiSweep DEF x

(* An instruction that leaves the settings and the books alone.            *)
LEMMA NetshSweep ==
  ASSUME Known, SweepInv, NEW op \in {"block", "unblock", "block_if_on", "unblock_unlisted",
                                      "apply_blocks", "remove_all", "clear"},
         At("gui", op), NEW s \in Program, Then("gui", s), OnlyOps(s, GuiLoops),
         Has(s, Named(StopOps)) => op \in StopOps,
         UNCHANGED <<cfg, app, ldBlocked, decided, temp, queue, dialogs>>,
         \A e \in Exes, op1 \in PassOps :
           Live /\ Has(s, Of(op1, e)) => Cur("gui") \in Of(op1, e),
         \A e \in Exes : e \in osRules => e \in osRules' \/ Cur("gui") \in Of("unblock", e)
  PROVE  SweepInv'
<1> DEFINE x == Cur("gui")
<1>1. /\ prog["gui"] # <<>> /\ x.op = op /\ x \in Instr /\ x \notin Exits
      /\ x \in Named(StopOps) <=> op \in StopOps
  BY SweepAt
<1>2. FreeStays /\ ListedStays
  BY <1>1 DEF FreeStays, ListedStays, Grant, Raise
<1>3. \A e : x \notin Of("temp_allow", e) /\ x \notin Of("finish", e)
  BY <1>1 DEF Of
<1> HIDE DEF x
<1>4. ASSUME NEW e \in Exes, Live
      PROVE  Spares(s, e)
  BY <1>3, <1>4 DEF Spares, x
<1>5. QED
  BY <1>1, <1>2, <1>4, GuiSweep DEF x

LEMMA BlockAppSweep ==
  ASSUME Known, SweepInv, BlockApp("gui")
  PROVE  SweepInv'
<1>1. PICK e0 \in Cur("gui").es :
        /\ osRules' = osRules \cup ({e0} \cap Valid) /\ ThenRest("gui", e0, <<>>)
  BY DEF BlockApp
<1>2. /\ At("gui", "block") /\ Cur("gui").op = "block" /\ "block" \in GuiLoops \ {"forget"}
      /\ <<>> \in Program /\ OnlyOps(<<>>, GuiLoops) /\ \A S : ~Has(<<>>, S)
  BY SweepAt DEF BlockApp, GuiLoops
<1>3. PICK s \in Program :
        /\ OnlyOps(s, GuiLoops) /\ Then("gui", s)
        /\ \A op1, e : Has(s, Of(op1, e)) => op1 = "block"
        /\ ~Has(s, Named(StopOps))
  BY <1>1, <1>2, SweepLoop DEF StopOps
<1>4. UNCHANGED <<cfg, app, ldBlocked, decided, temp, queue, dialogs>>
  BY DEF BlockApp, ldVars, uiVars, lifeVars
<1>5. QED
  BY <1>1, <1>2, <1>3, <1>4, NetshSweep DEF PassOps

LEMMA UnblockAppSweep ==
  ASSUME Known, SweepInv, UnblockApp("gui")
  PROVE  SweepInv'
<1>1. PICK e0 \in Cur("gui").es : osRules' = osRules \ {e0} /\ ThenRest("gui", e0, <<>>)
  BY DEF UnblockApp
<1>2. /\ At("gui", "unblock") /\ Cur("gui").op = "unblock" /\ Cur("gui") \in Instr
      /\ "unblock" \in GuiLoops \ {"forget"}
      /\ <<>> \in Program /\ OnlyOps(<<>>, GuiLoops) /\ \A S : ~Has(<<>>, S)
  BY SweepAt DEF UnblockApp, GuiLoops
<1>3. PICK s \in Program :
        /\ OnlyOps(s, GuiLoops) /\ Then("gui", s)
        /\ \A op1, e : Has(s, Of(op1, e)) => op1 = "unblock" /\ e \in Cur("gui").es \ {e0}
        /\ ~Has(s, Named(StopOps))
  BY <1>1, <1>2, SweepLoop DEF StopOps
<1>4. UNCHANGED <<cfg, app, ldBlocked, decided, temp, queue, dialogs>>
  BY DEF UnblockApp, ldVars, uiVars, lifeVars
<1>5. \A e : Cur("gui") \in Of("unblock", e) <=> e \in Cur("gui").es
  BY <1>2 DEF Of
<1>6. /\ \A e \in Exes, op1 \in PassOps :
           Live /\ Has(s, Of(op1, e)) => Cur("gui") \in Of(op1, e)
      /\ \A e \in Exes : e \in osRules => e \in osRules' \/ Cur("gui") \in Of("unblock", e)
  BY <1>1, <1>3, <1>5
<1>7. QED
  BY <1>2, <1>3, <1>4, <1>6, NetshSweep

LEMMA BlockIfOnSweep ==
  ASSUME Known, SweepInv, BlockIfOn("gui")
  PROVE  SweepInv'
<1>1. PICK e0 \in Cur("gui").es :
        ThenRest("gui", e0, When(cfg.fw, DoExe("block", e0, FALSE)))
  BY DEF BlockIfOn
<1> DEFINE b == When(cfg.fw, DoExe("block", e0, FALSE))
<1>2. /\ At("gui", "block_if_on") /\ Cur("gui").es \subseteq Exes
      /\ "block_if_on" \in GuiLoops \ {"forget"}
  BY SweepAt DEF BlockIfOn, GuiLoops
<1>3. /\ b \in Program /\ OnlyOps(b, GuiLoops)
      /\ \A op1 \in PassOps : \A e : ~Has(b, Of(op1, e))
      /\ ~Has(b, Named(StopOps))
  <2>1. /\ DoExe("block", e0, FALSE) \in Program
        /\ OnlyOps(DoExe("block", e0, FALSE), {"block"})
    BY <1>2, ExeInstr DEF OpNames, TagOps
  <2>2. b \in Program /\ OnlyOps(b, {"block"})
    BY <2>1, WhenType, OnlyOpsWhen
  <2>3. /\ \A op1 \in PassOps : \A e : \A y \in Of(op1, e) : y.op \notin {"block"}
        /\ \A y \in Named(StopOps) : y.op \notin {"block"}
    BY DEF PassOps, Of, Named, StopOps
  <2> HIDE DEF b
  <2>4. QED
    BY <2>2, <2>3, OnlyHas, OnlyOpsMono DEF GuiLoops
<1> HIDE DEF b
<1>4. PICK s \in Program :
        /\ OnlyOps(s, GuiLoops) /\ Then("gui", s)
        /\ \A op1, e : Has(s, Of(op1, e)) => Has(b, Of(op1, e)) \/ op1 = "block_if_on"
        /\ ~Has(s, Named(StopOps))
  <2>1. ThenRest("gui", e0, b)
    BY <1>1 DEF b
  <2>2. "block_if_on" \notin StopOps
    BY DEF StopOps
  <2>3. QED
    BY <1>2, <1>3, <2>1, <2>2, SweepLoop
<1>5. UNCHANGED <<cfg, app, osRules, ldBlocked, decided, temp, queue, dialogs>>
  BY DEF BlockIfOn, ldVars, uiVars, lifeVars
<1>6. \A e \in Exes, op1 \in PassOps : ~Has(s, Of(op1, e))
  BY <1>3, <1>4 DEF PassOps
<1>7. QED
  BY <1>2, <1>4, <1>5, <1>6, NetshSweep

LEMMA UnblockUnlistedSweep ==
  ASSUME Known, SweepInv, UnblockUnlisted("gui")
  PROVE  SweepInv'
<1>1. PICK e0 \in Cur("gui").es :
        ThenRest("gui", e0, When(e0 \notin cfg.blocked, DoExe("unblock", e0, FALSE)))
  BY DEF UnblockUnlisted
<1> DEFINE b == When(e0 \notin cfg.blocked, DoExe("unblock", e0, FALSE))
<1>2. /\ At("gui", "unblock_unlisted") /\ Cur("gui").es \subseteq Exes /\ ~Live
      /\ "unblock_unlisted" \in GuiLoops \ {"forget"} /\ "unblock_unlisted" \in StopOps
  BY SweepAt DEF UnblockUnlisted, GuiLoops, StopOps
<1>3. b \in Program /\ OnlyOps(b, GuiLoops)
  <2>1. /\ DoExe("unblock", e0, FALSE) \in Program
        /\ OnlyOps(DoExe("unblock", e0, FALSE), {"unblock"})
    BY <1>2, ExeInstr DEF OpNames, TagOps
  <2>2. b \in Program /\ OnlyOps(b, {"unblock"})
    BY <2>1, WhenType, OnlyOpsWhen
  <2> HIDE DEF b
  <2>3. QED
    BY <2>2, OnlyOpsMono DEF GuiLoops
<1> HIDE DEF b
<1>4. PICK s \in Program : OnlyOps(s, GuiLoops) /\ Then("gui", s)
  BY <1>1, <1>2, <1>3, SweepLoop DEF b
<1>5. UNCHANGED <<cfg, app, osRules, ldBlocked, decided, temp, queue, dialogs>>
  BY DEF UnblockUnlisted, ldVars, uiVars, lifeVars
<1>6. QED
  BY <1>2, <1>4, <1>5, NetshSweep

LEMMA BulkSweep ==
  ASSUME Known, SweepInv,
         ApplyBlocks("gui") \/ RemoveAllRules("gui") \/ ClearLockdownBlocks("gui")
  PROVE  SweepInv'
<1>1. UNCHANGED <<cfg, app, osRules, ldBlocked, decided, temp, queue, dialogs>>
  BY DEF ApplyBlocks, RemoveAllRules, ClearLockdownBlocks, ldVars, uiVars, lifeVars
<1>2. ASSUME NEW op \in {"block", "unblock", "unblock_unlisted"}, NEW es \in SUBSET Exes
      PROVE  /\ Loop(op, es) \in Program /\ OnlyOps(Loop(op, es), {op})
             /\ OnlyOps(Loop(op, es), GuiLoops)
  <2>1. op \in OpNames \ TagOps /\ {op} \subseteq GuiLoops
    BY DEF OpNames, TagOps, GuiLoops
  <2>2. Loop(op, es) \in Program /\ OnlyOps(Loop(op, es), {op})
    BY <2>1, LoopInstr
  <2>3. QED
    BY <2>1, <2>2, OnlyOpsMono
<1>3. CASE ApplyBlocks("gui")
  <2> DEFINE s == Loop("block", UserBlocked(cfg))
  <2>1. UserBlocked(cfg) \in SUBSET Exes
    BY DEF UserBlocked, TagBlocked, Known, TypeOK, Settings
  <2>2. At("gui", "apply_blocks") /\ Then("gui", s)
    BY <1>3 DEF ApplyBlocks
  <2>3. s \in Program /\ OnlyOps(s, {"block"}) /\ OnlyOps(s, GuiLoops)
    BY <1>2, <2>1
  <2> HIDE DEF s
  <2>4. /\ \A op1 \in PassOps : \A e : \A y \in Of(op1, e) : y.op \notin {"block"}
        /\ \A y \in Named(StopOps) : y.op \notin {"block"}
    BY DEF PassOps, Of, Named, StopOps
  <2>5. ~Has(s, Named(StopOps)) /\ \A e \in Exes, op1 \in PassOps : ~Has(s, Of(op1, e))
    BY <2>3, <2>4, OnlyHas
  <2>6. QED
    BY <1>1, <2>2, <2>3, <2>5, NetshSweep
<1>4. CASE RemoveAllRules("gui")
  <2> DEFINE s == Loop("unblock", osRules)
  <2>1. osRules \in SUBSET Exes
    BY SetsAssumption DEF Known, TypeOK
  <2>2. At("gui", "remove_all") /\ Then("gui", s)
    BY <1>4 DEF RemoveAllRules
  <2>3. s \in Program /\ OnlyOps(s, {"unblock"}) /\ OnlyOps(s, GuiLoops)
    BY <1>2, <2>1
  <2> HIDE DEF s
  <2>4. \A y \in Named(StopOps) : y.op \notin {"unblock"}
    BY DEF Named, StopOps
  <2>5. ~Has(s, Named(StopOps)) /\ ~Live
    BY <2>2, <2>3, <2>4, OnlyHas, SweepAt
  <2>6. QED
    BY <1>1, <2>2, <2>3, <2>5, NetshSweep
<1>5. CASE ClearLockdownBlocks("gui")
  <2> DEFINE u == Loop("unblock_unlisted", ldBlocked)
             w == Do("forget")
  <2>1. /\ At("gui", "clear") /\ Then("gui", u \o w) /\ "clear" \in StopOps
    BY <1>5 DEF ClearLockdownBlocks, StopOps
  <2>2. u \in Program /\ OnlyOps(u, GuiLoops)
    BY <1>2 DEF Known, TypeOK
  <2>3. w \in Program /\ OnlyOps(w, GuiLoops)
    BY DoType, OnlyOpsProgs DEF OpNames, TagOps, GuiLoops
  <2> HIDE DEF u, w
  <2>4. u \o w \in Program /\ OnlyOps(u \o w, GuiLoops)
    BY <2>2, <2>3, CatType, OnlyOpsCat
  <2>5. ~Live
    BY <2>1, SweepAt
  <2>6. QED
    BY <1>1, <2>1, <2>4, <2>5, NetshSweep
<1>6. QED
  BY <1>3, <1>4, <1>5

-----------------------------------------------------------------------------
(* A temporary pass, step by step.                                         *)

LEMMA TempAllowSweep ==
  ASSUME Known, SweepInv, TempAllow("gui")
  PROVE  SweepInv'
<1> DEFINE x == Cur("gui")
           T == Tail(prog["gui"])
<1>1. /\ At("gui", "temp_allow") /\ Then("gui", <<>>)
      /\ temp' = [e \in Exes |-> IF e \in x.es THEN "live" ELSE temp[e]]
      /\ UNCHANGED <<cfg, app, osRules, ldBlocked, decided, queue, dialogs>>
  BY DEF TempAllow, Advance, uiVars, lifeVars
<1>2. /\ prog["gui"] # <<>> /\ x.op = "temp_allow" /\ x \in Instr
      /\ \A S : ~Has(<<>>, S) /\ <<>> \in Program /\ OnlyOps(<<>>, GuiLoops)
      /\ x \notin Exits
  BY <1>1, SweepAt
<1>3. FreeStays /\ ListedStays
  BY <1>1, <1>2 DEF FreeStays, ListedStays, Grant, Raise
<1>4. /\ \A S : Ahead(S) <=> x \in S \/ Has(T, S)
      /\ \A S : Ahead(S)' <=> Has(T, S)
  BY <1>1, <1>2, Splits DEF Known, Ahead
<1>5. \A op, e : x \in Of(op, e) <=> op = "temp_allow" /\ e \in x.es
  BY <1>2 DEF Of
<1>6. prog'["mon"] = prog["mon"]
  BY <1>1, TypeSplit DEF Known, Then, Threads
<1> HIDE DEF x, T
<1>7. ASSUME NEW e \in Exes, Enforced(e), e \notin x.es
      PROVE  Spares(<<>>, e)
  BY <1>1, <1>2, <1>5, <1>7 DEF Spares, x
<1>8. ASSUME NEW e \in Exes, Enforced(e), e \in x.es
      PROVE  Enforced(e)'
  <2>1. /\ temp'[e] = "live"
        /\ Queued(e)' <=> Queued(e)
        /\ \A op : MonAt(op, e)' <=> MonAt(op, e)
    BY <1>1, <1>6, <1>8 DEF Queued, MonAt, At, Cur
  <2>2. Ahead(Of("temp_allow", e)) /\ Ahead(Pass(e))
    BY <1>4, <1>5, <1>8, AheadPass DEF PassOps
  <2>3. e \in ldBlocked /\ Ends(prog["gui"], e) /\ ~Queued(e)
    BY <1>8, <2>2 DEF Enforced
  <2>4. Ends(prog'["gui"], e)
    BY <1>1, <1>2, <1>5, <2>3, EndsStays DEF x, Known
  <2>5. /\ Ahead(Pass(e))' => Ahead(Pass(e))
        /\ Ahead(Of("unblock", e))' => Ahead(Of("unblock", e))
    BY <1>4, AheadPass
  <2>6. QED
    BY <1>1, <1>8, <2>1, <2>2, <2>3, <2>4, <2>5 DEF Enforced
<1>9. QED
  BY <1>1, <1>2, <1>3, <1>7, <1>8, GuiSweep DEF x

(* The books are cleared of e only after its pass has been noted.          *)
LEMMA LockdownUnblockSweep ==
  ASSUME Known, SweepInv, LockdownUnblock("gui")
  PROVE  SweepInv'
<1> DEFINE x == Cur("gui")
           T == Tail(prog["gui"])
<1>1. PICK e0 \in x.es :
        /\ decided' = decided \ {e0} /\ ldBlocked' = ldBlocked \ {e0}
        /\ ThenRest("gui", e0, When(e0 \in ldBlocked \ cfg.blocked, DoExe("unblock", e0, FALSE)))
  BY DEF LockdownUnblock
<1> DEFINE b == When(e0 \in ldBlocked \ cfg.blocked, DoExe("unblock", e0, FALSE))
<1>2. /\ At("gui", "lockdown_unblock") /\ prog["gui"] # <<>> /\ x.op = "lockdown_unblock"
      /\ x \in Instr /\ x.es \subseteq Exes /\ x \notin Exits
      /\ "lockdown_unblock" \in GuiLoops \ {"forget"} /\ "lockdown_unblock" \notin StopOps
  BY SweepAt DEF LockdownUnblock, GuiLoops, StopOps
<1>3. /\ b \in Program /\ OnlyOps(b, GuiLoops)
      /\ \A op1, e : Has(b, Of(op1, e)) => op1 = "unblock" /\ e = e0
      /\ ~Has(b, Named(StopOps))
  <2> DEFINE y == I("unblock", {e0}, NoTag, FALSE)
  <2>1. "unblock" \in OpNames \ TagOps /\ e0 \in Exes
    BY <1>2 DEF OpNames, TagOps
  <2>2. /\ y \in Instr /\ y.op = "unblock" /\ y.es = {e0}
        /\ DoExe("unblock", e0, FALSE) \in Program
        /\ \A S : Has(DoExe("unblock", e0, FALSE), S) <=> y \in S
        /\ OnlyOps(DoExe("unblock", e0, FALSE), {"unblock"})
    BY <2>1, ExeInstr
  <2> HIDE DEF y
  <2>3. /\ b \in Program /\ OnlyOps(b, {"unblock"}) /\ \A S : Has(b, S) => y \in S
    <3>1. b \in Program /\ OnlyOps(b, {"unblock"})
      BY <2>2, WhenType, OnlyOpsWhen
    <3>2. \A S : ~Has(<<>>, S)
      BY HasOne
    <3>3. QED
      BY <2>2, <3>1, <3>2 DEF When
  <2>4. /\ \A op1, e : y \in Of(op1, e) => op1 = "unblock" /\ e = e0
        /\ y \notin Named(StopOps)
    BY <2>2 DEF Of, Named, StopOps
  <2> HIDE DEF b
  <2>5. OnlyOps(b, GuiLoops)
    BY <2>3, OnlyOpsMono DEF GuiLoops
  <2>6. QED
    BY <2>3, <2>4, <2>5
<1>4. ThenRest("gui", e0, b)
  BY <1>1
<1> HIDE DEF b, T
<1>5. PICK s \in Program :
        /\ OnlyOps(s, GuiLoops) /\ Then("gui", s)
        /\ \A op1, e : Has(s, Of(op1, e)) =>
             \/ op1 = "unblock" /\ e = e0
             \/ op1 = "lockdown_unblock" /\ e \in x.es \ {e0}
        /\ ~Has(s, Named(StopOps))
  BY <1>2, <1>3, <1>4, SweepLoop
<1>6. /\ UNCHANGED <<cfg, app, osRules, temp, queue, dialogs>>
      /\ FreeStays /\ ListedStays
  <2>1. UNCHANGED <<cfg, app, osRules, temp, queue, dialogs>>
    BY DEF LockdownUnblock, uiVars, lifeVars
  <2>2. QED
    BY <1>2, <2>1 DEF FreeStays, ListedStays, Grant, Raise
<1>7. \A op, e : x \in Of(op, e) <=> op = "lockdown_unblock" /\ e \in x.es
  BY <1>2 DEF Of
<1>8. /\ \A S : Ahead(S) <=> x \in S \/ Has(T, S)
      /\ \A S : Ahead(S)' <=> Has(s, S) \/ Has(T, S)
  BY <1>2, <1>5, Splits DEF Known, Ahead, T
<1>9. prog'["mon"] = prog["mon"]
  BY <1>5, TypeSplit DEF Known, Then, Threads
<1> HIDE DEF x
<1>10. ASSUME NEW e \in Exes, e # e0
       PROVE  Spares(s, e)
  BY <1>1, <1>5, <1>6, <1>7, <1>10 DEF Spares, x
<1>11. ASSUME NEW e \in Exes, Enforced(e), e = e0
       PROVE  Enforced(e)'
  <2>1. /\ Queued(e)' <=> Queued(e)
        /\ \A op : MonAt(op, e)' <=> MonAt(op, e)
    BY <1>6, <1>9 DEF Queued, MonAt, At, Cur
  <2>2. Ahead(Of("lockdown_unblock", e)) /\ Ahead(Pass(e))
    BY <1>1, <1>7, <1>8, <1>11, AheadPass DEF PassOps
  <2>3. ~Ahead(Of("temp_allow", e)) /\ ~Ahead(Of("temp_allow", e))'
    <3>1. ~Has(T, Of("temp_allow", e))
      BY <1>2 DEF SweepInv, Steady, T, Has, Of, Named
    <3>2. QED
      BY <1>5, <1>7, <1>8, <3>1
  <2>4. /\ temp'[e] = "live" /\ e \notin ldBlocked'
        /\ Ends(prog["gui"], e) /\ ~Queued(e)
        /\ ~MonAt("block", e) /\ ~MonAt("note", e) /\ ~MonAt("ask", e)
    BY <1>1, <1>6, <1>11, <2>2, <2>3 DEF Enforced
  <2>5. Ends(prog'["gui"], e)
    BY <1>2, <1>5, <1>7, <2>4, EndsStays DEF Known, x
  <2>6. QED
    BY <1>1, <1>6, <1>11, <2>1, <2>3, <2>4, <2>5 DEF Enforced
<1>12. QED
  BY <1>2, <1>5, <1>6, <1>10, <1>11, GuiSweep DEF x

(* A start finds the memory of a new process.                              *)
LEMMA DownSweep ==
  ASSUME MemoryLost, app' # "up"
  PROVE  SweepInv'
<1>1. /\ prog'["gui"] = <<>> /\ prog'["mon"] = <<>>
      /\ decided' = {} /\ queue' = <<>> /\ dialogs' = {}
  BY DEF MemoryLost, Threads
<1>2. /\ \A S : ~Ahead(S)'
      /\ \A ops : OnlyOps(prog'["gui"], ops)
  <2>1. \A S : ~Has(<<>>, S)
    BY HasOne
  <2>2. QED
    BY <1>1, <2>1 DEF Ahead, OnlyOps
<1>3. Steady'
  BY <1>1, <1>2 DEF Steady
<1>4. ~Live'
  BY DEF Live
<1>5. QED
  BY <1>1, <1>3, <1>4 DEF SweepInv, SweepShape, Loop

(* The other instructions are of handlers that are left out here, or of    *)
(* the monitor thread.                                                     *)
LEMMA GuiStepSweep ==
  ASSUME Known, SweepInv, Step("gui")
  PROVE  SweepInv'
<1>1. \A op : At("gui", op) => op \in OpNames \ OtherOps
  BY SweepAt
<1>2. /\ ~SetExeTag("gui") /\ ~SetTagBlocked("gui") /\ ~SetTagAllowed("gui")
      /\ ~RemoveApp("gui") /\ ~SetFirewallEnabled("gui") /\ ~SetLockdown("gui")
  BY <1>1 DEF SetExeTag, SetTagBlocked, SetTagAllowed, RemoveApp, SetFirewallEnabled,
     SetLockdown, OtherOps, LockdownOps, TagOps
<1>3. ~SweepStep("gui")
  BY <1>1 DEF SweepStep, Scan, Mark, Note, Ask, OtherOps, LockdownOps
<1>4. Exit("gui") => SweepInv'
  BY DownSweep DEF Exit
<1>5. RuleStep("gui") => SweepInv'
  BY <1>2, QuietStepSweep, SetBlockedSweep, SetAllowedSweep, TempAllowSweep,
     LockdownUnblockSweep DEF RuleStep
<1>6. SwitchStep("gui") => SweepInv'
  BY <1>2, QuietStepSweep, BulkSweep DEF SwitchStep
<1>7. CallStep("gui") => SweepInv'
  BY QuietStepSweep, BlockAppSweep, UnblockAppSweep, BlockIfOnSweep,
     UnblockUnlistedSweep DEF CallStep
<1>8. LifeStep("gui") => SweepInv'
  BY <1>4, QuietStepSweep DEF LifeStep
<1>9. QED
  BY <1>3, <1>5, <1>6, <1>7, <1>8 DEF Step

-----------------------------------------------------------------------------
(* The monitor thread: where it is in the sweep.                           *)

LEMMA ConsProgram ==
  ASSUME NEW x \in Instr, NEW u \in Program
  PROVE  /\ <<x>> \o u \in Program /\ <<x>> \o u # <<>>
         /\ Head(<<x>> \o u) = x /\ Tail(<<x>> \o u) = u
<1> DEFINE p == <<x>> \o u
<1>1. /\ <<x>> \in Program /\ Len(<<x>>) = 1 /\ Len(u) \in Nat
      /\ p \in Program /\ Len(p) = 1 + Len(u)
      /\ \A i \in 1..1 + Len(u) : p[i] = IF i <= 1 THEN x ELSE u[i - 1]
  BY ConcatProperties DEF Program
<1>2. p # <<>> /\ Head(p) = p[1] /\ p[1] = x
  BY <1>1 DEF Program
<1>3. /\ Tail(p) \in Program /\ Len(Tail(p)) = Len(u)
      /\ \A i \in 1..Len(u) : Tail(p)[i] = p[i + 1]
  BY <1>1, <1>2, HeadTailProperties DEF Program
<1> HIDE DEF p
<1>4. \A i \in 1..Len(u) : p[i + 1] = u[i]
  BY <1>1
<1>5. Tail(p) = u
  BY <1>3, <1>4, SeqEqual DEF Program
<1>6. QED
  BY <1>1, <1>2, <1>5 DEF p

(* The program of the sweep is at op for e, or at the loop.                *)
Heads(p, op, e) == p # <<>> /\ Head(p).op = op /\ Head(p).es = {e}
AtLoop(p) == p # <<>> => Head(p).op = "scan"

LEMMA ConsHeads ==
  ASSUME NEW op \in OpNames \ TagOps, NEW e \in Exes, NEW u \in Program,
         NEW p, p = DoExe(op, e, FALSE) \o u
  PROVE  p \in Program /\ Heads(p, op, e) /\ Tail(p) = u
<1> DEFINE x == I(op, {e}, NoTag, FALSE)
<1>1. x \in Instr /\ x.op = op /\ x.es = {e} /\ p = <<x>> \o u
  BY ExeInstr
<1> HIDE DEF x
<1>2. p \in Program /\ p # <<>> /\ Head(p) = x /\ Tail(p) = u
  BY <1>1, ConsProgram
<1>3. QED
  BY <1>1, <1>2 DEF Heads

LEMMA LoopHeads ==
  ASSUME NEW es \in SUBSET Exes, NEW p, p = Loop("scan", es)
  PROVE  /\ p \in Program /\ AtLoop(p)
         /\ p # <<>> => Tail(p) = <<>> /\ Head(p).es = es
<1>1. "scan" \in OpNames \ TagOps
  BY DEF OpNames, TagOps
<1> DEFINE x == I("scan", es, NoTag, FALSE)
<1>2. x.op = "scan" /\ x.es = es /\ p = (IF es = {} THEN <<>> ELSE <<x>>) /\ p \in Program
  BY <1>1, LoopInstr
<1>3. Head(<<x>>) = x /\ Tail(<<x>>) = <<>>
  OBVIOUS
<1> HIDE DEF x
<1>4. QED
  BY <1>2, <1>3 DEF AtLoop

(* What is left to do about one executable, in the order of the sweep.     *)
Left(op, e, rest) ==
  CASE op = "block" -> Note1(e) \o (Ask1(e) \o rest)
    [] op = "note" -> Ask1(e) \o rest
    [] op \in {"mark", "ask"} -> rest

SweepsOne == {"mark", "block", "note", "ask"}

LEMMA LeftShape ==
  ASSUME NEW e \in Exes, NEW es \in SUBSET Exes, NEW rest, rest = Loop("scan", es)
  PROVE  /\ \A op \in SweepsOne : Left(op, e, rest) \in Program
         /\ Heads(Left("block", e, rest), "note", e)
         /\ Heads(Left("note", e, rest), "ask", e)
         /\ Left("mark", e, rest) = rest /\ Left("ask", e, rest) = rest /\ AtLoop(rest)
<1> DEFINE k == Ask1(e) \o rest
           n == Note1(e) \o k
<1>1. rest \in Program /\ AtLoop(rest)
  BY LoopHeads
<1>2. "ask" \in OpNames \ TagOps /\ "note" \in OpNames \ TagOps
  BY DEF OpNames, TagOps
<1>3. k \in Program /\ Heads(k, "ask", e)
  BY <1>1, <1>2, ConsHeads DEF Ask1
<1> HIDE DEF k
<1>4. n \in Program /\ Heads(n, "note", e)
  BY <1>2, <1>3, ConsHeads DEF Note1
<1> HIDE DEF n
<1>5. /\ Left("block", e, rest) = n /\ Left("note", e, rest) = k
      /\ Left("mark", e, rest) = rest /\ Left("ask", e, rest) = rest
  BY DEF Left, n, k
<1>6. \A op \in SweepsOne : Left(op, e, rest) \in Program
  BY <1>1, <1>3, <1>4, <1>5 DEF SweepsOne
<1>7. QED
  BY <1>1, <1>3, <1>4, <1>5, <1>6

LEMMA MonIsAt ==
  ASSUME SweepShape, prog["mon"] # <<>>
  PROVE  \E es \in SUBSET Exes :
           \/ /\ Cur("mon").op = "scan" /\ Cur("mon").es = es
              /\ prog["mon"] = Loop("scan", es) /\ Tail(prog["mon"]) = <<>>
           \/ \E e \in Exes, op \in SweepsOne :
                /\ Cur("mon").op = op /\ Cur("mon").es = {e}
                /\ Tail(prog["mon"]) = Left(op, e, Loop("scan", es))
<1>1. PICK es \in SUBSET Exes :
        \/ prog["mon"] = Loop("scan", es)
        \/ \E e \in Exes, op \in SweepsOne :
             prog["mon"] = DoExe(op, e, FALSE) \o Left(op, e, Loop("scan", es))
  BY DEF SweepShape, SweepsOne, Left, Mark1, Block1, Note1, Ask1
<1>2. CASE prog["mon"] = Loop("scan", es)
  BY <1>2, LoopHeads DEF Cur, AtLoop
<1>3. ASSUME NEW e \in Exes, NEW op \in SweepsOne,
             prog["mon"] = DoExe(op, e, FALSE) \o Left(op, e, Loop("scan", es))
      PROVE  /\ Cur("mon").op = op /\ Cur("mon").es = {e}
             /\ Tail(prog["mon"]) = Left(op, e, Loop("scan", es))
  <2>1. op \in OpNames \ TagOps
    BY DEF SweepsOne, OpNames, TagOps
  <2> DEFINE u == Left(op, e, Loop("scan", es))
             p == prog["mon"]
  <2>2. u \in Program /\ p = DoExe(op, e, FALSE) \o u
    BY <1>3, LeftShape
  <2> HIDE DEF u, p
  <2>3. Heads(p, op, e) /\ Tail(p) = u
    BY <2>1, <2>2, ConsHeads
  <2>4. QED
    BY <2>3 DEF Heads, Cur, u, p
<1>4. QED
  BY <1>1, <1>2, <1>3

(* What a step of the sweep leaves alone.                                  *)
LEMMA MonSweep ==
  ASSUME Known, SweepInv, prog["mon"] # <<>>, NEW p, prog'["mon"] = p,
         prog'["gui"] = prog["gui"], UNCHANGED <<cfg, temp, dialogs, app>>,
         \E es \in SUBSET Exes :
           \/ p = Loop("scan", es)
           \/ \E e \in Exes, op \in SweepsOne :
                p = DoExe(op, e, FALSE) \o Left(op, e, Loop("scan", es)),
         Live => \A e \in Exes : Denied(e) /\ Enforced(e) => Enforced(e)'
  PROVE  SweepInv'
<1>1. \A S : Ahead(S)' <=> Ahead(S)
  BY DEF Ahead
<1>2. /\ Steady' /\ (Live' <=> Live)
      /\ \A e \in Exes : Denied(e)' <=> Denied(e)
      /\ \A e \in Exes : Free(e)' <=> Free(e)
  BY <1>1 DEF Steady, Live, LockedDown, Denied, Free, Listed, SweepInv
<1>3. SweepShape'
  BY DEF SweepShape, SweepsOne, Left, Mark1, Block1, Note1, Ask1
<1>4. app = "up"
  BY DEF Known, PromptInv, LifeInv, Idle, Threads
<1>5. QED
  BY <1>2, <1>3, <1>4 DEF SweepInv

LEMMA MonThen ==
  ASSUME Known, NEW s, Then("mon", s)
  PROVE  prog'["mon"] = s \o Tail(prog["mon"]) /\ prog'["gui"] = prog["gui"]
BY TypeSplit DEF Known, Then, Threads

(* After a step about e0 the sweep is at e0 or at its loop.                *)
LEMMA OneHead ==
  ASSUME NEW op \in SweepsOne, NEW e0 \in Exes, NEW es \in SUBSET Exes,
         prog'["mon"] = Left(op, e0, Loop("scan", es)), NEW e
  PROVE  /\ ~MonAt("mark", e)' /\ ~MonAt("block", e)'
         /\ MonAt("note", e)' => op = "block" /\ e = e0
         /\ MonAt("ask", e)' => op = "note" /\ e = e0
<1> DEFINE p == prog'["mon"]
<1>1. \/ op \in {"mark", "ask"} /\ AtLoop(p)
      \/ op = "block" /\ Heads(p, "note", e0)
      \/ op = "note" /\ Heads(p, "ask", e0)
  BY LeftShape DEF SweepsOne
<1>2. \A op1 : MonAt(op1, e)' <=> p # <<>> /\ Head(p).op = op1 /\ e \in Head(p).es
  BY DEF MonAt, At, Cur
<1> HIDE DEF p
<1>3. QED
  BY <1>1, <1>2 DEF Heads, AtLoop

LEMMA MonAdvance ==
  ASSUME Known, SweepShape, NEW op \in SweepsOne, At("mon", op),
         Then("mon", <<>>) \/ \E e \in Cur("mon").es : ThenRest("mon", e, <<>>)
  PROVE  /\ prog["mon"] # <<>> /\ prog'["gui"] = prog["gui"]
         /\ \E e0 \in Exes, es \in SUBSET Exes :
              /\ Cur("mon").es = {e0} /\ prog'["mon"] = Left(op, e0, Loop("scan", es))
              /\ \/ Left(op, e0, Loop("scan", es)) = Loop("scan", es)
                 \/ \E op1 \in SweepsOne :
                      Left(op, e0, Loop("scan", es))
                        = DoExe(op1, e0, FALSE) \o Left(op1, e0, Loop("scan", es))
<1>1. prog["mon"] # <<>> /\ Cur("mon").op = op /\ op # "scan"
  BY DEF At, Cur, SweepsOne
<1>2. PICK e0 \in Exes, es \in SUBSET Exes :
        Cur("mon").es = {e0} /\ Tail(prog["mon"]) = Left(op, e0, Loop("scan", es))
  BY <1>1, MonIsAt
<1> DEFINE u == Left(op, e0, Loop("scan", es))
<1>3. u \in Program
  BY LeftShape
<1>4. \/ u = Loop("scan", es)
      \/ \E op1 \in SweepsOne : u = DoExe(op1, e0, FALSE) \o Left(op1, e0, Loop("scan", es))
  BY DEF SweepsOne, Left, Note1, Ask1
<1> HIDE DEF u
<1>5. Then("mon", <<>>)
  <2>1. <<>> \o <<>> = <<>>
    BY ConcatEmptySeq, EmptySeq DEF Program
  <2>2. ASSUME ThenRest("mon", e0, <<>>)
        PROVE  Then("mon", <<>>)
    BY <1>2, <2>1, <2>2 DEF ThenRest, Cur, Loop
  <2>3. QED
    BY <1>2, <2>2
<1>6. prog'["mon"] = u /\ prog'["gui"] = prog["gui"]
  <2>1. prog'["mon"] = <<>> \o u /\ prog'["gui"] = prog["gui"]
    BY <1>2, <1>5, MonThen DEF u
  <2>2. QED
    BY <1>3, <2>1, ConcatEmptySeq DEF Program
<1>7. QED
  BY <1>1, <1>2, <1>4, <1>6 DEF u

(* The block of e0 and the two steps that go with it, or the mark alone.   *)
LEMMA MonOneSweep ==
  ASSUME Known, SweepInv, BlockApp("mon") \/ Mark("mon") \/ Note("mon") \/ Ask("mon")
  PROVE  SweepInv'
<1>1. PICK op \in SweepsOne :
        /\ At("mon", op)
        /\ Then("mon", <<>>) \/ \E e \in Cur("mon").es : ThenRest("mon", e, <<>>)
        /\ op = "block" => BlockApp("mon")
        /\ op = "mark" => Mark("mon")
        /\ op = "note" => Note("mon")
        /\ op = "ask" => Ask("mon")
  BY DEF BlockApp, Mark, Note, Ask, Advance, At, SweepsOne
<1>2. PICK e0 \in Exes, es \in SUBSET Exes :
        /\ prog["mon"] # <<>> /\ prog'["gui"] = prog["gui"]
        /\ Cur("mon").es = {e0} /\ prog'["mon"] = Left(op, e0, Loop("scan", es))
        /\ \/ Left(op, e0, Loop("scan", es)) = Loop("scan", es)
           \/ \E op1 \in SweepsOne :
                Left(op, e0, Loop("scan", es))
                  = DoExe(op1, e0, FALSE) \o Left(op1, e0, Loop("scan", es))
  BY <1>1, MonAdvance DEF SweepInv
<1>3. /\ UNCHANGED <<cfg, temp, dialogs, app>>
      /\ osRules' = IF op = "block" THEN osRules \cup ({e0} \cap Valid) ELSE osRules
      /\ ldBlocked' = IF op = "note" THEN ldBlocked \cup {e0} ELSE ldBlocked
      /\ decided' = IF op \in {"mark", "note"} THEN decided \cup {e0} ELSE decided
      /\ queue' = queue \/ (op = "ask" /\ queue' = Append(queue, e0))
  BY <1>1, <1>2 DEF BlockApp, Mark, Note, Ask, SweepsOne, ldVars, uiVars, lifeVars
<1>4. MonAt(op, e0) /\ \A e : MonAt(op, e) => e = e0
  BY <1>1, <1>2 DEF MonAt
<1>5. \A e : /\ ~MonAt("mark", e)' /\ ~MonAt("block", e)'
             /\ MonAt("note", e)' => op = "block" /\ e = e0
             /\ MonAt("ask", e)' => op = "note" /\ e = e0
  BY <1>2, OneHead
<1>6. /\ \A S : Ahead(S)' <=> Ahead(S)
      /\ \A e : Ends(prog'["gui"], e) <=> Ends(prog["gui"], e)
  BY <1>2 DEF Ahead
<1>7. /\ \A e \in Exes : Queued(e)' <=> Queued(e) \/ (queue' # queue /\ e = e0)
      /\ queue' = Append(queue, e0) =>
           /\ Len(queue) \in Nat /\ Len(queue') = Len(queue) + 1 /\ queue'[Len(queue) + 1] = e0
           /\ \A i \in 1..Len(queue) : queue'[i] = queue[i]
  <2>1. queue \in Seq(Exes)
    BY DEF Known, TypeOK
  <2>2. QED
    BY <1>3, <2>1 DEF Queued
<1>8. ASSUME NEW e \in Exes, Denied(e), Enforced(e), e # e0
      PROVE  Enforced(e)'
  <2>2. \A i, j \in 1..Len(queue') : queue'[i] = e /\ queue'[j] = e => i = j
    <3>1. \A i, j \in 1..Len(queue) : queue[i] = e /\ queue[j] = e => i = j
      BY <1>8 DEF Enforced
    <3>2. QED
      BY <1>3, <1>7, <1>8, <3>1
  <2>3. Queued(e)' <=> Queued(e)
    BY <1>7, <1>8
  <2>4. /\ \A op1 \in SweepsOne : ~MonAt(op1, e)'
        /\ e \in osRules => e \in osRules'
        /\ e \in ldBlocked' <=> e \in ldBlocked
        /\ e \in decided' => e \in decided
    BY <1>3, <1>5, <1>8 DEF SweepsOne
  <2>5. QED
    BY <1>3, <1>6, <1>8, <2>2, <2>3, <2>4 DEF Enforced, SweepsOne
<1>9. ASSUME Denied(e0), Enforced(e0)
      PROVE  Enforced(e0)'
  <2>1. e0 \in Valid
    BY <1>9 DEF Denied, Exempt
  <2>2. /\ op \in {"block", "note", "ask"} =>
             e0 \notin dialogs /\ ~Queued(e0) /\ ~Ahead(Pass(e0))
        /\ op = "note" => e0 \in osRules
        /\ op = "mark" => e0 \in osRules \/ temp[e0] # "none"
        /\ op = "ask" => e0 \in ldBlocked
    BY <1>4, <1>9 DEF Enforced
  <2>3. \A i, j \in 1..Len(queue') : queue'[i] = e0 /\ queue'[j] = e0 => i = j
    <3>1. CASE queue' = queue
      BY <1>9, <3>1 DEF Enforced
    <3>2. CASE op = "ask" /\ queue' = Append(queue, e0)
      <4>1. \A i \in 1..Len(queue) : queue[i] # e0
        BY <2>2, <3>2 DEF Queued
      <4>2. QED
        BY <1>7, <3>2, <4>1
    <3>3. QED
      BY <1>3, <3>1, <3>2
  <2>4. /\ Ahead(Of("unblock", e0)) => Ahead(Pass(e0))
        /\ Ahead(Pass(e0))' <=> Ahead(Pass(e0))
    BY <1>6, AheadPass DEF PassOps
  <2>5. Queued(e0)' => Queued(e0) \/ op = "ask"
    BY <1>3, <1>7
  <2>6. /\ e0 \in ldBlocked' \/ MonAt("note", e0)' => e0 \in osRules'
        /\ e0 \in decided' \/ MonAt("mark", e0)' => e0 \in osRules' \/ temp'[e0] # "none"
    BY <1>3, <1>5, <1>9, <2>1, <2>2 DEF Enforced
  <2>7. /\ (\E op1 \in {"block", "note", "ask"} : MonAt(op1, e0)') =>
             e0 \notin dialogs' /\ ~Queued(e0)' /\ ~Ahead(Pass(e0))'
        /\ MonAt("ask", e0)' => e0 \in ldBlocked'
    BY <1>3, <1>5, <2>2, <2>4, <2>5
  <2>8. /\ e0 \in dialogs' => ~Queued(e0)'
        /\ e0 \in dialogs' \/ Queued(e0)' =>
             e0 \in ldBlocked' \/ (~Queued(e0)' /\ Ends(prog'["gui"], e0) /\ temp'[e0] = "live")
    BY <1>3, <1>6, <1>9, <2>2, <2>5 DEF Enforced
  <2>9. /\ Ahead(Pass(e0))' => Ends(prog'["gui"], e0) /\ ~Queued(e0)'
        /\ Ahead(Of("temp_allow", e0))' => e0 \in ldBlocked'
        /\ Ahead(Of("lockdown_unblock", e0))' =>
             temp'[e0] = "live" \/ Ahead(Of("temp_allow", e0))'
        /\ Ahead(Of("unblock", e0))' => temp'[e0] = "live" /\ e0 \notin ldBlocked'
    BY <1>3, <1>6, <1>9, <2>2, <2>4, <2>5 DEF Enforced
  <2>10. QED
    BY <2>3, <2>6, <2>7, <2>8, <2>9 DEF Enforced
<1>10. Live => \A e \in Exes : Denied(e) /\ Enforced(e) => Enforced(e)'
  BY <1>8, <1>9
<1>11. QED
  BY <1>2, <1>3, <1>10, MonSweep

(* The three things the sweep may do next about an executable.             *)
LEMMA VerdictForms ==
  ASSUME NEW e \in Exes, NEW w, w = When(e \notin decided, Verdict(e)), NEW rest \in Program
  PROVE  /\ w \in Program
         /\ \/ w \o rest = rest
            \/ /\ w \o rest = DoExe("mark", e, FALSE) \o Left("mark", e, rest)
               /\ Denied(e) => e \in ldBlocked
            \/ /\ w \o rest = DoExe("block", e, FALSE) \o Left("block", e, rest)
               /\ Denied(e) => e \notin ldBlocked /\ temp[e] # "live"
<1> DEFINE b == Block1(e)
           n == Note1(e)
           k == Ask1(e)
           m == Mark1(e)
<1>1. /\ b \in Program /\ n \in Program /\ k \in Program /\ m \in Program
      /\ <<>> \in Program
  <2>1. <<>> \in Program
    BY DEF Program
  <2>2. QED
    BY <2>1, DoExeType DEF OpNames, TagOps, Block1, Note1, Ask1, Mark1
<1>2. \/ w = <<>>
      \/ w = m /\ (Denied(e) => e \in ldBlocked)
      \/ w = (b \o n) \o k /\ (Denied(e) => e \notin ldBlocked /\ temp[e] # "live")
  <2>1. Denied(e) => e \notin Exempt /\ ~PermAllowed(cfg, e) /\ e \notin cfg.blocked
    BY DEF Denied, Free, Listed
  <2>2. CASE e \in decided
    BY <2>2 DEF When
  <2>3. CASE e \notin decided
    <3>1. w = Verdict(e)
      BY <2>3 DEF When
    <3>2. CASE e \in Exempt
      BY <2>1, <3>1, <3>2 DEF Verdict, Mark1
    <3>3. CASE e \notin Exempt /\ (IsAllowed(e) \/ e \in cfg.blocked)
      <4>1. w = When(temp[e] = "none", m)
        BY <3>1, <3>3 DEF Verdict, Mark1
      <4>2. Denied(e) => temp[e] = "live"
        BY <2>1, <3>3 DEF IsAllowed
      <4>3. QED
        BY <4>1, <4>2 DEF When
    <3>4. CASE e \notin Exempt /\ ~IsAllowed(e) /\ e \notin cfg.blocked /\ e \in ldBlocked
      BY <3>1, <3>4 DEF Verdict, Mark1
    <3>5. CASE e \notin Exempt /\ ~IsAllowed(e) /\ e \notin cfg.blocked /\ e \notin ldBlocked
      <4>1. w = (b \o n) \o k
        BY <3>1, <3>5 DEF Verdict, Block1, Note1, Ask1
      <4>2. QED
        BY <3>5, <4>1 DEF IsAllowed
    <3>6. QED
      BY <3>2, <3>3, <3>4, <3>5
  <2>4. QED
    BY <2>2, <2>3
<1> HIDE DEF b, n, k, m
<1>3. <<>> \o rest = rest
  BY ConcatEmptySeq DEF Program
<1>4. (b \o n) \o k \in Program /\ ((b \o n) \o k) \o rest = b \o (n \o (k \o rest))
  <2> DEFINE p == ((b \o n) \o k) \o rest
             q == b \o (n \o (k \o rest))
  <2>1. (b \o n) \o k \in Program /\ p \in Program /\ q \in Program /\ Len(p) = Len(q)
    BY <1>1 DEF Program
  <2>2. ASSUME NEW i \in 1..Len(p)
        PROVE  p[i] = q[i]
    BY <1>1, <2>2 DEF Program
  <2> HIDE DEF p, q
  <2>3. p = q
    BY <2>1, <2>2, SeqEqual DEF Program
  <2>4. QED
    BY <2>1, <2>3 DEF p, q
<1>5. /\ b \o (n \o (k \o rest)) = DoExe("block", e, FALSE) \o Left("block", e, rest)
      /\ m \o rest = DoExe("mark", e, FALSE) \o Left("mark", e, rest)
  BY DEF Left, b, n, k, m, Block1, Mark1
<1>6. QED
  BY <1>1, <1>2, <1>3, <1>4, <1>5

(* The step of the loop that decides about e0.                             *)
LEMMA ScanForms ==
  ASSUME Known, SweepShape, Scan("mon")
  PROVE  /\ prog["mon"] # <<>> /\ prog'["gui"] = prog["gui"]
         /\ \E e0 \in Exes, es \in SUBSET Exes :
              LET p == prog'["mon"]
                  rest == Loop("scan", es)
              IN  \/ p = rest
                  \/ /\ p = DoExe("mark", e0, FALSE) \o Left("mark", e0, rest)
                     /\ Denied(e0) => e0 \in ldBlocked
                  \/ /\ p = DoExe("block", e0, FALSE) \o Left("block", e0, rest)
                     /\ Denied(e0) => e0 \notin ldBlocked /\ temp[e0] # "live"
<1>1. prog["mon"] # <<>> /\ Cur("mon").op = "scan"
  BY DEF Scan, At, Cur
<1>2. PICK es \in SUBSET Exes : Cur("mon").es = es /\ Tail(prog["mon"]) = <<>>
  BY <1>1, MonIsAt DEF SweepsOne
<1>3. PICK e0 \in es : ThenRest("mon", e0, When(e0 \notin decided, Verdict(e0)))
  BY <1>2 DEF Scan
<1> DEFINE w == When(e0 \notin decided, Verdict(e0))
           others == es \ {e0}
           rest == Loop("scan", others)
           p == prog'["mon"]
<1>4. e0 \in Exes /\ others \in SUBSET Exes
  BY <1>2
<1>5. Then("mon", w \o rest)
  BY <1>1, <1>2, <1>3 DEF ThenRest, Cur
<1> HIDE DEF w, others
<1>6. rest \in Program
  BY <1>4, LoopHeads
<1>7. /\ w \in Program
      /\ \/ w \o rest = rest
         \/ /\ w \o rest = DoExe("mark", e0, FALSE) \o Left("mark", e0, rest)
            /\ Denied(e0) => e0 \in ldBlocked
         \/ /\ w \o rest = DoExe("block", e0, FALSE) \o Left("block", e0, rest)
            /\ Denied(e0) => e0 \notin ldBlocked /\ temp[e0] # "live"
  <2> HIDE DEF rest
  <2>1. QED
    BY <1>4, <1>6, VerdictForms DEF w
<1>8. p = w \o rest /\ prog'["gui"] = prog["gui"]
  <2>1. p = (w \o rest) \o <<>> /\ prog'["gui"] = prog["gui"]
    BY <1>2, <1>5, MonThen
  <2>2. w \o rest \in Program
    BY <1>6, <1>7, CatType
  <2>3. QED
    BY <2>1, <2>2, ConcatEmptySeq DEF Program
<1> HIDE DEF p
<1>9. \/ p = rest
      \/ /\ p = DoExe("mark", e0, FALSE) \o Left("mark", e0, rest)
         /\ Denied(e0) => e0 \in ldBlocked
      \/ /\ p = DoExe("block", e0, FALSE) \o Left("block", e0, rest)
         /\ Denied(e0) => e0 \notin ldBlocked /\ temp[e0] # "live"
  BY <1>7, <1>8
<1>10. QED
  BY <1>1, <1>4, <1>8, <1>9 DEF p

(* What the sweep decides it decides on the books as they are; nothing it  *)
(* relies on changes before it has acted.                                  *)
LEMMA ScanSweep ==
  ASSUME Known, SweepInv, Scan("mon")
  PROVE  SweepInv'
<1>1. PICK e0 \in Exes, es \in SUBSET Exes :
        LET p == prog'["mon"]
            rest == Loop("scan", es)
        IN  \/ p = rest
            \/ /\ p = DoExe("mark", e0, FALSE) \o Left("mark", e0, rest)
               /\ Denied(e0) => e0 \in ldBlocked
            \/ /\ p = DoExe("block", e0, FALSE) \o Left("block", e0, rest)
               /\ Denied(e0) => e0 \notin ldBlocked /\ temp[e0] # "live"
  BY ScanForms DEF SweepInv
<1>2. prog["mon"] # <<>> /\ prog'["gui"] = prog["gui"]
  BY ScanForms DEF SweepInv
<1> DEFINE rest == Loop("scan", es)
           p == prog'["mon"]
<1>3. \/ p = rest
      \/ /\ p = DoExe("mark", e0, FALSE) \o Left("mark", e0, rest)
         /\ Denied(e0) => e0 \in ldBlocked
      \/ /\ p = DoExe("block", e0, FALSE) \o Left("block", e0, rest)
         /\ Denied(e0) => e0 \notin ldBlocked /\ temp[e0] # "live"
  BY <1>1
<1>4. /\ UNCHANGED <<cfg, osRules, ldBlocked, decided, temp, queue, dialogs, app>>
  BY DEF Scan, ldVars, uiVars, lifeVars
<1> HIDE DEF p
<1>10. \/ AtLoop(p)
       \/ Heads(p, "mark", e0) /\ (Denied(e0) => e0 \in ldBlocked)
       \/ Heads(p, "block", e0) /\ (Denied(e0) => e0 \notin ldBlocked /\ temp[e0] # "live")
  <2>1. AtLoop(rest)
    BY LoopHeads
  <2>2. Left("mark", e0, rest) \in Program /\ Left("block", e0, rest) \in Program
    BY LeftShape DEF SweepsOne
  <2>3. "mark" \in OpNames \ TagOps /\ "block" \in OpNames \ TagOps
    BY DEF OpNames, TagOps
  <2> HIDE DEF rest
  <2>4. p = DoExe("mark", e0, FALSE) \o Left("mark", e0, rest) => Heads(p, "mark", e0)
    BY <2>2, <2>3, ConsHeads
  <2>5. p = DoExe("block", e0, FALSE) \o Left("block", e0, rest) => Heads(p, "block", e0)
    BY <2>2, <2>3, ConsHeads
  <2>6. QED
    BY <1>3, <2>1, <2>4, <2>5
<1>11. \A op, e : MonAt(op, e)' <=> p # <<>> /\ Head(p).op = op /\ e \in Head(p).es
  BY DEF MonAt, At, Cur, p
<1>12. \A e : /\ ~MonAt("note", e)' /\ ~MonAt("ask", e)'
              /\ MonAt("mark", e)' => e = e0 /\ (Denied(e0) => e0 \in ldBlocked)
              /\ MonAt("block", e)' =>
                   e = e0 /\ (Denied(e0) => e0 \notin ldBlocked /\ temp[e0] # "live")
  BY <1>10, <1>11 DEF Heads, AtLoop
<1>13. /\ \A S : Ahead(S)' <=> Ahead(S)
       /\ \A e : Ends(prog'["gui"], e) <=> Ends(prog["gui"], e)
       /\ \A e : Queued(e)' <=> Queued(e)
  BY <1>2, <1>4 DEF Ahead, Queued
<1>14. ASSUME NEW e \in Exes, Denied(e), Enforced(e)
       PROVE  Enforced(e)'
  <2>1. MonAt("mark", e)' => e \in osRules
    BY <1>12, <1>14 DEF Enforced
  <2>2. e \notin ldBlocked /\ temp[e] # "live" =>
          e \notin dialogs /\ ~Queued(e) /\ ~Ahead(Pass(e))
    BY <1>14, AheadPass DEF Enforced, PassOps
  <2>3. MonAt("block", e)' => e \notin dialogs /\ ~Queued(e) /\ ~Ahead(Pass(e))
    BY <1>12, <1>14, <2>2
  <2>4. QED
    BY <1>4, <1>12, <1>13, <1>14, <2>1, <2>3 DEF Enforced
<1>15. \E es1 \in SUBSET Exes :
         \/ p = Loop("scan", es1)
         \/ \E e \in Exes, op \in SweepsOne :
              p = DoExe(op, e, FALSE) \o Left(op, e, Loop("scan", es1))
  BY <1>3 DEF SweepsOne, rest
<1>16. QED
  BY <1>2, <1>4, <1>14, <1>15, MonSweep DEF p

LEMMA MonStepSweep ==
  ASSUME Known, SweepInv, Step("mon")
  PROVE  SweepInv'
BY MonSweeps, MonOneSweep, ScanSweep DEF Known, SweepStep

-----------------------------------------------------------------------------
(* Ticks, prompts, passes that run out, starts.                            *)

LEMMA SameSweep ==
  ASSUME SweepInv,
         UNCHANGED <<cfg, osRules, ldBlocked, decided, temp, queue, dialogs, app, prog>>
  PROVE  SweepInv'
<1>1. /\ \A S : Ahead(S)' <=> Ahead(S)
      /\ \A op, e : MonAt(op, e)' <=> MonAt(op, e)
      /\ \A e : Queued(e)' <=> Queued(e)
  BY DEF Ahead, MonAt, At, Cur, Queued
<1>2. /\ Steady' /\ (Live' <=> Live) /\ SweepShape'
      /\ \A e \in Exes : Denied(e)' <=> Denied(e)
  BY <1>1 DEF SweepInv, Steady, SweepShape, Live, LockedDown, Denied, Free, Listed
<1>3. \A e \in Exes : Enforced(e) => Enforced(e)'
  BY <1>1 DEF Enforced
<1>4. QED
  BY <1>2, <1>3 DEF SweepInv

LEMMA NoneAhead == Idle("gui") => \A S : ~Ahead(S)
<1>1. \A S : ~Has(<<>>, S)
  BY HasOne
<1>2. QED
  BY <1>1 DEF Ahead, Idle

(* The tick drops the passes that have run out, and with them the mark of  *)
(* the executable, so that the sweep looks at it again.                    *)
LEMMA TickSweep ==
  ASSUME Known, SweepInv, Tick
  PROVE  SweepInv'
<1>1. /\ app = "up" /\ prog \in [Threads -> Program]
      /\ UNCHANGED <<cfg, osRules, ldBlocked, queue, dialogs, app>>
  BY TypeSplit DEF Known, PromptInv, LifeInv, Tick, uiVars, lifeVars
<1>2. PICK es \in SUBSET Exes :
        /\ prog' = [prog EXCEPT !["mon"] = Loop("scan", es)]
        /\ Live => /\ temp' = [e \in Exes |-> IF temp[e] = "expired" THEN "none" ELSE temp[e]]
                   /\ decided' = decided \ {e \in Exes : temp[e] = "expired"}
  <2>1. CASE cfg.lock /\ cfg.fw
    <3>1. PICK es \in SUBSET Exes :
            prog' = [prog EXCEPT !["mon"] = Loop("scan", Busy \cup es)]
      BY <2>1 DEF Tick
    <3>2. temp' = [e \in Exes |-> IF temp[e] = "expired" THEN "none" ELSE temp[e]]
      BY <2>1 DEF Tick
    <3>3. Busy \cup es \in SUBSET Exes
      BY SetsAssumption
    <3>4. QED
      BY <2>1, <3>1, <3>2, <3>3 DEF Tick
  <2>2. CASE ~(cfg.lock /\ cfg.fw)
    <3>1. prog' = [prog EXCEPT !["mon"] = <<>>] /\ ~Live
      BY <2>2 DEF Tick, Known, BlockInv, Quiet, Sweeping, When, Live, LockedDown
    <3>2. <<>> = Loop("scan", {})
      BY DEF Loop
    <3>3. prog' = [prog EXCEPT !["mon"] = Loop("scan", {})]
      BY <3>1, <3>2
    <3>4. WITNESS {} \in SUBSET Exes
    <3>5. QED
      BY <3>1, <3>3
  <2>3. QED
    BY <2>1, <2>2
<1> DEFINE p == Loop("scan", es)
<1>3. prog'["mon"] = p /\ prog'["gui"] = prog["gui"] /\ AtLoop(p)
  BY <1>1, <1>2, LoopHeads DEF Threads
<1>4. SweepShape'
  BY <1>3 DEF SweepShape
<1> HIDE DEF p
<1>5. /\ \A S : Ahead(S)' <=> Ahead(S)
      /\ \A e : Ends(prog'["gui"], e) <=> Ends(prog["gui"], e)
      /\ \A e : Queued(e)' <=> Queued(e)
  BY <1>1, <1>3 DEF Ahead, Queued
<1>6. \A op \in SweepsOne : \A e : ~MonAt(op, e)'
  BY <1>3 DEF SweepsOne, MonAt, At, Cur, AtLoop
<1>7. /\ Steady' /\ (Live' <=> Live)
      /\ \A e \in Exes : Denied(e)' <=> Denied(e)
  BY <1>1, <1>3, <1>5 DEF SweepInv, Steady, Live, LockedDown, Denied, Free, Listed
<1>8. ASSUME NEW e \in Exes, Enforced(e), Live
      PROVE  Enforced(e)'
  <2>1. temp'[e] = (IF temp[e] = "expired" THEN "none" ELSE temp[e])
    BY <1>2, <1>8
  <2>2. e \in decided' => e \in decided /\ temp[e] # "expired"
    BY <1>2, <1>8
  <2>3. QED
    BY <1>1, <1>5, <1>6, <1>8, <2>1, <2>2 DEF Enforced, SweepsOne
<1>9. QED
  BY <1>1, <1>4, <1>7, <1>8 DEF SweepInv

(* A pass runs out between two handlers: nobody counts on it.              *)
LEMMA ExpireSweep ==
  ASSUME Known, SweepInv, NEW e0 \in Exes, Expire(e0)
  PROVE  SweepInv'
<1>1. /\ Idle("gui") /\ temp[e0] = "live" /\ temp' = [temp EXCEPT ![e0] = "expired"]
      /\ UNCHANGED <<cfg, osRules, ldBlocked, decided, queue, dialogs, app, prog>>
  BY DEF Expire, uiVars, lifeVars
<1>2. /\ \A S : ~Ahead(S) /\ ~Ahead(S)'
      /\ \A op, e : MonAt(op, e)' <=> MonAt(op, e)
      /\ \A e : Queued(e)' <=> Queued(e)
      /\ \A e : ~Ends(prog["gui"], e)
  BY <1>1, NoneAhead DEF Ahead, MonAt, At, Cur, Queued, Ends, Idle
<1>3. /\ Steady' /\ (Live' <=> Live) /\ SweepShape'
      /\ \A e \in Exes : Denied(e)' <=> Denied(e)
  BY <1>1, <1>2 DEF SweepInv, Steady, SweepShape, Live, LockedDown, Denied, Free, Listed
<1>4. \A e \in Exes : temp'[e] = IF e = e0 THEN "expired" ELSE temp[e]
  BY <1>1 DEF Known, TypeOK
<1>5. \A e \in Exes : Enforced(e) => Enforced(e)'
  BY <1>1, <1>2, <1>4 DEF Enforced
<1>6. QED
  BY <1>1, <1>3, <1>5 DEF SweepInv

(* The oldest question becomes a dialog, and it was the only one of its    *)
(* executable.                                                             *)
LEMMA ShowPromptSweep ==
  ASSUME Known, SweepInv, ShowPrompt
  PROVE  SweepInv'
<1>1. /\ Idle("gui") /\ queue # <<>> /\ queue' = Tail(queue)
      /\ dialogs' = dialogs \cup {Head(queue)}
      /\ UNCHANGED <<cfg, osRules, ldBlocked, decided, temp, app, prog>>
  BY DEF ShowPrompt, ldVars, lifeVars
<1>2. /\ Len(queue) \in Nat \ {0} /\ Len(queue') = Len(queue) - 1
      /\ \A i \in 1..Len(queue') : queue'[i] = queue[i + 1]
      /\ Head(queue) = queue[1]
  BY <1>1 DEF Known, TypeOK
<1>3. /\ \A S : ~Ahead(S) /\ ~Ahead(S)'
      /\ \A op, e : MonAt(op, e)' <=> MonAt(op, e)
      /\ \A e : ~Ends(prog["gui"], e)
  BY <1>1, NoneAhead DEF Ahead, MonAt, At, Cur, Ends, Idle
<1>4. /\ Steady' /\ (Live' <=> Live) /\ SweepShape'
      /\ \A e \in Exes : Denied(e)' <=> Denied(e)
  BY <1>1, <1>3 DEF SweepInv, Steady, SweepShape, Live, LockedDown, Denied, Free, Listed
<1>5. app = "up"
  BY <1>1 DEF SweepInv
<1>6. ASSUME NEW e \in Exes, Enforced(e)
      PROVE  Enforced(e)'
  <2>1. \A i, j \in 1..Len(queue) : queue[i] = e /\ queue[j] = e => i = j
    BY <1>6 DEF Enforced
  <2>2. Queued(e)' => Queued(e) /\ e # Head(queue)
    <3>1. ASSUME NEW i \in 1..Len(queue'), queue'[i] = e
          PROVE  Queued(e) /\ e # Head(queue)
      <4>1. i + 1 \in 1..Len(queue) /\ queue[i + 1] = e /\ 1 \in 1..Len(queue) /\ i + 1 # 1
        BY <1>2, <3>1
      <4>2. QED
        BY <1>2, <2>1, <4>1 DEF Queued
    <3>2. QED
      BY <3>1 DEF Queued
  <2>3. e = Head(queue) => Queued(e)
    BY <1>2 DEF Queued
  <2>4. \A i, j \in 1..Len(queue') : queue'[i] = e /\ queue'[j] = e => i = j
    <3>1. ASSUME NEW i \in 1..Len(queue'), NEW j \in 1..Len(queue'),
                 queue'[i] = e, queue'[j] = e
          PROVE  i = j
      <4>1. /\ i + 1 \in 1..Len(queue) /\ queue[i + 1] = e
            /\ j + 1 \in 1..Len(queue) /\ queue[j + 1] = e
        BY <1>2, <3>1
      <4>2. QED
        BY <2>1, <4>1
    <3>2. QED
      BY <3>1
  <2>5. QED
    BY <1>1, <1>3, <1>6, <2>2, <2>3, <2>4 DEF Enforced
<1>7. QED
  BY <1>1, <1>4, <1>5, <1>6 DEF SweepInv

LEMMA BootSweep ==
  ASSUME Known, SweepInv, Boot
  PROVE  SweepInv'
<1> DEFINE ops == {"apply_blocks", "remove_all", "save", "start_monitor", "show_ui"}
<1>1. PICK p \in Program : prog'["gui"] = p
  BY BootHas DEF Known
<1>2. \A S : Has(p, S) <=>
         \/ I(IF disk.fw THEN "apply_blocks" ELSE "remove_all", {}, NoTag, FALSE) \in S
         \/ \E op \in {"save", "start_monitor", "show_ui"} : I(op, {}, NoTag, FALSE) \in S
  BY <1>1, BootHas DEF Known
<1>3. ASSUME NEW S, Has(p, S)
      PROVE  \E op \in ops : I(op, {}, NoTag, FALSE) \in S /\ (op = "remove_all" => ~disk.fw)
  <2>1. CASE disk.fw
    BY <1>2, <1>3, <2>1
  <2>2. CASE ~disk.fw
    BY <1>2, <1>3, <2>2
  <2>3. QED
    BY <2>1, <2>2
<1>4. \A op \in ops : /\ I(op, {}, NoTag, FALSE).op = op
                      /\ I(op, {}, NoTag, FALSE).es = {}
  BY DEF I
<1>5. /\ OnlyOps(p, OpNames \ OtherOps) /\ ~Has(p, Revokes) /\ ~Has(p, Named(StopOps))
      /\ ~Has(p, Named({"temp_allow"})) /\ \A e : ~Has(p, Lift(e)) /\ ~Has(p, Pass(e))
      /\ Has(p, Named({"remove_all"})) => ~disk.fw
  <2>1. \A op \in ops :
          LET x == I(op, {}, NoTag, FALSE)
          IN  /\ x \notin Named(OpNames \ (OpNames \ OtherOps)) /\ x \notin Revokes
              /\ x \notin Named(StopOps) /\ x \notin Named({"temp_allow"})
              /\ \A e : x \notin Lift(e) /\ x \notin Pass(e)
              /\ x \in Named({"remove_all"}) => op = "remove_all"
    BY <1>4 DEF Named, OtherOps, LockdownOps, TagOps, Revokes, StopOps, Lift, Switch, Pass,
       PassOps, Of
  <2>2. ~Has(p, Named(OpNames \ (OpNames \ OtherOps)))
    BY <1>3, <2>1
  <2>3. OnlyOps(p, OpNames \ OtherOps)
    BY <2>2, HasNamed
  <2>4. ~Has(p, Revokes) /\ ~Has(p, Named(StopOps)) /\ ~Has(p, Named({"temp_allow"}))
    BY <1>3, <2>1
  <2>5. \A e : ~Has(p, Lift(e)) /\ ~Has(p, Pass(e))
    BY <1>3, <2>1
  <2>6. Has(p, Named({"remove_all"})) => ~disk.fw
    BY <1>3, <2>1
  <2>7. QED
    BY <2>3, <2>4, <2>5, <2>6
<1>6. p # <<>> => ~Has(Tail(p), Named({"temp_allow"}))
  BY <1>5, HasTail
<1>7. /\ cfg'.fw = disk.fw /\ app' = "up" /\ prog'["mon"] = prog["mon"]
      /\ prog["mon"] = <<>> /\ ldBlocked' = {} /\ decided' = {}
      /\ queue' = <<>> /\ dialogs' = {}
  <2>1. prog'["mon"] = prog["mon"]
    BY BootHas DEF Known
  <2>2. cfg'.fw = disk.fw
    BY DEF Boot, Known, TypeOK, Settings
  <2>3. QED
    BY <2>1, <2>2 DEF Boot, SweepInv, Known, BlockInv, Quiet, Sweeping, Idle, ldVars, uiVars
<1>8. Steady'
  BY <1>1, <1>5, <1>6, <1>7 DEF Steady, Ahead
<1>9. SweepShape'
  BY <1>7 DEF SweepInv, SweepShape
<1>10. ASSUME NEW e \in Exes
       PROVE  Enforced(e)'
  <2>1. /\ \A op : ~MonAt(op, e)' /\ ~Queued(e)'
        /\ ~Ahead(Pass(e))'
    BY <1>1, <1>5, <1>7 DEF MonAt, At, Queued, Ahead
  <2>2. \A op \in PassOps : ~Ahead(Of(op, e))'
    BY <2>1, AheadPass
  <2>3. QED
    BY <1>7, <2>1, <2>2 DEF Enforced, PassOps
<1>11. QED
  BY <1>7, <1>8, <1>9, <1>10 DEF SweepInv

-----------------------------------------------------------------------------
(* The handlers.  A program is put together of the instructions X.         *)

Made(p, X) == p \in Program /\ X \subseteq Instr /\ \A S : Has(p, S) <=> X \cap S # {}

LEMMA MadeCat ==
  ASSUME NEW s, NEW u, NEW X, NEW Y, Made(s, X), Made(u, Y)
  PROVE  Made(s \o u, X \cup Y)
<1>1. s \in Program /\ u \in Program /\ s \o u \in Program /\ X \cup Y \subseteq Instr
  BY CatType DEF Made
<1>2. \A S : Has(s \o u, S) <=> Has(s, S) \/ Has(u, S)
  BY <1>1, HasCat
<1>3. \A S : Has(s \o u, S) <=> (X \cup Y) \cap S # {}
  BY <1>2 DEF Made
<1>4. QED
  BY <1>1, <1>3 DEF Made

LEMMA MadeOne ==
  ASSUME NEW op \in OpNames \ TagOps
  PROVE  /\ Made(Do(op), {I(op, {}, NoTag, FALSE)})
         /\ \A e \in Exes, on \in BOOLEAN : Made(DoExe(op, e, on), {I(op, {e}, NoTag, on)})
<1>0. \A x, S : {x} \cap S # {} <=> x \in S
  OBVIOUS
<1>1. Made(Do(op), {I(op, {}, NoTag, FALSE)})
  <2> DEFINE x == I(op, {}, NoTag, FALSE)
  <2>1. x \in Instr /\ Do(op) \in Program /\ \A S : Has(Do(op), S) <=> x \in S
    BY DoInstr
  <2> HIDE DEF x
  <2>2. Made(Do(op), {x})
    BY <1>0, <2>1 DEF Made
  <2>3. QED
    BY <2>2 DEF x
<1>2. ASSUME NEW e \in Exes, NEW on \in BOOLEAN
      PROVE  Made(DoExe(op, e, on), {I(op, {e}, NoTag, on)})
  <2> DEFINE x == I(op, {e}, NoTag, on)
             p == DoExe(op, e, on)
  <2>1. x \in Instr /\ p \in Program /\ \A S : Has(p, S) <=> x \in S
    BY ExeInstr
  <2> HIDE DEF x, p
  <2>2. Made(p, {x})
    BY <1>0, <2>1 DEF Made
  <2>3. QED
    BY <2>2 DEF x, p
<1>3. QED
  BY <1>1, <1>2

(* A pass is given by the first instruction of a program.                  *)
Opens(p) == p # <<>> => ~Has(Tail(p), Named({"temp_allow"}))

LEMMA OpensCat ==
  ASSUME NEW s \in Program, s # <<>>, NEW u \in Program,
         Opens(s), ~Has(u, Named({"temp_allow"}))
  PROVE  Opens(s \o u)
<1> DEFINE p == s \o u
           S == Named({"temp_allow"})
<1>1. /\ Len(s) \in Nat \ {0} /\ Len(u) \in Nat /\ p \in Program
      /\ Len(p) = Len(s) + Len(u)
      /\ \A i \in 1..Len(s) + Len(u) : p[i] = IF i <= Len(s) THEN s[i] ELSE u[i - Len(s)]
  BY ConcatProperties DEF Program
<1>2. /\ p # <<>> /\ Len(Tail(p)) = Len(p) - 1
      /\ \A i \in 1..Len(p) - 1 : Tail(p)[i] = p[i + 1]
  BY <1>1 DEF Program
<1>3. /\ Len(Tail(s)) = Len(s) - 1
      /\ \A i \in 1..Len(s) - 1 : Tail(s)[i] = s[i + 1]
  BY <1>1 DEF Program
<1> HIDE DEF p, S
<1>4. ASSUME NEW i \in 1..Len(Tail(p)), Tail(p)[i] \in S
      PROVE  FALSE
  <2>1. i \in 1..Len(p) - 1 /\ p[i + 1] \in S /\ i + 1 \in 1..Len(s) + Len(u)
    BY <1>1, <1>2, <1>4
  <2>2. CASE i + 1 <= Len(s)
    <3>1. i \in 1..Len(Tail(s)) /\ Tail(s)[i] \in S
      BY <1>1, <1>3, <2>1, <2>2
    <3>2. QED
      BY <1>1, <3>1 DEF Opens, Has, S
  <2>3. CASE ~(i + 1 <= Len(s))
    <3>1. i + 1 - Len(s) \in 1..Len(u) /\ u[i + 1 - Len(s)] \in S
      BY <1>1, <2>1, <2>3
    <3>2. QED
      BY <3>1 DEF Has, S
  <2>4. QED
    BY <2>2, <2>3
<1>5. QED
  BY <1>4 DEF Opens, Has, p, S

(* A handler that keeps the programs steady.  It may lift what it allows,  *)
(* give a pass to who has a dialog, or do anything on its way to the exit. *)
LEMMA HandleSweep ==
  ASSUME Known, SweepInv, NEW kind, NEW p, NEW X, Handle(kind, p), Made(p, X), Opens(p),
         \A x \in X : x.op \notin OtherOps \cup {"remove_all"} /\ x \notin Revokes,
         X \cap Named(StopOps) # {} => X \cap Exits # {},
         \A e \in Exes : X \cap Lift(e) # {} => X \cap Grant(e) # {},
         \A e \in Exes : X \cap Pass(e) # {} =>
           \/ X \cap Exits # {} \/ X \cap Grant(e) # {}
           \/ /\ e \in dialogs /\ Ends(p, e)
              /\ X \cap Of("temp_allow", e) # {} /\ X \cap Of("unblock", e) = {}
  PROVE  SweepInv'
<1>1. /\ prog'["gui"] = p /\ prog'["mon"] = prog["mon"] /\ Idle("gui")
      /\ UNCHANGED <<cfg, osRules, ldBlocked, decided, temp, queue, dialogs, app>>
  BY TypeSplit DEF Known, Handle, Threads, ldVars, uiVars
<1>2. /\ \A S : ~Ahead(S) /\ (Ahead(S)' <=> X \cap S # {})
      /\ \A op, e : MonAt(op, e)' <=> MonAt(op, e)
      /\ \A e : Queued(e)' <=> Queued(e)
      /\ \A e : ~Ends(prog["gui"], e)
  BY <1>1, NoneAhead DEF Made, Ahead, MonAt, At, Cur, Queued, Ends, Idle
<1>3. OnlyOps(p, OpNames \ OtherOps) /\ ~Has(p, Revokes) /\ ~Has(p, Named({"remove_all"}))
  <2>1. X \cap Named(OpNames \ (OpNames \ OtherOps)) = {} /\ X \cap Revokes = {}
        /\ X \cap Named({"remove_all"}) = {}
    BY DEF Named
  <2>2. QED
    BY <2>1, HasNamed DEF Made
<1>4. \A e \in Exes : /\ Free(e)' <=> PermAllowed(cfg, e) \/ X \cap Grant(e) # {}
                      /\ Free(e) <=> PermAllowed(cfg, e)
                      /\ Denied(e)' => Denied(e) /\ X \cap Grant(e) = {}
  <2>1. /\ \A e \in Exes : /\ Free(e)' <=> PermAllowed(cfg, e) \/ X \cap Grant(e) # {}
                           /\ Free(e) <=> PermAllowed(cfg, e)
    BY <1>1, <1>2 DEF Free
  <2>2. \A e \in Exes : Listed(e) => Listed(e)'
    BY <1>1, <1>2 DEF Listed
  <2>3. QED
    BY <2>1, <2>2 DEF Denied
<1>5. Steady' /\ SweepShape'
  <2>1. ~Ahead(Revokes)' /\ ~Ahead(Named({"remove_all"}))'
    BY <1>1, <1>3 DEF Ahead
  <2>2. Ahead(Named(StopOps))' => Ahead(Exits)'
    BY <1>2
  <2>3. \A e \in Exes : Ahead(Lift(e))' => Free(e)'
    BY <1>2, <1>4
  <2>4. SweepShape'
    BY <1>1 DEF SweepInv, SweepShape
  <2>5. QED
    BY <1>1, <1>3, <2>1, <2>2, <2>3, <2>4 DEF Steady, Opens
<1>6. Live' => Live /\ X \cap Exits = {}
  BY <1>1, <1>2 DEF Live, LockedDown
<1>7. ASSUME NEW e \in Exes, Live', Denied(e)'
      PROVE  Enforced(e)'
  <2>1. Enforced(e) /\ X \cap Grant(e) = {} /\ X \cap Exits = {}
    BY <1>4, <1>6, <1>7 DEF SweepInv
  <2>2. Ahead(Pass(e))' => /\ e \in dialogs /\ Ends(p, e)
                           /\ Ahead(Of("temp_allow", e))' /\ ~Ahead(Of("unblock", e))'
    BY <1>2, <2>1
  <2>3. \A op \in PassOps : Ahead(Of(op, e))' => Ahead(Pass(e))'
    BY AheadPass
  <2>4. /\ e \in dialogs => ~Queued(e) /\ e \in ldBlocked
        /\ e \in dialogs => \A op \in {"block", "note", "ask"} : ~MonAt(op, e)
    BY <1>2, <2>1 DEF Enforced
  <2>5. e \in dialogs \/ Queued(e) => e \in ldBlocked
    BY <1>2, <2>1 DEF Enforced
  <2>6. QED
    BY <1>1, <1>2, <2>1, <2>2, <2>3, <2>4, <2>5 DEF Enforced, PassOps
<1>8. QED
  BY <1>1, <1>5, <1>7 DEF SweepInv

(* Programs without a temporary pass.                                      *)
LEMMA MadeOpens ==
  ASSUME NEW p, NEW X, Made(p, X), \A x \in X : x.op # "temp_allow"
  PROVE  Opens(p)
<1>1. ~Has(p, Named({"temp_allow"})) /\ p \in Program
  BY DEF Made, Named
<1>2. QED
  BY <1>1, HasTail DEF Opens

SteadyKinds == {"save", "set_blocked", "block_if_on", "unblock", "set_allowed",
                "allow_settled", "answered", "finish", "temp_allow", "lockdown_unblock",
                "halt", "join", "clear", "destroy", "exit"}

(* The pieces the programs are made of.                                    *)
LEMMA Pieces ==
  ASSUME NEW e \in Exes
  PROVE  /\ Made(Do("save"), {I("save", {}, NoTag, FALSE)})
         /\ \A op \in SteadyKinds, on \in BOOLEAN :
              Made(DoExe(op, e, on), {I(op, {e}, NoTag, on)})
         /\ \A on \in BOOLEAN :
              /\ Made(SetBlockedProg(e, on),
                      {I("set_blocked", {e}, NoTag, on), I("save", {}, NoTag, FALSE)})
              /\ Made(SetAllowedProg(e, on),
                      {I("set_allowed", {e}, NoTag, on), I("allow_settled", {e}, NoTag, FALSE),
                       I("save", {}, NoTag, FALSE)})
<1>1. SteadyKinds \subseteq OpNames \ TagOps
  BY DEF SteadyKinds, OpNames, TagOps
<1>2. Made(Do("save"), {I("save", {}, NoTag, FALSE)})
  BY <1>1, MadeOne DEF SteadyKinds
<1>3. \A op \in SteadyKinds, on \in BOOLEAN : Made(DoExe(op, e, on), {I(op, {e}, NoTag, on)})
  BY <1>1, MadeOne
<1>4. ASSUME NEW on \in BOOLEAN
      PROVE  Made(SetBlockedProg(e, on),
                  {I("set_blocked", {e}, NoTag, on), I("save", {}, NoTag, FALSE)})
  <2> DEFINE X == {I("set_blocked", {e}, NoTag, on)}
             Y == {I("save", {}, NoTag, FALSE)}
  <2>1. Made(DoExe("set_blocked", e, on), X)
    BY <1>3 DEF SteadyKinds
  <2>2. Made(SetBlockedProg(e, on), X \cup Y)
    BY <1>2, <2>1, MadeCat DEF SetBlockedProg
  <2>3. X \cup Y = {I("set_blocked", {e}, NoTag, on), I("save", {}, NoTag, FALSE)}
    OBVIOUS
  <2>4. QED
    BY <2>2, <2>3
<1>5. ASSUME NEW on \in BOOLEAN
      PROVE  Made(SetAllowedProg(e, on),
                  {I("set_allowed", {e}, NoTag, on), I("allow_settled", {e}, NoTag, FALSE),
                   I("save", {}, NoTag, FALSE)})
  <2> DEFINE X == {I("set_allowed", {e}, NoTag, on)}
             Y == {I("allow_settled", {e}, NoTag, FALSE)}
             Z == {I("save", {}, NoTag, FALSE)}
  <2>1. /\ Made(DoExe("set_allowed", e, on), X)
        /\ Made(DoExe("allow_settled", e, FALSE), Y)
    BY <1>3 DEF SteadyKinds
  <2>2. Made(DoExe("set_allowed", e, on) \o DoExe("allow_settled", e, FALSE), X \cup Y)
    BY <2>1, MadeCat
  <2>3. Made(SetAllowedProg(e, on), (X \cup Y) \cup Z)
    BY <1>2, <2>2, MadeCat DEF SetAllowedProg
  <2>4. (X \cup Y) \cup Z = {I("set_allowed", {e}, NoTag, on),
                             I("allow_settled", {e}, NoTag, FALSE), I("save", {}, NoTag, FALSE)}
    OBVIOUS
  <2>5. QED
    BY <2>3, <2>4
<1>6. QED
  BY <1>2, <1>3, <1>4, <1>5

LEMMA BlockSelectedSweep ==
  ASSUME Known, SweepInv, NEW e \in Exes, BlockSelected(e)
  PROVE  SweepInv'
<1> DEFINE p == SetBlockedProg(e, TRUE) \o DoExe("block_if_on", e, FALSE)
           X == {I("set_blocked", {e}, NoTag, TRUE), I("save", {}, NoTag, FALSE)}
                \cup {I("block_if_on", {e}, NoTag, FALSE)}
<1>1. Handle("block", p)
  BY DEF BlockSelected
<1>2. Made(p, X)
  <2>1. Made(DoExe("block_if_on", e, FALSE), {I("block_if_on", {e}, NoTag, FALSE)})
    BY Pieces DEF SteadyKinds
  <2>2. Made(SetBlockedProg(e, TRUE),
             {I("set_blocked", {e}, NoTag, TRUE), I("save", {}, NoTag, FALSE)})
    BY Pieces
  <2>3. QED
    BY <2>1, <2>2, MadeCat
<1>3. \A x \in X : x.op \in {"set_blocked", "save", "block_if_on"} /\ (x.op = "set_blocked" => x.on)
  BY DEF I
<1> HIDE DEF p, X
<1>4. Opens(p)
  BY <1>2, <1>3, MadeOpens
<1>5. /\ \A x \in X : x.op \notin OtherOps \cup {"remove_all"} /\ x \notin Revokes
      /\ X \cap Named(StopOps) = {}
      /\ \A e1 : X \cap Lift(e1) = {} /\ X \cap Pass(e1) = {}
  BY <1>3 DEF OtherOps, LockdownOps, TagOps, Revokes, Named, StopOps, Lift, Switch, Pass,
     PassOps, Of
<1>6. QED
  BY <1>1, <1>2, <1>4, <1>5, HandleSweep

LEMMA AllowSelectedSweep ==
  ASSUME Known, SweepInv, NEW e \in Exes, AllowSelected(e)
  PROVE  SweepInv'
<1> DEFINE B == {I("set_blocked", {e}, NoTag, FALSE), I("save", {}, NoTag, FALSE)}
           U == {I("unblock", {e}, NoTag, FALSE)}
           G == {I("set_allowed", {e}, NoTag, TRUE), I("allow_settled", {e}, NoTag, FALSE),
                 I("save", {}, NoTag, FALSE)}
           s == SetBlockedProg(e, FALSE) \o DoExe("unblock", e, FALSE)
           p == s \o SetAllowedProg(e, TRUE)
           X == (B \cup U) \cup G
<1>1. Handle("allow", p)
  BY DEF AllowSelected
<1>2. Made(p, X)
  <2>1. Made(DoExe("unblock", e, FALSE), U)
    BY Pieces DEF SteadyKinds
  <2>2. Made(SetBlockedProg(e, FALSE), B) /\ Made(SetAllowedProg(e, TRUE), G)
    BY Pieces
  <2> HIDE DEF B, U, G
  <2>3. Made(s, B \cup U)
    BY <2>1, <2>2, MadeCat
  <2> HIDE DEF s
  <2>4. QED
    BY <2>2, <2>3, MadeCat
<1>3. /\ \A x \in X : x.op \in {"set_blocked", "save", "unblock", "set_allowed", "allow_settled"}
      /\ \A x \in X : x.es \subseteq {e} /\ (x.op = "set_allowed" => x.on)
      /\ I("set_allowed", {e}, NoTag, TRUE) \in X
      /\ I("set_allowed", {e}, NoTag, TRUE) \in Grant(e)
  <2>1. I("set_allowed", {e}, NoTag, TRUE) \in X
    OBVIOUS
  <2>2. I("set_allowed", {e}, NoTag, TRUE) \in Instr
    BY <1>2, <2>1 DEF Made
  <2>3. QED
    BY <2>1, <2>2 DEF I, Grant
<1> HIDE DEF p, X
<1>4. Opens(p)
  BY <1>2, <1>3, MadeOpens
<1>5. /\ \A x \in X : x.op \notin OtherOps \cup {"remove_all"} /\ x \notin Revokes
      /\ X \cap Named(StopOps) = {}
  BY <1>3 DEF OtherOps, LockdownOps, TagOps, Revokes, Named, StopOps
<1>6. /\ X \cap Grant(e) # {}
      /\ \A e1 : X \cap Lift(e1) # {} \/ X \cap Pass(e1) # {} => e1 = e
  <2>1. \A x \in X : \A e1 : x \in Lift(e1) \/ x \in Pass(e1) => e1 \in x.es
    BY <1>3 DEF Lift, Switch, Pass, Of
  <2>2. ASSUME NEW e1, X \cap Lift(e1) # {} \/ X \cap Pass(e1) # {}
        PROVE  e1 = e
    <3>1. PICK x \in X : x \in Lift(e1) \/ x \in Pass(e1)
      BY <2>2
    <3>2. QED
      BY <1>3, <2>1, <3>1
  <2>3. X \cap Grant(e) # {}
    BY <1>3
  <2>4. QED
    BY <2>2, <2>3
<1>7. QED
  BY <1>1, <1>2, <1>4, <1>5, <1>6, HandleSweep

(* The answer ends with the dialog it was given in.                        *)
LEMMA AnswerSweep ==
  ASSUME Known, SweepInv, NEW e \in Exes, e \in dialogs, NEW a, NEW A, Made(a, A),
         Handle("answer", a \o DoExe("finish", e, FALSE)), a # <<>>, Opens(a),
         \A x \in A : /\ x.op \in SteadyKinds \ StopOps /\ x.es \subseteq {e}
                      /\ x.op = "exit" => FALSE
                      /\ x.op = "set_allowed" => x.on
                      /\ x.op = "set_blocked" => x.on
                      /\ x.op = "unblock" => FALSE,
         A \cap Pass(e) # {} => A \cap Of("temp_allow", e) # {}
  PROVE  SweepInv'
<1> DEFINE F == {I("finish", {e}, NoTag, FALSE)}
           f == DoExe("finish", e, FALSE)
           p == a \o f
           X == A \cup F
<1>1. Made(f, F)
  BY Pieces DEF SteadyKinds
<1>2. Ends(p, e)
  BY EndsCat DEF Made
<1>3. \A x \in F : x.op = "finish" /\ x.es = {e}
  BY DEF I
<1> HIDE DEF F, f
<1>4. Made(p, X)
  BY <1>1, MadeCat
<1>5. ~Has(f, Named({"temp_allow"}))
  BY <1>1, <1>3 DEF Made, Named
<1>6. Opens(p)
  BY <1>1, <1>5, OpensCat DEF Made
<1>7. \A x \in X : /\ x.op \in SteadyKinds \ StopOps /\ x.es \subseteq {e}
                   /\ x.op # "exit" /\ x.op # "unblock"
                   /\ x.op = "set_allowed" => x.on
                   /\ x.op = "set_blocked" => x.on
  BY <1>3 DEF SteadyKinds, StopOps
<1>8. A \subseteq X
  OBVIOUS
<1>9. X \cap Pass(e) # {} => A \cap Pass(e) # {}
  BY <1>3 DEF Pass, PassOps, Of
<1> HIDE DEF p, X
<1>10. /\ \A x \in X : x.op \notin OtherOps \cup {"remove_all"} /\ x \notin Revokes
       /\ X \cap Named(StopOps) = {}
       /\ \A e1 : X \cap Lift(e1) = {} /\ X \cap Of("unblock", e1) = {}
  BY <1>7 DEF SteadyKinds, OtherOps, LockdownOps, TagOps, Revokes, Named, StopOps, Lift,
     Switch, Of
<1>11. ASSUME NEW e1, X \cap Pass(e1) # {}
       PROVE  e1 = e
  <2>1. PICK x \in X : x \in Pass(e1)
    BY <1>11
  <2>2. e1 \in x.es
    BY <2>1 DEF Pass, Of
  <2>3. QED
    BY <1>7, <2>1, <2>2
<1>12. X \cap Pass(e) # {} => X \cap Of("temp_allow", e) # {}
  BY <1>8, <1>9
<1>13. \A e1 \in Exes : X \cap Pass(e1) # {} =>
         /\ e1 \in dialogs /\ Ends(p, e1)
         /\ X \cap Of("temp_allow", e1) # {} /\ X \cap Of("unblock", e1) = {}
  BY <1>2, <1>10, <1>11, <1>12
<1>14. Handle("answer", p)
  BY DEF p, f
<1>15. QED
  BY <1>4, <1>6, <1>10, <1>13, <1>14, HandleSweep

LEMMA AnswersSweep ==
  ASSUME Known, SweepInv, NEW e \in Exes, NEW answer \in {"temp", "allow", "once", "block"},
         Answer(e, answer)
  PROVE  SweepInv'
<1> DEFINE D == {I("answered", {e}, NoTag, FALSE)}
           V == {I("save", {}, NoTag, FALSE)}
           d == DoExe("answered", e, FALSE)
<1>1. /\ e \in dialogs
      /\ Handle("answer", AnswerProg(e, answer) \o DoExe("finish", e, FALSE))
  BY DEF Answer
<1>2. Made(d, D) /\ Made(Do("save"), V)
  BY Pieces DEF SteadyKinds
<1>3. /\ \A x \in D : x.op = "answered" /\ x.es = {e}
      /\ \A x \in V : x.op = "save" /\ x.es = {}
  BY DEF I
<1>4. \A s, X : Made(s, X) /\ X # {} => s # <<>>
  <2>1. \A S : ~Has(<<>>, S)
    BY HasOne
  <2>2. \A X : X # {} => X \cap X # {}
    OBVIOUS
  <2>3. QED
    BY <2>1, <2>2 DEF Made
<1>5. D # {}
  OBVIOUS
<1> HIDE DEF D, V, d
<1>6. CASE answer = "temp"
  <2> DEFINE P == {I("temp_allow", {e}, NoTag, FALSE)}
             L == {I("lockdown_unblock", {e}, NoTag, FALSE)}
             t == DoExe("temp_allow", e, FALSE)
             l == DoExe("lockdown_unblock", e, FALSE)
             a == ((t \o l) \o d) \o Do("save")
             A == ((P \cup L) \cup D) \cup V
  <2>1. Made(t, P) /\ Made(l, L)
    BY Pieces DEF SteadyKinds
  <2>2. /\ \A x \in P : x.op = "temp_allow" /\ x.es = {e}
        /\ \A x \in L : x.op = "lockdown_unblock" /\ x.es = {e}
        /\ P # {} /\ t # <<>> /\ Tail(t) = <<>>
    BY DEF I, DoExe
  <2> HIDE DEF P, L, t, l
  <2>3. /\ Made(t \o l, P \cup L) /\ Made((t \o l) \o d, (P \cup L) \cup D)
        /\ Made(a, A)
    BY <1>2, <2>1, MadeCat
  <2>4. P # {} /\ t \o l # <<>> /\ (t \o l) \o d # <<>> /\ a # <<>>
    <3>1. P \subseteq A /\ P \subseteq P \cup L /\ P \subseteq (P \cup L) \cup D
      OBVIOUS
    <3>2. QED
      BY <1>4, <2>2, <2>3, <3>1
  <2>5. Opens(t)
    <3>1. \A S : ~Has(<<>>, S)
      BY HasOne
    <3>2. QED
      BY <2>2, <3>1 DEF Opens
  <2>6. /\ ~Has(l, Named({"temp_allow"})) /\ ~Has(d, Named({"temp_allow"}))
        /\ ~Has(Do("save"), Named({"temp_allow"}))
    BY <1>2, <1>3, <2>1, <2>2 DEF Made, Named
  <2>7. Opens(t \o l)
    BY <2>1, <2>2, <2>5, <2>6, OpensCat DEF Made
  <2>8. Opens((t \o l) \o d)
    BY <1>2, <2>3, <2>4, <2>6, <2>7, OpensCat DEF Made
  <2>9. Opens(a)
    BY <1>2, <2>3, <2>4, <2>6, <2>8, OpensCat DEF Made
  <2>10. \A x \in A : /\ x.op \in {"temp_allow", "lockdown_unblock", "answered", "save"}
                      /\ x.es \subseteq {e}
    BY <1>3, <2>2
  <2>11. A \cap Of("temp_allow", e) # {}
    <3>1. P \subseteq A /\ P \subseteq Instr
      BY <2>1 DEF Made
    <3>2. QED
      BY <2>2, <3>1 DEF Of
  <2>12. a = AnswerProg(e, answer)
    BY <1>6 DEF AnswerProg, t, l, d
  <2> HIDE DEF a, A
  <2>13. QED
    BY <1>1, <2>3, <2>4, <2>9, <2>10, <2>11, <2>12, AnswerSweep DEF SteadyKinds, StopOps
<1>7. CASE answer = "allow"
  <2> DEFINE A == {I("set_allowed", {e}, NoTag, TRUE), I("allow_settled", {e}, NoTag, FALSE),
                   I("save", {}, NoTag, FALSE)}
             a == SetAllowedProg(e, TRUE)
  <2>1. Made(a, A)
    BY Pieces
  <2>2. \A x \in A : /\ x.op \in {"set_allowed", "allow_settled", "save"}
                     /\ x.es \subseteq {e} /\ (x.op = "set_allowed" => x.on)
    BY DEF I
  <2>3. A # {}
    OBVIOUS
  <2>4. a = AnswerProg(e, answer)
    BY <1>7 DEF AnswerProg
  <2> HIDE DEF a, A
  <2>5. Opens(a) /\ a # <<>>
    BY <1>4, <2>1, <2>2, <2>3, MadeOpens
  <2>6. A \cap Pass(e) = {}
    BY <2>2 DEF Pass, PassOps, Of
  <2>7. QED
    BY <1>1, <2>1, <2>2, <2>4, <2>5, <2>6, AnswerSweep DEF SteadyKinds, StopOps
<1>8. CASE answer = "once"
  <2>1. d = AnswerProg(e, answer)
    BY <1>8 DEF AnswerProg, d
  <2>2. Opens(d) /\ d # <<>>
    BY <1>2, <1>3, <1>4, <1>5, MadeOpens
  <2>3. D \cap Pass(e) = {}
    BY <1>3 DEF Pass, PassOps, Of
  <2>4. QED
    BY <1>1, <1>2, <1>3, <2>1, <2>2, <2>3, AnswerSweep DEF SteadyKinds, StopOps
<1>9. CASE answer = "block"
  <2> DEFINE B == {I("set_blocked", {e}, NoTag, TRUE), I("save", {}, NoTag, FALSE)}
             O == {I("block_if_on", {e}, NoTag, FALSE)}
             b == SetBlockedProg(e, TRUE)
             o == DoExe("block_if_on", e, FALSE)
             a == (d \o b) \o o
             A == (D \cup B) \cup O
  <2>1. Made(b, B) /\ Made(o, O)
    BY Pieces DEF SteadyKinds
  <2>2. /\ \A x \in B : /\ x.op \in {"set_blocked", "save"} /\ x.es \subseteq {e}
                        /\ (x.op = "set_blocked" => x.on)
        /\ \A x \in O : x.op = "block_if_on" /\ x.es = {e}
    BY DEF I
  <2>3. (d \o b) \o o = AnswerProg(e, answer)
    BY <1>9 DEF AnswerProg, d
  <2> HIDE DEF B, O, b, o
  <2>4. Made(d \o b, D \cup B) /\ Made(a, A)
    BY <1>2, <2>1, MadeCat
  <2>5. A # {} /\ a = AnswerProg(e, answer)
    BY <1>5, <2>3
  <2>6. \A x \in A : /\ x.op \in {"answered", "set_blocked", "save", "block_if_on"}
                     /\ x.es \subseteq {e} /\ (x.op = "set_blocked" => x.on)
    BY <1>3, <2>2
  <2> HIDE DEF a, A
  <2>7. Opens(a) /\ a # <<>>
    BY <1>4, <2>4, <2>5, <2>6, MadeOpens
  <2>8. A \cap Pass(e) = {}
    BY <2>6 DEF Pass, PassOps, Of
  <2>9. QED
    BY <1>1, <2>4, <2>5, <2>6, <2>7, <2>8, AnswerSweep DEF SteadyKinds, StopOps
<1>10. QED
  BY <1>6, <1>7, <1>8, <1>9

LEMMA CloseSweep ==
  ASSUME Known, SweepInv, Close
  PROVE  SweepInv'
<1> DEFINE One(op) == {I(op, {}, NoTag, FALSE)}
           h == Do("halt")
           j == Do("join")
           c == Do("clear")
           q == (h \o j) \o c
           H == One("halt")
           J == One("join")
           C == One("clear")
           Q == (H \cup J) \cup C
           v == Do("save")
           V == One("save")
           d == Do("destroy")
           D == One("destroy")
           x == Do("exit")
           X == One("exit")
           p == (((v \o q) \o d) \o q) \o x
           P == (((V \cup Q) \cup D) \cup Q) \cup X
<1>1. Handle("quit", p)
  BY DEF Close, Stop
<1>2. /\ Made(h, H) /\ Made(j, J) /\ Made(c, C) /\ Made(v, V) /\ Made(d, D) /\ Made(x, X)
  <2>1. {"halt", "join", "clear", "save", "destroy", "exit"} \subseteq OpNames \ TagOps
    BY DEF OpNames, TagOps
  <2>2. QED
    BY <2>1, MadeOne
<1>3. \A y \in P : y.op \in {"halt", "join", "clear", "save", "destroy", "exit"}
  BY DEF I
<1>4. X \cap Exits # {}
  <2>1. X \subseteq Instr /\ \E y \in X : y.op = "exit"
    BY <1>2 DEF Made, I
  <2>2. QED
    BY <2>1 DEF Exits, Named
<1> HIDE DEF One, H, J, C, V, D, X, h, j, c, v, d, x
<1>5. Made(q, Q)
  <2>1. Made(h \o j, H \cup J)
    BY <1>2, MadeCat
  <2>2. QED
    BY <1>2, <2>1, MadeCat
<1>6. P \cap Exits # {}
  BY <1>4
<1> HIDE DEF q, Q
<1>7. Made(p, P)
  <2>1. Made(v \o q, V \cup Q)
    BY <1>2, <1>5, MadeCat
  <2>2. Made((v \o q) \o d, (V \cup Q) \cup D)
    BY <1>2, <2>1, MadeCat
  <2>3. Made(((v \o q) \o d) \o q, ((V \cup Q) \cup D) \cup Q)
    BY <1>5, <2>2, MadeCat
  <2>4. QED
    BY <1>2, <2>3, MadeCat
<1> HIDE DEF p, P
<1>8. Opens(p)
  BY <1>3, <1>7, MadeOpens
<1>9. /\ \A y \in P : y.op \notin OtherOps \cup {"remove_all"} /\ y \notin Revokes
      /\ \A e \in Exes : P \cap Lift(e) = {}
  BY <1>3 DEF OtherOps, LockdownOps, TagOps, Revokes, Lift, Switch
<1>10. QED
  BY <1>1, <1>6, <1>7, <1>8, <1>9, HandleSweep

-----------------------------------------------------------------------------
(* Every step.                                                             *)

LEMMA RuleEventSweep ==
  ASSUME SteadyOps, Known, SweepInv, RuleEvent
  PROVE  SweepInv'
<1>1. \A kind \in {"unblock", "disallow", "tag", "edit_tag", "rule", "remove"} :
        kind \notin Ops
  BY DEF SteadyOps
<1>2. /\ \A e \in Exes : /\ ~UnblockSelected(e) /\ ~DisallowSelected(e) /\ ~RemoveSelected(e)
                         /\ \A tag \in Tags \cup {NoTag} :
                              /\ ~TagSelected(e, tag)
                              /\ \A block, allow \in BOOLEAN : ~ApplyRule(e, block, allow, tag)
      /\ \A tag \in Tags : /\ \A block, allow \in BOOLEAN : ~EditTag(tag, block, allow)
                           /\ ~RemoveTagRule(tag)
  BY <1>1 DEF UnblockSelected, DisallowSelected, RemoveSelected, TagSelected, ApplyRule,
     EditTag, RemoveTagRule, Handle
<1>3. \E e \in Exes :
        \/ BlockSelected(e) \/ AllowSelected(e)
        \/ \E answer \in {"temp", "allow", "once", "block"} : Answer(e, answer)
  BY <1>2 DEF RuleEvent
<1>4. QED
  BY <1>3, BlockSelectedSweep, AllowSelectedSweep, AnswersSweep

LEMMA SwitchEventSweep ==
  ASSUME SteadyOps, Known, SweepInv, SwitchEvent
  PROVE  SweepInv'
<1>1. "firewall" \notin Ops /\ "lockdown" \notin Ops
  BY DEF SteadyOps
<1>2. ~ToggleFirewall /\ ~ToggleLockdown
  BY <1>1 DEF ToggleFirewall, ToggleLockdown, Handle
<1>3. QED
  BY <1>2, CloseSweep DEF SwitchEvent

LEMMA NextSweep ==
  ASSUME SteadyOps, Known, SweepInv, [Next]_vars
  PROVE  SweepInv'
<1>1. CASE \E t \in Threads : Step(t)
  BY <1>1, GuiStepSweep, MonStepSweep DEF Threads
<1>2. CASE Tick \/ ShowPrompt
  BY <1>2, TickSweep, ShowPromptSweep
<1>3. CASE MonitorEnds \/ UNCHANGED vars
  BY <1>3, SameSweep DEF MonitorEnds, vars, ldVars, uiVars, lifeVars
<1>4. CASE RuleEvent \/ SwitchEvent
  BY <1>4, RuleEventSweep, SwitchEventSweep
<1>5. CASE Boot
  BY <1>5, BootSweep
<1>6. CASE Crash
  BY <1>6, DownSweep DEF Crash
<1>7. CASE \E e \in Exes : Expire(e)
  BY <1>7, ExpireSweep
<1>8. QED
  BY <1>1, <1>2, <1>3, <1>4, <1>5, <1>6, <1>7 DEF Next

LEMMA InitSweep ==
  ASSUME Init
  PROVE  SweepInv
<1>1. /\ prog["gui"] = <<>> /\ prog["mon"] = <<>> /\ app # "up"
      /\ decided = {} /\ queue = <<>> /\ dialogs = {}
  BY DEF Init, Threads
<1>2. /\ \A S : ~Ahead(S)
      /\ \A ops : OnlyOps(prog["gui"], ops)
  <2>1. \A S : ~Has(<<>>, S)
    BY HasOne
  <2>2. QED
    BY <1>1, <2>1 DEF Ahead, OnlyOps
<1>3. Steady
  BY <1>1, <1>2 DEF Steady
<1>4. ~Live
  BY <1>1 DEF Live
<1>5. QED
  BY <1>1, <1>3, <1>4 DEF SweepInv, SweepShape, Loop

LEMMA RestSweep ==
  ASSUME Known, SweepInv
  PROVE  DecidedIsEnforced
<1> SUFFICES ASSUME AtRest, LockedDown, NEW e \in decided \ Exempt
             PROVE  IsAllowed(e) \/ temp[e] = "expired" \/ e \in osRules
  BY DEF DecidedIsEnforced
<1>1. app = "up" /\ Idle("gui") /\ \A S : ~Ahead(S)
  BY NoneAhead DEF AtRest, Shown, Known, PromptInv, LifeInv
<1>2. e \in Exes /\ e \in Valid /\ temp[e] \in {"none", "live", "expired"}
  BY DEF Known, TypeOK, Exempt
<1>3. CASE e \in cfg.blocked
  BY <1>1, <1>2, <1>3, RestBlock DEF Known, LockedDown
<1>4. CASE PermAllowed(cfg, e)
  BY <1>4 DEF IsAllowed
<1>5. CASE e \notin cfg.blocked /\ ~PermAllowed(cfg, e)
  <2>1. Live /\ Denied(e)
    BY <1>1, <1>2, <1>5 DEF Live, Denied, Free, Listed
  <2>2. e \in osRules \/ temp[e] # "none"
    BY <1>2, <2>1 DEF SweepInv, Enforced
  <2>3. QED
    BY <1>2, <2>2 DEF IsAllowed
<1>6. QED
  BY <1>3, <1>4, <1>5

(* Under Lockdown "only programs on the allow-list may reach the           *)
(* internet": as long as the user blocks, allows, answers and quits, what  *)
(* the sweep has decided stands whenever the GUI thread waits for him.     *)
(* Each executable it will not look at again is exempt, allowed, blocked   *)
(* by Windows, or has a pass that has run out and that the next tick takes *)
(* up, whatever answer or expiry fell into the sweep.                      *)
THEOREM DecisionsStand ==
  ASSUME SteadyOps
  PROVE  Spec => []DecidedIsEnforced
<1>1. NoSwitchInLockdown
  BY DEF SteadyOps, NoSwitchInLockdown
<1>2. Init => BlockInv /\ SweepInv
  BY <1>1, InitBlock, InitSweep
<1>3. TypeOK /\ PromptInv /\ BlockInv /\ [Next]_vars => BlockInv'
  BY <1>1, NextBlockInv
<1>4. TypeOK /\ PromptInv /\ BlockInv /\ SweepInv /\ [Next]_vars => SweepInv'
  BY NextSweep DEF Known
<1>5. TypeOK /\ PromptInv /\ BlockInv /\ SweepInv => DecidedIsEnforced
  BY RestSweep DEF Known
<1>6. QED
  BY <1>2, <1>3, <1>4, <1>5, TypeCorrect, InitPrompt, NextPrompt, PTL DEF Spec

-----------------------------------------------------------------------------
(* QuitLeavesNothing: a regular exit leaves no block behind but the user's *)
(* own.  It takes three things: no switch ends a Lockdown while the sweep  *)
(* may be adding to it, the sweep ends within the join timeout, and no     *)
(* executable leaves a blocked tag, which lifts no rule.                   *)

Retags == Ops \cap {"tag", "rule", "remove"} # {}
NoBlockedTagLeft ==
  ~Retags \/ ("edit_tag" \notin Ops /\ \A d \in Disks : d.tagBlocked = {})

(* What a program still does about the rule of e: it deletes it, ...       *)
Undo(e) == Of("unblock", e) \cup Of("unblock_unlisted", e)
(* ... adds it, or ...                                                     *)
Put(e) == Of("block", e) \cup Of("block_if_on", e)
(* ... takes away the reason for it.                                       *)
Drops == {x \in Instr : x.op = "remove_app" \/ (x.op = "set_blocked" /\ ~x.on)}
Drop(e) == {x \in Drops : e \in x.es}
Changes == Drops \cup Named({"set_tag_blocked"})

(* The user wants the rule of e; the books of the sweep have it.           *)
Kept(e) ==
  \/ e \in cfg.blocked /\ ~Ahead(Drop(e))
  \/ e \in TagBlocked(cfg)
  \/ Ahead(Raise(e))
Held(e) == (e \in ldBlocked \/ MonAt("note", e)) /\ ~Ahead(Named({"forget"}))

(* Every rule has somebody who knows of it, and is added for the user.     *)
Accounted == \A e \in osRules : Kept(e) \/ Ahead(Undo(e)) \/ Held(e)
Puts == \A e \in Exes : Ahead(Put(e)) => Kept(e)

(* A handler changes its mind at once or not at all: a reason is taken     *)
(* away by the first instruction, or by the one after a netsh call or a    *)
(* save.                                                                   *)
Early(p) ==
  p # <<>> =>
    \/ ~Has(Tail(p), Changes)
    \/ Head(p).op \in {"unblock", "save"} /\ ~Has(Tail(Tail(p)), Changes)
ExitLast(p) == \A i \in 1..Len(p) : p[i] \in Exits => i = Len(p)

Ordered ==
  /\ Early(prog["gui"]) /\ ExitLast(prog["gui"])
  /\ Ahead(Named({"set_tag_blocked"})) => ~Ahead(Named({"block", "block_if_on"}))
  /\ IF Retags
     THEN /\ cfg.tagBlocked = {} /\ disk.tagBlocked = {}
          /\ ~Ahead(Named({"set_tag_blocked"}))
     ELSE ~Ahead(Named({"set_exe_tag"}))

(* The blocks of the sweep are lifted by an exit, and only after the       *)
(* monitor thread has ended.                                               *)
Clears == Named({"clear", "forget", "exit"})
Shielded(p) ==
  \E k \in 1..Len(p) : p[k].op = "join" /\ \A i \in 1..k - 1 : p[i].op \in {"save", "halt"}

Closing ==
  /\ alive => ~Ahead(Named({"forget"})) /\ (Ahead(Clears) => Shielded(prog["gui"]))
  /\ Ahead(Named({"start_monitor"})) => ~Ahead(Clears)
  /\ ~alive => Idle("mon")
  /\ Ahead(Exits) => Ahead(Named({"clear", "forget"})) \/ (~alive /\ ldBlocked = {})

QuitInv ==
  /\ SweepShape /\ Ordered /\ Closing
  /\ app = "up" => Accounted /\ Puts
  /\ QuitLeavesNothing

-----------------------------------------------------------------------------
(* The order of programs, on tails and concatenations.                     *)

LEMMA EarlyThen ==
  ASSUME NEW p \in Program, p # <<>>, NEW s \in Program, ~Has(s, Changes), Early(p),
         Head(p).op \in {"unblock", "save"} =>
           s = <<>> \/ (Head(s).op = "unblock" /\ Tail(s) = <<>>)
  PROVE  /\ Early(s \o Tail(p))
         /\ Head(p).op \notin {"unblock", "save"} => ~Has(Tail(p), Changes)
<1> DEFINE T == Tail(p)
           q == s \o T
<1>1. T \in Program /\ q \in Program /\ \A S : Has(q, S) <=> Has(s, S) \/ Has(T, S)
  <2>1. T \in Program
    BY DEF Program
  <2>2. QED
    BY <2>1, CatType, HasCat
<1>2. CASE ~Has(T, Changes)
  <2>1. ~Has(q, Changes)
    BY <1>1, <1>2
  <2> HIDE DEF q
  <2>2. q # <<>> => ~Has(Tail(q), Changes)
    BY <1>1, <2>1, HasTail
  <2>3. QED
    BY <1>2, <2>2 DEF Early, q
<1>3. CASE Head(p).op \in {"unblock", "save"} /\ ~Has(Tail(T), Changes)
  <2>1. CASE s = <<>>
    <3>1. q = T
      BY <1>1, <2>1, ConcatEmptySeq DEF Program
    <3>2. QED
      BY <1>3, <3>1 DEF Early
  <2>2. CASE Head(s).op = "unblock" /\ Tail(s) = <<>> /\ s # <<>>
    <3>1. Head(s) \in Instr /\ s = <<Head(s)>>
      <4>1. Len(s) \in Nat /\ Len(s) > 0 /\ Len(Tail(s)) = Len(s) - 1
        BY <2>2 DEF Program
      <4>2. Len(s) = 1
        BY <2>2, <4>1
      <4>3. QED
        BY <4>2 DEF Program
    <3>2. q # <<>> /\ Head(q) = Head(s) /\ Tail(q) = T
      <4> DEFINE y == Head(s)
      <4>1. y \in Instr /\ s = <<y>>
        BY <3>1
      <4> HIDE DEF y
      <4>2. <<y>> \o T # <<>> /\ Head(<<y>> \o T) = y /\ Tail(<<y>> \o T) = T
        BY <1>1, <4>1, ConsProgram
      <4>3. QED
        BY <4>1, <4>2 DEF y
    <3>3. QED
      BY <1>3, <2>2, <3>2 DEF Early
  <2>3. QED
    BY <1>3, <2>1, <2>2
<1>4. QED
  BY <1>2, <1>3 DEF Early

LEMMA TailCat ==
  ASSUME NEW s \in Program, s # <<>>, NEW u \in Program
  PROVE  /\ s \o u # <<>> /\ Head(s \o u) = Head(s)
         /\ Tail(s \o u) = Tail(s) \o u /\ Tail(s) \in Program /\ Head(s) \in Instr
<1> DEFINE T == Tail(s)
           p == s \o u
<1>1. T \in Program /\ Head(s) \in Instr /\ p \in Program
  BY CatType DEF Program
<1>2. /\ Len(s) \in Nat \ {0} /\ Len(u) \in Nat
      /\ Len(p) = Len(s) + Len(u)
      /\ \A i \in 1..Len(s) + Len(u) : p[i] = IF i <= Len(s) THEN s[i] ELSE u[i - Len(s)]
  BY ConcatProperties DEF Program
<1>3. /\ T \o u \in Program /\ Len(T) = Len(s) - 1 /\ Len(T \o u) = Len(T) + Len(u)
      /\ \A i \in 1..Len(T) : T[i] = s[i + 1]
      /\ \A i \in 1..Len(T) + Len(u) : (T \o u)[i] = IF i <= Len(T) THEN T[i] ELSE u[i - Len(T)]
  BY <1>1, ConcatProperties, CatType DEF Program
<1>4. p # <<>> /\ Head(p) = Head(s)
  BY <1>2 DEF Program
<1>5. /\ Tail(p) \in Program /\ Len(Tail(p)) = Len(p) - 1
      /\ \A i \in 1..Len(p) - 1 : Tail(p)[i] = p[i + 1]
  BY <1>1, <1>4 DEF Program
<1> HIDE DEF T, p
<1>6. \A i \in 1..Len(Tail(p)) : Tail(p)[i] = (T \o u)[i]
  BY <1>2, <1>3, <1>5
<1>7. Tail(p) = T \o u
  <2>1. Tail(p) \in Seq(Instr) /\ T \o u \in Seq(Instr) /\ Len(Tail(p)) = Len(T \o u)
    BY <1>2, <1>3, <1>5 DEF Program
  <2>2. QED
    BY <1>6, <2>1, SeqEqual
<1>8. QED
  BY <1>1, <1>4, <1>7 DEF T, p

LEMMA EarlyCat ==
  ASSUME NEW s \in Program, NEW u \in Program, Early(s), ~Has(u, Changes)
  PROVE  Early(s \o u)
<1>0. \A S : ~Has(<<>>, S)
  BY HasOne
<1>1. CASE s = <<>>
  <2>1. s \o u = u
    BY <1>1, ConcatEmptySeq DEF Program
  <2>2. u # <<>> => ~Has(Tail(u), Changes)
    BY HasTail
  <2>3. QED
    BY <2>1, <2>2 DEF Early
<1>2. CASE s # <<>>
  <2> DEFINE T == Tail(s)
             p == s \o u
  <2>1. p # <<>> /\ Head(p) = Head(s) /\ Tail(p) = T \o u /\ T \in Program
    BY <1>2, TailCat
  <2>2. \A S : Has(T \o u, S) <=> Has(T, S) \/ Has(u, S)
    BY <2>1, HasCat
  <2> HIDE DEF p, T
  <2>3. CASE ~Has(T, Changes)
    BY <2>1, <2>2, <2>3 DEF Early, p
  <2>4. CASE Head(s).op \in {"unblock", "save"} /\ ~Has(Tail(T), Changes) /\ T # <<>>
    <3>1. Tail(T \o u) = Tail(T) \o u /\ Tail(T) \in Program
      BY <2>1, <2>4, TailCat
    <3>2. Has(Tail(T) \o u, Changes) <=> Has(Tail(T), Changes) \/ Has(u, Changes)
      BY <3>1, HasCat
    <3>3. ~Has(Tail(T \o u), Changes)
      BY <2>4, <3>1, <3>2
    <3>4. QED
      BY <2>1, <2>4, <3>3 DEF Early, p
  <2>5. ~Has(T, Changes)
        \/ (Head(s).op \in {"unblock", "save"} /\ ~Has(Tail(T), Changes))
    BY <1>2 DEF Early, T
  <2>6. T = <<>> => ~Has(T, Changes)
    BY <1>0
  <2>7. QED
    BY <2>3, <2>4, <2>5, <2>6
<1>3. QED
  BY <1>1, <1>2

(* A program of an instruction or none, and one that changes its mind in   *)
(* its first instruction.                                                  *)
LEMMA EarlyPair ==
  ASSUME NEW s \in Program, NEW u \in Program, u # <<>>, ~Has(Tail(u), Changes),
         s = <<>> \/ (Tail(s) = <<>> /\ Head(s).op \in {"unblock", "save"})
  PROVE  Early(s \o u)
<1>1. CASE s = <<>>
  <2>1. s \o u = u
    BY <1>1, ConcatEmptySeq DEF Program
  <2>2. QED
    BY <2>1 DEF Early
<1>2. CASE s # <<>>
  <2>1. Head(s \o u) = Head(s) /\ Tail(s \o u) = Tail(s) \o u
    BY <1>2, TailCat
  <2>2. <<>> \o u = u
    BY ConcatEmptySeq DEF Program
  <2>3. Tail(s \o u) = u
    BY <1>2, <2>1, <2>2
  <2>4. QED
    BY <1>2, <2>1, <2>3 DEF Early
<1>3. QED
  BY <1>1, <1>2

LEMMA ExitLastCat ==
  ASSUME NEW s \in Program, NEW u \in Program, ~Has(s, Exits), ExitLast(u)
  PROVE  ExitLast(s \o u)
<1> DEFINE p == s \o u
<1>1. /\ Len(s) \in Nat /\ Len(u) \in Nat /\ Len(p) = Len(s) + Len(u)
      /\ \A i \in 1..Len(s) + Len(u) : p[i] = IF i <= Len(s) THEN s[i] ELSE u[i - Len(s)]
  BY ConcatProperties DEF Program
<1> HIDE DEF p
<1>2. ASSUME NEW i \in 1..Len(p), p[i] \in Exits
      PROVE  i = Len(p)
  <2>1. i \notin 1..Len(s)
    <3>1. i \in 1..Len(s) => s[i] \in Exits
      BY <1>1, <1>2
    <3>2. QED
      BY <3>1 DEF Has
  <2>2. i - Len(s) \in 1..Len(u) /\ u[i - Len(s)] \in Exits
    BY <1>1, <1>2, <2>1
  <2>3. i - Len(s) = Len(u)
    BY <2>2 DEF ExitLast
  <2>4. QED
    BY <1>1, <1>2, <2>3
<1>3. QED
  BY <1>2 DEF ExitLast, p

LEMMA ExitLastTail ==
  ASSUME NEW p \in Program, p # <<>>, ExitLast(p)
  PROVE  ExitLast(Tail(p)) /\ (Head(p) \in Exits => Tail(p) = <<>>)
<1>1. /\ Len(p) \in Nat \ {0} /\ Len(Tail(p)) = Len(p) - 1 /\ Head(p) = p[1]
      /\ Tail(p) \in Seq(Instr)
      /\ \A i \in 1..Len(p) - 1 : Tail(p)[i] = p[i + 1]
  BY DEF Program
<1>2. ASSUME NEW i \in 1..Len(Tail(p)), Tail(p)[i] \in Exits
      PROVE  i = Len(Tail(p))
  <2>1. i \in Nat /\ i + 1 \in 1..Len(p) /\ p[i + 1] \in Exits
    BY <1>1, <1>2
  <2>2. i + 1 = Len(p)
    BY <2>1 DEF ExitLast
  <2>3. i = Len(p) - 1
    BY <2>1, <2>2
  <2>4. QED
    BY <1>1, <2>3
<1>3. Head(p) \in Exits => Len(p) = 1
  <2>1. 1 \in 1..Len(p)
    BY <1>1
  <2>2. QED
    BY <1>1, <2>1 DEF ExitLast
<1>4. Len(p) = 1 => Tail(p) = <<>>
  <2>1. Len(p) = 1 => Len(Tail(p)) = 0
    BY <1>1
  <2>2. QED
    BY <1>1, <2>1, EmptySeq
<1>5. ExitLast(Tail(p))
  BY <1>2 DEF ExitLast
<1>6. QED
  BY <1>3, <1>4, <1>5

LEMMA ShieldedCat ==
  ASSUME NEW s \in Program, NEW u \in Program,
         Shielded(s) \/ (OnlyOps(s, {"save", "halt"}) /\ Shielded(u))
  PROVE  Shielded(s \o u)
<1> DEFINE p == s \o u
<1>1. /\ Len(s) \in Nat /\ Len(u) \in Nat /\ Len(p) = Len(s) + Len(u)
      /\ \A i \in 1..Len(s) + Len(u) : p[i] = IF i <= Len(s) THEN s[i] ELSE u[i - Len(s)]
  BY ConcatProperties DEF Program
<1> HIDE DEF p
<1>2. CASE Shielded(s)
  <2>1. PICK k \in 1..Len(s) :
          s[k].op = "join" /\ \A i \in 1..k - 1 : s[i].op \in {"save", "halt"}
    BY <1>2 DEF Shielded
  <2>2. k \in 1..Len(p) /\ p[k].op = "join"
    BY <1>1, <2>1
  <2>3. \A i \in 1..k - 1 : p[i] = s[i]
    BY <1>1
  <2>4. QED
    BY <2>1, <2>2, <2>3 DEF Shielded, p
<1>3. CASE OnlyOps(s, {"save", "halt"}) /\ Shielded(u)
  <2>1. PICK k \in 1..Len(u) :
          u[k].op = "join" /\ \A i \in 1..k - 1 : u[i].op \in {"save", "halt"}
    BY <1>3 DEF Shielded
  <2> DEFINE m == Len(s) + k
  <2>2. m \in 1..Len(p) /\ p[m].op = "join"
    BY <1>1, <2>1
  <2>3. ASSUME NEW i \in 1..m - 1
        PROVE  p[i].op \in {"save", "halt"}
    <3>1. CASE i <= Len(s)
      <4>1. p[i] = s[i] /\ i \in 1..Len(s)
        BY <1>1, <2>2, <3>1
      <4>2. QED
        BY <1>3, <4>1 DEF OnlyOps
    <3>2. CASE ~(i <= Len(s))
      <4>1. p[i] = u[i - Len(s)] /\ i - Len(s) \in 1..k - 1
        BY <1>1, <2>2, <3>2
      <4>2. QED
        BY <2>1, <4>1
    <3>3. QED
      BY <3>1, <3>2
  <2> HIDE DEF m
  <2>4. QED
    BY <2>2, <2>3 DEF Shielded, p
<1>4. QED
  BY <1>2, <1>3

LEMMA ShieldedTail ==
  ASSUME NEW p \in Program, p # <<>>, Shielded(p)
  PROVE  \/ Head(p).op = "join"
         \/ Head(p).op \in {"save", "halt"} /\ Shielded(Tail(p))
<1>1. /\ Len(p) \in Nat \ {0} /\ Len(Tail(p)) = Len(p) - 1 /\ Head(p) = p[1]
      /\ \A i \in 1..Len(p) - 1 : Tail(p)[i] = p[i + 1]
  BY DEF Program
<1>2. PICK k \in 1..Len(p) :
        p[k].op = "join" /\ \A i \in 1..k - 1 : p[i].op \in {"save", "halt"}
  BY DEF Shielded
<1>3. CASE k = 1
  BY <1>1, <1>2, <1>3
<1>4. CASE k # 1
  <2>1. 1 \in 1..k - 1 /\ k - 1 \in 1..Len(Tail(p)) /\ Tail(p)[k - 1] = p[k]
    BY <1>1, <1>4
  <2>2. \A i \in 1..(k - 1) - 1 : i + 1 \in 1..k - 1 /\ Tail(p)[i] = p[i + 1]
    BY <1>1
  <2>3. Shielded(Tail(p))
    BY <1>2, <2>1, <2>2 DEF Shielded
  <2>4. QED
    BY <1>1, <1>2, <2>1, <2>3
<1>5. QED
  BY <1>3, <1>4

-----------------------------------------------------------------------------
(* The sweep keeps its shape, whatever the user does.                      *)

LEMMA MonShape ==
  ASSUME Known, SweepShape, Step("mon")
  PROVE  SweepShape'
<1>1. \E es \in SUBSET Exes :
        \/ prog'["mon"] = Loop("scan", es)
        \/ \E e \in Exes, op \in SweepsOne :
             prog'["mon"] = DoExe(op, e, FALSE) \o Left(op, e, Loop("scan", es))
  <2>1. CASE Scan("mon")
    <3>1. PICK e0 \in Exes, es \in SUBSET Exes :
            LET p == prog'["mon"]
                rest == Loop("scan", es)
            IN  \/ p = rest
                \/ p = DoExe("mark", e0, FALSE) \o Left("mark", e0, rest)
                \/ p = DoExe("block", e0, FALSE) \o Left("block", e0, rest)
      BY <2>1, ScanForms
    <3>2. QED
      BY <3>1 DEF SweepsOne
  <2>2. CASE BlockApp("mon") \/ Mark("mon") \/ Note("mon") \/ Ask("mon")
    <3>1. PICK op \in SweepsOne :
            /\ At("mon", op)
            /\ Then("mon", <<>>) \/ \E e \in Cur("mon").es : ThenRest("mon", e, <<>>)
      BY <2>2 DEF BlockApp, Mark, Note, Ask, Advance, SweepsOne
    <3>2. PICK e0 \in Exes, es \in SUBSET Exes :
            /\ prog'["mon"] = Left(op, e0, Loop("scan", es))
            /\ \/ Left(op, e0, Loop("scan", es)) = Loop("scan", es)
               \/ \E op1 \in SweepsOne :
                    Left(op, e0, Loop("scan", es))
                      = DoExe(op1, e0, FALSE) \o Left(op1, e0, Loop("scan", es))
      BY <3>1, MonAdvance
    <3>3. QED
      BY <3>2
  <2>3. QED
    BY <2>1, <2>2, MonSweeps DEF Known, SweepStep
<1>2. QED
  BY <1>1 DEF SweepShape, SweepsOne, Left, Mark1, Block1, Note1, Ask1

LEMMA TickShape ==
  ASSUME Known, Tick
  PROVE  SweepShape' /\ prog'["gui"] = prog["gui"]
<1>1. PICK es \in SUBSET Exes : prog' = [prog EXCEPT !["mon"] = Loop("scan", es)]
  <2>1. CASE cfg.lock /\ cfg.fw
    <3>1. PICK es \in SUBSET Exes : prog' = [prog EXCEPT !["mon"] = Loop("scan", Busy \cup es)]
      BY <2>1 DEF Tick
    <3>2. Busy \cup es \in SUBSET Exes
      BY SetsAssumption
    <3>3. QED
      BY <3>1, <3>2
  <2>2. CASE ~(cfg.lock /\ cfg.fw)
    <3>1. prog' = [prog EXCEPT !["mon"] = <<>>]
      BY <2>2 DEF Tick, Known, BlockInv, Quiet, Sweeping, When
    <3>2. <<>> = Loop("scan", {})
      BY DEF Loop
    <3>3. prog' = [prog EXCEPT !["mon"] = Loop("scan", {})]
      BY <3>1, <3>2
    <3>4. WITNESS {} \in SUBSET Exes
    <3>5. QED
      BY <3>3
  <2>3. QED
    BY <2>1, <2>2
<1>2. prog'["mon"] = Loop("scan", es) /\ prog'["gui"] = prog["gui"]
  BY <1>1, TypeSplit DEF Known, Threads
<1>3. QED
  BY <1>2 DEF SweepShape

-----------------------------------------------------------------------------
(* One instruction of the GUI thread: it is replaced by s.                 *)

Rest == Tail(prog["gui"])

LEMMA QuitAt ==
  ASSUME Known, QuitInv, NEW op, At("gui", op)
  PROVE  /\ prog["gui"] # <<>> /\ Cur("gui").op = op /\ Cur("gui") \in Instr
         /\ Cur("gui").es \in SUBSET Exes /\ Cur("gui").on \in BOOLEAN
         /\ prog["gui"] \in Program /\ Rest \in Program
         /\ \A S : Ahead(S) <=> Cur("gui") \in S \/ Has(Rest, S)
         /\ \A ops : Cur("gui") \in Named(ops) <=> op \in ops
         /\ op \notin {"unblock", "save"} => ~Has(Rest, Changes)
         /\ <<>> \in Program /\ \A ops : OnlyOps(<<>>, ops) /\ \A S : ~Has(<<>>, S)
         /\ app = "up" /\ Accounted /\ Puts
<1>1. /\ prog["gui"] # <<>> /\ Cur("gui").op = op /\ Cur("gui") \in Instr
      /\ Cur("gui").es \in SUBSET Exes
      /\ <<>> \in Program /\ \A ops : OnlyOps(<<>>, ops) /\ \A S : ~Has(<<>>, S)
  BY GuiAt DEF Known
<1>2. prog["gui"] \in Program /\ Rest \in Program
  BY <1>1, TypeSplit, CurType DEF Known, Threads, Rest
<1>3. \A S : Ahead(S) <=> Cur("gui") \in S \/ Has(Rest, S)
  BY <1>1, <1>2, HasTail DEF Ahead, Cur, Rest
<1>4. \A ops : Cur("gui") \in Named(ops) <=> op \in ops
  BY <1>1 DEF Named
<1>5. app = "up"
  BY <1>1 DEF Known, PromptInv, LifeInv, Idle, Threads
<1>6. op \notin {"unblock", "save"} => ~Has(Rest, Changes)
  <2>1. Early(prog["gui"])
    BY DEF QuitInv, Ordered
  <2>2. QED
    BY <1>1, <2>1 DEF Early, Cur, Rest
<1>7. Cur("gui").on \in BOOLEAN
  BY <1>1 DEF Instr
<1>8. QED
  BY <1>1, <1>2, <1>3, <1>4, <1>5, <1>6, <1>7 DEF QuitInv

(* What nothing in s can be.                                               *)
LEMMA LoopsHave ==
  ASSUME NEW s, OnlyOps(s, GuiLoops)
  PROVE  /\ ~Has(s, Changes) /\ ~Has(s, Exits)
         /\ ~Has(s, Named({"set_tag_blocked", "set_exe_tag", "start_monitor", "clear"}))
         /\ Has(s, Clears) => Has(s, Named({"forget"}))
         /\ \A e : ~Has(s, Raise(e)) /\ ~Has(s, Drop(e))
<1>1. /\ \A y \in Changes \cup Exits : y.op \notin GuiLoops
      /\ \A y \in Named({"set_tag_blocked", "set_exe_tag", "start_monitor", "clear"}) :
           y.op \notin GuiLoops
      /\ \A e : \A y \in Raise(e) \cup Drop(e) : y.op \notin GuiLoops
  BY DEF Changes, Drops, Drop, Raise, Exits, Named, GuiLoops
<1>2. \A i \in 1..Len(s) : s[i] \in Clears => s[i] \in Named({"forget"})
  BY DEF OnlyOps, Clears, Named, GuiLoops
<1>3. Has(s, Clears) => Has(s, Named({"forget"}))
  BY <1>2 DEF Has
<1>4. QED
  BY <1>1, <1>3, OnlyHas

LEMMA GuiOrdered ==
  ASSUME Known, QuitInv, NEW op, At("gui", op), NEW s \in Program, Then("gui", s),
         OnlyOps(s, GuiLoops),
         op \in {"unblock", "save"} => s = <<>> \/ (Head(s).op = "unblock" /\ Tail(s) = <<>>),
         cfg'.tagBlocked = cfg.tagBlocked \/ op = "set_tag_blocked",
         disk' = disk \/ disk' = cfg
  PROVE  Ordered'
<1> DEFINE P == prog["gui"]
           Q == prog'["gui"]
           Tagging == Named({"set_tag_blocked"})
           Blocking == Named({"block", "block_if_on"})
<1>1. /\ P \in Program /\ P # <<>> /\ Rest \in Program /\ Head(P).op = op
      /\ \A S : Ahead(S) <=> Cur("gui") \in S \/ Has(Rest, S)
      /\ \A ops : Cur("gui") \in Named(ops) <=> op \in ops
      /\ op \notin {"unblock", "save"} => ~Has(Rest, Changes)
  BY QuitAt DEF Cur
<1>2. Q = s \o Rest /\ \A S : Ahead(S)' <=> Has(s, S) \/ Has(Rest, S)
  BY <1>1, Splits, TypeSplit DEF Known, Ahead, Rest, Then, Threads
<1>3. /\ ~Has(s, Changes) /\ ~Has(s, Exits) /\ ~Has(s, Tagging) /\ ~Has(s, Named({"set_exe_tag"}))
  <2>1. ~Has(s, Named({"set_tag_blocked", "set_exe_tag", "start_monitor", "clear"}))
    BY LoopsHave
  <2>2. Has(s, Tagging) \/ Has(s, Named({"set_exe_tag"})) =>
          Has(s, Named({"set_tag_blocked", "set_exe_tag", "start_monitor", "clear"}))
    BY DEF Has, Named
  <2>3. QED
    BY <2>1, <2>2, LoopsHave
<1>4. Early(Q)
  BY <1>1, <1>2, <1>3, EarlyThen DEF QuitInv, Ordered, Rest
<1>5. ExitLast(Q)
  <2>1. ExitLast(Rest)
    BY <1>1, ExitLastTail DEF QuitInv, Ordered, Rest
  <2>2. QED
    BY <1>1, <1>2, <1>3, <2>1, ExitLastCat
<1>6. Ahead(Tagging)' => ~Ahead(Blocking)'
  <2>1. SUFFICES ASSUME Has(Rest, Tagging)
                 PROVE  ~Has(s, Blocking) /\ ~Has(Rest, Blocking)
    BY <1>2, <1>3
  <2>2. ~Has(Rest, Blocking)
    BY <1>1, <2>1 DEF QuitInv, Ordered
  <2>3. op \in {"unblock", "save"}
    <3>1. Has(Rest, Tagging) => Has(Rest, Changes)
      BY DEF Has, Changes
    <3>2. QED
      BY <1>1, <2>1, <3>1
  <2>4. CASE s = <<>>
    <3>1. ~Has(<<>>, Blocking)
      BY HasOne
    <3>2. QED
      BY <2>2, <2>4, <3>1
  <2>5. CASE s # <<>> /\ Head(s).op = "unblock" /\ Tail(s) = <<>>
    <3>1. ~Has(<<>>, Blocking)
      BY HasOne
    <3>2. Has(s, Blocking) => Head(s) \in Blocking
      BY <2>5, <3>1, HasTail
    <3>3. QED
      BY <2>2, <2>5, <3>2 DEF Named
  <2>6. QED
    BY <2>3, <2>4, <2>5
<1>7. IF Retags
      THEN cfg'.tagBlocked = {} /\ disk'.tagBlocked = {} /\ ~Ahead(Tagging)'
      ELSE ~Ahead(Named({"set_exe_tag"}))'
  <2>1. CASE Retags
    <3>1. cfg.tagBlocked = {} /\ disk.tagBlocked = {} /\ ~Ahead(Tagging)
      BY <2>1 DEF QuitInv, Ordered
    <3>2. op # "set_tag_blocked"
      BY <1>1, <3>1
    <3>3. QED
      BY <1>1, <1>2, <1>3, <2>1, <3>1, <3>2
  <2>2. CASE ~Retags
    BY <1>1, <1>2, <1>3, <2>2 DEF QuitInv, Ordered
  <2>3. QED
    BY <2>1, <2>2
<1>8. QED
  BY <1>4, <1>5, <1>6, <1>7 DEF Ordered, Retags

LEMMA GuiClosing ==
  ASSUME Known, QuitInv, NEW op, At("gui", op), NEW s \in Program, Then("gui", s),
         OnlyOps(s, GuiLoops), op # "exit",
         Has(s, Named({"forget"})) <=> op = "clear",
         op \in {"save", "halt"} => s = <<>>,
         alive' = alive \/ (op = "start_monitor" /\ alive'),
         op = "join" => ~alive',
         ldBlocked' \subseteq ldBlocked, op = "forget" => ldBlocked' = {}
  PROVE  Closing'
<1> DEFINE P == prog["gui"]
           Q == prog'["gui"]
           Start == Named({"start_monitor"})
           Forget == Named({"forget"})
           Lifts == Named({"clear", "forget"})
<1>1. /\ P \in Program /\ P # <<>> /\ Rest \in Program /\ Head(P).op = op
      /\ \A S : Ahead(S) <=> Cur("gui") \in S \/ Has(Rest, S)
      /\ \A ops : Cur("gui") \in Named(ops) <=> op \in ops
  BY QuitAt DEF Cur
<1>2. Q = s \o Rest /\ \A S : Ahead(S)' <=> Has(s, S) \/ Has(Rest, S)
  BY <1>1, Splits, TypeSplit DEF Known, Ahead, Rest, Then, Threads
<1>3. /\ ~Has(s, Exits) /\ ~Has(s, Start) /\ (Has(s, Clears) => op = "clear")
      /\ op = "clear" => Has(s, Lifts)
  <2>1. ~Has(s, Named({"set_tag_blocked", "set_exe_tag", "start_monitor", "clear"}))
    BY LoopsHave
  <2>2. /\ Has(s, Start) =>
             Has(s, Named({"set_tag_blocked", "set_exe_tag", "start_monitor", "clear"}))
        /\ Has(s, Forget) => Has(s, Lifts)
    BY DEF Has, Named
  <2>3. QED
    BY <2>1, <2>2, LoopsHave
<1>4. /\ Cur("gui") \in Clears <=> op \in {"clear", "forget", "exit"}
      /\ Cur("gui") \in Exits <=> op = "exit"
      /\ Cur("gui") \in Start <=> op = "start_monitor"
      /\ Cur("gui") \in Forget <=> op = "forget"
      /\ Cur("gui") \in Lifts <=> op \in {"clear", "forget"}
  BY <1>1 DEF Clears, Exits
<1>5. Ahead(Exits) => Ahead(Clears)
  BY DEF Ahead, Has, Exits, Clears, Named
<1>6. /\ alive => ~Ahead(Forget) /\ (Ahead(Clears) => Shielded(P))
      /\ Ahead(Start) => ~Ahead(Clears)
      /\ ~alive => Idle("mon")
      /\ Ahead(Exits) => Ahead(Lifts) \/ (~alive /\ ldBlocked = {})
  BY DEF QuitInv, Closing
<1>7. Shielded(P) => op = "join" \/ (op \in {"save", "halt"} /\ Shielded(Rest))
  BY <1>1, ShieldedTail DEF Rest
<1>8. s = <<>> => Q = Rest
  BY <1>1, <1>2, ConcatEmptySeq DEF Program
<1>9. prog'["mon"] = prog["mon"]
  BY TypeSplit DEF Known, Then, Threads
<1> HIDE DEF P, Q, Start, Forget, Lifts
<1>10. alive /\ alive' => ~Ahead(Forget)' /\ (Ahead(Clears)' => Shielded(Q))
  <2>1. ASSUME alive, alive'
        PROVE  op # "clear"
    BY <1>1, <1>4, <1>6, <1>7, <2>1
  <2>2. ASSUME alive, alive', Ahead(Clears)'
        PROVE  Shielded(Q)
    <3>1. Has(Rest, Clears)
      BY <1>2, <1>3, <2>1, <2>2
    <3>2. op \in {"save", "halt"} /\ Shielded(Rest)
      BY <1>1, <1>6, <1>7, <2>2, <3>1
    <3>3. QED
      BY <1>8, <3>2
  <2>3. alive /\ alive' => ~Ahead(Forget)'
    BY <1>1, <1>2, <1>6, <2>1 DEF Forget
  <2>4. QED
    BY <2>2, <2>3
<1>11. ~alive /\ alive' => ~Ahead(Clears)' /\ ~Ahead(Forget)'
  <2>1. Ahead(Forget)' => Ahead(Clears)'
    BY DEF Ahead, Has, Forget, Clears, Named
  <2>2. QED
    BY <1>1, <1>2, <1>3, <1>4, <1>6, <2>1
<1>12. Ahead(Start)' => ~Ahead(Clears)'
  BY <1>1, <1>2, <1>3, <1>4, <1>6
<1>13. ~alive' => Idle("mon")'
  BY <1>6, <1>9 DEF Idle
<1>14. Ahead(Exits)' => Ahead(Lifts)' \/ (~alive' /\ ldBlocked' = {})
  <2>1. SUFFICES ASSUME Ahead(Exits)', ~Ahead(Lifts)'
                 PROVE  ~alive' /\ ldBlocked' = {}
    OBVIOUS
  <2>2. Ahead(Exits) /\ Ahead(Clears) /\ op # "start_monitor" /\ op # "clear"
    BY <1>1, <1>2, <1>3, <1>4, <1>5, <1>6, <2>1
  <2>3. CASE op = "forget"
    BY <1>1, <1>4, <1>6, <2>2, <2>3
  <2>4. CASE op # "forget"
    BY <1>1, <1>2, <1>4, <1>6, <2>1, <2>2, <2>4
  <2>5. QED
    BY <2>3, <2>4
<1>15. QED
  BY <1>10, <1>11, <1>12, <1>13, <1>14 DEF Closing, Start, Forget, Lifts, Q

(* What the user wants stays wanted.                                       *)
LEMMA KeptStays ==
  ASSUME Known, QuitInv, NEW op, At("gui", op), NEW s \in Program, Then("gui", s),
         OnlyOps(s, GuiLoops), NEW e \in Exes, Kept(e),
         e \in cfg.blocked => e \in cfg'.blocked \/ Cur("gui") \in Drop(e),
         Cur("gui") \in Raise(e) => e \in cfg'.blocked,
         e \in TagBlocked(cfg) => e \in TagBlocked(cfg)'
  PROVE  Kept(e)'
<1>1. /\ \A S : Ahead(S) <=> Cur("gui") \in S \/ Has(Rest, S)
      /\ prog["gui"] # <<>> /\ Cur("gui").op = op
      /\ op \notin {"unblock", "save"} => ~Has(Rest, Changes)
  BY QuitAt
<1>2. \A S : Ahead(S)' <=> Has(s, S) \/ Has(Rest, S)
  BY <1>1, Splits DEF Known, Ahead, Rest
<1>3. ~Has(s, Drop(e))
  BY LoopsHave
<1>4. CASE Cur("gui") \in Raise(e)
  <2>1. ~Has(Rest, Changes)
    BY <1>1, <1>4 DEF Raise
  <2>2. ~Has(Rest, Drop(e))
    BY <2>1 DEF Has, Changes, Drop
  <2>3. QED
    BY <1>2, <1>3, <1>4, <2>2 DEF Kept
<1>5. CASE Cur("gui") \notin Raise(e)
  BY <1>1, <1>2, <1>3, <1>5 DEF Kept
<1>6. QED
  BY <1>4, <1>5

(* What the user has blocked is kept, once no change of mind is ahead.     *)
LEMMA KeptLater ==
  ASSUME Known, QuitInv, NEW op, At("gui", op), op \notin {"unblock", "save"},
         NEW s \in Program, Then("gui", s), OnlyOps(s, GuiLoops), NEW e \in cfg'.blocked
  PROVE  Kept(e)'
<1>1. prog["gui"] # <<>> /\ ~Has(Rest, Changes)
  BY QuitAt
<1>2. \A S : Ahead(S)' <=> Has(s, S) \/ Has(Rest, S)
  BY <1>1, Splits DEF Known, Ahead, Rest
<1>3. ~Has(Rest, Drop(e)) /\ ~Has(s, Drop(e))
  BY <1>1, LoopsHave DEF Has, Changes, Drop
<1>4. QED
  BY <1>2, <1>3 DEF Kept

(* Each rule has somebody who knows of it, as before or from now on.       *)
Spared(op, s, e) ==
  /\ Kept(e) => Kept(e)' \/ (Has(s, Undo(e)) /\ ~Has(Rest, Put(e)))
  /\ Has(s, Put(e)) => Kept(e)'
  /\ e \in osRules' =>
       \/ Kept(e)' \/ Has(s, Undo(e))
       \/ /\ e \in osRules /\ Cur("gui") \notin Undo(e)
          /\ e \in ldBlocked => e \in ldBlocked' \/ op = "forget"

LEMMA GuiQuit ==
  ASSUME Known, QuitInv, NEW op, At("gui", op), NEW s \in Program, Then("gui", s),
         OnlyOps(s, GuiLoops), op # "exit",
         op \in {"unblock", "save"} => s = <<>> \/ (Head(s).op = "unblock" /\ Tail(s) = <<>>),
         op \in {"save", "halt"} => s = <<>>,
         Has(s, Named({"forget"})) <=> op = "clear",
         op = "clear" => \A e \in ldBlocked : Has(s, Undo(e)),
         alive' = alive \/ (op = "start_monitor" /\ alive'), op = "join" => ~alive',
         ldBlocked' \subseteq ldBlocked, op = "forget" => ldBlocked' = {},
         cfg'.tagBlocked = cfg.tagBlocked \/ op = "set_tag_blocked",
         disk' = disk \/ disk' = cfg, app' = app, osRules' \subseteq Exes,
         \A e \in Exes : Spared(op, s, e)
  PROVE  QuitInv'
<1> DEFINE Forget == Named({"forget"})
<1>1. /\ \A S : Ahead(S) <=> Cur("gui") \in S \/ Has(Rest, S)
      /\ \A ops : Cur("gui") \in Named(ops) <=> op \in ops
      /\ prog["gui"] # <<>> /\ prog["gui"] \in Program /\ Head(prog["gui"]).op = op
      /\ app = "up" /\ Accounted /\ Puts
  BY QuitAt DEF Cur
<1>2. \A S : Ahead(S)' <=> Has(s, S) \/ Has(Rest, S)
  BY <1>1, Splits DEF Known, Ahead, Rest
<1>3. /\ prog'["mon"] = prog["mon"] /\ \A e : MonAt("note", e)' <=> MonAt("note", e)
  <2>1. prog'["mon"] = prog["mon"]
    BY TypeSplit DEF Known, Then, Threads
  <2>2. QED
    BY <2>1 DEF MonAt, At, Cur
<1>4. Ordered' /\ Closing' /\ SweepShape'
  BY <1>3, GuiOrdered, GuiClosing DEF QuitInv, SweepShape
<1>5. /\ alive => op # "clear"
      /\ \A e : MonAt("note", e) => alive
  <2>1. alive /\ Ahead(Clears) => Shielded(prog["gui"])
    BY DEF QuitInv, Closing
  <2>2. op = "clear" => Ahead(Clears)
    BY <1>1 DEF Clears
  <2>3. Shielded(prog["gui"]) => op \in {"join", "save", "halt"}
    BY <1>1, ShieldedTail
  <2>4. ~alive => Idle("mon")
    BY DEF QuitInv, Closing
  <2>5. QED
    BY <2>1, <2>2, <2>3, <2>4 DEF MonAt, At, Idle
<1>6. ASSUME NEW e \in osRules'
      PROVE  Kept(e)' \/ Ahead(Undo(e))' \/ Held(e)'
  <2>1. Spared(op, s, e)
    OBVIOUS
  <2>2. CASE Kept(e)' \/ Has(s, Undo(e))
    BY <1>2, <2>2
  <2>3. CASE /\ e \in osRules /\ Cur("gui") \notin Undo(e)
             /\ e \in ldBlocked => e \in ldBlocked' \/ op = "forget"
             /\ ~Kept(e)' /\ ~Has(s, Undo(e))
    <3>1. CASE Kept(e)
      BY <2>1, <2>3, <3>1 DEF Spared
    <3>2. CASE Ahead(Undo(e))
      BY <1>1, <1>2, <2>3, <3>2
    <3>3. CASE Held(e)
      <4>1. op # "forget" /\ ~Has(Rest, Forget)
        BY <1>1, <3>3 DEF Held
      <4>2. op # "clear"
        BY <1>5, <2>3, <3>3 DEF Held
      <4>3. ~Ahead(Forget)'
        BY <1>2, <4>1, <4>2
      <4>4. QED
        BY <1>3, <2>3, <3>3, <4>1, <4>3 DEF Held
    <3>4. QED
      BY <1>1, <2>3, <3>1, <3>2, <3>3 DEF Accounted
  <2>4. QED
    BY <2>1, <2>2, <2>3 DEF Spared
<1>7. Puts'
  <2>1. ASSUME NEW e \in Exes, Ahead(Put(e))'
        PROVE  Kept(e)'
    BY <1>1, <1>2, <2>1 DEF Spared, Puts
  <2>2. QED
    BY <2>1 DEF Puts
<1>8. QED
  BY <1>1, <1>4, <1>6, <1>7 DEF QuitInv, Accounted, QuitLeavesNothing

(* Loops, as the invariant sees them.                                      *)
NetshLoops == GuiLoops \ {"forget"}

LEMMA LoopQuit ==
  ASSUME NEW op \in NetshLoops, NEW es \in SUBSET Exes, NEW r, r = Loop(op, es)
  PROVE  /\ r \in Program /\ OnlyOps(r, GuiLoops) /\ ~Has(r, Named({"forget"}))
         /\ \A e : Has(r, Put(e)) <=> op \in {"block", "block_if_on"} /\ e \in es
         /\ \A e : Has(r, Undo(e)) <=> op \in {"unblock", "unblock_unlisted"} /\ e \in es
         /\ r = <<>> \/ (r # <<>> /\ Head(r).op = op /\ Tail(r) = <<>>)
<1> DEFINE x == I(op, es, NoTag, FALSE)
<1>1. op \in OpNames \ TagOps /\ {op} \subseteq GuiLoops /\ op # "forget"
  BY DEF NetshLoops, GuiLoops, OpNames, TagOps
<1>2. /\ x \in Instr /\ x.op = op /\ x.es = es
      /\ r = (IF es = {} THEN <<>> ELSE <<x>>)
      /\ r \in Program /\ OnlyOps(r, {op})
      /\ \A S : Has(r, S) <=> es # {} /\ x \in S
  BY <1>1, LoopInstr
<1>3. r = <<>> \/ (r # <<>> /\ Head(r).op = op /\ Tail(r) = <<>>)
  <2>1. <<x>> # <<>> /\ Head(<<x>>) = x /\ Tail(<<x>>) = <<>>
    OBVIOUS
  <2> HIDE DEF x
  <2>2. QED
    BY <1>2, <2>1
<1> HIDE DEF x
<1>4. OnlyOps(r, GuiLoops)
  BY <1>1, <1>2, OnlyOpsMono
<1>5. /\ x \notin Named({"forget"})
      /\ \A e : x \in Put(e) <=> op \in {"block", "block_if_on"} /\ e \in es
      /\ \A e : x \in Undo(e) <=> op \in {"unblock", "unblock_unlisted"} /\ e \in es
  BY <1>1, <1>2 DEF Named, Put, Undo, Of
<1>6. QED
  BY <1>2, <1>3, <1>4, <1>5

(* A loop goes on with the others: s is run in its place, with op0 for e0  *)
(* first if b.                                                             *)
Body(op, e0, op0, b, s) ==
  /\ OnlyOps(s, GuiLoops) /\ Then("gui", s) /\ ~Has(s, Named({"forget"}))
  /\ \A e : Has(s, Put(e)) <=>
       \/ op \in {"block", "block_if_on"} /\ e \in Cur("gui").es \ {e0}
       \/ b /\ op0 \in {"block", "block_if_on"} /\ e = e0
  /\ \A e : Has(s, Undo(e)) <=>
       \/ op \in {"unblock", "unblock_unlisted"} /\ e \in Cur("gui").es \ {e0}
       \/ b /\ op0 \in {"unblock", "unblock_unlisted"} /\ e = e0
  /\ ~b => s = <<>> \/ (Head(s).op = op /\ Tail(s) = <<>>)

LEMMA RestQuit ==
  ASSUME Known, QuitInv, NEW op \in NetshLoops, At("gui", op), NEW e0 \in Cur("gui").es,
         NEW op0 \in NetshLoops, NEW w \in {<<>>, Loop(op0, {e0})}, ThenRest("gui", e0, w)
  PROVE  \E s \in Program : Body(op, e0, op0, w # <<>>, s)
<1> DEFINE others == Cur("gui").es \ {e0}
           r == Loop(op, others)
<1>1. /\ Cur("gui").op = op /\ others \in SUBSET Exes /\ e0 \in Exes
      /\ \A ops : OnlyOps(<<>>, ops) /\ \A S : ~Has(<<>>, S) /\ <<>> \in Program
  BY QuitAt
<1>2. Then("gui", w \o r)
  BY <1>1 DEF ThenRest, Cur
<1> HIDE DEF others
<1>3. /\ r \in Program /\ OnlyOps(r, GuiLoops) /\ ~Has(r, Named({"forget"}))
      /\ \A e : Has(r, Put(e)) <=> op \in {"block", "block_if_on"} /\ e \in others
      /\ \A e : Has(r, Undo(e)) <=> op \in {"unblock", "unblock_unlisted"} /\ e \in others
      /\ r = <<>> \/ (r # <<>> /\ Head(r).op = op /\ Tail(r) = <<>>)
  BY <1>1, LoopQuit
<1>4. /\ w \in Program /\ OnlyOps(w, GuiLoops) /\ ~Has(w, Named({"forget"}))
      /\ \A e : Has(w, Put(e)) <=> w # <<>> /\ op0 \in {"block", "block_if_on"} /\ e = e0
      /\ \A e : Has(w, Undo(e)) <=> w # <<>> /\ op0 \in {"unblock", "unblock_unlisted"} /\ e = e0
  <2>1. CASE w = <<>>
    BY <1>1, <2>1
  <2>2. CASE w = Loop(op0, {e0})
    <3>1. {e0} \in SUBSET Exes /\ Loop(op0, {e0}) # <<>>
      BY <1>1 DEF Loop
    <3>2. /\ w \in Program /\ OnlyOps(w, GuiLoops) /\ ~Has(w, Named({"forget"}))
          /\ \A e : Has(w, Put(e)) <=> op0 \in {"block", "block_if_on"} /\ e \in {e0}
          /\ \A e : Has(w, Undo(e)) <=> op0 \in {"unblock", "unblock_unlisted"} /\ e \in {e0}
      BY <2>2, <3>1, LoopQuit
    <3>3. w # <<>> /\ \A e : e \in {e0} <=> e = e0
      BY <2>2, <3>1
    <3>4. QED
      BY <3>2, <3>3
  <2>3. QED
    BY <2>1, <2>2
<1> HIDE DEF r
<1>5. /\ w \o r \in Program /\ OnlyOps(w \o r, GuiLoops)
      /\ \A S : Has(w \o r, S) <=> Has(w, S) \/ Has(r, S)
  BY <1>3, <1>4, CatType, OnlyOpsCat, HasCat
<1>6. w = <<>> => w \o r = r
  BY <1>3, ConcatEmptySeq DEF Program
<1>7. QED
  BY <1>2, <1>3, <1>4, <1>5, <1>6 DEF others, Body

-----------------------------------------------------------------------------
(* The instructions of the GUI thread one by one.                          *)

(* What leaves the rules alone, adds none and lifts none.                  *)
LEMMA CalmQuit ==
  ASSUME Known, QuitInv, NEW op, At("gui", op), NEW s \in Program, Then("gui", s),
         OnlyOps(s, GuiLoops), ~Has(s, Named({"forget"})), \A e : ~Has(s, Put(e)),
         op \notin {"exit", "clear", "unblock", "unblock_unlisted"},
         op \in {"save", "halt"} => s = <<>>,
         alive' = alive \/ (op = "start_monitor" /\ alive'), op = "join" => ~alive',
         ldBlocked' = IF op = "forget" THEN {} ELSE ldBlocked,
         cfg'.tagBlocked = cfg.tagBlocked, TagBlocked(cfg) \subseteq TagBlocked(cfg)',
         \A e \in cfg.blocked : e \in cfg'.blocked \/ Cur("gui") \in Drop(e),
         \A e : Cur("gui") \in Raise(e) => e \in cfg'.blocked,
         disk' = disk \/ disk' = cfg, app' = app, osRules' = osRules
  PROVE  QuitInv'
<1>1. Cur("gui").op = op
  BY QuitAt
<1>2. \A e : Cur("gui") \notin Undo(e)
  BY <1>1 DEF Undo, Of
<1>3. osRules' \subseteq Exes
  BY SetsAssumption DEF Known, TypeOK
<1>4. ASSUME NEW e \in Exes
      PROVE  Spared(op, s, e)
  <2>1. Kept(e) => Kept(e)'
    BY KeptStays
  <2>2. QED
    BY <1>2, <2>1 DEF Spared
<1>5. QED
  BY <1>3, <1>4, GuiQuit

(* Nothing is left to be done in its place.                                *)
LEMMA AdvanceQuit ==
  ASSUME Known, QuitInv, NEW op, At("gui", op), Advance("gui"),
         op \notin {"exit", "clear", "unblock", "unblock_unlisted"},
         alive' = alive \/ (op = "start_monitor" /\ alive'), op = "join" => ~alive',
         ldBlocked' = IF op = "forget" THEN {} ELSE ldBlocked,
         cfg'.tagBlocked = cfg.tagBlocked, TagBlocked(cfg) \subseteq TagBlocked(cfg)',
         \A e \in cfg.blocked : e \in cfg'.blocked \/ Cur("gui") \in Drop(e),
         \A e : Cur("gui") \in Raise(e) => e \in cfg'.blocked,
         disk' = disk \/ disk' = cfg, app' = app, osRules' = osRules
  PROVE  QuitInv'
<1>1. Then("gui", <<>>)
  BY DEF Advance
<1>2. <<>> \in Program /\ OnlyOps(<<>>, GuiLoops) /\ \A S : ~Has(<<>>, S)
  BY QuitAt
<1>3. QED
  BY <1>1, <1>2, CalmQuit

LEMMA PlainStepQuit ==
  ASSUME Known, QuitInv, JoinWaits,
         \/ Save("gui") \/ AllowSettled("gui") \/ TempAllow("gui") \/ Answered("gui")
         \/ Finish("gui") \/ ForgetLockdown("gui") \/ SetFirewallEnabled("gui")
         \/ StartMonitor("gui") \/ ShowUI("gui") \/ Halt("gui") \/ Join("gui")
         \/ Destroy("gui")
  PROVE  QuitInv'
<1>1. PICK op \in {"save", "allow_settled", "temp_allow", "answered", "finish", "forget",
                   "set_firewall", "start_monitor", "show_ui", "halt", "join", "destroy"} :
        /\ At("gui", op) /\ Advance("gui")
        /\ alive' = alive \/ (op = "start_monitor" /\ alive')
        /\ op = "join" => ~alive'
        /\ ldBlocked' = IF op = "forget" THEN {} ELSE ldBlocked
        /\ cfg' = cfg \/ cfg' = [cfg EXCEPT !.fw = Cur("gui").on]
        /\ disk' = disk \/ disk' = cfg
        /\ app' = app /\ osRules' = osRules
  <2>1. CASE Save("gui")
    BY <2>1 DEF Save, ldVars, lifeVars
  <2>2. CASE AllowSettled("gui")
    BY <2>2 DEF AllowSettled, lifeVars
  <2>3. CASE TempAllow("gui")
    BY <2>3 DEF TempAllow, lifeVars
  <2>4. CASE Answered("gui")
    BY <2>4 DEF Answered, lifeVars
  <2>5. CASE Finish("gui")
    BY <2>5 DEF Finish, ldVars, lifeVars
  <2>6. CASE ForgetLockdown("gui")
    BY <2>6 DEF ForgetLockdown, lifeVars
  <2>7. CASE SetFirewallEnabled("gui")
    BY <2>7 DEF SetFirewallEnabled, ldVars, lifeVars
  <2>8. CASE StartMonitor("gui")
    BY <2>8 DEF StartMonitor, ldVars
  <2>9. CASE ShowUI("gui")
    BY <2>9 DEF ShowUI, ldVars, lifeVars
  <2>10. CASE Halt("gui")
    BY <2>10 DEF Halt, ldVars
  <2>11. CASE Join("gui")
    BY <2>11 DEF Join, ldVars, lifeVars
  <2>12. CASE Destroy("gui")
    BY <2>12 DEF Destroy, ldVars, lifeVars
  <2>13. QED
    BY <2>1, <2>2, <2>3, <2>4, <2>5, <2>6, <2>7, <2>8, <2>9, <2>10, <2>11, <2>12
<1>2. /\ cfg'.blocked = cfg.blocked /\ cfg'.tagBlocked = cfg.tagBlocked
      /\ cfg'.tagOf = cfg.tagOf
  BY <1>1 DEF Known, TypeOK, Settings
<1>3. TagBlocked(cfg)' = TagBlocked(cfg)
  BY <1>2 DEF TagBlocked
<1>4. \A e : Cur("gui") \notin Raise(e)
  <2>1. Cur("gui").op = op
    BY <1>1, QuitAt
  <2>2. QED
    BY <2>1 DEF Raise
<1>5. QED
  BY <1>1, <1>2, <1>3, <1>4, AdvanceQuit

LEMMA ListQuit ==
  ASSUME Known, QuitInv, SetBlocked("gui") \/ SetExeTag("gui")
  PROVE  QuitInv'
<1> DEFINE x == Cur("gui")
<1>1. CASE SetBlocked("gui")
  <2>1. /\ At("gui", "set_blocked") /\ Advance("gui")
        /\ cfg' = [cfg EXCEPT !.blocked = IF x.on THEN @ \cup x.es ELSE @ \ x.es]
        /\ UNCHANGED <<disk, osRules, ldBlocked, app, alive>>
    BY <1>1 DEF SetBlocked, lifeVars
  <2>2. /\ cfg'.tagBlocked = cfg.tagBlocked /\ cfg'.tagOf = cfg.tagOf
        /\ cfg'.blocked = IF x.on THEN cfg.blocked \cup x.es ELSE cfg.blocked \ x.es
    BY <2>1 DEF Known, TypeOK, Settings
  <2>3. x \in Instr /\ x.op = "set_blocked"
    BY <2>1, QuitAt
  <2>4. TagBlocked(cfg)' = TagBlocked(cfg)
    BY <2>2 DEF TagBlocked
  <2>5. /\ \A e \in cfg.blocked : e \in cfg'.blocked \/ x \in Drop(e)
        /\ \A e : x \in Raise(e) => e \in cfg'.blocked
    BY <2>2, <2>3 DEF Drop, Drops, Raise
  <2>6. QED
    BY <2>1, <2>2, <2>4, <2>5, AdvanceQuit
<1>2. CASE SetExeTag("gui")
  <2>1. /\ At("gui", "set_exe_tag") /\ Advance("gui")
        /\ UNCHANGED <<disk, osRules, ldBlocked, app, alive>>
    BY <1>2 DEF SetExeTag, ldVars, lifeVars
  <2>2. cfg'.tagBlocked = cfg.tagBlocked /\ cfg'.blocked = cfg.blocked
    BY <1>2 DEF SetExeTag, Known, TypeOK, Settings
  <2>3. x.op = "set_exe_tag" /\ x \in Named({"set_exe_tag"}) /\ \A S : x \in S => Ahead(S)
    BY <2>1, QuitAt
  <2>4. cfg.tagBlocked = {}
    BY <2>3 DEF QuitInv, Ordered
  <2>5. TagBlocked(cfg) = {}
    BY <2>4 DEF TagBlocked
  <2>6. \A e : x \notin Raise(e)
    BY <2>3 DEF Raise
  <2>7. QED
    BY <2>1, <2>2, <2>5, <2>6, AdvanceQuit
<1>3. QED
  BY <1>1, <1>2

(* A loop that adds nothing.                                               *)
LEMMA LiftQuit ==
  ASSUME Known, QuitInv,
         SetAllowed("gui") \/ SetTagAllowed("gui") \/ RemoveApp("gui") \/ RemoveAllRules("gui")
  PROVE  QuitInv'
<1> DEFINE x == Cur("gui")
           Listing == cfg'.blocked = cfg.blocked
<1>1. \A op : At("gui", op) => x.es \in SUBSET Exes /\ x \in Instr /\ x.op = op
  BY QuitAt
<1>2. \A b, l, es : When(b, Loop(l, es)) = Loop(l, IF b THEN es ELSE {})
  BY DEF When, Loop
<1>3. PICK op \in {"set_allowed", "set_tag_allowed", "remove_app", "remove_all"},
           l \in {"lockdown_unblock", "unblock"}, es \in SUBSET Exes :
        /\ At("gui", op) /\ Then("gui", Loop(l, es))
        /\ Listing \/ (op = "remove_app" /\ cfg'.blocked = cfg.blocked \ x.es)
        /\ cfg'.tagBlocked = cfg.tagBlocked /\ cfg'.tagOf = cfg.tagOf
        /\ UNCHANGED <<disk, osRules, ldBlocked, app, alive>>
  <2>1. CASE SetAllowed("gui")
    <3> DEFINE es == IF x.on THEN x.es ELSE {}
    <3>1. At("gui", "set_allowed") /\ Then("gui", When(x.on, Loop("lockdown_unblock", x.es)))
      BY <2>1 DEF SetAllowed
    <3>2. es \in SUBSET Exes /\ Then("gui", Loop("lockdown_unblock", es))
      BY <1>1, <1>2, <3>1
    <3>3. /\ UNCHANGED <<disk, osRules, ldBlocked, app, alive>> /\ Listing
          /\ cfg'.tagBlocked = cfg.tagBlocked /\ cfg'.tagOf = cfg.tagOf
      BY <2>1 DEF SetAllowed, ldVars, lifeVars, Known, TypeOK, Settings
    <3> HIDE DEF es, Listing
    <3>4. QED
      BY <3>1, <3>2, <3>3
  <2>2. CASE SetTagAllowed("gui")
    <3> DEFINE all == Members(cfg, x.tag)
               es == IF x.on THEN all ELSE {}
    <3>1. At("gui", "set_tag_allowed") /\ Then("gui", When(x.on, Loop("lockdown_unblock", all)))
      BY <2>2 DEF SetTagAllowed
    <3>2. es \in SUBSET Exes /\ Then("gui", Loop("lockdown_unblock", es))
      BY <1>2, <3>1 DEF Members
    <3>3. /\ UNCHANGED <<disk, osRules, ldBlocked, app, alive>> /\ Listing
          /\ cfg'.tagBlocked = cfg.tagBlocked /\ cfg'.tagOf = cfg.tagOf
      BY <2>2 DEF SetTagAllowed, lifeVars, Known, TypeOK, Settings
    <3> HIDE DEF es, Listing
    <3>4. QED
      BY <3>1, <3>2, <3>3
  <2>3. CASE RemoveApp("gui")
    <3> DEFINE es == x.es \cap cfg.blocked
    <3>1. At("gui", "remove_app") /\ Then("gui", Loop("unblock", es))
      BY <2>3 DEF RemoveApp
    <3>2. es \in SUBSET Exes
      BY <1>1, <3>1
    <3>3. /\ UNCHANGED <<disk, osRules, ldBlocked, app, alive>>
          /\ cfg'.blocked = cfg.blocked \ x.es
          /\ cfg'.tagBlocked = cfg.tagBlocked /\ cfg'.tagOf = cfg.tagOf
      BY <2>3 DEF RemoveApp, ldVars, lifeVars, Known, TypeOK, Settings
    <3> HIDE DEF es, Listing
    <3>4. QED
      BY <3>1, <3>2, <3>3
  <2>4. CASE RemoveAllRules("gui")
    <3>1. At("gui", "remove_all") /\ Then("gui", Loop("unblock", osRules))
      BY <2>4 DEF RemoveAllRules
    <3>2. osRules \in SUBSET Exes
      BY SetsAssumption DEF Known, TypeOK
    <3>3. UNCHANGED <<cfg, disk, osRules, ldBlocked, app, alive>>
      BY <2>4 DEF RemoveAllRules, ldVars, lifeVars
    <3>4. QED
      BY <3>1, <3>2, <3>3
  <2>5. QED
    BY <2>1, <2>2, <2>3, <2>4
<1> DEFINE s == Loop(l, es)
<1>4. /\ s \in Program /\ OnlyOps(s, GuiLoops) /\ ~Has(s, Named({"forget"}))
      /\ \A e : ~Has(s, Put(e))
  <2>1. l \in NetshLoops
    BY DEF NetshLoops, GuiLoops
  <2>2. /\ s \in Program /\ OnlyOps(s, GuiLoops) /\ ~Has(s, Named({"forget"}))
        /\ \A e : Has(s, Put(e)) <=> l \in {"block", "block_if_on"} /\ e \in es
    BY <2>1, LoopQuit
  <2>3. QED
    BY <2>2
<1> HIDE DEF s
<1>5. TagBlocked(cfg)' = TagBlocked(cfg)
  BY <1>3 DEF TagBlocked
<1>6. /\ \A e \in cfg.blocked : e \in cfg'.blocked \/ x \in Drop(e)
      /\ \A e : x \notin Raise(e)
  BY <1>1, <1>3 DEF Drop, Drops, Raise
<1>7. QED
  BY <1>3, <1>4, <1>5, <1>6, CalmQuit DEF s

(* Everything blocked is put into force, and everything is wanted.         *)
LEMMA ApplyBlocksQuit ==
  ASSUME Known, QuitInv, ApplyBlocks("gui")
  PROVE  QuitInv'
<1> DEFINE all == UserBlocked(cfg)
           s == Loop("block", all)
<1>1. /\ At("gui", "apply_blocks") /\ Then("gui", s)
      /\ UNCHANGED <<cfg, disk, osRules, ldBlocked, app, alive>>
  BY DEF ApplyBlocks, ldVars, lifeVars
<1>2. all \in SUBSET Exes /\ "block" \in NetshLoops
  BY DEF UserBlocked, TagBlocked, Known, TypeOK, Settings, NetshLoops, GuiLoops
<1> HIDE DEF all
<1>3. /\ s \in Program /\ OnlyOps(s, GuiLoops) /\ ~Has(s, Named({"forget"}))
      /\ \A e : Has(s, Put(e)) => e \in all
  BY <1>2, LoopQuit
<1> HIDE DEF s
<1>4. Cur("gui").op = "apply_blocks" /\ osRules \subseteq Exes
  BY <1>1, QuitAt, SetsAssumption DEF Known, TypeOK
<1>5. ASSUME NEW e \in Exes
      PROVE  Spared("apply_blocks", s, e)
  <2>1. Cur("gui") \notin Undo(e) /\ Cur("gui") \notin Raise(e)
    BY <1>4 DEF Undo, Of, Raise
  <2>2. Kept(e) => Kept(e)'
    BY <1>1, <1>3, <2>1, KeptStays
  <2>3. e \in cfg.blocked => Kept(e)'
    BY <1>1, <1>3, KeptLater
  <2>4. e \in TagBlocked(cfg) => Kept(e)'
    BY <1>1 DEF Kept
  <2>5. QED
    BY <1>1, <1>3, <2>1, <2>2, <2>3, <2>4 DEF Spared, all, UserBlocked
<1>6. QED
  BY <1>1, <1>3, <1>4, <1>5, GuiQuit

(* The blocks of the sweep are lifted before the books are emptied.        *)
LEMMA ClearQuit ==
  ASSUME Known, QuitInv, ClearLockdownBlocks("gui")
  PROVE  QuitInv'
<1> DEFINE l == Loop("unblock_unlisted", ldBlocked)
           f == Do("forget")
           s == l \o f
<1>1. /\ At("gui", "clear") /\ Then("gui", s)
      /\ UNCHANGED <<cfg, disk, osRules, ldBlocked, app, alive>>
  BY DEF ClearLockdownBlocks, ldVars, lifeVars
<1>2. ldBlocked \in SUBSET Exes /\ "unblock_unlisted" \in NetshLoops
  BY DEF Known, TypeOK, NetshLoops, GuiLoops
<1>3. /\ l \in Program /\ OnlyOps(l, GuiLoops)
      /\ \A e : Has(l, Put(e)) <=> "unblock_unlisted" \in {"block", "block_if_on"} /\ e \in ldBlocked
      /\ \A e : Has(l, Undo(e)) <=>
           "unblock_unlisted" \in {"unblock", "unblock_unlisted"} /\ e \in ldBlocked
  BY <1>2, LoopQuit
<1>4. f \in Program /\ OnlyOps(f, GuiLoops) /\ Has(f, Named({"forget"}))
  <2>1. "forget" \in OpNames \ TagOps /\ {"forget"} \subseteq GuiLoops
    BY DEF OpNames, TagOps, GuiLoops
  <2> DEFINE x == I("forget", {}, NoTag, FALSE)
  <2>2. /\ f \in Program /\ OnlyOps(f, {"forget"}) /\ x \in Instr /\ x.op = "forget"
        /\ \A S : Has(f, S) <=> x \in S
    BY <2>1, DoInstr
  <2> HIDE DEF x, f
  <2>3. QED
    BY <2>1, <2>2, OnlyOpsMono DEF Named
<1>5. \A e : ~Has(f, Put(e))
  <2>1. OnlyOps(f, {"forget"}) /\ \A e : \A y \in Put(e) : y.op \notin {"forget"}
    BY OnlyOpsProgs DEF OpNames, Put, Of
  <2>2. QED
    BY <2>1, OnlyHas
<1> HIDE DEF l, f
<1>6. /\ s \in Program /\ OnlyOps(s, GuiLoops)
      /\ \A S : Has(s, S) <=> Has(l, S) \/ Has(f, S)
  BY <1>3, <1>4, CatType, OnlyOpsCat, HasCat
<1> HIDE DEF s
<1>7. Cur("gui").op = "clear" /\ osRules \subseteq Exes
  BY <1>1, QuitAt, SetsAssumption DEF Known, TypeOK
<1>8. ASSUME NEW e \in Exes
      PROVE  Spared("clear", s, e)
  <2>1. Cur("gui") \notin Undo(e) /\ Cur("gui") \notin Raise(e)
    BY <1>7 DEF Undo, Of, Raise
  <2>2. Kept(e) => Kept(e)'
    BY <1>1, <1>6, <2>1, KeptStays
  <2>3. QED
    BY <1>1, <1>3, <1>5, <1>6, <2>1, <2>2 DEF Spared
<1>9. QED
  BY <1>1, <1>3, <1>4, <1>6, <1>7, <1>8, GuiQuit

(* A netsh loop takes e0: with b it is followed up by op0 for e0.          *)
LEMMA BodyQuit ==
  ASSUME Known, QuitInv, NEW op \in NetshLoops, At("gui", op), NEW e0 \in Cur("gui").es,
         NEW op0 \in NetshLoops, NEW b \in BOOLEAN,
         ThenRest("gui", e0, When(b, DoExe(op0, e0, FALSE)))
  PROVE  \E s \in Program : Body(op, e0, op0, b, s)
<1> DEFINE l == Loop(op0, {e0})
           w == When(b, DoExe(op0, e0, FALSE))
<1>1. l = DoExe(op0, e0, FALSE) /\ l # <<>>
  BY DEF Loop, DoExe, I
<1>2. w \in {<<>>, l} /\ (w = <<>> <=> ~b)
  BY <1>1 DEF When
<1> HIDE DEF w, l
<1>3. ThenRest("gui", e0, w)
  BY DEF w
<1>4. w \in {<<>>, Loop(op0, {e0})}
  BY <1>2 DEF l
<1>5. PICK s \in Program : Body(op, e0, op0, w # <<>>, s)
  BY <1>3, <1>4, RestQuit
<1>6. Body(op, e0, op0, b, s)
  BY <1>2, <1>5 DEF Body
<1>7. QED
  BY <1>6

(* A netsh loop, or a call of its body.                                    *)
LEMMA NetshQuit ==
  ASSUME Known, QuitInv, NEW op \in NetshLoops, At("gui", op), NEW s \in Program,
         Then("gui", s), OnlyOps(s, GuiLoops), ~Has(s, Named({"forget"})),
         op = "unblock" => s = <<>> \/ (Head(s).op = op /\ Tail(s) = <<>>),
         UNCHANGED <<cfg, disk, app, alive>>, ldBlocked' \subseteq ldBlocked,
         osRules' \subseteq Valid, \A e \in Exes : Spared(op, s, e)
  PROVE  QuitInv'
<1>1. op \in {"block", "unblock", "block_if_on", "unblock_unlisted", "lockdown_unblock"}
  BY DEF NetshLoops, GuiLoops
<1>2. osRules' \subseteq Exes
  BY SetsAssumption
<1>3. QED
  BY <1>1, <1>2, GuiQuit

(* The settings stay, and so does what the user wants.                     *)
LEMMA NetshKept ==
  ASSUME Known, QuitInv, NEW op \in NetshLoops, At("gui", op), NEW s \in Program,
         Then("gui", s), OnlyOps(s, GuiLoops), cfg' = cfg, NEW e \in Exes
  PROVE  /\ Kept(e) => Kept(e)'
         /\ op # "unblock" /\ e \in cfg.blocked => Kept(e)'
         /\ Cur("gui") \in Put(e) \/ Has(Rest, Put(e)) => Kept(e)
         /\ Cur("gui") \in Undo(e) <=>
              op \in {"unblock", "unblock_unlisted"} /\ e \in Cur("gui").es
         /\ Cur("gui") \in Put(e) <=> op \in {"block", "block_if_on"} /\ e \in Cur("gui").es
<1>1. /\ op \in {"block", "unblock", "block_if_on", "unblock_unlisted", "lockdown_unblock"}
      /\ Cur("gui").op = op /\ Cur("gui") \in Instr /\ Puts
      /\ \A S : Ahead(S) <=> Cur("gui") \in S \/ Has(Rest, S)
  BY QuitAt DEF NetshLoops, GuiLoops
<1>2. Cur("gui") \notin Raise(e)
  BY <1>1 DEF Raise
<1>3. Kept(e) => Kept(e)'
  BY <1>2, KeptStays
<1>4. op # "unblock" /\ e \in cfg.blocked => Kept(e)'
  BY <1>1, KeptLater
<1>5. QED
  BY <1>1, <1>3, <1>4 DEF Puts, Undo, Put, Of

LEMMA BlockAppQuit ==
  ASSUME Known, QuitInv, BlockApp("gui")
  PROVE  QuitInv'
<1>1. PICK e0 \in Cur("gui").es :
        osRules' = osRules \cup ({e0} \cap Valid) /\ ThenRest("gui", e0, <<>>)
  BY DEF BlockApp
<1>2. /\ At("gui", "block") /\ "block" \in NetshLoops
      /\ UNCHANGED <<cfg, disk, ldBlocked, app, alive>> /\ osRules' \subseteq Valid
  BY <1>1 DEF BlockApp, NetshLoops, GuiLoops, ldVars, lifeVars, Known, TypeOK
<1>3. ThenRest("gui", e0, When(FALSE, DoExe("block", e0, FALSE)))
  BY <1>1 DEF When
<1>4. PICK s \in Program : Body("block", e0, "block", FALSE, s)
  BY <1>2, <1>3, BodyQuit
<1>5. /\ OnlyOps(s, GuiLoops) /\ Then("gui", s) /\ ~Has(s, Named({"forget"}))
      /\ \A e : Has(s, Put(e)) => e \in Cur("gui").es
  BY <1>4 DEF Body
<1>6. ASSUME NEW e \in Exes
      PROVE  Spared("block", s, e)
  <2>1. /\ Kept(e) => Kept(e)'
        /\ Cur("gui") \in Put(e) => Kept(e)
        /\ Cur("gui") \notin Undo(e)
        /\ Cur("gui") \in Put(e) <=> e \in Cur("gui").es
    BY <1>2, <1>5, NetshKept
  <2>2. QED
    BY <1>1, <1>2, <1>5, <2>1 DEF Spared
<1>7. QED
  BY <1>2, <1>5, <1>6, NetshQuit

LEMMA UnblockAppQuit ==
  ASSUME Known, QuitInv, UnblockApp("gui")
  PROVE  QuitInv'
<1>1. PICK e0 \in Cur("gui").es : osRules' = osRules \ {e0} /\ ThenRest("gui", e0, <<>>)
  BY DEF UnblockApp
<1>2. /\ At("gui", "unblock") /\ {"unblock", "block"} \subseteq NetshLoops
      /\ UNCHANGED <<cfg, disk, ldBlocked, app, alive>> /\ osRules' \subseteq Valid
  BY <1>1 DEF UnblockApp, NetshLoops, GuiLoops, ldVars, lifeVars, Known, TypeOK
<1>3. ThenRest("gui", e0, When(FALSE, DoExe("block", e0, FALSE)))
  BY <1>1 DEF When
<1>4. PICK s \in Program : Body("unblock", e0, "block", FALSE, s)
  BY <1>2, <1>3, BodyQuit
<1>5. /\ OnlyOps(s, GuiLoops) /\ Then("gui", s) /\ ~Has(s, Named({"forget"}))
      /\ \A e : ~Has(s, Put(e)) /\ (Has(s, Undo(e)) <=> e \in Cur("gui").es \ {e0})
      /\ s = <<>> \/ (Head(s).op = "unblock" /\ Tail(s) = <<>>)
  BY <1>4 DEF Body
<1>6. ASSUME NEW e \in Exes
      PROVE  Spared("unblock", s, e)
  <2>1. /\ Kept(e) => Kept(e)'
        /\ Cur("gui") \in Undo(e) <=> e \in Cur("gui").es
    BY <1>2, <1>5, NetshKept
  <2>2. QED
    BY <1>1, <1>2, <1>5, <2>1 DEF Spared
<1>7. QED
  BY <1>2, <1>5, <1>6, NetshQuit

LEMMA BlockIfOnQuit ==
  ASSUME Known, QuitInv, BlockIfOn("gui")
  PROVE  QuitInv'
<1>1. PICK e0 \in Cur("gui").es : ThenRest("gui", e0, When(cfg.fw, DoExe("block", e0, FALSE)))
  BY DEF BlockIfOn
<1>2. /\ At("gui", "block_if_on") /\ {"block_if_on", "block"} \subseteq NetshLoops
      /\ UNCHANGED <<cfg, disk, osRules, ldBlocked, app, alive>> /\ osRules' \subseteq Valid
      /\ cfg.fw \in BOOLEAN
  BY DEF BlockIfOn, NetshLoops, GuiLoops, ldVars, lifeVars, Known, TypeOK, Settings
<1>3. PICK s \in Program : Body("block_if_on", e0, "block", cfg.fw, s)
  BY <1>1, <1>2, BodyQuit
<1>4. /\ OnlyOps(s, GuiLoops) /\ Then("gui", s) /\ ~Has(s, Named({"forget"}))
      /\ \A e : Has(s, Put(e)) => e \in Cur("gui").es
  BY <1>3 DEF Body
<1>5. ASSUME NEW e \in Exes
      PROVE  Spared("block_if_on", s, e)
  <2>1. /\ Kept(e) => Kept(e)'
        /\ Cur("gui") \in Put(e) => Kept(e)
        /\ Cur("gui") \notin Undo(e)
        /\ Cur("gui") \in Put(e) <=> e \in Cur("gui").es
    BY <1>2, <1>4, NetshKept
  <2>2. QED
    BY <1>2, <1>4, <2>1 DEF Spared
<1>6. QED
  BY <1>2, <1>4, <1>5, NetshQuit

LEMMA UnblockUnlistedQuit ==
  ASSUME Known, QuitInv, UnblockUnlisted("gui")
  PROVE  QuitInv'
<1>1. PICK e0 \in Cur("gui").es :
        ThenRest("gui", e0, When(e0 \notin cfg.blocked, DoExe("unblock", e0, FALSE)))
  BY DEF UnblockUnlisted
<1>2. /\ At("gui", "unblock_unlisted") /\ {"unblock_unlisted", "unblock"} \subseteq NetshLoops
      /\ UNCHANGED <<cfg, disk, osRules, ldBlocked, app, alive>> /\ osRules' \subseteq Valid
  BY DEF UnblockUnlisted, NetshLoops, GuiLoops, ldVars, lifeVars, Known, TypeOK
<1>3. PICK s \in Program : Body("unblock_unlisted", e0, "unblock", e0 \notin cfg.blocked, s)
  BY <1>1, <1>2, BodyQuit
<1>4. /\ OnlyOps(s, GuiLoops) /\ Then("gui", s) /\ ~Has(s, Named({"forget"}))
      /\ \A e : ~Has(s, Put(e)) /\ (e \in Cur("gui").es \ cfg.blocked => Has(s, Undo(e)))
      /\ \A e \in Cur("gui").es : e # e0 => Has(s, Undo(e))
  BY <1>3 DEF Body
<1>5. ASSUME NEW e \in Exes
      PROVE  Spared("unblock_unlisted", s, e)
  <2>1. /\ Kept(e) => Kept(e)'
        /\ e \in cfg.blocked => Kept(e)'
        /\ Cur("gui") \in Undo(e) <=> e \in Cur("gui").es
    BY <1>2, <1>4, NetshKept
  <2>2. QED
    BY <1>2, <1>4, <2>1 DEF Spared
<1>6. QED
  BY <1>2, <1>4, <1>5, NetshQuit

(* The sweep's block is taken out of the books and then out of Windows,    *)
(* unless the user has made it his own.                                    *)
LEMMA LockdownUnblockQuit ==
  ASSUME Known, QuitInv, LockdownUnblock("gui")
  PROVE  QuitInv'
<1>1. PICK e0 \in Cur("gui").es :
        /\ ldBlocked' = ldBlocked \ {e0}
        /\ ThenRest("gui", e0, When(e0 \in ldBlocked \ cfg.blocked, DoExe("unblock", e0, FALSE)))
  BY DEF LockdownUnblock
<1>2. /\ At("gui", "lockdown_unblock") /\ {"lockdown_unblock", "unblock"} \subseteq NetshLoops
      /\ UNCHANGED <<cfg, disk, osRules, app, alive>> /\ osRules' \subseteq Valid
  BY DEF LockdownUnblock, NetshLoops, GuiLoops, lifeVars, Known, TypeOK
<1>3. \E s \in Program :
        \/ Body("lockdown_unblock", e0, "unblock", FALSE, s) /\ e0 \notin ldBlocked \ cfg.blocked
        \/ Body("lockdown_unblock", e0, "unblock", TRUE, s)
  <2>1. CASE e0 \in ldBlocked \ cfg.blocked
    <3>1. ThenRest("gui", e0, When(TRUE, DoExe("unblock", e0, FALSE)))
      BY <1>1, <2>1 DEF When
    <3>2. PICK s \in Program : Body("lockdown_unblock", e0, "unblock", TRUE, s)
      BY <1>2, <3>1, BodyQuit
    <3>3. QED
      BY <3>2
  <2>2. CASE e0 \notin ldBlocked \ cfg.blocked
    <3>1. ThenRest("gui", e0, When(FALSE, DoExe("unblock", e0, FALSE)))
      BY <1>1, <2>2 DEF When
    <3>2. PICK s \in Program : Body("lockdown_unblock", e0, "unblock", FALSE, s)
      BY <1>2, <3>1, BodyQuit
    <3>3. QED
      BY <2>2, <3>2
  <2>3. QED
    BY <2>1, <2>2
<1>4. PICK s \in Program :
        /\ OnlyOps(s, GuiLoops) /\ Then("gui", s) /\ ~Has(s, Named({"forget"}))
        /\ \A e : ~Has(s, Put(e))
        /\ e0 \in ldBlocked \ cfg.blocked => Has(s, Undo(e0))
  BY <1>3 DEF Body
<1>5. ASSUME NEW e \in Exes
      PROVE  Spared("lockdown_unblock", s, e)
  <2>1. /\ Kept(e) => Kept(e)'
        /\ e \in cfg.blocked => Kept(e)'
        /\ Cur("gui") \notin Undo(e)
    BY <1>2, <1>4, NetshKept
  <2>2. QED
    BY <1>1, <1>2, <1>4, <2>1 DEF Spared
<1>6. QED
  BY <1>1, <1>2, <1>4, <1>5, NetshQuit

(* A tag is blocked with its members, or lifted with them.                 *)
LEMMA SetTagBlockedQuit ==
  ASSUME Known, QuitInv, SetTagBlocked("gui")
  PROVE  QuitInv'
<1> DEFINE x == Cur("gui")
           es == Members(cfg, x.tag)
           l == IF x.on THEN "block_if_on" ELSE "unblock_unlisted"
           s == Loop(l, es)
<1>1. /\ At("gui", "set_tag_blocked") /\ Then("gui", s)
      /\ UNCHANGED <<disk, osRules, ldBlocked, app, alive>>
  BY DEF SetTagBlocked, ldVars, lifeVars
<1>2. x \in Instr /\ x.op = "set_tag_blocked" /\ x.on \in BOOLEAN
  BY <1>1, QuitAt
<1>3. /\ cfg'.blocked = cfg.blocked /\ cfg'.tagOf = cfg.tagOf
      /\ cfg'.tagBlocked = IF x.on THEN cfg.tagBlocked \cup {x.tag}
                                   ELSE cfg.tagBlocked \ {x.tag}
  BY DEF SetTagBlocked, Known, TypeOK, Settings
<1>4. /\ s \in Program /\ OnlyOps(s, GuiLoops) /\ ~Has(s, Named({"forget"}))
      /\ \A e : Has(s, Put(e)) <=> x.on /\ e \in es
      /\ \A e : Has(s, Undo(e)) <=> ~x.on /\ e \in es
  <2>1. es \in SUBSET Exes /\ l \in NetshLoops
    BY DEF Members, NetshLoops, GuiLoops
  <2>2. x.on => l = "block_if_on"
    OBVIOUS
  <2>3. ~x.on => l = "unblock_unlisted"
    OBVIOUS
  <2> HIDE DEF es, l
  <2>4. /\ s \in Program /\ OnlyOps(s, GuiLoops) /\ ~Has(s, Named({"forget"}))
        /\ \A e : Has(s, Put(e)) <=> l \in {"block", "block_if_on"} /\ e \in es
        /\ \A e : Has(s, Undo(e)) <=> l \in {"unblock", "unblock_unlisted"} /\ e \in es
    BY <2>1, LoopQuit
  <2> HIDE DEF s
  <2>5. QED
    BY <1>2, <2>2, <2>3, <2>4
<1> HIDE DEF s
<1>5. ~Ahead(Named({"block", "block_if_on"})) /\ \A S : Has(Rest, S) => Ahead(S)
  <2>1. x \in Named({"set_tag_blocked"}) /\ \A S : x \in S \/ Has(Rest, S) => Ahead(S)
    BY <1>1, <1>2, QuitAt DEF Named
  <2>2. QED
    BY <2>1 DEF QuitInv, Ordered
<1>6. ASSUME NEW e \in Exes
      PROVE  Spared("set_tag_blocked", s, e)
  <2>1. x \notin Undo(e) /\ x \notin Raise(e)
    BY <1>2 DEF Undo, Of, Raise
  <2>2. ~Has(Rest, Put(e))
    BY <1>5 DEF Has, Put, Of, Named
  <2>3. e \in TagBlocked(cfg)' <=>
          IF x.on THEN e \in TagBlocked(cfg) \/ e \in es ELSE e \in TagBlocked(cfg) /\ e \notin es
    BY <1>2, <1>3 DEF TagBlocked, Members
  <2>4. (e \in TagBlocked(cfg) => e \in TagBlocked(cfg)') /\ Kept(e) => Kept(e)'
    BY <1>1, <1>3, <1>4, <2>1, KeptStays
  <2>5. e \in TagBlocked(cfg)' => Kept(e)'
    BY DEF Kept
  <2> HIDE DEF x, es
  <2>6. QED
    BY <1>1, <1>4, <2>1, <2>2, <2>3, <2>4, <2>5 DEF Spared, x
<1>7. osRules' \subseteq Exes
  BY <1>1, SetsAssumption DEF Known, TypeOK
<1>8. QED
  BY <1>1, <1>4, <1>6, <1>7, GuiQuit

(* The process is gone.                                                    *)
LEMMA DownQuit ==
  ASSUME QuitInv, MemoryLost, app' # "up", disk' = disk, QuitLeavesNothing'
  PROVE  QuitInv'
<1>1. prog'["gui"] = <<>> /\ prog'["mon"] = <<>> /\ cfg' = disk /\ ldBlocked' = {} /\ ~alive'
  BY DEF MemoryLost, Threads
<1>2. \A S : ~Ahead(S)'
  <2>1. \A S : ~Has(<<>>, S)
    BY HasOne
  <2>2. QED
    BY <1>1, <2>1 DEF Ahead
<1>3. Early(prog'["gui"]) /\ ExitLast(prog'["gui"])
  BY <1>1 DEF Early, ExitLast
<1>4. Ordered'
  BY <1>1, <1>2, <1>3 DEF QuitInv, Ordered, Retags
<1>5. Closing'
  BY <1>1, <1>2 DEF Closing, Idle
<1>6. SweepShape'
  BY <1>1 DEF SweepShape, Loop
<1>7. QED
  BY <1>4, <1>5, <1>6 DEF QuitInv

(* Everything the exit found was dealt with before.                        *)
LEMMA ExitQuit ==
  ASSUME Known, SaveInv, QuitInv, Exit("gui")
  PROVE  QuitInv'
<1>1. At("gui", "exit") /\ MemoryLost /\ app' = "quit" /\ UNCHANGED <<disk, osRules>>
  BY DEF Exit
<1>2. /\ prog["gui"] # <<>> /\ prog["gui"] \in Program /\ Cur("gui").op = "exit"
      /\ Cur("gui") \in Instr /\ Accounted
      /\ \A S : Ahead(S) <=> Cur("gui") \in S \/ Has(Rest, S)
  BY <1>1, QuitAt
<1>3. Rest = <<>>
  <2>1. ExitLast(prog["gui"]) /\ Cur("gui") \in Exits
    BY <1>2 DEF QuitInv, Ordered, Exits, Named
  <2>2. QED
    BY <1>2, <2>1, ExitLastTail DEF Rest, Cur
<1>4. \A S : Ahead(S) <=> Cur("gui") \in S
  <2>1. \A S : ~Has(<<>>, S)
    BY HasOne
  <2>2. QED
    BY <1>2, <1>3, <2>1
<1>5. /\ Ahead(Exits) /\ ~Ahead(Named({"clear", "forget"}))
      /\ \A e : ~Ahead(Undo(e)) /\ ~Ahead(Raise(e))
  BY <1>2, <1>4 DEF Exits, Named, Undo, Of, Raise
<1>6. ~alive /\ ldBlocked = {} /\ Idle("mon")
  BY <1>5 DEF QuitInv, Closing
<1>7. cfg = disk
  <2>1. ~Ahead(Named({"save"}))
    BY <1>2, <1>4 DEF Named
  <2>2. HasSave(prog["gui"]) => Ahead(Named({"save"}))
    BY <1>2 DEF HasSave, Ahead, Has, Named, Program
  <2>3. QED
    BY <2>1, <2>2 DEF SaveInv
<1>8. ASSUME NEW e \in osRules
      PROVE  e \in UserBlocked(disk)
  <2>1. ~Held(e)
    BY <1>6 DEF Held, MonAt, At, Idle
  <2>2. Kept(e)
    BY <1>2, <1>5, <2>1 DEF Accounted
  <2>3. QED
    BY <1>5, <1>7, <2>2 DEF Kept, UserBlocked
<1>9. QuitLeavesNothing'
  BY <1>1, <1>8 DEF QuitLeavesNothing, UserBlocked, TagBlocked
<1>10. QED
  BY <1>1, <1>9, DownQuit

LEMMA GuiStepQuit ==
  ASSUME Known, SaveInv, QuitInv, JoinWaits, Step("gui")
  PROVE  QuitInv'
<1>1. /\ ~SetLockdown("gui") /\ ~Scan("gui") /\ ~Mark("gui") /\ ~Note("gui")
      /\ ~Ask("gui")
  BY NotOfLockdown DEF Known
<1>2. RuleStep("gui") => QuitInv'
  BY PlainStepQuit, ListQuit, LiftQuit, LockdownUnblockQuit, SetTagBlockedQuit DEF RuleStep
<1>3. SwitchStep("gui") => QuitInv'
  BY <1>1, PlainStepQuit, LiftQuit, ApplyBlocksQuit, ClearQuit DEF SwitchStep
<1>4. CallStep("gui") => QuitInv'
  BY PlainStepQuit, BlockAppQuit, UnblockAppQuit, BlockIfOnQuit, UnblockUnlistedQuit
  DEF CallStep
<1>5. LifeStep("gui") => QuitInv'
  BY PlainStepQuit, ExitQuit DEF LifeStep
<1>6. QED
  BY <1>1, <1>2, <1>3, <1>4, <1>5 DEF Step, SweepStep

-----------------------------------------------------------------------------
(* The other steps.                                                        *)

(* What leaves the programs of the GUI thread and the settings alone.      *)
LEMMA OtherQuit ==
  ASSUME Known, QuitInv, prog'["gui"] = prog["gui"], UNCHANGED <<cfg, disk, app>>,
         SweepShape', alive' => alive, (~alive => Idle("mon"))',
         alive \/ ldBlocked' = ldBlocked,
         app = "up" => \A e \in osRules' : e \in osRules \/ Held(e)',
         app = "up" => \A e \in osRules : Held(e) => Held(e)',
         app = "up" \/ osRules' = osRules
  PROVE  QuitInv'
<1>1. \A S : Ahead(S)' <=> Ahead(S)
  BY DEF Ahead
<1>2. Ordered'
  BY <1>1 DEF QuitInv, Ordered, Retags
<1>3. Closing'
  BY <1>1 DEF QuitInv, Closing
<1>4. \A e : Kept(e)' <=> Kept(e)
  BY <1>1 DEF Kept, TagBlocked
<1>5. app = "up" => Accounted' /\ Puts'
  BY <1>1, <1>4 DEF QuitInv, Accounted, Puts
<1>6. QuitLeavesNothing'
  BY DEF QuitInv, QuitLeavesNothing, UserBlocked, TagBlocked
<1>7. QED
  BY <1>2, <1>3, <1>5, <1>6 DEF QuitInv

(* Between the netsh call and the note the sweep stands for its own block. *)
LEMMA MonStepQuit ==
  ASSUME Known, QuitInv, Step("mon")
  PROVE  QuitInv'
<1>1. \/ Scan("mon") \/ BlockApp("mon") \/ Mark("mon") \/ Note("mon") \/ Ask("mon")
  BY MonSweeps DEF Known, SweepStep
<1>2. prog["mon"] # <<>>
  BY <1>1 DEF Scan, BlockApp, Mark, Note, Ask, At
<1>3. app = "up" /\ alive /\ ~Ahead(Named({"forget"})) /\ SweepShape
  BY <1>2 DEF Known, PromptInv, LifeInv, Idle, Threads, QuitInv, Closing
<1>4. SweepShape'
  BY <1>3, MonShape
<1>5. UNCHANGED <<cfg, disk, app, alive>>
  BY <1>1 DEF Scan, BlockApp, Mark, Note, Ask, lifeVars
<1>6. /\ prog'["gui"] = prog["gui"]
      /\ \A e \in osRules' : e \in osRules \/ MonAt("note", e)'
      /\ \A e \in ldBlocked : e \in ldBlocked'
      /\ \A e : MonAt("note", e) => e \in ldBlocked'
  <2>1. CASE Scan("mon")
    <3>1. prog'["gui"] = prog["gui"]
      BY <1>3, <2>1, ScanForms
    <3>2. QED
      BY <2>1, <3>1 DEF Scan, MonAt, At, ldVars
  <2>2. CASE BlockApp("mon") \/ Mark("mon") \/ Note("mon") \/ Ask("mon")
    <3>1. PICK op \in SweepsOne :
            /\ At("mon", op)
            /\ Then("mon", <<>>) \/ \E e \in Cur("mon").es : ThenRest("mon", e, <<>>)
            /\ op = "block" => BlockApp("mon")
            /\ op = "mark" => Mark("mon")
            /\ op = "note" => Note("mon")
            /\ op = "ask" => Ask("mon")
      BY <2>2 DEF BlockApp, Mark, Note, Ask, Advance, At, SweepsOne
    <3>2. PICK e0 \in Exes, es \in SUBSET Exes :
            /\ prog'["gui"] = prog["gui"] /\ Cur("mon").es = {e0}
            /\ prog'["mon"] = Left(op, e0, Loop("scan", es))
      BY <1>3, <3>1, MonAdvance DEF Known
    <3>3. /\ osRules' = IF op = "block" THEN osRules \cup ({e0} \cap Valid) ELSE osRules
          /\ ldBlocked' = IF op = "note" THEN ldBlocked \cup {e0} ELSE ldBlocked
      BY <3>1, <3>2 DEF BlockApp, Mark, Note, Ask, SweepsOne, ldVars
    <3>4. op = "block" => MonAt("note", e0)'
      <4>1. op = "block" => Heads(prog'["mon"], "note", e0)
        BY <3>2, LeftShape
      <4>2. QED
        BY <4>1 DEF Heads, MonAt, At, Cur
    <3>5. \A e : MonAt("note", e) => op = "note" /\ e = e0
      BY <3>1, <3>2 DEF MonAt, At
    <3>6. QED
      BY <3>2, <3>3, <3>4, <3>5
  <2>3. QED
    BY <1>1, <2>1, <2>2
<1>7. ~Ahead(Named({"forget"}))'
  BY <1>3, <1>6 DEF Ahead
<1>8. /\ \A e \in osRules' : e \in osRules \/ Held(e)'
      /\ \A e \in osRules : Held(e) => Held(e)'
  BY <1>6, <1>7 DEF Held
<1>9. QED
  BY <1>3, <1>4, <1>5, <1>6, <1>8, OtherQuit

(* Nothing of all this moves.                                              *)
LEMMA SameQuit ==
  ASSUME Known, QuitInv, UNCHANGED <<cfg, disk, osRules, ldBlocked, prog, app>>,
         alive' => alive, ~alive' => Idle("mon")
  PROVE  QuitInv'
<1>1. /\ SweepShape' /\ (~alive => Idle("mon"))' /\ prog'["gui"] = prog["gui"]
      /\ \A e : Held(e)' <=> Held(e)
  BY DEF QuitInv, SweepShape, Idle, Held, MonAt, At, Cur, Ahead
<1>2. QED
  BY <1>1, OtherQuit

LEMMA TickQuit ==
  ASSUME Known, QuitInv, Tick
  PROVE  QuitInv'
<1>1. SweepShape' /\ prog'["gui"] = prog["gui"]
  BY TickShape
<1>2. alive /\ Idle("mon") /\ UNCHANGED <<cfg, disk, osRules, ldBlocked, app, alive>>
  BY DEF Tick, uiVars, lifeVars
<1>3. \A e : Held(e) => Held(e)'
  BY <1>1, <1>2 DEF Held, MonAt, At, Idle, Ahead
<1>4. app = "up"
  BY <1>2 DEF Known, PromptInv, LifeInv
<1>5. QED
  BY <1>1, <1>2, <1>3, <1>4, OtherQuit

(* A start takes every rule it finds into the block list.                  *)
LEMMA BootQuit ==
  ASSUME Known, QuitInv, Boot
  PROVE  QuitInv'
<1> DEFINE ops == {"apply_blocks", "remove_all", "save", "start_monitor", "show_ui"}
<1>1. PICK p \in Program : prog'["gui"] = p
  BY BootHas DEF Known
<1>2. \A S : Has(p, S) <=>
         \/ I(IF disk.fw THEN "apply_blocks" ELSE "remove_all", {}, NoTag, FALSE) \in S
         \/ \E op \in {"save", "start_monitor", "show_ui"} : I(op, {}, NoTag, FALSE) \in S
  BY <1>1, BootHas DEF Known
<1>3. ASSUME NEW S, Has(p, S)
      PROVE  \E op \in ops : I(op, {}, NoTag, FALSE) \in S
  BY <1>2, <1>3
<1>4. \A op \in ops : /\ I(op, {}, NoTag, FALSE).op = op
                      /\ I(op, {}, NoTag, FALSE).es = {}
  BY DEF I
<1>5. /\ ~Has(p, Changes) /\ ~Has(p, Exits) /\ ~Has(p, Clears) /\ ~Has(p, Named({"forget"}))
      /\ ~Has(p, Named({"set_tag_blocked"})) /\ ~Has(p, Named({"set_exe_tag"}))
      /\ \A e : ~Has(p, Drop(e)) /\ ~Has(p, Put(e))
  <2>1. \A op \in ops :
          LET x == I(op, {}, NoTag, FALSE)
          IN  /\ x \notin Changes /\ x \notin Exits /\ x \notin Clears
              /\ x \notin Named({"forget"}) /\ x \notin Named({"set_tag_blocked"})
              /\ x \notin Named({"set_exe_tag"})
              /\ \A e : x \notin Drop(e) /\ x \notin Put(e)
    BY <1>4 DEF Changes, Drops, Drop, Put, Of, Exits, Clears, Named
  <2>2. QED
    BY <1>3, <2>1
<1>6. \A S : Ahead(S)' <=> Has(p, S)
  BY <1>1 DEF Ahead
<1>7. /\ app' = "up" /\ disk' = disk /\ osRules' = osRules /\ alive' = alive
      /\ prog'["mon"] = prog["mon"] /\ app # "up"
      /\ cfg'.blocked = disk.blocked \cup osRules /\ cfg'.tagBlocked = disk.tagBlocked
  <2>1. prog'["mon"] = prog["mon"]
    BY BootHas DEF Known
  <2>2. cfg'.blocked = disk.blocked \cup osRules /\ cfg'.tagBlocked = disk.tagBlocked
    BY DEF Boot, Known, TypeOK, Settings
  <2>3. QED
    BY <2>1, <2>2 DEF Boot
<1>8. ~alive /\ Idle("mon")
  BY <1>7 DEF Known, PromptInv, LifeInv, QuitInv, Closing
<1>9. Early(p) /\ ExitLast(p)
  <2>1. Early(p)
    BY <1>5, HasTail DEF Early
  <2>2. ExitLast(p)
    BY <1>5 DEF ExitLast, Has
  <2>3. QED
    BY <2>1, <2>2
<1>10. Ordered'
  BY <1>1, <1>5, <1>6, <1>7, <1>9 DEF QuitInv, Ordered, Retags
<1>11. Closing'
  BY <1>5, <1>6, <1>7, <1>8 DEF Closing, Idle
<1>12. SweepShape'
  BY <1>7 DEF QuitInv, SweepShape
<1>13. Accounted' /\ Puts'
  <2>1. \A e \in osRules' : Kept(e)'
    BY <1>5, <1>6, <1>7 DEF Kept
  <2>2. QED
    BY <1>5, <1>6, <2>1 DEF Accounted, Puts
<1>14. QED
  BY <1>7, <1>10, <1>11, <1>12, <1>13 DEF QuitInv, QuitLeavesNothing

LEMMA InitQuit ==
  ASSUME Init, NoBlockedTagLeft
  PROVE  QuitInv
<1>1. /\ prog["gui"] = <<>> /\ prog["mon"] = <<>> /\ app = "new" /\ ~alive
      /\ ldBlocked = {} /\ disk \in Disks /\ cfg = disk
  BY DEF Init, Threads
<1>2. \A S : ~Ahead(S)
  <2>1. \A S : ~Has(<<>>, S)
    BY HasOne
  <2>2. QED
    BY <1>1, <2>1 DEF Ahead
<1>3. Early(prog["gui"]) /\ ExitLast(prog["gui"])
  BY <1>1 DEF Early, ExitLast
<1>4. Ordered
  BY <1>1, <1>2, <1>3 DEF Ordered, NoBlockedTagLeft
<1>5. Closing
  BY <1>1, <1>2 DEF Closing, Idle
<1>6. QED
  BY <1>1, <1>4, <1>5 DEF QuitInv, SweepShape, Loop, QuitLeavesNothing

-----------------------------------------------------------------------------
(* The handlers.                                                           *)

(* A handler that adds no rule without a reason, and takes none away       *)
(* without its rule.                                                       *)
LEMMA HandleQuit ==
  ASSUME Known, QuitInv, NEW kind, NEW p \in Program, Handle(kind, p),
         Early(p), ExitLast(p), ~Has(p, Named({"forget"})), ~Has(p, Named({"start_monitor"})),
         Has(p, Clears) => Shielded(p),
         Has(p, Exits) => Has(p, Named({"clear"})),
         Has(p, Named({"set_tag_blocked"})) =>
           ~Retags /\ ~Has(p, Named({"block", "block_if_on"})),
         Has(p, Named({"set_exe_tag"})) => Retags,
         \A e \in Exes : Has(p, Put(e)) => Has(p, Raise(e)),
         \A e \in cfg.blocked : Has(p, Drop(e)) => Has(p, Undo(e))
  PROVE  QuitInv'
<1>1. /\ prog'["gui"] = p /\ prog'["mon"] = prog["mon"] /\ Idle("gui")
      /\ UNCHANGED <<cfg, disk, osRules, ldBlocked, app, alive>> /\ ui = "shown"
  BY TypeSplit DEF Known, Handle, Threads, ldVars, uiVars
<1>2. app = "up"
  BY <1>1 DEF Known, PromptInv, LifeInv
<1>3. \A S : ~Ahead(S) /\ (Ahead(S)' <=> Has(p, S))
  BY <1>1, NoneAhead DEF Ahead
<1>4. Ordered'
  BY <1>1, <1>3 DEF QuitInv, Ordered, Retags
<1>5. Closing'
  <2>1. Has(p, Named({"clear"})) => Has(p, Named({"clear", "forget"}))
    BY DEF Has, Named
  <2>2. QED
    BY <1>1, <1>3, <2>1 DEF QuitInv, Closing, Idle
<1>6. SweepShape' /\ \A e : MonAt("note", e)' <=> MonAt("note", e)
  BY <1>1 DEF QuitInv, SweepShape, MonAt, At, Cur
<1>7. ASSUME NEW e \in osRules
      PROVE  Kept(e)' \/ Ahead(Undo(e))' \/ Held(e)'
  <2>1. e \in cfg.blocked \/ e \in TagBlocked(cfg) \/ Held(e)
    BY <1>2, <1>3 DEF QuitInv, Accounted, Kept
  <2>2. e \in TagBlocked(cfg) => Kept(e)'
    BY <1>1 DEF Kept, TagBlocked
  <2>3. Held(e) => Held(e)'
    BY <1>1, <1>3, <1>6 DEF Held
  <2>4. e \in cfg.blocked => Kept(e)' \/ Ahead(Undo(e))'
    BY <1>1, <1>3 DEF Kept
  <2>5. QED
    BY <2>1, <2>2, <2>3, <2>4
<1>8. Puts'
  BY <1>3 DEF Puts, Kept
<1>9. QED
  BY <1>1, <1>2, <1>4, <1>5, <1>6, <1>7, <1>8 DEF QuitInv, Accounted, QuitLeavesNothing

(* What a program may do without touching a reason for a rule.             *)
PlainOps ==
  {"save", "unblock", "lockdown_unblock", "set_allowed", "allow_settled", "set_tag_allowed",
   "temp_allow", "answered", "finish", "set_firewall", "apply_blocks", "remove_all"}
  \cup (IF Retags THEN {"set_exe_tag"} ELSE {})
Plain == {u \in Program : OnlyOps(u, PlainOps)}

(* Programs that give a reason for the rule of e, or take it away.         *)
Wants(e) ==
  {u \in Program : /\ OnlyOps(u, PlainOps \cup {"set_blocked", "block_if_on"})
                   /\ ~Has(u, Drops) /\ \A e1 : Has(u, Put(e1)) => e1 = e}
Unwants(e) ==
  {u \in Program : /\ OnlyOps(u, PlainOps \cup {"set_blocked", "remove_app"})
                   /\ \A e1 : Has(u, Drop(e1)) => e1 = e}

LEMMA PlainHas ==
  ASSUME NEW u \in Plain
  PROVE  /\ u \in Program /\ OnlyOps(u, PlainOps) /\ ~Has(u, Changes) /\ ~Has(u, Drops)
         /\ \A e : ~Has(u, Drop(e)) /\ ~Has(u, Put(e)) /\ u \in Wants(e) /\ u \in Unwants(e)
<1>1. u \in Program /\ OnlyOps(u, PlainOps)
  BY DEF Plain
<1>2. /\ \A y \in Changes : y.op \notin PlainOps
      /\ \A y \in Drops : y.op \notin PlainOps
      /\ \A e : \A y \in Drop(e) \cup Put(e) : y.op \notin PlainOps
  BY DEF Changes, Drops, Drop, Put, Of, Named, PlainOps
<1>3. /\ ~Has(u, Changes) /\ ~Has(u, Drops) /\ \A e : ~Has(u, Drop(e)) /\ ~Has(u, Put(e))
  BY <1>1, <1>2, OnlyHas
<1>4. /\ OnlyOps(u, PlainOps \cup {"set_blocked", "block_if_on"})
      /\ OnlyOps(u, PlainOps \cup {"set_blocked", "remove_app"})
  BY <1>1, OnlyOpsMono
<1>5. QED
  BY <1>1, <1>3, <1>4 DEF Wants, Unwants

LEMMA PlainCat ==
  /\ \A s, u \in Plain : s \o u \in Plain
  /\ \A e : \A s, u \in Wants(e) : s \o u \in Wants(e)
  /\ \A e : \A s, u \in Unwants(e) : s \o u \in Unwants(e)
<1>1. \A s, u \in Program : s \o u \in Program /\ \A S : Has(s \o u, S) <=> Has(s, S) \/ Has(u, S)
  BY CatType, HasCat
<1>2. \A ops : \A s, u \in Program : OnlyOps(s, ops) /\ OnlyOps(u, ops) => OnlyOps(s \o u, ops)
  BY OnlyOpsCat
<1>3. ASSUME NEW s \in Plain, NEW u \in Plain
      PROVE  s \o u \in Plain
  BY <1>1, <1>2 DEF Plain
<1>4. ASSUME NEW e, NEW s \in Wants(e), NEW u \in Wants(e)
      PROVE  s \o u \in Wants(e)
  BY <1>1, <1>2 DEF Wants
<1>5. ASSUME NEW e, NEW s \in Unwants(e), NEW u \in Unwants(e)
      PROVE  s \o u \in Unwants(e)
  BY <1>1, <1>2 DEF Unwants
<1>6. QED
  BY <1>3, <1>4, <1>5

LEMMA PlainPieces ==
  ASSUME NEW e \in Exes
  PROVE  /\ Do("save") \in Plain /\ Do("apply_blocks") \in Plain /\ Do("remove_all") \in Plain
         /\ DoExe("unblock", e, FALSE) \in Plain /\ DoExe("answered", e, FALSE) \in Plain
         /\ DoExe("finish", e, FALSE) \in Plain /\ DoExe("temp_allow", e, FALSE) \in Plain
         /\ DoExe("lockdown_unblock", e, FALSE) \in Plain
         /\ \A on \in BOOLEAN : SetAllowedProg(e, on) \in Plain
         /\ Retags => \A tag \in Tags \cup {NoTag} : SetExeTagProg(e, tag) \in Plain
<1>1. ASSUME NEW op \in {"save", "apply_blocks", "remove_all"}
      PROVE  Do(op) \in Plain
  <2>1. op \in OpNames \ TagOps /\ op \in PlainOps
    BY DEF OpNames, TagOps, PlainOps
  <2>2. Do(op) \in Program /\ OnlyOps(Do(op), PlainOps)
    BY <2>1, DoType, OnlyOpsProgs
  <2>3. QED
    BY <2>2 DEF Plain
<1>2. ASSUME NEW op \in {"unblock", "answered", "finish", "temp_allow", "lockdown_unblock",
                         "set_allowed", "allow_settled"}, NEW on \in BOOLEAN
      PROVE  DoExe(op, e, on) \in Plain
  <2>1. op \in OpNames \ TagOps /\ op \in PlainOps
    BY DEF OpNames, TagOps, PlainOps
  <2>2. DoExe(op, e, on) \in Program /\ OnlyOps(DoExe(op, e, on), PlainOps)
    BY <2>1, DoExeType, OnlyOpsProgs
  <2>3. QED
    BY <2>2 DEF Plain
<1>3. ASSUME NEW on \in BOOLEAN
      PROVE  SetAllowedProg(e, on) \in Plain
  <2>1. /\ DoExe("set_allowed", e, on) \in Plain /\ DoExe("allow_settled", e, FALSE) \in Plain
        /\ Do("save") \in Plain
    BY <1>1, <1>2
  <2>2. QED
    BY <2>1, PlainCat DEF SetAllowedProg
<1>4. ASSUME Retags, NEW tag \in Tags \cup {NoTag}
      PROVE  SetExeTagProg(e, tag) \in Plain
  <2> DEFINE t == <<I("set_exe_tag", {e}, tag, FALSE)>>
  <2>1. t \in Program
    BY IType DEF OpNames, TagOps
  <2>2. "set_exe_tag" \in PlainOps /\ "set_exe_tag" \in OpNames
    BY <1>4 DEF PlainOps, OpNames
  <2>3. OnlyOps(t, PlainOps)
    BY <2>2, OnlyOpsProgs
  <2> HIDE DEF t
  <2>4. t \in Plain /\ Do("save") \in Plain
    BY <1>1, <2>1, <2>3 DEF Plain
  <2>5. QED
    BY <2>4, PlainCat DEF SetExeTagProg, t
<1>5. QED
  BY <1>1, <1>2, <1>3, <1>4

(* The pieces that are not plain.                                          *)
LEMMA BlockPieces ==
  ASSUME NEW e \in Exes
  PROVE  /\ SetBlockedProg(e, TRUE) \in Wants(e) /\ Has(SetBlockedProg(e, TRUE), Raise(e))
         /\ DoExe("block_if_on", e, FALSE) \in Wants(e)
         /\ \A u \in {SetBlockedProg(e, FALSE), DoExe("remove_app", e, FALSE)} :
              u \in Unwants(e) /\ u # <<>> /\ ~Has(Tail(u), Changes)
<1>1. {"set_blocked", "block_if_on", "remove_app"} \subseteq OpNames \ TagOps
  BY DEF OpNames, TagOps
<1>2. Do("save") \in Plain /\ Do("save") \in Program /\ ~Has(Do("save"), Changes)
  BY PlainPieces, PlainHas
<1>3. Do("save") \in Wants(e) /\ Do("save") \in Unwants(e)
  BY <1>2, PlainHas
<1>4. ASSUME NEW op \in {"set_blocked", "block_if_on", "remove_app"}, NEW on \in BOOLEAN
      PROVE  /\ DoExe(op, e, on) # <<>> /\ Tail(DoExe(op, e, on)) = <<>>
             /\ DoExe(op, e, on) \in Program
             /\ op = "set_blocked" /\ on => Has(DoExe(op, e, on), Raise(e))
             /\ op = "block_if_on" \/ (op = "set_blocked" /\ on) => DoExe(op, e, on) \in Wants(e)
             /\ op # "block_if_on" => DoExe(op, e, on) \in Unwants(e)
  <2> DEFINE x == I(op, {e}, NoTag, on)
             d == DoExe(op, e, on)
  <2>0. op \in OpNames \ TagOps
    BY <1>1
  <2>1. /\ x \in Instr /\ x.op = op /\ x.es = {e} /\ x.on = on
        /\ d = <<x>> /\ d \in Program /\ OnlyOps(d, {op})
        /\ \A S : Has(d, S) <=> x \in S
    <3>1. d \in Program /\ OnlyOps(d, {op})
      BY <2>0, DoExeType, OnlyOpsProgs
    <3>2. x \in Instr
      BY <2>0 DEF I, Instr
    <3>3. x.op = op /\ x.es = {e} /\ x.on = on /\ d = <<x>>
      BY DEF I, DoExe
    <3>4. \A S : Has(d, S) <=> x \in S
      BY HasOne
    <3> HIDE DEF x, d
    <3>5. QED
      BY <3>1, <3>2, <3>3, <3>4
  <2>2. <<x>> # <<>> /\ Tail(<<x>>) = <<>>
    OBVIOUS
  <2> HIDE DEF x, d
  <2>3. op \in {"set_blocked", "block_if_on"} =>
          OnlyOps(d, PlainOps \cup {"set_blocked", "block_if_on"})
    BY <2>1, OnlyOpsMono
  <2>4. op \in {"set_blocked", "remove_app"} =>
          OnlyOps(d, PlainOps \cup {"set_blocked", "remove_app"})
    BY <2>1, OnlyOpsMono
  <2>5. /\ op = "set_blocked" /\ on => x \in Raise(e) /\ x \notin Drops
        /\ op = "block_if_on" => x \notin Drops
        /\ \A e1 : x \in Put(e1) \/ x \in Drop(e1) => e1 = e
    BY <2>1 DEF Raise, Drops, Drop, Put, Of
  <2>6. QED
    BY <2>1, <2>2, <2>3, <2>4, <2>5 DEF Wants, Unwants, d
<1>5. /\ SetBlockedProg(e, TRUE) \in Wants(e) /\ Has(SetBlockedProg(e, TRUE), Raise(e))
  <2> DEFINE d == DoExe("set_blocked", e, TRUE)
  <2>1. d \in Wants(e) /\ d \in Program /\ Has(d, Raise(e))
    BY <1>4
  <2> HIDE DEF d
  <2>2. d \o Do("save") \in Wants(e) /\ Has(d \o Do("save"), Raise(e))
    BY <1>2, <1>3, <2>1, PlainCat, HasCat
  <2>3. QED
    BY <2>2 DEF SetBlockedProg, d
<1>6. LET u == SetBlockedProg(e, FALSE)
      IN  u \in Unwants(e) /\ u # <<>> /\ ~Has(Tail(u), Changes)
  <2> DEFINE d == DoExe("set_blocked", e, FALSE)
             v == Do("save")
  <2>1. d \in Unwants(e) /\ d \in Program /\ d # <<>> /\ Tail(d) = <<>>
    BY <1>4
  <2>2. SetBlockedProg(e, FALSE) = d \o v
    BY DEF SetBlockedProg
  <2>3. v \in Unwants(e) /\ v \in Program /\ ~Has(v, Changes)
    BY <1>2, <1>3
  <2> HIDE DEF d, v
  <2>4. d \o v \in Unwants(e)
    BY <2>1, <2>3, PlainCat
  <2>5. d \o v # <<>> /\ Tail(d \o v) = Tail(d) \o v
    BY <2>1, <2>3, TailCat
  <2>6. <<>> \o v = v
    BY <2>3, ConcatEmptySeq DEF Program
  <2>7. QED
    BY <2>1, <2>2, <2>3, <2>4, <2>5, <2>6
<1>7. LET u == DoExe("remove_app", e, FALSE)
      IN  u \in Unwants(e) /\ u # <<>> /\ ~Has(Tail(u), Changes)
  <2>1. \A S : ~Has(<<>>, S)
    BY HasOne
  <2>2. QED
    BY <1>4, <2>1
<1>8. QED
  BY <1>4, <1>5, <1>6, <1>7

(* A handler that gives a reason first and then the rule; one that only    *)
(* takes a reason away, and at once; and one that does neither.            *)
LEMMA WantsQuit ==
  ASSUME Known, QuitInv, NEW kind, NEW e, NEW p \in Wants(e), Handle(kind, p),
         Has(p, Put(e)) => Has(p, Raise(e))
  PROVE  QuitInv'
<1> DEFINE ops == PlainOps \cup {"set_blocked", "block_if_on"}
<1>1. p \in Program /\ OnlyOps(p, ops) /\ ~Has(p, Drops) /\ \A e1 : Has(p, Put(e1)) => e1 = e
  BY DEF Wants
<1>2. /\ \A y \in Exits \cup Clears : y.op \notin ops
      /\ \A y \in Named({"forget"}) \cup Named({"start_monitor"}) : y.op \notin ops
      /\ \A y \in Named({"set_tag_blocked"}) : y.op \notin ops
      /\ ~Retags => \A y \in Named({"set_exe_tag"}) : y.op \notin ops
  BY DEF Exits, Clears, Named, PlainOps
<1> HIDE DEF ops
<1>3. /\ ~Has(p, Exits) /\ ~Has(p, Clears) /\ ~Has(p, Named({"forget"}))
      /\ ~Has(p, Named({"start_monitor"})) /\ ~Has(p, Named({"set_tag_blocked"}))
      /\ ~Retags => ~Has(p, Named({"set_exe_tag"}))
  BY <1>1, <1>2, OnlyHas
<1>4. ~Has(p, Changes) /\ \A e1 : ~Has(p, Drop(e1))
  BY <1>1, <1>3 DEF Has, Changes, Drop
<1>5. Early(p) /\ ExitLast(p)
  <2>1. Early(p)
    BY <1>1, <1>4, HasTail DEF Early
  <2>2. ExitLast(p)
    BY <1>3 DEF ExitLast, Has
  <2>3. QED
    BY <2>1, <2>2
<1>6. QED
  BY <1>1, <1>3, <1>4, <1>5, HandleQuit

LEMMA UnwantsQuit ==
  ASSUME Known, QuitInv, NEW kind, NEW e, NEW p \in Unwants(e), Handle(kind, p), Early(p),
         e \in cfg.blocked => Has(p, Undo(e))
  PROVE  QuitInv'
<1> DEFINE ops == PlainOps \cup {"set_blocked", "remove_app"}
<1>1. p \in Program /\ OnlyOps(p, ops) /\ \A e1 : Has(p, Drop(e1)) => e1 = e
  BY DEF Unwants
<1>2. /\ \A y \in Exits \cup Clears : y.op \notin ops
      /\ \A y \in Named({"forget"}) \cup Named({"start_monitor"}) : y.op \notin ops
      /\ \A y \in Named({"set_tag_blocked"}) : y.op \notin ops
      /\ ~Retags => \A y \in Named({"set_exe_tag"}) : y.op \notin ops
      /\ \A e1 : \A y \in Put(e1) : y.op \notin ops
  BY DEF Exits, Clears, Named, PlainOps, Put, Of
<1> HIDE DEF ops
<1>3. /\ ~Has(p, Exits) /\ ~Has(p, Clears) /\ ~Has(p, Named({"forget"}))
      /\ ~Has(p, Named({"start_monitor"})) /\ ~Has(p, Named({"set_tag_blocked"}))
      /\ ~Retags => ~Has(p, Named({"set_exe_tag"}))
      /\ \A e1 : ~Has(p, Put(e1))
  BY <1>1, <1>2, OnlyHas
<1>4. ExitLast(p)
  BY <1>3 DEF ExitLast, Has
<1>5. QED
  BY <1>1, <1>3, <1>4, HandleQuit

LEMMA PlainQuit ==
  ASSUME Known, QuitInv, NEW kind, NEW p \in Plain, Handle(kind, p)
  PROVE  QuitInv'
<1> DEFINE e == CHOOSE e : TRUE
<1>1. p \in Wants(e) /\ ~Has(p, Put(e))
  BY PlainHas
<1> HIDE DEF e
<1>2. QED
  BY <1>1, WantsQuit

(* Block, Unblock, Allow and Disallow in the process list.                 *)
LEMMA SelectedQuit ==
  ASSUME Known, QuitInv, NEW e \in Exes,
         BlockSelected(e) \/ UnblockSelected(e) \/ AllowSelected(e) \/ DisallowSelected(e)
  PROVE  QuitInv'
<1> DEFINE b == SetBlockedProg(e, TRUE)
           c == DoExe("block_if_on", e, FALSE)
           n == SetBlockedProg(e, FALSE)
           u == DoExe("unblock", e, FALSE)
           a == SetAllowedProg(e, TRUE)
<1>1. /\ b \in Wants(e) /\ c \in Wants(e) /\ Has(b, Raise(e))
      /\ n \in Unwants(e) /\ n # <<>> /\ ~Has(Tail(n), Changes)
  BY BlockPieces
<1>2. u \in Plain /\ a \in Plain /\ SetAllowedProg(e, FALSE) \in Plain
  BY PlainPieces
<1>3. /\ u \in Unwants(e) /\ a \in Unwants(e) /\ ~Has(u, Changes) /\ ~Has(a, Changes)
      /\ b \in Program /\ c \in Program /\ n \in Program /\ u \in Program /\ a \in Program
  BY <1>1, <1>2, PlainHas DEF Wants, Unwants
<1>4. Has(u, Undo(e))
  <2>1. "unblock" \in OpNames \ TagOps
    BY DEF OpNames, TagOps
  <2> DEFINE x == I("unblock", {e}, NoTag, FALSE)
  <2>2. x \in Instr /\ x.op = "unblock" /\ x.es = {e} /\ \A S : Has(u, S) <=> x \in S
    BY <2>1, ExeInstr
  <2> HIDE DEF x, u
  <2>3. QED
    BY <2>2 DEF Undo, Of
<1>5. /\ BlockSelected(e) => Handle("block", b \o c)
      /\ UnblockSelected(e) => Handle("unblock", n \o u)
      /\ AllowSelected(e) => Handle("allow", (n \o u) \o a)
      /\ DisallowSelected(e) => Handle("disallow", SetAllowedProg(e, FALSE))
  BY DEF BlockSelected, UnblockSelected, AllowSelected, DisallowSelected
<1> HIDE DEF b, c, n, u, a
<1>6. b \o c \in Wants(e) /\ Has(b \o c, Raise(e))
  BY <1>1, <1>3, PlainCat, HasCat
<1>7. Early(n \o u)
  <2>1. Early(n)
    BY <1>1 DEF Early
  <2>2. QED
    BY <1>3, <2>1, EarlyCat
<1>8. n \o u \in Unwants(e) /\ n \o u \in Program /\ Has(n \o u, Undo(e))
  BY <1>1, <1>3, <1>4, PlainCat, HasCat, CatType
<1>9. (n \o u) \o a \in Unwants(e) /\ Has((n \o u) \o a, Undo(e)) /\ Early((n \o u) \o a)
  BY <1>3, <1>7, <1>8, PlainCat, HasCat, EarlyCat
<1>10. QED
  BY <1>2, <1>5, <1>6, <1>7, <1>8, <1>9, WantsQuit, UnwantsQuit, PlainQuit

(* The rule of an executable is taken away with the reason, the netsh call *)
(* first.                                                                  *)
LEMMA UnruledQuit ==
  ASSUME Known, QuitInv, NEW e \in Exes, NEW n, NEW v \in Plain, NEW kind,
         n \in Unwants(e), n # <<>>, ~Has(Tail(n), Changes),
         Handle(kind, (When(e \in cfg.blocked, DoExe("unblock", e, FALSE)) \o n) \o v)
  PROVE  QuitInv'
<1> DEFINE u == DoExe("unblock", e, FALSE)
           w == When(e \in cfg.blocked, u)
<1>1. u \in Plain /\ u # <<>> /\ Head(u).op = "unblock" /\ Tail(u) = <<>> /\ Has(u, Undo(e))
  <2>1. "unblock" \in OpNames \ TagOps
    BY DEF OpNames, TagOps
  <2> DEFINE x == I("unblock", {e}, NoTag, FALSE)
  <2>2. /\ x \in Instr /\ x.op = "unblock" /\ x.es = {e} /\ u = <<x>>
        /\ \A S : Has(u, S) <=> x \in S
    BY <2>1, ExeInstr
  <2>3. <<x>> # <<>> /\ Head(<<x>>) = x /\ Tail(<<x>>) = <<>>
    OBVIOUS
  <2>4. u \in Plain
    BY PlainPieces
  <2> HIDE DEF x, u
  <2>5. QED
    BY <2>2, <2>3, <2>4 DEF Undo, Of
<1> HIDE DEF u
<1>2. <<>> \in Plain
  BY DEF Plain, Program, OnlyOps
<1>3. w \in Plain /\ (w = <<>> \/ (Tail(w) = <<>> /\ Head(w).op \in {"unblock", "save"}))
  BY <1>1, <1>2 DEF When
<1>4. e \in cfg.blocked => Has(w, Undo(e))
  BY <1>1 DEF When
<1>5. Handle(kind, (w \o n) \o v)
  BY DEF u
<1> HIDE DEF w
<1>6. /\ w \in Unwants(e) /\ v \in Unwants(e) /\ ~Has(v, Changes)
      /\ w \in Program /\ n \in Program /\ v \in Program
  BY <1>3, PlainHas DEF Unwants
<1>7. Early(w \o n)
  BY <1>3, <1>6, EarlyPair
<1>8. w \o n \in Unwants(e) /\ w \o n \in Program
  BY <1>6, PlainCat, CatType
<1>9. (w \o n) \o v \in Unwants(e) /\ Early((w \o n) \o v)
  BY <1>6, <1>7, <1>8, PlainCat, EarlyCat
<1>10. e \in cfg.blocked => Has((w \o n) \o v, Undo(e))
  BY <1>4, <1>6, <1>8, HasCat
<1>11. QED
  BY <1>5, <1>9, <1>10, UnwantsQuit

\* Running a, then b, then c, is the same however it is bracketed.
LEMMA ProgramsAssoc ==
  ASSUME NEW a \in Program, NEW b \in Program, NEW c \in Program
  PROVE  (a \o b) \o c = a \o (b \o c)
BY ConcatAssociative DEF Program

(* The rule dialog of an executable, and the removal of its rule.          *)
LEMMA RuleQuit ==
  ASSUME Known, QuitInv, NEW e \in Exes, NEW tag \in Tags \cup {NoTag},
         NEW block \in BOOLEAN, NEW allow \in BOOLEAN, ApplyRule(e, block, allow, tag)
  PROVE  QuitInv'
<1> DEFINE p1 == When(block /\ e \notin cfg.blocked, DoExe("block_if_on", e, FALSE))
           p2 == When(~block /\ e \in cfg.blocked, DoExe("unblock", e, FALSE))
           p3 == SetBlockedProg(e, block)
           p4 == SetExeTagProg(e, tag)
           p5 == Do("save")
           p6 == SetAllowedProg(e, allow /\ ~block)
           v == (p4 \o p5) \o p6
<1>1. Handle("rule", p1 \o p2 \o p3 \o p4 \o p5 \o p6) /\ Retags
  BY DEF ApplyRule, Handle, Retags
<1>2. p4 \in Plain /\ p5 \in Plain /\ p6 \in Plain /\ <<>> \in Plain
  <2>1. <<>> \in Plain
    BY DEF Plain, Program, OnlyOps
  <2>2. QED
    BY <1>1, <2>1, PlainPieces
<1>3. \A s \in Program : <<>> \o s = s
  BY ConcatEmptySeq DEF Program
<1>4. CASE block
  <2>1. p1 \in Wants(e)
    BY <1>2, PlainHas, BlockPieces DEF When
  <2>2. p2 = <<>> /\ p3 \in Wants(e) /\ Has(p3, Raise(e))
    BY <1>4, BlockPieces DEF When
  <2>3. p2 \in Wants(e) /\ p4 \in Wants(e) /\ p5 \in Wants(e) /\ p6 \in Wants(e)
    BY <1>2, <2>2, PlainHas
  <2> HIDE DEF p1, p2, p3, p4, p5, p6
  <2>4. \A s, u \in Wants(e) :
          /\ s \o u \in Wants(e) /\ \A S : Has(s, S) \/ Has(u, S) => Has(s \o u, S)
    BY PlainCat, HasCat DEF Wants
  <2>5. /\ p1 \o p2 \o p3 \in Wants(e) /\ Has(p1 \o p2 \o p3, Raise(e))
    BY <2>1, <2>2, <2>3, <2>4
  <2>6. /\ p1 \o p2 \o p3 \o p4 \in Wants(e) /\ Has(p1 \o p2 \o p3 \o p4, Raise(e))
    BY <2>3, <2>4, <2>5
  <2>7. /\ p1 \o p2 \o p3 \o p4 \o p5 \in Wants(e)
        /\ Has(p1 \o p2 \o p3 \o p4 \o p5, Raise(e))
    BY <2>3, <2>4, <2>6
  <2>8. /\ p1 \o p2 \o p3 \o p4 \o p5 \o p6 \in Wants(e)
        /\ Has(p1 \o p2 \o p3 \o p4 \o p5 \o p6, Raise(e))
    BY <2>3, <2>4, <2>7
  <2>9. QED
    BY <1>1, <2>8, WantsQuit
<1>5. CASE ~block
  <2> DEFINE w == When(e \in cfg.blocked, DoExe("unblock", e, FALSE))
             n == SetBlockedProg(e, FALSE)
  <2>1. p1 = <<>> /\ p2 = w /\ p3 = n
    BY <1>5 DEF When
  <2>2. w \in Plain
    BY <1>2, PlainPieces DEF When
  <2>3. n \in Unwants(e) /\ n # <<>> /\ ~Has(Tail(n), Changes)
    BY BlockPieces
  <2>4. w \in Program /\ n \in Program /\ p4 \in Program /\ p5 \in Program /\ p6 \in Program
    BY <1>2, <2>2, <2>3 DEF Plain, Unwants
  <2> HIDE DEF w, n, p1, p2, p3, p4, p5, p6
  <2>5. p1 \o p2 \o p3 \o p4 \o p5 \o p6 = (w \o n) \o v
    <3>1. p1 \o p2 = w
      BY <1>3, <2>1, <2>4
    <3>2. p1 \o p2 \o p3 = w \o n
      BY <2>1, <3>1
    <3> DEFINE k == w \o n
    <3>3. k \in Program
      BY <2>4, CatType
    <3> HIDE DEF k
    <3> DEFINE m == p4 \o p5
    <3>4. m \in Program
      BY <2>4, CatType
    <3>5. (k \o p4) \o p5 = k \o m
      <4>1. p4 \in Program /\ p5 \in Program
        BY <2>4
      <4>2. QED
        BY <3>3, <4>1, ProgramsAssoc, Zenon
    <3> HIDE DEF m
    <3>6. (k \o m) \o p6 = k \o (m \o p6)
      <4>1. p6 \in Program
        BY <2>4
      <4>2. QED
        BY <3>3, <3>4, <4>1, ProgramsAssoc, Zenon
    <3>7. p1 \o p2 \o p3 = k
      BY <3>2 DEF k
    <3>8. p1 \o p2 \o p3 \o p4 \o p5 = k \o m
      BY <3>5, <3>7
    <3>9. p1 \o p2 \o p3 \o p4 \o p5 \o p6 = k \o (m \o p6)
      BY <3>6, <3>8
    <3>10. QED
      BY <3>9 DEF k, m
  <2>6. v \in Plain
    BY <1>2, PlainCat
  <2> HIDE DEF v
  <2>7. Handle("rule", (w \o n) \o v)
    BY <1>1, <2>5
  <2>8. QED
    BY <2>3, <2>6, <2>7, UnruledQuit DEF w
<1>6. QED
  BY <1>4, <1>5

LEMMA RemoveQuit ==
  ASSUME Known, QuitInv, NEW e \in Exes, RemoveSelected(e)
  PROVE  QuitInv'
<1> DEFINE n == DoExe("remove_app", e, FALSE)
           v == SetExeTagProg(e, NoTag)
<1>1. /\ Handle("remove", (When(e \in cfg.blocked, DoExe("unblock", e, FALSE)) \o n) \o v)
      /\ Retags
  BY DEF RemoveSelected, Handle, Retags
<1>2. n \in Unwants(e) /\ n # <<>> /\ ~Has(Tail(n), Changes)
  BY BlockPieces
<1>3. v \in Plain
  BY <1>1, PlainPieces
<1> HIDE DEF n, v
<1>4. QED
  BY <1>1, <1>2, <1>3, UnruledQuit

(* The four answers of a prompt.                                           *)
LEMMA AnswerQuit ==
  ASSUME Known, QuitInv, NEW e \in Exes, NEW answer \in {"temp", "allow", "once", "block"},
         Answer(e, answer)
  PROVE  QuitInv'
<1> DEFINE d == DoExe("answered", e, FALSE)
           f == DoExe("finish", e, FALSE)
           a == AnswerProg(e, answer)
<1>1. Handle("answer", a \o f) /\ d \in Plain /\ f \in Plain
  BY PlainPieces DEF Answer
<1>2. CASE answer # "block"
  <2>1. ASSUME answer = "temp"
        PROVE  a \in Plain
    <3>1. /\ DoExe("temp_allow", e, FALSE) \in Plain /\ Do("save") \in Plain
          /\ DoExe("lockdown_unblock", e, FALSE) \in Plain
      BY PlainPieces
    <3>2. a = DoExe("temp_allow", e, FALSE) \o DoExe("lockdown_unblock", e, FALSE)
              \o d \o Do("save")
      BY <2>1 DEF AnswerProg
    <3> HIDE DEF a, d
    <3>3. a \in Plain
      BY <1>1, <3>1, <3>2, PlainCat
    <3>4. QED
      BY <3>3
  <2>2. ASSUME answer = "allow"
        PROVE  a \in Plain
    BY <2>2, PlainPieces DEF AnswerProg
  <2>3. ASSUME answer = "once"
        PROVE  a \in Plain
    BY <1>1, <2>3 DEF AnswerProg
  <2>4. a \in Plain
    BY <1>2, <2>1, <2>2, <2>3
  <2> HIDE DEF a, f
  <2>5. a \o f \in Plain
    BY <1>1, <2>4, PlainCat
  <2>6. QED
    BY <1>1, <2>5, PlainQuit
<1>3. CASE answer = "block"
  <2> DEFINE b == SetBlockedProg(e, TRUE)
             c == DoExe("block_if_on", e, FALSE)
  <2>1. b \in Wants(e) /\ Has(b, Raise(e)) /\ c \in Wants(e)
    BY BlockPieces
  <2>2. a = (d \o b) \o c
    BY <1>3 DEF AnswerProg
  <2>3. d \in Wants(e) /\ f \in Wants(e)
    BY <1>1, PlainHas
  <2> HIDE DEF a, b, c, d, f
  <2>4. \A s, u \in Wants(e) :
          /\ s \o u \in Wants(e) /\ \A S : Has(s, S) \/ Has(u, S) => Has(s \o u, S)
    BY PlainCat, HasCat DEF Wants
  <2>5. d \o b \in Wants(e) /\ Has(d \o b, Raise(e))
    BY <2>1, <2>3, <2>4
  <2>6. a \in Wants(e) /\ Has(a, Raise(e))
    BY <2>1, <2>2, <2>4, <2>5
  <2>7. a \o f \in Wants(e) /\ Has(a \o f, Raise(e))
    BY <2>3, <2>4, <2>6
  <2>8. QED
    BY <1>1, <2>7, WantsQuit
<1>4. QED
  BY <1>2, <1>3

(* The rule of a tag.                                                      *)
LEMMA TagRuleQuit ==
  ASSUME Known, QuitInv, NoBlockedTagLeft, NEW tag \in Tags, NEW on \in BOOLEAN,
         NEW v \in Plain, Handle("edit_tag", (Do("save") \o SetTagBlockedProg(tag, on)) \o v)
  PROVE  QuitInv'
<1> DEFINE w == Do("save")
           x == I("set_tag_blocked", {}, tag, on)
           n == <<x>> \o w
           p == (w \o n) \o v
           ops == PlainOps \cup {"set_tag_blocked"}
<1>1. Handle("edit_tag", p) /\ ~Retags
  BY DEF SetTagBlockedProg, Handle, NoBlockedTagLeft
<1>2. w \in Plain /\ w # <<>> /\ Tail(w) = <<>> /\ Head(w).op = "save"
  <2>1. w \in Plain
    <3>1. OnlyOps(w, PlainOps) /\ w \in Program
      BY DoType, OnlyOpsProgs DEF OpNames, TagOps, PlainOps
    <3>2. QED
      BY <3>1 DEF Plain
  <2>2. QED
    BY <2>1 DEF Do, I
<1>3. x \in Instr /\ <<x>> \in Program /\ OnlyOps(<<x>>, ops)
  <2>1. x \in Instr /\ <<x>> \in Program
    BY IType DEF I, Instr, OpNames, TagOps
  <2>2. "set_tag_blocked" \in ops /\ "set_tag_blocked" \in OpNames
    BY DEF OpNames
  <2>3. QED
    BY <2>1, <2>2, OnlyOpsProgs
<1> HIDE DEF w, x, ops
<1>4. /\ w \in Program /\ v \in Program /\ ~Has(w, Changes) /\ ~Has(v, Changes)
      /\ OnlyOps(w, ops) /\ OnlyOps(v, ops)
  BY <1>2, PlainHas, OnlyOpsMono DEF ops
<1>5. n \in Program /\ n # <<>> /\ Tail(n) = w /\ OnlyOps(n, ops)
  BY <1>3, <1>4, ConsProgram, OnlyOpsCat
<1> HIDE DEF n
<1>6. w \o n \in Program /\ OnlyOps(w \o n, ops) /\ Early(w \o n)
  BY <1>2, <1>4, <1>5, CatType, OnlyOpsCat, EarlyPair
<1>7. p \in Program /\ OnlyOps(p, ops) /\ Early(p)
  BY <1>4, <1>6, CatType, OnlyOpsCat, EarlyCat
<1> HIDE DEF p
<1>8. /\ \A y \in Exits \cup Clears : y.op \notin ops
      /\ \A y \in Named({"forget"}) \cup Named({"start_monitor"}) : y.op \notin ops
      /\ \A y \in Named({"block", "block_if_on"}) : y.op \notin ops
      /\ \A y \in Named({"set_exe_tag"}) : y.op \notin ops
      /\ \A e : \A y \in Put(e) \cup Drop(e) : y.op \notin ops
  BY <1>1 DEF Exits, Clears, Named, PlainOps, Put, Drop, Drops, Of, ops
<1>9. /\ ~Has(p, Exits) /\ ~Has(p, Clears) /\ ~Has(p, Named({"forget"}))
      /\ ~Has(p, Named({"start_monitor"})) /\ ~Has(p, Named({"block", "block_if_on"}))
      /\ ~Has(p, Named({"set_exe_tag"})) /\ \A e : ~Has(p, Put(e)) /\ ~Has(p, Drop(e))
  BY <1>7, <1>8, OnlyHas
<1>10. ExitLast(p)
  BY <1>9 DEF ExitLast, Has
<1>11. QED
  BY <1>1, <1>7, <1>9, <1>10, HandleQuit

LEMMA EditTagQuit ==
  ASSUME Known, QuitInv, NoBlockedTagLeft, NEW tag \in Tags,
         \/ \E block, allow \in BOOLEAN : EditTag(tag, block, allow)
         \/ RemoveTagRule(tag)
  PROVE  QuitInv'
<1>1. ASSUME NEW block \in BOOLEAN, NEW allow \in BOOLEAN, EditTag(tag, block, allow)
      PROVE  QuitInv'
  <2> DEFINE on == allow /\ ~block
             t == <<I("set_tag_allowed", {}, tag, on)>>
             v == t \o Do("save")
  <2>1. Handle("edit_tag", (Do("save") \o SetTagBlockedProg(tag, block)) \o v)
    BY <1>1 DEF EditTag, SetTagAllowedProg
  <2>2. t \in Plain /\ Do("save") \in Plain
    <3>1. on \in BOOLEAN
      OBVIOUS
    <3> HIDE DEF on
    <3>2. t \in Program /\ Do("save") \in Program
      BY <3>1, IType, DoType DEF OpNames, TagOps
    <3>3. "set_tag_allowed" \in PlainOps \cap OpNames /\ "save" \in PlainOps \cap OpNames
      BY DEF PlainOps, OpNames
    <3>4. OnlyOps(t, PlainOps) /\ OnlyOps(Do("save"), PlainOps)
      BY <3>3, OnlyOpsProgs
    <3> HIDE DEF t
    <3>5. QED
      BY <3>2, <3>4 DEF Plain
  <2> HIDE DEF t
  <2>3. v \in Plain
    BY <2>2, PlainCat
  <2> HIDE DEF v
  <2>4. QED
    BY <2>1, <2>3, TagRuleQuit
<1>2. ASSUME RemoveTagRule(tag)
      PROVE  QuitInv'
  <2> DEFINE k == Do("save") \o SetTagBlockedProg(tag, FALSE)
  <2>1. Handle("edit_tag", k)
    BY <1>2 DEF RemoveTagRule
  <2>2. k \in Program
    <3>1. Do("save") \in Program /\ <<I("set_tag_blocked", {}, tag, FALSE)>> \in Program
      BY IType, DoType DEF OpNames, TagOps
    <3>2. SetTagBlockedProg(tag, FALSE) \in Program
      BY <3>1, CatType DEF SetTagBlockedProg
    <3>3. QED
      BY <3>1, <3>2, CatType
  <2> HIDE DEF k
  <2>3. k \o <<>> = k
    BY <2>2, ConcatEmptySeq DEF Program
  <2>4. <<>> \in Plain
    BY DEF Plain, Program, OnlyOps
  <2>5. Handle("edit_tag", k \o <<>>)
    BY <2>1, <2>3
  <2>6. QED
    BY <2>4, <2>5, TagRuleQuit DEF k
<1>3. QED
  BY <1>1, <1>2

LEMMA FirewallQuit ==
  ASSUME Known, QuitInv, ToggleFirewall
  PROVE  QuitInv'
<1> DEFINE on == ~cfg.fw
           t == <<I("set_firewall", {}, NoTag, on)>>
           v == Do("save")
           r == IF on THEN Do("apply_blocks") ELSE Do("remove_all") \o Do("remove_all")
<1>1. Handle("firewall", (t \o v) \o r)
  BY DEF ToggleFirewall, SetFirewallProg
<1>2. on \in BOOLEAN
  OBVIOUS
<1> HIDE DEF on
<1>3. t \in Plain
  <2>1. t \in Program
    BY <1>2, IType DEF OpNames, TagOps
  <2>2. "set_firewall" \in PlainOps \cap OpNames
    BY DEF PlainOps, OpNames
  <2>3. OnlyOps(t, PlainOps)
    BY <2>2, OnlyOpsProgs
  <2> HIDE DEF t
  <2>4. QED
    BY <2>1, <2>3 DEF Plain
<1>4. ASSUME NEW op \in {"save", "apply_blocks", "remove_all"}
      PROVE  Do(op) \in Plain
  <2>1. op \in OpNames \ TagOps /\ op \in PlainOps
    BY DEF OpNames, TagOps, PlainOps
  <2>2. Do(op) \in Program /\ OnlyOps(Do(op), PlainOps)
    BY <2>1, DoType, OnlyOpsProgs
  <2>3. QED
    BY <2>2 DEF Plain
<1>5. v \in Plain /\ r \in Plain
  BY <1>4, PlainCat
<1> HIDE DEF t, v, r
<1>6. (t \o v) \o r \in Plain
  BY <1>3, <1>5, PlainCat
<1>7. QED
  BY <1>1, <1>6, PlainQuit

(* The exit: both times the sweep is waited for before its blocks are      *)
(* lifted.                                                                 *)
LEMMA CloseQuit ==
  ASSUME Known, QuitInv, Close
  PROVE  QuitInv'
<1> DEFINE v == Do("save")
           h == Do("halt")
           j == Do("join")
           c == Do("clear")
           d == Do("destroy")
           x == Do("exit")
           q == (h \o j) \o c
           s == ((v \o q) \o d) \o q
           p == s \o x
           ops == {"save", "halt", "join", "clear", "destroy"}
           all == ops \cup {"exit"}
<1>1. Handle("quit", p)
  BY DEF Close, Stop
<1>2. ASSUME NEW op \in all
      PROVE  Do(op) \in Program /\ Do(op) = <<I(op, {}, NoTag, FALSE)>> /\ OnlyOps(Do(op), {op})
  <2>1. op \in OpNames \ TagOps
    BY DEF OpNames, TagOps
  <2>2. QED
    BY <2>1, DoType, OnlyOpsProgs DEF Do
<1>3. /\ v \in Program /\ h \in Program /\ j \in Program /\ c \in Program /\ d \in Program
      /\ x \in Program
      /\ OnlyOps(v, {"save", "halt"}) /\ OnlyOps(h, {"save", "halt"})
  BY <1>2, OnlyOpsMono
<1>4. /\ OnlyOps(v, ops) /\ OnlyOps(h, ops) /\ OnlyOps(j, ops) /\ OnlyOps(c, ops)
      /\ OnlyOps(d, ops) /\ OnlyOps(x, all)
  BY <1>2, OnlyOpsMono
<1>5. Shielded(j)
  <2>1. j = <<I("join", {}, NoTag, FALSE)>>
    BY DEF Do
  <2>2. Len(j) = 1 /\ j[1].op = "join"
    BY <2>1 DEF I
  <2> HIDE DEF j
  <2>3. QED
    BY <2>2 DEF Shielded
<1>6. Has(c, Named({"clear"}))
  <2>1. "clear" \in OpNames \ TagOps
    BY DEF OpNames, TagOps
  <2> DEFINE y == I("clear", {}, NoTag, FALSE)
  <2>2. y \in Instr /\ y.op = "clear" /\ \A S : Has(c, S) <=> y \in S
    BY <2>1, DoInstr
  <2> HIDE DEF y, c
  <2>3. QED
    BY <2>2 DEF Named
<1>7. ExitLast(x)
  BY DEF ExitLast, Do
<1> HIDE DEF v, h, j, c, d, x, ops, all
<1>8. h \o j \in Program /\ OnlyOps(h \o j, ops) /\ Shielded(h \o j)
  BY <1>3, <1>4, <1>5, CatType, OnlyOpsCat, ShieldedCat
<1>9. q \in Program /\ OnlyOps(q, ops) /\ Shielded(q) /\ Has(q, Named({"clear"}))
  BY <1>3, <1>4, <1>6, <1>8, CatType, OnlyOpsCat, ShieldedCat, HasCat
<1> HIDE DEF q
<1>10. /\ v \o q \in Program /\ OnlyOps(v \o q, ops) /\ Shielded(v \o q)
  BY <1>3, <1>4, <1>9, CatType, OnlyOpsCat, ShieldedCat
<1>11. /\ (v \o q) \o d \in Program /\ OnlyOps((v \o q) \o d, ops) /\ Shielded((v \o q) \o d)
  BY <1>3, <1>4, <1>10, CatType, OnlyOpsCat, ShieldedCat
<1>12. s \in Program /\ OnlyOps(s, ops) /\ Shielded(s) /\ Has(s, Named({"clear"}))
  BY <1>9, <1>11, CatType, OnlyOpsCat, ShieldedCat, HasCat
<1> HIDE DEF s
<1>13. ~Has(s, Exits) /\ OnlyOps(s, all)
  <2>1. \A y \in Exits : y.op \notin ops
    BY DEF Exits, Named, ops
  <2>2. QED
    BY <1>12, <2>1, OnlyHas, OnlyOpsMono DEF all
<1>14. /\ p \in Program /\ OnlyOps(p, all) /\ Shielded(p) /\ ExitLast(p)
       /\ Has(p, Named({"clear"}))
  BY <1>3, <1>4, <1>7, <1>12, <1>13, CatType, OnlyOpsCat, ShieldedCat, ExitLastCat, HasCat
<1> HIDE DEF p
<1>15. /\ \A y \in Changes : y.op \notin all
       /\ \A y \in Named({"forget"}) \cup Named({"start_monitor"}) : y.op \notin all
       /\ \A y \in Named({"set_tag_blocked"}) \cup Named({"set_exe_tag"}) : y.op \notin all
       /\ \A e : \A y \in Put(e) \cup Drop(e) : y.op \notin all
  BY DEF Changes, Named, Put, Drop, Drops, Of, all, ops
<1>16. /\ ~Has(p, Changes) /\ ~Has(p, Named({"forget"})) /\ ~Has(p, Named({"start_monitor"}))
       /\ ~Has(p, Named({"set_tag_blocked"})) /\ ~Has(p, Named({"set_exe_tag"}))
       /\ \A e : ~Has(p, Put(e)) /\ ~Has(p, Drop(e))
  BY <1>14, <1>15, OnlyHas
<1>17. Early(p)
  BY <1>14, <1>16, HasTail DEF Early
<1>18. QED
  BY <1>1, <1>14, <1>16, <1>17, HandleQuit

-----------------------------------------------------------------------------
(* Every step.                                                             *)

LEMMA NextQuit ==
  ASSUME JoinWaits, NoSwitchInLockdown, NoBlockedTagLeft, Known, SaveInv, QuitInv, [Next]_vars
  PROVE  QuitInv'
<1>1. CASE \E t \in Threads : Step(t)
  BY <1>1, GuiStepQuit, MonStepQuit DEF Threads
<1>2. CASE Tick
  BY <1>2, TickQuit
<1>3. CASE MonitorEnds \/ ShowPrompt \/ UNCHANGED vars \/ \E e \in Exes : Expire(e)
  <2>1. ~alive => Idle("mon")
    BY DEF QuitInv, Closing
  <2>2. /\ UNCHANGED <<cfg, disk, osRules, ldBlocked, prog, app>>
        /\ alive' = alive \/ (Idle("mon") /\ ~alive')
    BY <1>3 DEF MonitorEnds, ShowPrompt, Expire, vars, ldVars, uiVars, lifeVars
  <2>3. QED
    BY <2>1, <2>2, SameQuit
<1>4. CASE RuleEvent
  <2>1. ASSUME NEW e \in Exes, NEW tag \in Tags \cup {NoTag}, TagSelected(e, tag)
        PROVE  QuitInv'
    <3>1. Handle("tag", SetExeTagProg(e, tag)) /\ Retags
      BY <2>1 DEF TagSelected, Handle, Retags
    <3>2. SetExeTagProg(e, tag) \in Plain
      BY <3>1, PlainPieces
    <3>3. QED
      BY <3>1, <3>2, PlainQuit
  <2>2. QED
    BY <1>4, <2>1, SelectedQuit, RuleQuit, RemoveQuit, AnswerQuit, EditTagQuit DEF RuleEvent
<1>5. CASE SwitchEvent
  <2>1. ~ToggleLockdown
    BY DEF ToggleLockdown, Handle, NoSwitchInLockdown
  <2>2. QED
    BY <1>5, <2>1, FirewallQuit, CloseQuit DEF SwitchEvent
<1>6. CASE Boot
  BY <1>6, BootQuit
<1>7. CASE Crash
  <2>1. MemoryLost /\ app' = "crashed" /\ disk' = disk
    BY <1>7 DEF Crash
  <2>2. QED
    BY <2>1, DownQuit DEF QuitLeavesNothing
<1>8. QED
  BY <1>1, <1>2, <1>3, <1>4, <1>5, <1>6, <1>7 DEF Next

(* A regular exit leaves no rule in Windows but those of the user's own    *)
(* blocks, whatever sweep was under way when the window was closed, and    *)
(* after any kill and restart before: the sweep is waited for, its blocks  *)
(* are lifted twice, and every other rule has its reason in the saved      *)
(* settings.                                                               *)
THEOREM ExitLeavesNothing ==
  ASSUME JoinWaits, NoSwitchInLockdown, NoBlockedTagLeft
  PROVE  Spec => []QuitLeavesNothing
<1>1. Init => SaveInv /\ PromptInv /\ BlockInv /\ QuitInv
  BY InitSave, InitPrompt, InitBlock, InitQuit
<1>2. TypeOK /\ SaveInv /\ [Next]_vars => SaveInv'
  BY NextSave
<1>3. TypeOK /\ PromptInv /\ BlockInv /\ [Next]_vars => BlockInv'
  BY NextBlockInv
<1>4. TypeOK /\ PromptInv /\ BlockInv /\ SaveInv /\ QuitInv /\ [Next]_vars => QuitInv'
  BY NextQuit DEF Known
<1>5. QuitInv => QuitLeavesNothing
  BY DEF QuitInv
<1>6. QED
  BY <1>1, <1>2, <1>3, <1>4, <1>5, TypeCorrect, NextPrompt, PTL DEF Spec

=============================================================================
