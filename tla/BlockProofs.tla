---------------------------- MODULE BlockProofs ----------------------------
(* UserBlockStands and OffMeansOff, for every set of executables and tags, *)
(* every settings file and every bound, with and without Lockdown, as long *)
(* as no switch ends a Lockdown.  With such a switch the first is false of *)
(* some instances: _clear_lockdown_blocks in the monitor thread tests the  *)
(* block list and calls netsh later, and the user may block in between.    *)
EXTENDS LockdownProofs

NoSwitchInLockdown ==
  /\ "lockdown" \notin Ops
  /\ (\E d \in Disks : d.lock) => "firewall" \notin Ops

-----------------------------------------------------------------------------
(* A handler edits the block list in one instruction and calls netsh in    *)
(* another, so between two events memory and Windows disagree.  The        *)
(* invariant says what the rest of the program will do about it.           *)

Has(p, S) == \E i \in 1..Len(p) : p[i] \in S
Ahead(S) == Has(prog["gui"], S)
Named(ops) == {x \in Instr : x.op \in ops}

Raise(e) == {x \in Instr : x.op = "set_blocked" /\ x.on /\ e \in x.es}
Switch(on) == {x \in Instr : x.op = "set_firewall" /\ x.on = on}

(* From here on nobody wants the rule of e, ...                            *)
Lift(e) ==
  Switch(FALSE) \cup
  {x \in Instr : e \in x.es /\ (x.op = "remove_app" \/ (x.op = "set_blocked" /\ ~x.on))}
(* ... this deletes it, ...                                                *)
Harm(e) == {x \in Instr : x.op = "remove_all" \/ (x.op = "unblock" /\ e \in x.es)}
(* ... and this puts it there.                                             *)
Mend(e) ==
  {x \in Instr : x.op = "apply_blocks" \/ (x.op \in {"block", "block_if_on"} /\ e \in x.es)}

(* A program that blocks neither lifts nor allows, so that it never gets   *)
(* to delete a rule.  A switch comes first, and the one that turns the     *)
(* firewall off deletes rules and adds none.                               *)
RaiseOps == {"set_blocked", "save", "block_if_on", "block", "set_exe_tag", "set_allowed",
             "allow_settled", "answered", "finish"}
Grants == {x \in Instr : x.op = "set_allowed" /\ x.on}
Adding == {"block", "apply_blocks"}

Shape(p) ==
  /\ \A e \in Exes :
       Has(p, Raise(e)) =>
         ~Has(p, Lift(e)) /\ ~Has(p, Grants) /\ ~Has(p, Named(OpNames \ RaiseOps))
  /\ p # <<>> => ~Has(Tail(p), Named({"set_firewall"}))
  /\ Has(p, Switch(FALSE)) => ~Has(p, Named(Adding)) /\ Has(p, Named({"remove_all"}))

(* The monitor thread sweeps, which adds rules, or does nothing: whoever   *)
(* starts without Lockdown holds no blocks of it.                          *)
SweepOps == {"scan", "block", "mark", "note", "ask"}
LockdownOps == {"set_lockdown", "scan", "mark", "note", "ask"}
Sweeping == cfg.lock /\ cfg.fw /\ app = "up"

Quiet ==
  /\ cfg.lock \/ disk.lock => "firewall" \notin Ops
  /\ "firewall" \notin Ops => ~Ahead(Named({"set_firewall"}))
  /\ ~Sweeping => ldBlocked = {} /\ Idle("mon")
  /\ OnlyOps(prog["mon"], SweepOps)
  /\ ~Ahead(Named(LockdownOps))

(* The user wants e blocked, or will when the program has run.             *)
Wanted(e) ==
  /\ cfg.fw \/ Ahead(Switch(TRUE))
  /\ e \in cfg.blocked \/ Ahead(Raise(e))

Standing ==
  \A e \in Valid :
    Wanted(e) =>
      Ahead(Lift(e)) \/ (~Ahead(Harm(e)) /\ (e \in osRules \/ Ahead(Mend(e))))

Cleaning ==
  (~cfg.fw /\ ~Ahead(Switch(TRUE))) =>
    ~Ahead(Named(Adding)) /\ \A e \in osRules : Ahead(Harm(e))

BlockInv ==
  /\ Quiet
  /\ Shape(prog["gui"])
  /\ app = "up" => Standing /\ Cleaning

-----------------------------------------------------------------------------
(* What a program holds, by how it is put together.                        *)

LEMMA HasCat ==
  ASSUME NEW S, NEW s \in Program, NEW u \in Program
  PROVE  Has(s \o u, S) <=> Has(s, S) \/ Has(u, S)
<1>0. /\ Len(s) \in Nat /\ Len(u) \in Nat /\ Len(s \o u) = Len(s) + Len(u)
      /\ \A i \in 1..Len(s) : (s \o u)[i] = s[i]
      /\ \A i \in 1..Len(u) : (s \o u)[Len(s) + i] = u[i]
  BY DEF Program
<1>1. ASSUME NEW i \in 1..Len(s \o u), (s \o u)[i] \in S
      PROVE  Has(s, S) \/ Has(u, S)
  <2>1. CASE i \in 1..Len(s)
    BY <1>0, <1>1, <2>1 DEF Has
  <2>2. CASE i \notin 1..Len(s)
    <3>1. (i - Len(s)) \in 1..Len(u) /\ i = Len(s) + (i - Len(s))
      BY <1>0, <2>2
    <3>2. u[i - Len(s)] \in S
      BY <1>0, <1>1, <3>1
    <3>3. QED
      BY <3>1, <3>2 DEF Has
  <2>3. QED
    BY <2>1, <2>2
<1>2. ASSUME NEW i \in 1..Len(s), s[i] \in S
      PROVE  Has(s \o u, S)
  <2>1. i \in 1..Len(s \o u) /\ (s \o u)[i] \in S
    BY <1>0, <1>2
  <2>2. QED
    BY <2>1 DEF Has
<1>3. ASSUME NEW i \in 1..Len(u), u[i] \in S
      PROVE  Has(s \o u, S)
  <2>1. (Len(s) + i) \in 1..Len(s \o u) /\ (s \o u)[Len(s) + i] \in S
    BY <1>0, <1>3
  <2>2. QED
    BY <2>1 DEF Has
<1>4. QED
  BY <1>1, <1>2, <1>3 DEF Has

LEMMA HasTail ==
  ASSUME NEW S, NEW p \in Program, p # <<>>
  PROVE  Has(p, S) <=> Head(p) \in S \/ Has(Tail(p), S)
<1>0. /\ Len(p) \in Nat /\ Len(p) > 0 /\ Len(Tail(p)) = Len(p) - 1
      /\ \A i \in 1..Len(Tail(p)) : Tail(p)[i] = p[i + 1]
      /\ Head(p) = p[1]
  BY DEF Program
<1>1. ASSUME NEW i \in 1..Len(p), p[i] \in S, i # 1
      PROVE  Has(Tail(p), S)
  <2>1. (i - 1) \in 1..Len(Tail(p)) /\ Tail(p)[i - 1] = p[i]
    BY <1>0, <1>1
  <2>2. QED
    BY <1>1, <2>1 DEF Has
<1>2. ASSUME NEW i \in 1..Len(Tail(p)), Tail(p)[i] \in S
      PROVE  Has(p, S)
  <2>1. (i + 1) \in 1..Len(p) /\ p[i + 1] \in S
    BY <1>0, <1>2
  <2>2. QED
    BY <2>1 DEF Has
<1>3. 1 \in 1..Len(p)
  BY <1>0
<1>4. QED
  BY <1>0, <1>1, <1>2, <1>3 DEF Has

LEMMA HasOne ==
  ASSUME NEW S, NEW op, NEW es, NEW tag, NEW on
  PROVE  /\ ~Has(<<>>, S)
         /\ Has(<<I(op, es, tag, on)>>, S) <=> I(op, es, tag, on) \in S
         /\ Has(Do(op), S) <=> I(op, {}, NoTag, FALSE) \in S
         /\ Has(DoExe(op, es, on), S) <=> I(op, {es}, NoTag, on) \in S
         /\ Has(Loop(op, es), S) <=> es # {} /\ I(op, es, NoTag, FALSE) \in S
<1>1. ~Has(<<>>, S)
  BY DEF Has
<1>2. \A x : Has(<<x>>, S) <=> x \in S
  BY DEF Has
<1>3. QED
  BY <1>1, <1>2 DEF Do, DoExe, Loop

LEMMA HasWhen ==
  ASSUME NEW S, NEW p \in BOOLEAN, NEW s
  PROVE  Has(When(p, s), S) <=> p /\ Has(s, S)
BY HasOne DEF When

(* Nothing is in a program but instructions of its operations.             *)
LEMMA OnlyHas ==
  ASSUME NEW p, NEW ops, OnlyOps(p, ops), NEW S, \A x \in S : x.op \notin ops
  PROVE  ~Has(p, S)
BY DEF OnlyOps, Has

LEMMA HasNamed ==
  ASSUME NEW p \in Program, NEW ops, ~Has(p, Named(OpNames \ ops))
  PROVE  OnlyOps(p, ops)
<1> SUFFICES ASSUME NEW i \in 1..Len(p)
             PROVE  p[i].op \in ops
  BY DEF OnlyOps
<1>1. p[i] \in Instr /\ p[i].op \in OpNames
  BY DEF Program, Instr
<1>2. QED
  BY <1>1 DEF Has, Named

-----------------------------------------------------------------------------
(* One instruction of the GUI thread: it is replaced by s.                 *)

(* Instructions the invariant looks at.                                    *)
Touching == {"set_blocked", "remove_app", "set_firewall", "remove_all", "unblock",
             "apply_blocks", "block", "block_if_on"}

(* What is ahead before and after.                                         *)
LEMMA Splits ==
  ASSUME TypeOK, prog["gui"] # <<>>, NEW s \in Program, Then("gui", s), NEW S
  PROVE  /\ Ahead(S) <=> Cur("gui") \in S \/ Has(Tail(prog["gui"]), S)
         /\ Has(prog'["gui"], S) <=> Has(s, S) \/ Has(Tail(prog["gui"]), S)
<1>1. prog \in [Threads -> Program] /\ "gui" \in Threads
  BY DEF TypeOK, Program, Threads
<1>2. Tail(prog["gui"]) \in Program
  BY <1>1, CurType
<1>3. prog'["gui"] = s \o Tail(prog["gui"])
  BY <1>1 DEF Then
<1>4. QED
  BY <1>1, <1>2, <1>3, HasCat, HasTail DEF Ahead, Cur

LEMMA NextShape ==
  ASSUME TypeOK, BlockInv, prog["gui"] # <<>>, NEW s \in Program, Then("gui", s),
         OnlyOps(s, Later),
         Cur("gui").op \in RaiseOps /\ Cur("gui") \notin Grants => OnlyOps(s, RaiseOps)
  PROVE  /\ Shape(prog'["gui"])
         /\ \A on : ~Has(prog'["gui"], Switch(on))
<1> DEFINE P == prog["gui"]
           Q == prog'["gui"]
<1>0. /\ prog \in [Threads -> Program] /\ "gui" \in Threads
      /\ prog' \in [Threads -> Program] /\ Cur("gui") \in Instr
      /\ Q \in Program
  <2>1. prog \in [Threads -> Program] /\ "gui" \in Threads
    BY DEF TypeOK, Program, Threads
  <2>2. prog' \in [Threads -> Program] /\ Cur("gui") \in Instr
    BY <2>1, ThenType, CurType
  <2>3. QED
    BY <2>1, <2>2
<1>1. ~Has(Q, Named({"set_firewall"}))
  <2>1. ~Has(Tail(P), Named({"set_firewall"}))
    BY DEF BlockInv, Shape
  <2>2. ~Has(s, Named({"set_firewall"}))
    BY OnlyHas DEF Named, Later
  <2>3. QED
    BY <2>1, <2>2, Splits
<1>2. Q # <<>> => ~Has(Tail(Q), Named({"set_firewall"}))
  BY <1>0, <1>1, HasTail
<1>3. \A on : ~Has(Q, Switch(on))
  BY <1>1 DEF Has, Switch, Named
<1>4. ASSUME NEW e \in Exes, Has(Q, Raise(e))
      PROVE  ~Has(Q, Lift(e)) /\ ~Has(Q, Grants) /\ ~Has(Q, Named(OpNames \ RaiseOps))
  <2>1. ~Has(s, Raise(e)) /\ ~Has(s, Lift(e)) /\ ~Has(s, Grants)
    <3>1. \A x \in Raise(e) \cup Lift(e) \cup Grants : x.op \notin Later
      BY DEF Raise, Lift, Switch, Grants, Later
    <3>2. QED
      BY <3>1, OnlyHas
  <2>2. Has(Tail(P), Raise(e)) /\ Ahead(Raise(e))
    BY <1>4, <2>1, Splits
  <2>3. ~Ahead(Lift(e)) /\ ~Ahead(Grants) /\ ~Ahead(Named(OpNames \ RaiseOps))
    BY <2>2 DEF BlockInv, Shape, Ahead
  <2>4. /\ ~Has(Tail(P), Lift(e)) /\ ~Has(Tail(P), Grants)
        /\ ~Has(Tail(P), Named(OpNames \ RaiseOps))
        /\ Cur("gui") \notin Named(OpNames \ RaiseOps) /\ Cur("gui") \notin Grants
    BY <2>3, Splits
  <2>5. Cur("gui").op \in RaiseOps
    BY <1>0, <2>4 DEF Named, Instr
  <2>6. ~Has(s, Named(OpNames \ RaiseOps))
    BY <2>4, <2>5, OnlyHas DEF Named
  <2>7. QED
    BY <2>1, <2>4, <2>6, Splits
<1> HIDE DEF Q
<1>5. QED
  BY <1>2, <1>3, <1>4 DEF Shape, Q

(* What no instruction of the GUI thread does: begin or end a Lockdown, or *)
(* add to the blocks of the sweep.                                         *)
LockStays ==
  /\ cfg'.lock = cfg.lock /\ (disk'.lock => cfg.lock \/ disk.lock)
  /\ cfg.lock => cfg'.fw = cfg.fw
  /\ ldBlocked' \subseteq ldBlocked
  /\ app' = app

LEMMA NextQuiet ==
  ASSUME TypeOK, BlockInv, prog["gui"] # <<>>, NEW s \in Program, Then("gui", s),
         OnlyOps(s, Later \ LockdownOps), LockStays
  PROVE  Quiet'
<1>1. /\ ~Has(s, Named(LockdownOps)) /\ ~Ahead(Named(LockdownOps))
      /\ ~Has(s, Named({"set_firewall"}))
  BY OnlyHas DEF Named, BlockInv, Quiet, Later
<1>2. /\ ~Has(prog'["gui"], Named(LockdownOps))
      /\ ~Ahead(Named({"set_firewall"})) => ~Has(prog'["gui"], Named({"set_firewall"}))
  BY <1>1, Splits
<1>3. prog'["mon"] = prog["mon"]
  BY DEF TypeOK, Then, Threads
<1>4. QED
  BY <1>2, <1>3 DEF BlockInv, Quiet, LockStays, Sweeping, Idle, Ahead

(* What the rest of the program is known of.                               *)
LEMMA NoSwitchLater ==
  ASSUME TypeOK, BlockInv, prog["gui"] # <<>>
  PROVE  \A on : ~Has(Tail(prog["gui"]), Switch(on))
BY DEF BlockInv, Shape, Has, Switch, Named

(* The instructions that neither change what the user wants nor the rules, *)
(* nor are counted on.                                                     *)
LEMMA PlainBlock ==
  ASSUME TypeOK, BlockInv, prog["gui"] # <<>>, Cur("gui").op \notin Touching,
         NEW s \in Program, Then("gui", s),
         OnlyOps(s, {"lockdown_unblock", "block_if_on", "unblock_unlisted", "forget"}),
         Cur("gui").op \in RaiseOps /\ Cur("gui") \notin Grants => OnlyOps(s, RaiseOps),
         cfg'.fw = cfg.fw, cfg'.blocked = cfg.blocked, LockStays, UNCHANGED osRules
  PROVE  BlockInv'
<1> DEFINE T == Tail(prog["gui"])
           Q == prog'["gui"]
<1>1. OnlyOps(s, Later \ LockdownOps) /\ OnlyOps(s, Later)
  BY OnlyOpsMono DEF Later, LockdownOps
<1>2. Quiet' /\ Shape(Q) /\ \A on : ~Has(Q, Switch(on))
  BY <1>1, NextQuiet, NextShape
<1>3. \A on : ~Ahead(Switch(on))
  <2>1. \A on : Cur("gui") \notin Switch(on)
    BY DEF Switch, Touching
  <2>2. QED
    BY <2>1, NoSwitchLater, Splits
<1>4. ASSUME app = "up", NEW e \in Valid, Wanted(e)'
      PROVE  Has(Q, Lift(e)) \/ (~Has(Q, Harm(e)) /\ (e \in osRules \/ Has(Q, Mend(e))))
  <2>1. /\ ~Has(s, Raise(e)) /\ ~Has(s, Harm(e))
        /\ Cur("gui") \notin Lift(e) /\ Cur("gui") \notin Mend(e)
    <3>1. \A x \in Raise(e) \cup Harm(e) :
            x.op \notin {"lockdown_unblock", "block_if_on", "unblock_unlisted", "forget"}
      BY DEF Raise, Harm
    <3>2. QED
      BY <3>1, OnlyHas DEF Lift, Mend, Switch, Touching
  <2>2. Wanted(e)
    BY <1>2, <1>4, <2>1, Splits DEF Wanted, Ahead
  <2>3. Ahead(Lift(e)) \/ (~Ahead(Harm(e)) /\ (e \in osRules \/ Ahead(Mend(e))))
    BY <1>4, <2>2 DEF BlockInv, Standing
  <2>4. QED
    BY <2>1, <2>3, Splits
<1>5. ASSUME app = "up", ~cfg.fw
      PROVE  ~Has(Q, Named(Adding)) /\ \A e \in osRules : Has(Q, Harm(e))
  <2>1. ~Ahead(Named(Adding)) /\ \A e \in osRules : Ahead(Harm(e))
    BY <1>3, <1>5 DEF BlockInv, Cleaning
  <2>2. ~Has(s, Named(Adding))
    BY OnlyHas DEF Named, Adding
  <2>3. \A e : Cur("gui") \notin Harm(e)
    BY DEF Harm, Touching
  <2>4. QED
    BY <2>1, <2>2, <2>3, Splits
<1>6. app' = "up" => Standing' /\ Cleaning'
  BY <1>4, <1>5 DEF Standing, Cleaning, Ahead, LockStays
<1>7. QED
  BY <1>2, <1>6 DEF BlockInv

(* The shape of every other proof about one instruction: what the rest T   *)
(* will do for one executable, and that nothing is added with the firewall *)
(* off.                                                                    *)
LEMMA NextBlock ==
  ASSUME TypeOK, BlockInv, prog["gui"] # <<>>, NEW s \in Program, Then("gui", s),
         OnlyOps(s, Later \ LockdownOps),
         Cur("gui").op \in RaiseOps /\ Cur("gui") \notin Grants => OnlyOps(s, RaiseOps),
         LockStays,
         \A e \in Valid :
           (app = "up" /\ cfg'.fw /\ (e \in cfg'.blocked \/ Has(Tail(prog["gui"]), Raise(e))))
             => \/ Has(Tail(prog["gui"]), Lift(e))
                \/ /\ ~Has(Tail(prog["gui"]), Harm(e)) /\ ~Has(s, Harm(e))
                   /\ \/ e \in osRules' \/ Has(s, Mend(e))
                      \/ Has(Tail(prog["gui"]), Mend(e)),
         (app = "up" /\ ~cfg'.fw) =>
           /\ ~Has(s, Named(Adding)) /\ ~Has(Tail(prog["gui"]), Named(Adding))
           /\ \A e \in osRules' : Has(s, Harm(e)) \/ Has(Tail(prog["gui"]), Harm(e))
  PROVE  BlockInv'
<1> DEFINE Q == prog'["gui"]
<1>1. OnlyOps(s, Later)
  BY OnlyOpsMono
<1>2. Quiet' /\ Shape(Q) /\ \A on : ~Has(Q, Switch(on))
  BY <1>1, NextQuiet, NextShape
<1>3. ASSUME app = "up", NEW e \in Valid, Wanted(e)'
      PROVE  Has(Q, Lift(e)) \/ (~Has(Q, Harm(e)) /\ (e \in osRules' \/ Has(Q, Mend(e))))
  <2>1. ~Has(s, Raise(e))
    <3>1. \A x \in Raise(e) : x.op \notin Later
      BY DEF Raise, Later
    <3>2. QED
      BY <1>1, <3>1, OnlyHas
  <2>2. cfg'.fw /\ (e \in cfg'.blocked \/ Has(Tail(prog["gui"]), Raise(e)))
    BY <1>2, <1>3, <2>1, Splits DEF Wanted, Ahead
  <2>3. QED
    BY <1>3, <2>2, Splits
<1>4. ASSUME app = "up", ~cfg'.fw
      PROVE  ~Has(Q, Named(Adding)) /\ \A e \in osRules' : Has(Q, Harm(e))
  BY <1>4, Splits
<1>5. app' = "up" => Standing' /\ Cleaning'
  BY <1>3, <1>4 DEF Standing, Cleaning, Ahead, LockStays
<1>6. QED
  BY <1>2, <1>5 DEF BlockInv

(* What the invariant says with T ahead, and what holds of an instruction. *)
LEMMA NowBlock ==
  ASSUME TypeOK, BlockInv, prog["gui"] # <<>>, app = "up"
  PROVE  LET T == Tail(prog["gui"])
             x == Cur("gui")
         IN  /\ \A e \in Valid :
                  /\ cfg.fw \/ x \in Switch(TRUE)
                  /\ e \in cfg.blocked \/ x \in Raise(e) \/ Has(T, Raise(e))
                  => \/ x \in Lift(e) \/ Has(T, Lift(e))
                     \/ /\ x \notin Harm(e) /\ ~Has(T, Harm(e))
                        /\ e \in osRules \/ x \in Mend(e) \/ Has(T, Mend(e))
             /\ (~cfg.fw /\ x \notin Switch(TRUE)) =>
                  /\ x \notin Named(Adding) /\ ~Has(T, Named(Adding))
                  /\ \A e \in osRules : x \in Harm(e) \/ Has(T, Harm(e))
             /\ \A e \in Exes :
                  (x \in Raise(e) \/ Has(T, Raise(e))) =>
                     x \notin Lift(e) /\ ~Has(T, Lift(e)) /\ x.op \in RaiseOps
<1> DEFINE T == Tail(prog["gui"])
           x == Cur("gui")
<1>1. \A S : Ahead(S) <=> x \in S \/ Has(T, S)
  <2>1. prog["gui"] \in Program
    BY DEF TypeOK, Program, Threads
  <2>2. QED
    BY <2>1, HasTail DEF Ahead, Cur
<1>2. x \in Instr
  BY CurType DEF Threads
<1>3. ~Has(T, Switch(TRUE))
  BY NoSwitchLater
<1>4. Standing /\ Cleaning /\ Shape(prog["gui"])
  BY DEF BlockInv
<1> HIDE DEF T, x
<1>5. ASSUME NEW e \in Exes, x \in Raise(e) \/ Has(T, Raise(e))
      PROVE  x \notin Lift(e) /\ ~Has(T, Lift(e)) /\ x.op \in RaiseOps
  <2>1. ~Ahead(Lift(e)) /\ ~Ahead(Named(OpNames \ RaiseOps))
    BY <1>1, <1>4, <1>5 DEF Shape, Ahead
  <2>2. x \notin Named(OpNames \ RaiseOps)
    BY <1>1, <2>1
  <2>3. QED
    BY <1>1, <1>2, <2>1, <2>2 DEF Named, Instr
<1>6. ASSUME NEW e \in Valid, cfg.fw \/ x \in Switch(TRUE),
             e \in cfg.blocked \/ x \in Raise(e) \/ Has(T, Raise(e))
      PROVE  \/ x \in Lift(e) \/ Has(T, Lift(e))
             \/ /\ x \notin Harm(e) /\ ~Has(T, Harm(e))
                /\ e \in osRules \/ x \in Mend(e) \/ Has(T, Mend(e))
  BY <1>1, <1>4, <1>6 DEF Standing, Wanted
<1>7. ASSUME ~cfg.fw, x \notin Switch(TRUE)
      PROVE  /\ x \notin Named(Adding) /\ ~Has(T, Named(Adding))
             /\ \A e \in osRules : x \in Harm(e) \/ Has(T, Harm(e))
  BY <1>1, <1>3, <1>4, <1>7 DEF Cleaning
<1>8. QED
  BY <1>5, <1>6, <1>7 DEF T, x

-----------------------------------------------------------------------------
(* The instructions that touch the block list, the switch or the rules.    *)

(* An instruction is the one it is at.                                     *)
LEMMA GuiAt ==
  ASSUME TypeOK, BlockInv, NEW op, At("gui", op)
  PROVE  /\ prog["gui"] # <<>> /\ Cur("gui").op = op /\ Cur("gui") \in Instr
         /\ Cur("gui").es \in SUBSET Exes
         /\ <<>> \in Program /\ \A ops : OnlyOps(<<>>, ops) /\ \A S : ~Has(<<>>, S)
<1>1. prog["gui"] # <<>> /\ Cur("gui").op = op
  BY DEF At, Cur
<1>2. Cur("gui") \in Instr
  BY <1>1, CurType DEF Threads
<1>3. Cur("gui").es \in SUBSET Exes
  BY <1>2 DEF Instr
<1>4. <<>> \in Program /\ \A ops : OnlyOps(<<>>, ops)
  BY DEF Program, OnlyOps
<1>5. \A S : ~Has(<<>>, S)
  BY HasOne
<1>6. QED
  BY <1>1, <1>2, <1>3, <1>4, <1>5

(* A netsh loop, as the invariant sees it.                                 *)
LEMMA NetshLoop ==
  ASSUME NEW op \in {"block", "unblock", "block_if_on", "unblock_unlisted",
                     "lockdown_unblock"},
         NEW es \in SUBSET Exes
  PROVE  LET s == Loop(op, es)
         IN  /\ s \in Program /\ OnlyOps(s, Later \ LockdownOps)
             /\ \A e : Has(s, Harm(e)) <=> (op = "unblock" /\ e \in es)
             /\ \A e : Has(s, Mend(e)) <=> (op \in {"block", "block_if_on"} /\ e \in es)
             /\ Has(s, Named(Adding)) <=> (op = "block" /\ es # {})
             /\ op \in RaiseOps => OnlyOps(s, RaiseOps)
<1> DEFINE x == I(op, es, NoTag, FALSE)
<1>1. /\ op \in OpNames \ TagOps /\ op \in OpNames
      /\ op \in Later \ LockdownOps
  BY DEF OpNames, TagOps, Later, LockdownOps
<1>2. x \in Instr /\ x.op = op /\ x.es = es
  BY <1>1 DEF I, Instr
<1>3. Loop(op, es) \in Program
  BY <1>1, LoopType
<1>4. /\ OnlyOps(Loop(op, es), Later \ LockdownOps)
      /\ op \in RaiseOps => OnlyOps(Loop(op, es), RaiseOps)
  BY <1>1, OnlyOpsProgs
<1>5. \A S : Has(Loop(op, es), S) <=> es # {} /\ x \in S
  BY HasOne
<1> HIDE DEF x
<1>6. /\ \A e : x \in Harm(e) <=> op = "unblock" /\ e \in es
      /\ \A e : x \in Mend(e) <=> op \in {"block", "block_if_on"} /\ e \in es
      /\ x \in Named(Adding) <=> op = "block"
  BY <1>2 DEF Harm, Mend, Named, Adding
<1>7. QED
  BY <1>3, <1>4, <1>5, <1>6

LEMMA SetBlockedBlock ==
  ASSUME TypeOK, BlockInv, SetBlocked("gui")
  PROVE  BlockInv'
<1> DEFINE T == Tail(prog["gui"])
           x == Cur("gui")
<1>1. /\ At("gui", "set_blocked") /\ Then("gui", <<>>)
      /\ cfg' = [cfg EXCEPT !.blocked = IF x.on THEN @ \cup x.es ELSE @ \ x.es]
      /\ UNCHANGED <<disk, osRules, ldBlocked, app>>
  BY DEF SetBlocked, Advance, lifeVars
<1>2. /\ cfg'.fw = cfg.fw /\ cfg'.lock = cfg.lock
      /\ cfg'.blocked = IF x.on THEN cfg.blocked \cup x.es ELSE cfg.blocked \ x.es
  BY <1>1 DEF TypeOK, Settings
<1>3. x.op = "set_blocked" /\ x \in Instr
  BY <1>1, GuiAt
<1>4. /\ \A e : x \in Raise(e) <=> x.on /\ e \in x.es
      /\ \A e : x \in Lift(e) <=> ~x.on /\ e \in x.es
      /\ \A e : x \notin Harm(e) /\ x \notin Mend(e)
      /\ x \notin Switch(TRUE) /\ x \notin Named(Adding)
  BY <1>3 DEF Raise, Lift, Harm, Mend, Switch, Named, Adding
<1> HIDE DEF T, x
<1>5. ASSUME NEW e \in Valid, app = "up", cfg'.fw, e \in cfg'.blocked \/ Has(T, Raise(e))
      PROVE  Has(T, Lift(e)) \/ (~Has(T, Harm(e)) /\ (e \in osRules \/ Has(T, Mend(e))))
  <2>1. e \in Exes
    BY SetsAssumption
  <2>2. x \notin Lift(e)
    <3>1. CASE Has(T, Raise(e))
      BY <2>1, <3>1, <1>1, <1>5, GuiAt, NowBlock DEF T, x
    <3>2. CASE e \in cfg'.blocked
      BY <1>2, <1>4, <3>2
    <3>3. QED
      BY <1>5, <3>1, <3>2
  <2>3. e \in cfg.blocked \/ x \in Raise(e) \/ Has(T, Raise(e))
    BY <1>2, <1>4, <1>5
  <2>4. QED
    BY <1>1, <1>2, <1>4, <1>5, <2>2, <2>3, GuiAt, NowBlock DEF T, x
<1>6. ASSUME app = "up", ~cfg'.fw
      PROVE  ~Has(T, Named(Adding)) /\ \A e \in osRules' : Has(T, Harm(e))
  BY <1>1, <1>2, <1>4, <1>6, GuiAt, NowBlock DEF T, x
<1>7. QED
  BY <1>1, <1>2, <1>5, <1>6, GuiAt, NextBlock DEF LockStays, T

LEMMA RemoveAppBlock ==
  ASSUME TypeOK, BlockInv, RemoveApp("gui")
  PROVE  BlockInv'
<1> DEFINE T == Tail(prog["gui"])
           x == Cur("gui")
           s == Loop("unblock", x.es \cap cfg.blocked)
<1>1. /\ At("gui", "remove_app") /\ Then("gui", s)
      /\ cfg' = [cfg EXCEPT !.blocked = @ \ x.es]
      /\ UNCHANGED <<disk, osRules, ldBlocked, app>>
  BY DEF RemoveApp, ldVars, lifeVars
<1>2. /\ cfg'.fw = cfg.fw /\ cfg'.lock = cfg.lock /\ cfg'.blocked = cfg.blocked \ x.es
  BY <1>1 DEF TypeOK, Settings
<1>3. x.op = "remove_app" /\ x \in Instr /\ x.es \in SUBSET Exes
  BY <1>1, GuiAt
<1>4. /\ \A e : x \in Lift(e) <=> e \in x.es
      /\ \A e : x \notin Harm(e) /\ x \notin Mend(e) /\ x \notin Raise(e)
      /\ x \notin Switch(TRUE) /\ x \notin Named(Adding) /\ x.op \notin RaiseOps
  BY <1>3 DEF Raise, Lift, Harm, Mend, Switch, Named, Adding, RaiseOps
<1>5. /\ s \in Program /\ OnlyOps(s, Later \ LockdownOps)
      /\ \A e : Has(s, Harm(e)) => e \in x.es
      /\ ~Has(s, Named(Adding))
  <2>1. x.es \cap cfg.blocked \in SUBSET Exes
    BY <1>3
  <2>2. QED
    BY <2>1, NetshLoop
<1> HIDE DEF T, x, s
<1>6. ASSUME NEW e \in Valid, app = "up", cfg'.fw, e \in cfg'.blocked \/ Has(T, Raise(e))
      PROVE  \/ Has(T, Lift(e))
             \/ /\ ~Has(T, Harm(e)) /\ ~Has(s, Harm(e))
                /\ e \in osRules \/ Has(T, Mend(e))
  <2>1. e \in Exes
    BY SetsAssumption
  <2>2. ~Has(T, Raise(e))
    BY <1>1, <1>4, <1>6, <2>1, GuiAt, NowBlock DEF T, x
  <2>3. e \in cfg.blocked /\ e \notin x.es
    BY <1>2, <1>6, <2>2
  <2>4. QED
    BY <1>1, <1>2, <1>4, <1>5, <1>6, <2>3, GuiAt, NowBlock DEF T, x
<1>7. ASSUME app = "up", ~cfg'.fw
      PROVE  ~Has(T, Named(Adding)) /\ \A e \in osRules' : Has(T, Harm(e))
  BY <1>1, <1>2, <1>4, <1>7, GuiAt, NowBlock DEF T, x
<1>8. QED
  BY <1>1, <1>2, <1>4, <1>5, <1>6, <1>7, GuiAt, NextBlock DEF LockStays, T, x

LEMMA SetFirewallBlock ==
  ASSUME TypeOK, BlockInv, SetFirewallEnabled("gui")
  PROVE  BlockInv'
<1> DEFINE T == Tail(prog["gui"])
           x == Cur("gui")
<1>1. /\ At("gui", "set_firewall") /\ Then("gui", <<>>)
      /\ cfg' = [cfg EXCEPT !.fw = x.on]
      /\ UNCHANGED <<disk, osRules, ldBlocked, app>>
  BY DEF SetFirewallEnabled, Advance, ldVars, lifeVars
<1>2. /\ cfg'.fw = x.on /\ cfg'.lock = cfg.lock /\ cfg'.blocked = cfg.blocked
  BY <1>1 DEF TypeOK, Settings
<1>3. x.op = "set_firewall" /\ x \in Instr /\ x.on \in BOOLEAN
  BY <1>1, GuiAt DEF Instr
<1>4. /\ \A e : x \in Lift(e) <=> ~x.on
      /\ \A e : x \notin Harm(e) /\ x \notin Mend(e) /\ x \notin Raise(e)
      /\ \A on \in BOOLEAN : x \in Switch(on) <=> (x.on = on)
      /\ x \notin Named(Adding) /\ x \notin Named({"remove_all"})
  BY <1>3 DEF Raise, Lift, Harm, Mend, Switch, Named, Adding
<1> HIDE DEF T, x
<1>5. ASSUME NEW e \in Valid, app = "up", cfg'.fw, e \in cfg'.blocked \/ Has(T, Raise(e))
      PROVE  Has(T, Lift(e)) \/ (~Has(T, Harm(e)) /\ (e \in osRules \/ Has(T, Mend(e))))
  BY <1>1, <1>2, <1>3, <1>4, <1>5, GuiAt, NowBlock DEF T, x
<1>6. ASSUME app = "up", ~cfg'.fw
      PROVE  ~Has(T, Named(Adding)) /\ \A e \in osRules' : Has(T, Harm(e))
  <2>1. Ahead(Switch(FALSE))
    BY <1>1, <1>2, <1>3, <1>4, <1>6, GuiAt, Splits DEF x
  <2>2. ~Ahead(Named(Adding)) /\ Ahead(Named({"remove_all"}))
    BY <2>1 DEF BlockInv, Shape, Ahead
  <2>3. ~Has(T, Named(Adding)) /\ Has(T, Named({"remove_all"}))
    BY <1>1, <1>4, <2>2, GuiAt, Splits DEF T, x
  <2>4. QED
    BY <2>3 DEF Has, Named, Harm
<1>7. ~cfg.lock
  <2>1. Ahead(Named({"set_firewall"}))
    BY <1>1, <1>3, GuiAt, Splits DEF Named, x
  <2>2. QED
    BY <2>1 DEF BlockInv, Quiet
<1>8. QED
  BY <1>1, <1>2, <1>5, <1>6, <1>7, GuiAt, NextBlock DEF LockStays, T

LEMMA ApplyBlocksBlock ==
  ASSUME TypeOK, BlockInv, ApplyBlocks("gui")
  PROVE  BlockInv'
<1> DEFINE T == Tail(prog["gui"])
           x == Cur("gui")
           s == Loop("block", UserBlocked(cfg))
<1>1. /\ At("gui", "apply_blocks") /\ Then("gui", s)
      /\ UNCHANGED <<cfg, disk, osRules, ldBlocked, app>>
  BY DEF ApplyBlocks, ldVars, lifeVars
<1>2. x.op = "apply_blocks" /\ x \in Instr
  BY <1>1, GuiAt
<1>3. /\ \A e : x \notin Harm(e) /\ x \notin Lift(e) /\ x \notin Raise(e)
      /\ x \notin Switch(TRUE) /\ x \in Named(Adding) /\ x.op \notin RaiseOps
  BY <1>2 DEF Raise, Lift, Harm, Switch, Named, Adding, RaiseOps
<1>4. /\ s \in Program /\ OnlyOps(s, Later \ LockdownOps)
      /\ \A e : ~Has(s, Harm(e))
      /\ \A e \in cfg.blocked : Has(s, Mend(e))
  <2>1. UserBlocked(cfg) \in SUBSET Exes /\ cfg.blocked \subseteq UserBlocked(cfg)
    BY DEF UserBlocked, TagBlocked, TypeOK, Settings
  <2>2. QED
    BY <2>1, NetshLoop
<1> HIDE DEF T, x, s
<1>5. ASSUME NEW e \in Valid, app = "up", cfg'.fw, e \in cfg'.blocked \/ Has(T, Raise(e))
      PROVE  Has(T, Lift(e)) \/ (~Has(T, Harm(e)) /\ (e \in osRules \/ Has(s, Mend(e))))
  <2>1. e \in Exes
    BY SetsAssumption
  <2>2. ~Has(T, Raise(e))
    BY <1>1, <1>3, <1>5, <2>1, GuiAt, NowBlock DEF T, x
  <2>3. e \in cfg.blocked
    BY <1>1, <1>5, <2>2
  <2>4. Has(T, Lift(e)) \/ ~Has(T, Harm(e))
    BY <1>1, <1>3, <1>5, <2>3, GuiAt, NowBlock DEF T, x
  <2>5. QED
    BY <1>4, <2>3, <2>4
<1>6. ~(app = "up" /\ ~cfg'.fw)
  BY <1>1, <1>3, GuiAt, NowBlock DEF x
<1>7. QED
  BY <1>1, <1>3, <1>4, <1>5, <1>6, GuiAt, NextBlock DEF LockStays, T, x

LEMMA RemoveAllBlock ==
  ASSUME TypeOK, BlockInv, RemoveAllRules("gui")
  PROVE  BlockInv'
<1> DEFINE T == Tail(prog["gui"])
           x == Cur("gui")
           s == Loop("unblock", osRules)
<1>1. /\ At("gui", "remove_all") /\ Then("gui", s)
      /\ UNCHANGED <<cfg, disk, osRules, ldBlocked, app>>
  BY DEF RemoveAllRules, ldVars, lifeVars
<1>2. x.op = "remove_all" /\ x \in Instr
  BY <1>1, GuiAt
<1>3. /\ \A e : x \in Harm(e) /\ x \notin Lift(e) /\ x \notin Raise(e)
      /\ x \notin Switch(TRUE) /\ x.op \notin RaiseOps
  BY <1>2 DEF Raise, Lift, Harm, Switch, RaiseOps
<1>4. /\ s \in Program /\ OnlyOps(s, Later \ LockdownOps)
      /\ \A e \in osRules : Has(s, Harm(e))
      /\ ~Has(s, Named(Adding))
  <2>1. osRules \in SUBSET Exes
    BY SetsAssumption DEF TypeOK
  <2>2. QED
    BY <2>1, NetshLoop
<1> HIDE DEF T, x, s
<1>5. ASSUME NEW e \in Valid, app = "up", cfg'.fw, e \in cfg'.blocked \/ Has(T, Raise(e))
      PROVE  Has(T, Lift(e))
  BY <1>1, <1>3, <1>5, GuiAt, NowBlock DEF T, x
<1>6. ASSUME app = "up", ~cfg'.fw
      PROVE  ~Has(T, Named(Adding))
  BY <1>1, <1>3, <1>6, GuiAt, NowBlock DEF T, x
<1>7. QED
  BY <1>1, <1>3, <1>4, <1>5, <1>6, GuiAt, NextBlock DEF LockStays, T, x

LEMMA BlockAppBlock ==
  ASSUME TypeOK, BlockInv, BlockApp("gui")
  PROVE  BlockInv'
<1> DEFINE T == Tail(prog["gui"])
           x == Cur("gui")
<1>1. At("gui", "block") /\ UNCHANGED <<cfg, disk, ldBlocked, app>>
  BY DEF BlockApp, ldVars, lifeVars
<1>2. x.op = "block" /\ x \in Instr /\ x.es \in SUBSET Exes
  BY <1>1, GuiAt
<1>3. PICK e0 \in x.es :
        /\ osRules' = osRules \cup ({e0} \cap Valid)
        /\ ThenRest("gui", e0, <<>>)
  BY DEF BlockApp
<1> DEFINE s == Loop("block", x.es \ {e0})
<1>4. /\ s \in Program /\ OnlyOps(s, Later \ LockdownOps) /\ OnlyOps(s, RaiseOps)
      /\ \A e : ~Has(s, Harm(e))
      /\ \A e : Has(s, Mend(e)) <=> e \in x.es \ {e0}
  <2>1. x.es \ {e0} \in SUBSET Exes
    BY <1>2
  <2>2. "block" \in RaiseOps
    BY DEF RaiseOps
  <2>3. /\ s \in Program /\ OnlyOps(s, Later \ LockdownOps)
        /\ \A e : Has(s, Harm(e)) <=> ("block" = "unblock" /\ e \in x.es \ {e0})
        /\ \A e : Has(s, Mend(e)) <=> ("block" \in {"block", "block_if_on"} /\ e \in x.es \ {e0})
        /\ "block" \in RaiseOps => OnlyOps(s, RaiseOps)
    BY <2>1, NetshLoop
  <2> HIDE DEF s
  <2>4. QED
    BY <2>2, <2>3
<1>5. Then("gui", s)
  <2>1. Then("gui", <<>> \o s)
    BY <1>2, <1>3 DEF ThenRest, Cur
  <2>2. <<>> \o s = s
    BY <1>4 DEF Program
  <2>3. QED
    BY <2>1, <2>2
<1>6. /\ \A e : x \notin Harm(e) /\ x \notin Lift(e) /\ x \notin Raise(e)
      /\ \A e : x \in Mend(e) <=> e \in x.es
      /\ x \notin Switch(TRUE) /\ x \in Named(Adding)
  BY <1>2 DEF Raise, Lift, Harm, Mend, Switch, Named, Adding
<1> HIDE DEF T, x, s
<1>7. ASSUME NEW e \in Valid, app = "up", cfg'.fw, e \in cfg'.blocked \/ Has(T, Raise(e))
      PROVE  \/ Has(T, Lift(e))
             \/ ~Has(T, Harm(e)) /\ (e \in osRules' \/ Has(s, Mend(e)) \/ Has(T, Mend(e)))
  BY <1>1, <1>3, <1>4, <1>6, <1>7, GuiAt, NowBlock DEF T, x
<1>8. ~(app = "up" /\ ~cfg'.fw)
  BY <1>1, <1>6, GuiAt, NowBlock DEF x
<1>9. QED
  BY <1>1, <1>4, <1>5, <1>7, <1>8, GuiAt, NextBlock DEF LockStays, T, x

LEMMA UnblockAppBlock ==
  ASSUME TypeOK, BlockInv, UnblockApp("gui")
  PROVE  BlockInv'
<1> DEFINE T == Tail(prog["gui"])
           x == Cur("gui")
<1>1. At("gui", "unblock") /\ UNCHANGED <<cfg, disk, ldBlocked, app>>
  BY DEF UnblockApp, ldVars, lifeVars
<1>2. x.op = "unblock" /\ x \in Instr /\ x.es \in SUBSET Exes
  BY <1>1, GuiAt
<1>3. PICK e0 \in x.es : osRules' = osRules \ {e0} /\ ThenRest("gui", e0, <<>>)
  BY DEF UnblockApp
<1> DEFINE s == Loop("unblock", x.es \ {e0})
<1>4. /\ s \in Program /\ OnlyOps(s, Later \ LockdownOps)
      /\ \A e : Has(s, Harm(e)) <=> e \in x.es \ {e0}
      /\ ~Has(s, Named(Adding))
  <2>1. x.es \ {e0} \in SUBSET Exes
    BY <1>2
  <2>2. QED
    BY <2>1, NetshLoop
<1>5. Then("gui", s)
  <2>1. Then("gui", <<>> \o s)
    BY <1>2, <1>3 DEF ThenRest, Cur
  <2>2. <<>> \o s = s
    BY <1>4 DEF Program
  <2>3. QED
    BY <2>1, <2>2
<1>6. /\ \A e : x \notin Mend(e) /\ x \notin Lift(e) /\ x \notin Raise(e)
      /\ \A e : x \in Harm(e) <=> e \in x.es
      /\ x \notin Switch(TRUE) /\ x.op \notin RaiseOps
  BY <1>2 DEF Raise, Lift, Harm, Mend, Switch, RaiseOps
<1> HIDE DEF T, x, s
<1>7. ASSUME NEW e \in Valid, app = "up", cfg'.fw, e \in cfg'.blocked \/ Has(T, Raise(e))
      PROVE  \/ Has(T, Lift(e))
             \/ /\ ~Has(T, Harm(e)) /\ ~Has(s, Harm(e))
                /\ e \in osRules' \/ Has(T, Mend(e))
  BY <1>1, <1>3, <1>4, <1>6, <1>7, GuiAt, NowBlock DEF T, x
<1>8. ASSUME app = "up", ~cfg'.fw
      PROVE  /\ ~Has(T, Named(Adding))
             /\ \A e \in osRules' : Has(s, Harm(e)) \/ Has(T, Harm(e))
  BY <1>1, <1>3, <1>4, <1>6, <1>8, GuiAt, NowBlock DEF T, x
<1>9. QED
  BY <1>1, <1>4, <1>5, <1>6, <1>7, <1>8, GuiAt, NextBlock DEF LockStays, T, x

LEMMA BlockIfOnBlock ==
  ASSUME TypeOK, BlockInv, BlockIfOn("gui")
  PROVE  BlockInv'
<1> DEFINE T == Tail(prog["gui"])
           x == Cur("gui")
<1>1. At("gui", "block_if_on") /\ UNCHANGED <<cfg, disk, osRules, ldBlocked, app>>
  BY DEF BlockIfOn, ldVars, lifeVars
<1>2. x.op = "block_if_on" /\ x \in Instr /\ x.es \in SUBSET Exes
  BY <1>1, GuiAt
<1>3. PICK e0 \in x.es : ThenRest("gui", e0, When(cfg.fw, DoExe("block", e0, FALSE)))
  BY DEF BlockIfOn
<1> DEFINE b == When(cfg.fw, DoExe("block", e0, FALSE))
           r == Loop("block_if_on", x.es \ {e0})
           s == b \o r
<1>4. /\ r \in Program /\ OnlyOps(r, Later \ LockdownOps) /\ OnlyOps(r, RaiseOps)
      /\ \A e : ~Has(r, Harm(e))
      /\ \A e : Has(r, Mend(e)) <=> e \in x.es \ {e0}
      /\ ~Has(r, Named(Adding))
  <2>1. x.es \ {e0} \in SUBSET Exes
    BY <1>2
  <2>2. QED
    BY <2>1, NetshLoop DEF RaiseOps
<1>5. /\ b \in Program /\ OnlyOps(b, Later \ LockdownOps) /\ OnlyOps(b, RaiseOps)
      /\ \A e : ~Has(b, Harm(e))
      /\ \A e : Has(b, Mend(e)) <=> (cfg.fw /\ e = e0)
      /\ Has(b, Named(Adding)) => cfg.fw
  <2>1. e0 \in Exes /\ cfg.fw \in BOOLEAN
    BY <1>2 DEF TypeOK, Settings
  <2>2. DoExe("block", e0, FALSE) = Loop("block", {e0})
    BY DEF DoExe, Loop
  <2>3. LET u == Loop("block", {e0})
        IN  /\ u \in Program /\ OnlyOps(u, Later \ LockdownOps) /\ OnlyOps(u, RaiseOps)
            /\ \A e : ~Has(u, Harm(e)) /\ (Has(u, Mend(e)) <=> e = e0)
    BY <2>1, NetshLoop DEF RaiseOps
  <2>4. QED
    BY <2>1, <2>2, <2>3, WhenType, OnlyOpsWhen, HasWhen
<1>6. Then("gui", s)
  BY <1>2, <1>3 DEF ThenRest, Cur
<1> HIDE DEF b, r
<1>7. /\ s \in Program /\ OnlyOps(s, Later \ LockdownOps) /\ OnlyOps(s, RaiseOps)
      /\ \A S : Has(s, S) <=> Has(b, S) \/ Has(r, S)
  BY <1>4, <1>5, CatType, OnlyOpsCat, HasCat
<1>8. /\ \A e : x \notin Harm(e) /\ x \notin Lift(e) /\ x \notin Raise(e)
      /\ \A e : x \in Mend(e) <=> e \in x.es
      /\ x \notin Switch(TRUE)
  BY <1>2 DEF Raise, Lift, Harm, Mend, Switch
<1> HIDE DEF T, x, s
<1>9. ASSUME NEW e \in Valid, app = "up", cfg'.fw, e \in cfg'.blocked \/ Has(T, Raise(e))
      PROVE  \/ Has(T, Lift(e))
             \/ /\ ~Has(T, Harm(e)) /\ ~Has(s, Harm(e))
                /\ e \in osRules' \/ Has(s, Mend(e)) \/ Has(T, Mend(e))
  BY <1>1, <1>4, <1>5, <1>7, <1>8, <1>9, GuiAt, NowBlock DEF T, x
<1>10. ASSUME app = "up", ~cfg'.fw
       PROVE  /\ ~Has(s, Named(Adding)) /\ ~Has(T, Named(Adding))
              /\ \A e \in osRules' : Has(T, Harm(e))
  BY <1>1, <1>4, <1>5, <1>7, <1>8, <1>10, GuiAt, NowBlock DEF T, x
<1>11. QED
  BY <1>1, <1>6, <1>7, <1>9, <1>10, GuiAt, NextBlock DEF LockStays, T, x

(* The two loops that delete rules of others delete none of the user's.    *)
LEMMA UnblockOthers ==
  ASSUME TypeOK, BlockInv, NEW op \in {"unblock_unlisted", "lockdown_unblock"},
         At("gui", op), NEW e0 \in Cur("gui").es, NEW others \in SUBSET (Exes \ cfg.blocked),
         ThenRest("gui", e0, When(e0 \in others, DoExe("unblock", e0, FALSE))),
         UNCHANGED <<cfg, disk, osRules, app>>, ldBlocked' \subseteq ldBlocked
  PROVE  BlockInv'
<1> DEFINE T == Tail(prog["gui"])
           x == Cur("gui")
<1>1. At("gui", op)
  OBVIOUS
<1>2. x.op = op /\ x \in Instr /\ x.es \in SUBSET Exes
  BY <1>1, GuiAt
<1> DEFINE b == When(e0 \in others, DoExe("unblock", e0, FALSE))
           r == Loop(op, x.es \ {e0})
           s == b \o r
<1>4. /\ r \in Program /\ OnlyOps(r, Later \ LockdownOps)
      /\ \A e : ~Has(r, Harm(e))
      /\ ~Has(r, Named(Adding))
  <2>1. x.es \ {e0} \in SUBSET Exes
    BY <1>2
  <2>2. QED
    BY <2>1, NetshLoop
<1>5. /\ b \in Program /\ OnlyOps(b, Later \ LockdownOps)
      /\ \A e : Has(b, Harm(e)) => e \notin cfg.blocked
      /\ ~Has(b, Named(Adding))
  <2>1. e0 \in Exes
    BY <1>2
  <2>2. DoExe("unblock", e0, FALSE) = Loop("unblock", {e0})
    BY DEF DoExe, Loop
  <2>3. LET u == Loop("unblock", {e0})
        IN  /\ u \in Program /\ OnlyOps(u, Later \ LockdownOps)
            /\ ~Has(u, Named(Adding))
            /\ \A e : Has(u, Harm(e)) <=> e = e0
    BY <2>1, NetshLoop
  <2>4. CASE e0 \in others
    <3>1. b = Loop("unblock", {e0})
      BY <2>2, <2>4 DEF When
    <3>2. QED
      BY <2>3, <2>4, <3>1
  <2>5. CASE e0 \notin others
    <3>1. b = <<>>
      BY <2>5 DEF When
    <3>2. QED
      BY <3>1, <1>1, GuiAt
  <2>6. QED
    BY <2>4, <2>5
<1>6. Then("gui", s)
  BY <1>2 DEF ThenRest, Cur
<1> HIDE DEF b, r
<1>7. /\ s \in Program /\ OnlyOps(s, Later \ LockdownOps)
      /\ \A S : Has(s, S) <=> Has(b, S) \/ Has(r, S)
  BY <1>4, <1>5, CatType, OnlyOpsCat, HasCat
<1>8. /\ \A e : x \notin Harm(e) /\ x \notin Lift(e) /\ x \notin Raise(e) /\ x \notin Mend(e)
      /\ x \notin Switch(TRUE) /\ x.op \notin RaiseOps
  BY <1>2 DEF Raise, Lift, Harm, Mend, Switch, RaiseOps
<1> HIDE DEF T, x, s
<1>9. ASSUME NEW e \in Valid, app = "up", cfg'.fw, e \in cfg'.blocked \/ Has(T, Raise(e))
      PROVE  \/ Has(T, Lift(e))
             \/ /\ ~Has(T, Harm(e)) /\ ~Has(s, Harm(e))
                /\ e \in osRules' \/ Has(T, Mend(e))
  <2>1. e \in Exes
    BY SetsAssumption
  <2>2. e \in cfg.blocked
    BY <1>1, <1>8, <1>9, <2>1, GuiAt, NowBlock DEF T, x
  <2>3. QED
    BY <1>1, <1>4, <1>5, <1>7, <1>8, <1>9, <2>2, GuiAt, NowBlock DEF T, x
<1>10. ASSUME app = "up", ~cfg'.fw
       PROVE  /\ ~Has(s, Named(Adding)) /\ ~Has(T, Named(Adding))
              /\ \A e \in osRules' : Has(T, Harm(e))
  BY <1>1, <1>4, <1>5, <1>7, <1>8, <1>10, GuiAt, NowBlock DEF T, x
<1>11. QED
  BY <1>1, <1>6, <1>7, <1>8, <1>9, <1>10, GuiAt, NextBlock DEF LockStays, T, x

LEMMA UnblockUnlistedBlock ==
  ASSUME TypeOK, BlockInv, UnblockUnlisted("gui")
  PROVE  BlockInv'
<1> DEFINE others == Exes \ cfg.blocked
<1>1. /\ At("gui", "unblock_unlisted") /\ Cur("gui").es \in SUBSET Exes
      /\ UNCHANGED <<cfg, disk, osRules, ldBlocked, app>>
  BY GuiAt DEF UnblockUnlisted, ldVars, lifeVars
<1>2. PICK e0 \in Cur("gui").es :
        ThenRest("gui", e0, When(e0 \notin cfg.blocked, DoExe("unblock", e0, FALSE)))
  BY DEF UnblockUnlisted
<1>3. ThenRest("gui", e0, When(e0 \in others, DoExe("unblock", e0, FALSE)))
  BY <1>1, <1>2 DEF When
<1> HIDE DEF others
<1>4. QED
  BY <1>1, <1>3, UnblockOthers DEF others

LEMMA LockdownUnblockBlock ==
  ASSUME TypeOK, BlockInv, LockdownUnblock("gui")
  PROVE  BlockInv'
<1> DEFINE others == ldBlocked \ cfg.blocked
<1>1. At("gui", "lockdown_unblock") /\ UNCHANGED <<cfg, disk, osRules, app>>
  BY DEF LockdownUnblock, lifeVars
<1>2. PICK e0 \in Cur("gui").es :
        /\ ldBlocked' = ldBlocked \ {e0}
        /\ ThenRest("gui", e0, When(e0 \in others, DoExe("unblock", e0, FALSE)))
  BY DEF LockdownUnblock
<1>3. others \in SUBSET (Exes \ cfg.blocked)
  BY DEF TypeOK
<1> HIDE DEF others
<1>4. QED
  BY <1>1, <1>2, <1>3, UnblockOthers

-----------------------------------------------------------------------------
(* The other instructions of the GUI thread, which has none of Lockdown.   *)

LEMMA AdvanceBlock ==
  ASSUME TypeOK, BlockInv, NEW op, op \notin Touching, At("gui", op), Advance("gui"),
         cfg'.fw = cfg.fw, cfg'.blocked = cfg.blocked, LockStays, UNCHANGED osRules
  PROVE  BlockInv'
<1>1. Then("gui", <<>>)
  BY DEF Advance
<1>2. QED
  BY <1>1, GuiAt, PlainBlock

LEMMA PlainStepBlock ==
  ASSUME TypeOK, BlockInv,
         \/ Save("gui") \/ AllowSettled("gui") \/ SetExeTag("gui") \/ TempAllow("gui")
         \/ Answered("gui") \/ Finish("gui") \/ ForgetLockdown("gui")
         \/ StartMonitor("gui") \/ ShowUI("gui") \/ Halt("gui") \/ Join("gui")
         \/ Destroy("gui")
  PROVE  BlockInv'
<1>1. CASE Save("gui")
  BY <1>1, AdvanceBlock DEF Save, Touching, LockStays, ldVars, lifeVars
<1>2. CASE AllowSettled("gui")
  BY <1>2, AdvanceBlock DEF AllowSettled, Touching, LockStays, lifeVars
<1>3. CASE SetExeTag("gui")
  <2>1. cfg'.fw = cfg.fw /\ cfg'.blocked = cfg.blocked /\ cfg'.lock = cfg.lock
    BY <1>3 DEF SetExeTag, TypeOK, Settings
  <2>2. QED
    BY <1>3, <2>1, AdvanceBlock DEF SetExeTag, Touching, LockStays, ldVars, lifeVars
<1>4. CASE TempAllow("gui")
  BY <1>4, AdvanceBlock DEF TempAllow, Touching, LockStays, lifeVars
<1>5. CASE Answered("gui")
  BY <1>5, AdvanceBlock DEF Answered, Touching, LockStays, lifeVars
<1>6. CASE Finish("gui")
  BY <1>6, AdvanceBlock DEF Finish, Touching, LockStays, ldVars, lifeVars
<1>7. CASE ForgetLockdown("gui")
  BY <1>7, AdvanceBlock DEF ForgetLockdown, Touching, LockStays, lifeVars
<1>8. CASE StartMonitor("gui")
  BY <1>8, AdvanceBlock DEF StartMonitor, Touching, LockStays, ldVars
<1>9. CASE ShowUI("gui")
  BY <1>9, AdvanceBlock DEF ShowUI, Touching, LockStays, ldVars, lifeVars
<1>10. CASE Halt("gui")
  BY <1>10, AdvanceBlock DEF Halt, Touching, LockStays, ldVars
<1>11. CASE Join("gui")
  BY <1>11, AdvanceBlock DEF Join, Touching, LockStays, ldVars, lifeVars
<1>12. CASE Destroy("gui")
  BY <1>12, AdvanceBlock DEF Destroy, Touching, LockStays, ldVars, lifeVars
<1>13. QED
  BY <1>1, <1>2, <1>3, <1>4, <1>5, <1>6, <1>7, <1>8, <1>9, <1>10, <1>11, <1>12

(* The instructions that only leave loops of others to run.                *)
LEMMA LoopsBlock ==
  ASSUME TypeOK, BlockInv,
         \/ SetAllowed("gui") \/ SetTagBlocked("gui") \/ SetTagAllowed("gui")
         \/ ClearLockdownBlocks("gui")
  PROVE  BlockInv'
<1> DEFINE ops == {"lockdown_unblock", "block_if_on", "unblock_unlisted", "forget"}
           x == Cur("gui")
<1>1. ASSUME NEW op \in ops \cap OpNames, NEW es \in SUBSET Exes, NEW p
      PROVE  LET s == When(p, Loop(op, es))
             IN  s \in Program /\ OnlyOps(s, ops) /\ (~p => s = <<>>)
  <2>1. Loop(op, es) \in Program
    BY LoopType DEF TagOps
  <2>2. OnlyOps(Loop(op, es), ops)
    BY OnlyOpsProgs
  <2>3. QED
    BY <2>1, <2>2, WhenType, OnlyOpsWhen DEF When
<1>2. CASE SetAllowed("gui")
  <2> DEFINE s == When(x.on, Loop("lockdown_unblock", x.es))
  <2>1. /\ prog["gui"] # <<>> /\ x.op = "set_allowed" /\ x.es \in SUBSET Exes
        /\ x \in Instr /\ \A set : OnlyOps(<<>>, set)
    BY <1>2, GuiAt DEF SetAllowed
  <2>2. s \in Program /\ OnlyOps(s, ops) /\ (~x.on => s = <<>>)
    BY <2>1, <1>1 DEF OpNames
  <2>3. x \notin Grants => OnlyOps(s, RaiseOps)
    BY <2>1, <2>2 DEF Grants
  <2>4. /\ Then("gui", s) /\ UNCHANGED <<disk, osRules, ldBlocked, app>>
        /\ cfg'.fw = cfg.fw /\ cfg'.blocked = cfg.blocked /\ cfg'.lock = cfg.lock
    BY <1>2 DEF SetAllowed, TypeOK, Settings, ldVars, lifeVars
  <2> HIDE DEF s, x
  <2>5. QED
    BY <2>1, <2>2, <2>3, <2>4, PlainBlock DEF Touching, LockStays, x
<1>3. CASE SetTagBlocked("gui")
  <2> DEFINE op == IF x.on THEN "block_if_on" ELSE "unblock_unlisted"
             s == When(TRUE, Loop(op, Members(cfg, x.tag)))
  <2>1. prog["gui"] # <<>> /\ x.op = "set_tag_blocked"
    BY <1>3, GuiAt DEF SetTagBlocked
  <2>2. op \in ops \cap OpNames /\ Members(cfg, x.tag) \in SUBSET Exes
    BY DEF OpNames, Members
  <2>3. s \in Program /\ OnlyOps(s, ops)
    BY <1>1, <2>2
  <2>4. /\ Then("gui", s) /\ UNCHANGED <<disk, osRules, ldBlocked, app>>
        /\ cfg'.fw = cfg.fw /\ cfg'.blocked = cfg.blocked /\ cfg'.lock = cfg.lock
    BY <1>3 DEF SetTagBlocked, TypeOK, Settings, ldVars, lifeVars, When
  <2> HIDE DEF s, x
  <2>5. QED
    BY <2>1, <2>3, <2>4, PlainBlock DEF Touching, LockStays, RaiseOps, x
<1>4. CASE SetTagAllowed("gui")
  <2> DEFINE s == When(x.on, Loop("lockdown_unblock", Members(cfg, x.tag)))
  <2>1. prog["gui"] # <<>> /\ x.op = "set_tag_allowed"
    BY <1>4, GuiAt DEF SetTagAllowed
  <2>2. Members(cfg, x.tag) \in SUBSET Exes
    BY DEF Members
  <2>3. s \in Program /\ OnlyOps(s, ops)
    BY <1>1, <2>2 DEF OpNames
  <2>4. /\ Then("gui", s) /\ UNCHANGED <<disk, osRules, ldBlocked, app>>
        /\ cfg'.fw = cfg.fw /\ cfg'.blocked = cfg.blocked /\ cfg'.lock = cfg.lock
    BY <1>4 DEF SetTagAllowed, TypeOK, Settings, lifeVars
  <2> HIDE DEF s, x
  <2>5. QED
    BY <2>1, <2>3, <2>4, PlainBlock DEF Touching, LockStays, RaiseOps, x
<1>5. CASE ClearLockdownBlocks("gui")
  <2> DEFINE l == When(TRUE, Loop("unblock_unlisted", ldBlocked))
             s == l \o Do("forget")
  <2>1. prog["gui"] # <<>> /\ x.op = "clear"
    BY <1>5, GuiAt DEF ClearLockdownBlocks
  <2>2. l \in Program /\ OnlyOps(l, ops)
    BY <1>1 DEF OpNames, TypeOK
  <2>3. Do("forget") \in Program /\ OnlyOps(Do("forget"), ops)
    BY DoType, OnlyOpsProgs DEF OpNames, TagOps
  <2>4. Then("gui", s) /\ UNCHANGED <<cfg, disk, osRules, ldBlocked, app>>
    BY <1>5 DEF ClearLockdownBlocks, ldVars, lifeVars, When
  <2> HIDE DEF x, l
  <2>5. s \in Program /\ OnlyOps(s, ops)
    BY <2>2, <2>3, CatType, OnlyOpsCat
  <2> HIDE DEF s
  <2>6. QED
    BY <2>1, <2>4, <2>5, PlainBlock DEF Touching, LockStays, RaiseOps, x
<1>6. QED
  BY <1>2, <1>3, <1>4, <1>5

LEMMA NotOfLockdown ==
  ASSUME TypeOK, BlockInv,
         \/ SetLockdown("gui") \/ Scan("gui") \/ Mark("gui") \/ Note("gui") \/ Ask("gui")
  PROVE  FALSE
<1>1. prog["gui"] # <<>> /\ Cur("gui").op \in LockdownOps
  BY DEF SetLockdown, Scan, Mark, Note, Ask, At, Cur, LockdownOps
<1>2. Cur("gui") \in Instr /\ prog["gui"] \in Program
  BY <1>1, CurType DEF TypeOK, Program, Threads
<1>3. Ahead(Named(LockdownOps))
  BY <1>1, <1>2, HasTail DEF Ahead, Named, Cur
<1>4. QED
  BY <1>3 DEF BlockInv, Quiet

LEMMA MemoryLostBlock ==
  ASSUME BlockInv, MemoryLost, disk' = disk, app' # "up"
  PROVE  BlockInv'
<1>1. prog'["gui"] = <<>> /\ prog'["mon"] = <<>> /\ cfg' = disk /\ ldBlocked' = {}
  BY DEF MemoryLost, Threads
<1>2. \A S : ~Has(<<>>, S)
  BY HasOne
<1>3. \A ops : OnlyOps(<<>>, ops)
  BY DEF OnlyOps
<1>4. Quiet' /\ Shape(prog'["gui"])
  BY <1>1, <1>2, <1>3 DEF BlockInv, Quiet, Sweeping, Idle, Ahead, Shape
<1>5. QED
  BY <1>4 DEF BlockInv

-----------------------------------------------------------------------------
(* The monitor thread only adds rules, and only while there is Lockdown.   *)

LEMMA SweepBlock ==
  ASSUME BlockInv, Sweeping, prog'["gui"] = prog["gui"], OnlyOps(prog'["mon"], SweepOps),
         osRules \subseteq osRules', UNCHANGED <<cfg, disk, app>>
  PROVE  BlockInv'
<1>1. Quiet'
  BY DEF BlockInv, Quiet, Sweeping, Ahead
<1>2. Standing'
  BY DEF BlockInv, Standing, Wanted, Sweeping, Ahead
<1>3. Cleaning'
  BY DEF Cleaning, Sweeping
<1>4. QED
  BY <1>1, <1>2, <1>3 DEF BlockInv

(* What the sweep does next is a sweep, ...                                *)
LEMMA SweepVerdict ==
  ASSUME NEW e \in Exes
  PROVE  Verdict(e) \in Program /\ OnlyOps(Verdict(e), SweepOps)
<1> DEFINE m == DoExe("mark", e, FALSE)
           b == DoExe("block", e, FALSE)
           n == DoExe("note", e, FALSE)
           k == DoExe("ask", e, FALSE)
<1>1. /\ m \in Program /\ b \in Program /\ n \in Program /\ k \in Program
      /\ OnlyOps(m, SweepOps) /\ OnlyOps(b, SweepOps)
      /\ OnlyOps(n, SweepOps) /\ OnlyOps(k, SweepOps)
  BY DoExeType, OnlyOpsProgs DEF OpNames, TagOps, SweepOps
<1>2. OnlyOps(When(temp[e] = "none", m), SweepOps)
  BY <1>1, OnlyOpsWhen
<1> HIDE DEF m, b, n, k
<1>3. OnlyOps(b \o n \o k, SweepOps)
  BY <1>1, CatType, OnlyOpsCat
<1>4. QED
  BY <1>1, <1>2, <1>3, VerdictType DEF Verdict, m, b, n, k

(* ... and so is the rest of its loop.                                     *)
LEMMA SweepRest ==
  ASSUME TypeOK, prog["mon"] # <<>>, OnlyOps(prog["mon"], SweepOps),
         NEW s \in Program, OnlyOps(s, SweepOps),
         Then("mon", s) \/ \E e \in Cur("mon").es : ThenRest("mon", e, s)
  PROVE  OnlyOps(prog'["mon"], SweepOps) /\ prog'["gui"] = prog["gui"]
<1> DEFINE x == Cur("mon")
           T == Tail(prog["mon"])
<1>1. /\ prog \in [Threads -> Program] /\ "mon" \in Threads /\ "gui" \in Threads
  BY TypeSplit DEF Threads
<1>2. /\ x \in Instr /\ x.op \in SweepOps /\ T \in Program /\ OnlyOps(T, SweepOps)
      /\ x.es \in SUBSET Exes
  BY <1>1, CurType, OnlyOpsTail DEF Cur, Instr
<1>3. ASSUME NEW u \in Program, OnlyOps(u, SweepOps), Then("mon", u)
      PROVE  OnlyOps(prog'["mon"], SweepOps) /\ prog'["gui"] = prog["gui"]
  BY <1>1, <1>2, <1>3, OnlyOpsCat DEF Then
<1>4. ASSUME NEW e \in x.es, ThenRest("mon", e, s)
      PROVE  OnlyOps(prog'["mon"], SweepOps) /\ prog'["gui"] = prog["gui"]
  <2> DEFINE r == Loop(x.op, x.es \ {e})
  <2>1. r \in Program /\ OnlyOps(r, SweepOps)
    BY <1>2, LoopType, OnlyOpsProgs DEF SweepOps, OpNames, TagOps
  <2>2. Then("mon", s \o r)
    BY <1>4 DEF ThenRest, Cur
  <2> HIDE DEF r
  <2>3. s \o r \in Program /\ OnlyOps(s \o r, SweepOps)
    BY <2>1, CatType, OnlyOpsCat
  <2>4. QED
    BY <1>3, <2>2, <2>3
<1>5. QED
  BY <1>3, <1>4

(* The monitor thread sweeps, and nothing else.                            *)
LEMMA MonSweeps ==
  ASSUME TypeOK, BlockInv
  PROVE  /\ prog["mon"] \in Program
         /\ \A op : At("mon", op) =>
              op \in SweepOps /\ prog["mon"] # <<>> /\ Sweeping /\ Cur("mon").es \subseteq Exes
         /\ Step("mon") => BlockApp("mon") \/ SweepStep("mon")
<1>0. OnlyOps(prog["mon"], SweepOps) /\ prog["mon"] \in Program
  BY TypeSplit DEF BlockInv, Quiet, Threads
<1>1. ASSUME NEW op, At("mon", op)
      PROVE  op \in SweepOps /\ prog["mon"] # <<>> /\ Sweeping /\ Cur("mon").es \subseteq Exes
  <2>1. prog["mon"] # <<>> /\ Cur("mon").op = op
    BY <1>1 DEF At, Cur
  <2>2. Cur("mon") \in Instr
    BY <2>1, CurType DEF Threads
  <2>3. QED
    BY <1>0, <2>1, <2>2, OnlyOpsTail DEF Cur, BlockInv, Quiet, Idle, Instr
<1>2. /\ ~At("mon", "lockdown_unblock") /\ ~At("mon", "block_if_on")
      /\ ~At("mon", "unblock_unlisted")
  BY <1>1 DEF SweepOps
<1>3. ~LockdownUnblock("mon") /\ ~BlockIfOn("mon") /\ ~UnblockUnlisted("mon")
  BY <1>2 DEF LockdownUnblock, BlockIfOn, UnblockUnlisted
<1>4. ~RuleStep("mon")
  BY <1>1, <1>3 DEF RuleStep, SetBlocked, SetAllowed, AllowSettled, SetExeTag,
     SetTagBlocked, SetTagAllowed, RemoveApp, TempAllow, Answered, Finish, SweepOps
<1>5. ~SwitchStep("mon")
  BY <1>1 DEF SwitchStep, SetFirewallEnabled, ApplyBlocks, RemoveAllRules, SetLockdown,
     ClearLockdownBlocks, ForgetLockdown, SweepOps
<1>6. CallStep("mon") => BlockApp("mon")
  BY <1>1, <1>3 DEF CallStep, Save, UnblockApp, SweepOps
<1>7. ~LifeStep("mon")
  BY <1>1 DEF LifeStep, StartMonitor, ShowUI, Halt, Join, Destroy, Exit, SweepOps
<1>8. QED
  BY <1>0, <1>1, <1>4, <1>5, <1>6, <1>7 DEF Step

LEMMA MonBlock ==
  ASSUME TypeOK, BlockInv, Step("mon")
  PROVE  BlockInv'
<1>1. OnlyOps(prog["mon"], SweepOps) /\ prog["mon"] \in Program
  BY TypeSplit DEF BlockInv, Quiet, Threads
<1>2. \A op : At("mon", op) =>
        op \in SweepOps /\ prog["mon"] # <<>> /\ Sweeping /\ Cur("mon").es \subseteq Exes
  BY MonSweeps
<1>3. <<>> \in Program /\ OnlyOps(<<>>, SweepOps)
  BY DEF Program, OnlyOps
<1>4. CASE BlockApp("mon")
  BY <1>1, <1>2, <1>3, <1>4, SweepRest, SweepBlock DEF BlockApp, lifeVars
<1>5. CASE Scan("mon")
  <2>1. PICK e \in Cur("mon").es : ThenRest("mon", e, When(e \notin decided, Verdict(e)))
    BY <1>5 DEF Scan
  <2>2. /\ When(e \notin decided, Verdict(e)) \in Program
        /\ OnlyOps(When(e \notin decided, Verdict(e)), SweepOps)
    BY <1>2, <1>5, SweepVerdict, WhenType, OnlyOpsWhen DEF Scan
  <2>3. QED
    BY <1>1, <1>2, <1>5, <2>1, <2>2, SweepRest, SweepBlock DEF Scan, lifeVars
<1>6. CASE Mark("mon") \/ Note("mon") \/ Ask("mon")
  <2>1. Then("mon", <<>>) /\ UNCHANGED <<cfg, disk, osRules, app>>
    BY <1>6 DEF Mark, Note, Ask, Advance, lifeVars
  <2>2. prog["mon"] # <<>> /\ Sweeping
    BY <1>2, <1>6 DEF Mark, Note, Ask
  <2>3. QED
    BY <1>1, <1>3, <2>1, <2>2, SweepRest, SweepBlock
<1>7. BlockApp("mon") \/ SweepStep("mon")
  BY MonSweeps
<1>8. QED
  BY <1>4, <1>5, <1>6, <1>7 DEF SweepStep

LEMMA StepBlock ==
  ASSUME TypeOK, BlockInv, NEW t \in Threads, Step(t)
  PROVE  BlockInv'
<1>1. CASE t = "mon"
  BY <1>1, MonBlock
<1>2. CASE Exit("gui")
  BY <1>2, MemoryLostBlock DEF Exit
<1>3. QED
  BY <1>1, <1>2, PlainStepBlock, LoopsBlock, NotOfLockdown, SetBlockedBlock,
     RemoveAppBlock, SetFirewallBlock, ApplyBlocksBlock, RemoveAllBlock,
     BlockAppBlock, UnblockAppBlock, BlockIfOnBlock, UnblockUnlistedBlock,
     LockdownUnblockBlock
     DEF Step, RuleStep, SwitchStep, CallStep, SweepStep, LifeStep, Threads

-----------------------------------------------------------------------------
(* The handlers: what leaves the blocks alone, what lifts the block of one *)
(* executable and what imposes it.                                         *)

PeacefulOps ==
  OpNames \ (LockdownOps \cup {"set_blocked", "remove_app", "unblock", "remove_all",
                               "set_firewall", "block", "apply_blocks"})

Peaceful == {s \in Program : OnlyOps(s, PeacefulOps)}

Lowers(e0) ==
  {s \in Program :
     /\ OnlyOps(s, PeacefulOps \cup {"set_blocked", "remove_app", "unblock"})
     /\ \A e : ~Has(s, Raise(e)) /\ (Has(s, Harm(e)) => e = e0)}

Raises(e0) ==
  {s \in Program :
     /\ OnlyOps(s, RaiseOps \ {"block"}) /\ ~Has(s, Grants)
     /\ \A e : ~Has(s, Lift(e)) /\ (Has(s, Raise(e)) => e = e0)}

LEMMA PeacefulCat ==
  ASSUME NEW s \in Peaceful, NEW u \in Peaceful
  PROVE  s \o u \in Peaceful
BY CatType, OnlyOpsCat DEF Peaceful

LEMMA LowersCat ==
  ASSUME NEW e0, NEW s \in Lowers(e0), NEW u \in Lowers(e0)
  PROVE  /\ s \o u \in Lowers(e0)
         /\ Has(s, Lift(e0)) \/ Has(u, Lift(e0)) => Has(s \o u, Lift(e0))
BY CatType, OnlyOpsCat, HasCat DEF Lowers

LEMMA RaisesCat ==
  ASSUME NEW e0, NEW s \in Raises(e0), NEW u \in Raises(e0)
  PROVE  /\ s \o u \in Raises(e0)
         /\ Has(s, Mend(e0)) \/ Has(u, Mend(e0)) => Has(s \o u, Mend(e0))
BY CatType, OnlyOpsCat, HasCat DEF Raises

LEMMA EmptyHandler ==
  /\ <<>> \in Peaceful /\ \A e0 : <<>> \in Lowers(e0) /\ <<>> \in Raises(e0)
<1>1. <<>> \in Program /\ \A ops : OnlyOps(<<>>, ops)
  BY DEF Program, OnlyOps
<1>2. \A S : ~Has(<<>>, S)
  BY HasOne
<1>3. QED
  BY <1>1, <1>2 DEF Peaceful, Lowers, Raises

LEMMA PeacefulLowers == \A e0 : Peaceful \subseteq Lowers(e0)
<1> SUFFICES ASSUME NEW e0, NEW s \in Peaceful
             PROVE  s \in Lowers(e0)
  OBVIOUS
<1>1. s \in Program /\ OnlyOps(s, PeacefulOps)
  BY DEF Peaceful
<1>2. OnlyOps(s, PeacefulOps \cup {"set_blocked", "remove_app", "unblock"})
  BY <1>1, OnlyOpsMono
<1>3. \A e : \A y \in Raise(e) \cup Harm(e) : y.op \notin PeacefulOps
  BY DEF Raise, Harm, PeacefulOps
<1>4. \A e : ~Has(s, Raise(e)) /\ ~Has(s, Harm(e))
  BY <1>1, <1>3, OnlyHas
<1>5. QED
  BY <1>1, <1>2, <1>4 DEF Lowers

(* The bricks.                                                             *)
LEMMA PeacefulOne ==
  ASSUME NEW op \in PeacefulOps, NEW es \in SUBSET Exes, NEW tag \in Tags \cup {NoTag},
         NEW on \in BOOLEAN, op \in TagOps => tag \in Tags
  PROVE  <<I(op, es, tag, on)>> \in Peaceful
<1>1. op \in OpNames
  BY DEF PeacefulOps
<1>2. QED
  BY <1>1, IType, OnlyOpsProgs DEF Peaceful

LEMMA PeacefulDo ==
  ASSUME NEW op \in PeacefulOps \ TagOps
  PROVE  Do(op) \in Peaceful /\ \A e \in Exes, on \in BOOLEAN : DoExe(op, e, on) \in Peaceful
BY PeacefulOne DEF Do, DoExe

LEMMA PeacefulPieces ==
  ASSUME NEW e \in Exes, NEW on \in BOOLEAN
  PROVE  /\ SetAllowedProg(e, on) \in Peaceful
         /\ \A tag \in Tags \cup {NoTag} : SetExeTagProg(e, tag) \in Peaceful
<1>1. /\ DoExe("set_allowed", e, on) \in Peaceful
      /\ DoExe("allow_settled", e, FALSE) \in Peaceful
      /\ Do("save") \in Peaceful
  BY PeacefulDo DEF PeacefulOps, LockdownOps, OpNames, TagOps
<1>2. \A tag \in Tags \cup {NoTag} : <<I("set_exe_tag", {e}, tag, FALSE)>> \in Peaceful
  BY PeacefulOne DEF PeacefulOps, LockdownOps, OpNames, TagOps
<1>3. QED
  BY <1>1, <1>2, PeacefulCat DEF SetAllowedProg, SetExeTagProg

LEMMA PeacefulTag ==
  ASSUME NEW tag \in Tags, NEW on \in BOOLEAN
  PROVE  SetTagBlockedProg(tag, on) \in Peaceful /\ SetTagAllowedProg(tag, on) \in Peaceful
<1>1. /\ <<I("set_tag_blocked", {}, tag, on)>> \in Peaceful
      /\ <<I("set_tag_allowed", {}, tag, on)>> \in Peaceful
  BY PeacefulOne DEF PeacefulOps, LockdownOps, OpNames, TagOps
<1>2. Do("save") \in Peaceful
  BY PeacefulDo DEF PeacefulOps, LockdownOps, OpNames, TagOps
<1>3. QED
  BY <1>1, <1>2, PeacefulCat DEF SetTagBlockedProg, SetTagAllowedProg

LEMMA ExeIn ==
  ASSUME NEW op \in OpNames \ TagOps, NEW e0 \in Exes, NEW on \in BOOLEAN
  PROVE  /\ DoExe(op, e0, on) \in Program /\ OnlyOps(DoExe(op, e0, on), {op})
         /\ \A e : Has(DoExe(op, e0, on), Raise(e)) <=> (op = "set_blocked" /\ on /\ e = e0)
         /\ op # "set_firewall" =>
              \A e : Has(DoExe(op, e0, on), Lift(e))
                       <=> (e = e0 /\ (op = "remove_app" \/ (op = "set_blocked" /\ ~on)))
         /\ op # "remove_all" =>
              \A e : Has(DoExe(op, e0, on), Harm(e)) <=> (op = "unblock" /\ e = e0)
         /\ op # "apply_blocks" =>
              \A e : Has(DoExe(op, e0, on), Mend(e))
                       <=> (op \in {"block", "block_if_on"} /\ e = e0)
<1> DEFINE x == I(op, {e0}, NoTag, on)
<1>1. x \in Instr /\ x.op = op /\ x.es = {e0} /\ x.on = on
  BY DEF I, Instr
<1>2. \A S : Has(DoExe(op, e0, on), S) <=> x \in S
  BY HasOne
<1>3. DoExe(op, e0, on) \in Program /\ OnlyOps(DoExe(op, e0, on), {op})
  BY DoExeType, OnlyOpsProgs
<1> HIDE DEF x
<1>4. /\ \A e : x \in Raise(e) <=> (op = "set_blocked" /\ on /\ e = e0)
      /\ op # "set_firewall" =>
           \A e : x \in Lift(e)
                    <=> (e = e0 /\ (op = "remove_app" \/ (op = "set_blocked" /\ ~on)))
      /\ op # "remove_all" => \A e : x \in Harm(e) <=> (op = "unblock" /\ e = e0)
      /\ op # "apply_blocks" =>
           \A e : x \in Mend(e) <=> (op \in {"block", "block_if_on"} /\ e = e0)
  BY <1>1 DEF Raise, Lift, Harm, Mend, Switch
<1>5. QED
  BY <1>2, <1>3, <1>4

LEMMA LowersPieces ==
  ASSUME NEW e \in Exes
  PROVE  /\ SetBlockedProg(e, FALSE) \in Lowers(e)
         /\ Has(SetBlockedProg(e, FALSE), Lift(e))
         /\ DoExe("unblock", e, FALSE) \in Lowers(e)
         /\ DoExe("remove_app", e, FALSE) \in Lowers(e)
         /\ Has(DoExe("remove_app", e, FALSE), Lift(e))
<1>1. \A op \in {"set_blocked", "unblock", "remove_app"} :
        /\ op \in OpNames \ TagOps /\ op # "set_firewall" /\ op # "remove_all"
        /\ op # "apply_blocks"
        /\ {op} \subseteq PeacefulOps \cup {"set_blocked", "remove_app", "unblock"}
  BY DEF OpNames, TagOps
<1>2. ASSUME NEW op \in {"set_blocked", "unblock", "remove_app"}
      PROVE  /\ DoExe(op, e, FALSE) \in Lowers(e)
             /\ op # "unblock" => Has(DoExe(op, e, FALSE), Lift(e))
  <2>1. /\ DoExe(op, e, FALSE) \in Program /\ OnlyOps(DoExe(op, e, FALSE), {op})
        /\ \A e1 : ~Has(DoExe(op, e, FALSE), Raise(e1))
        /\ \A e1 : Has(DoExe(op, e, FALSE), Harm(e1)) => e1 = e
        /\ op # "unblock" => Has(DoExe(op, e, FALSE), Lift(e))
    BY <1>1, ExeIn
  <2>2. OnlyOps(DoExe(op, e, FALSE), PeacefulOps \cup {"set_blocked", "remove_app", "unblock"})
    BY <1>1, <2>1, OnlyOpsMono
  <2>3. QED
    BY <2>1, <2>2 DEF Lowers
<1>3. Do("save") \in Peaceful /\ Do("save") \in Lowers(e)
  BY PeacefulDo, PeacefulLowers DEF PeacefulOps, LockdownOps, OpNames, TagOps
<1>4. /\ DoExe("set_blocked", e, FALSE) \in Program /\ Do("save") \in Program
  BY <1>2, <1>3 DEF Lowers
<1>5. QED
  BY <1>2, <1>3, <1>4, LowersCat, HasCat DEF SetBlockedProg

LEMMA RaisesPieces ==
  ASSUME NEW e \in Exes
  PROVE  /\ SetBlockedProg(e, TRUE) \in Raises(e)
         /\ DoExe("block_if_on", e, FALSE) \in Raises(e)
         /\ Has(DoExe("block_if_on", e, FALSE), Mend(e))
         /\ \A s \in Peaceful :
              OnlyOps(s, RaiseOps \ {"block"}) /\ ~Has(s, Grants) => s \in Raises(e)
<1>1. ASSUME NEW s \in Peaceful, OnlyOps(s, RaiseOps \ {"block"}), ~Has(s, Grants)
      PROVE  s \in Raises(e)
  <2>1. s \in Program /\ OnlyOps(s, PeacefulOps)
    BY DEF Peaceful
  <2>2. \A e1 : \A y \in Raise(e1) \cup Lift(e1) : y.op \notin PeacefulOps
    BY DEF Raise, Lift, Switch, PeacefulOps
  <2>3. QED
    BY <1>1, <2>1, <2>2, OnlyHas DEF Raises
<1>2. ASSUME NEW op \in {"set_blocked", "block_if_on"}, NEW on \in BOOLEAN,
             op = "set_blocked" => on
      PROVE  /\ DoExe(op, e, on) \in Raises(e)
             /\ op = "block_if_on" => Has(DoExe(op, e, on), Mend(e))
  <2>1. /\ op \in OpNames \ TagOps /\ op # "set_firewall" /\ op # "apply_blocks"
        /\ {op} \subseteq RaiseOps \ {"block"} /\ op # "set_allowed"
    BY DEF OpNames, TagOps, RaiseOps
  <2>2. /\ DoExe(op, e, on) \in Program /\ OnlyOps(DoExe(op, e, on), {op})
        /\ \A e1 : ~Has(DoExe(op, e, on), Lift(e1))
        /\ \A e1 : Has(DoExe(op, e, on), Raise(e1)) => e1 = e
        /\ op = "block_if_on" => Has(DoExe(op, e, on), Mend(e))
    BY <1>2, <2>1, ExeIn
  <2>3. OnlyOps(DoExe(op, e, on), RaiseOps \ {"block"})
    BY <2>1, <2>2, OnlyOpsMono
  <2>4. ~Has(DoExe(op, e, on), Grants)
    BY <2>1, <2>2, OnlyHas DEF Grants
  <2>5. QED
    BY <2>2, <2>3, <2>4 DEF Raises
<1>3. Do("save") \in Raises(e)
  <2>1. Do("save") \in Peaceful
    BY PeacefulDo DEF PeacefulOps, LockdownOps, OpNames, TagOps
  <2>2. OnlyOps(Do("save"), RaiseOps \ {"block"}) /\ ~Has(Do("save"), Grants)
    BY OnlyOpsProgs, HasOne DEF RaiseOps, OpNames, Grants, I
  <2>3. QED
    BY <1>1, <2>1, <2>2
<1>4. QED
  BY <1>1, <1>2, <1>3, RaisesCat DEF SetBlockedProg

(* Between two handlers memory and Windows agree.                          *)
LEMMA RestBlock ==
  ASSUME BlockInv, Idle("gui"), app = "up"
  PROVE  /\ cfg.fw => cfg.blocked \cap Valid \subseteq osRules
         /\ ~cfg.fw => osRules = {}
<1>1. \A S : ~Ahead(S)
  <2>1. \A S : ~Has(<<>>, S)
    BY HasOne
  <2>2. QED
    BY <2>1 DEF Ahead, Idle
<1>2. Standing /\ Cleaning
  BY DEF BlockInv
<1>3. ASSUME cfg.fw, NEW e \in Valid, e \in cfg.blocked
      PROVE  e \in osRules
  BY <1>1, <1>2, <1>3 DEF Standing, Wanted
<1>4. ~cfg.fw => osRules = {}
  BY <1>1, <1>2 DEF Cleaning
<1>5. QED
  BY <1>3, <1>4

LEMMA HandleBlock ==
  ASSUME TypeOK, BlockInv, NEW kind, NEW p \in Program, Handle(kind, p), Shape(p),
         ~Has(p, Named(LockdownOps)), Has(p, Named({"set_firewall"})) => "firewall" \in Ops,
         \A e \in Valid :
           /\ cfg.fw \/ Has(p, Switch(TRUE))
           /\ e \in cfg.blocked \/ Has(p, Raise(e))
           => \/ Has(p, Lift(e))
              \/ ~Has(p, Harm(e)) /\ ((cfg.fw /\ e \in cfg.blocked) \/ Has(p, Mend(e))),
         (~cfg.fw /\ ~Has(p, Switch(TRUE))) => ~Has(p, Named(Adding))
  PROVE  BlockInv'
<1>1. /\ Idle("gui") /\ prog'["gui"] = p /\ prog'["mon"] = prog["mon"]
      /\ UNCHANGED <<cfg, disk, osRules, ldBlocked, app>>
  BY DEF Handle, TypeOK, Threads, ldVars
<1>2. Quiet'
  BY <1>1 DEF BlockInv, Quiet, Sweeping, Idle, Ahead
<1>3. app = "up" => Standing' /\ Cleaning'
  BY <1>1, RestBlock DEF Standing, Cleaning, Wanted, Ahead
<1>4. QED
  BY <1>1, <1>2, <1>3 DEF BlockInv

(* A program without the firewall switch has its shape when it does not    *)
(* block and lift at once.                                                 *)
LEMMA UnswitchedShape ==
  ASSUME NEW p \in Program, ~Has(p, Named({"set_firewall"})),
         \A e : Has(p, Raise(e)) =>
           ~Has(p, Lift(e)) /\ ~Has(p, Grants) /\ ~Has(p, Named(OpNames \ RaiseOps))
  PROVE  Shape(p) /\ \A on : ~Has(p, Switch(on))
<1>1. p # <<>> => ~Has(Tail(p), Named({"set_firewall"}))
  BY HasTail
<1>2. \A on : ~Has(p, Switch(on))
  BY DEF Has, Switch, Named
<1>3. QED
  BY <1>1, <1>2 DEF Shape

LEMMA LowersBlock ==
  ASSUME TypeOK, BlockInv, NEW kind, NEW e0, NEW p \in Lowers(e0),
         Has(p, Lift(e0)) \/ p \in Peaceful, Handle(kind, p)
  PROVE  BlockInv'
<1>1. /\ p \in Program /\ OnlyOps(p, PeacefulOps \cup {"set_blocked", "remove_app", "unblock"})
      /\ \A e : ~Has(p, Raise(e)) /\ (Has(p, Harm(e)) => e = e0)
  BY DEF Lowers
<1>2. \A op \in {"set_firewall"} \cup LockdownOps \cup Adding :
        op \notin PeacefulOps \cup {"set_blocked", "remove_app", "unblock"}
  BY DEF PeacefulOps, LockdownOps, Adding
<1>3. /\ ~Has(p, Named({"set_firewall"})) /\ ~Has(p, Named(LockdownOps))
      /\ ~Has(p, Named(Adding))
  BY <1>1, <1>2, OnlyHas DEF Named
<1>4. Shape(p) /\ ~Has(p, Switch(TRUE))
  BY <1>1, <1>3, UnswitchedShape
<1>5. p \in Peaceful => ~Has(p, Harm(e0))
  BY OnlyHas DEF Peaceful, PeacefulOps, Harm
<1>6. QED
  BY <1>1, <1>3, <1>4, <1>5, HandleBlock

LEMMA PeacefulBlock ==
  ASSUME TypeOK, BlockInv, NEW kind, NEW p \in Peaceful, Handle(kind, p)
  PROVE  BlockInv'
BY PeacefulLowers, LowersBlock

LEMMA RaisesBlock ==
  ASSUME TypeOK, BlockInv, NEW kind, NEW e0, NEW p \in Raises(e0),
         e0 \in cfg.blocked \/ Has(p, Mend(e0)), Handle(kind, p)
  PROVE  BlockInv'
<1>1. /\ p \in Program /\ OnlyOps(p, RaiseOps \ {"block"}) /\ ~Has(p, Grants)
      /\ \A e : ~Has(p, Lift(e)) /\ (Has(p, Raise(e)) => e = e0)
  BY DEF Raises
<1>2. /\ \A op \in {"set_firewall", "remove_all", "unblock"} \cup LockdownOps \cup Adding :
           op \notin RaiseOps \ {"block"}
      /\ \A op \in OpNames \ RaiseOps : op \notin RaiseOps \ {"block"}
  BY DEF RaiseOps, LockdownOps, Adding
<1>3. /\ ~Has(p, Named({"set_firewall"})) /\ ~Has(p, Named(LockdownOps))
      /\ ~Has(p, Named(Adding)) /\ ~Has(p, Named(OpNames \ RaiseOps))
      /\ \A e : ~Has(p, Harm(e))
  BY <1>1, <1>2, OnlyHas DEF Named, Harm
<1>4. Shape(p) /\ ~Has(p, Switch(TRUE))
  BY <1>1, <1>3, UnswitchedShape
<1>5. QED
  BY <1>1, <1>3, <1>4, HandleBlock

LEMMA ApplyRuleBlock ==
  ASSUME TypeOK, BlockInv, NEW e \in Exes, NEW tag \in Tags \cup {NoTag},
         NEW block \in BOOLEAN, NEW allow \in BOOLEAN, ApplyRule(e, block, allow, tag)
  PROVE  BlockInv'
<1> DEFINE p1 == When(block /\ e \notin cfg.blocked, DoExe("block_if_on", e, FALSE))
           p2 == When(~block /\ e \in cfg.blocked, DoExe("unblock", e, FALSE))
           p3 == SetBlockedProg(e, block)
           p4 == SetExeTagProg(e, tag)
           p5 == Do("save")
           p6 == SetAllowedProg(e, allow /\ ~block)
           p == p1 \o p2 \o p3 \o p4 \o p5 \o p6
<1>1. Handle("rule", p)
  BY DEF ApplyRule
<1>2. p4 \in Peaceful /\ p5 \in Peaceful /\ p6 \in Peaceful
  BY PeacefulPieces, PeacefulDo DEF PeacefulOps, LockdownOps, OpNames, TagOps
<1>3. CASE block
  <2>1. p1 \in Raises(e) /\ (e \in cfg.blocked \/ Has(p1, Mend(e)))
    BY <1>3, RaisesPieces, EmptyHandler DEF When
  <2>2. p2 \in Raises(e)
    BY <1>3, EmptyHandler DEF When
  <2>3. p3 \in Raises(e)
    BY <1>3, RaisesPieces
  <2>4. p4 \in Raises(e) /\ p5 \in Raises(e) /\ p6 \in Raises(e)
    <3>1. /\ OnlyOps(Do("save"), RaiseOps \ {"block"})
          /\ \A on : OnlyOps(DoExe("set_allowed", e, on), RaiseOps \ {"block"})
          /\ OnlyOps(DoExe("allow_settled", e, FALSE), RaiseOps \ {"block"})
          /\ OnlyOps(<<I("set_exe_tag", {e}, tag, FALSE)>>, RaiseOps \ {"block"})
      BY OnlyOpsProgs DEF RaiseOps, OpNames
    <3>2. /\ Do("save") \in Program
          /\ \A on \in BOOLEAN : DoExe("set_allowed", e, on) \in Program
          /\ DoExe("allow_settled", e, FALSE) \in Program
          /\ <<I("set_exe_tag", {e}, tag, FALSE)>> \in Program
      BY DoType, DoExeType, IType DEF OpNames, TagOps
    <3>3. /\ OnlyOps(p4, RaiseOps \ {"block"}) /\ OnlyOps(p5, RaiseOps \ {"block"})
          /\ OnlyOps(p6, RaiseOps \ {"block"})
      BY <3>1, <3>2, CatType, OnlyOpsCat DEF SetExeTagProg, SetAllowedProg
    <3>4. ~Has(p4, Grants) /\ ~Has(p5, Grants) /\ ~Has(p6, Grants)
      <4>1. /\ ~Has(Do("save"), Grants) /\ ~Has(DoExe("set_allowed", e, FALSE), Grants)
            /\ ~Has(DoExe("allow_settled", e, FALSE), Grants)
            /\ ~Has(<<I("set_exe_tag", {e}, tag, FALSE)>>, Grants)
        <5>1. /\ I("save", {}, NoTag, FALSE) \notin Grants
              /\ I("set_allowed", {e}, NoTag, FALSE) \notin Grants
              /\ I("allow_settled", {e}, NoTag, FALSE) \notin Grants
              /\ I("set_exe_tag", {e}, tag, FALSE) \notin Grants
          BY DEF Grants, I
        <5>2. QED
          BY <5>1, HasOne
      <4>2. p6 = SetAllowedProg(e, FALSE)
        BY <1>3
      <4>3. QED
        BY <3>2, <4>1, <4>2, CatType, HasCat DEF SetExeTagProg, SetAllowedProg
    <3>5. QED
      BY <1>2, <3>3, <3>4, RaisesPieces
  <2> HIDE DEF p1, p2, p3, p4, p5, p6
  <2>5. p1 \o p2 \in Raises(e) /\ (Has(p1, Mend(e)) => Has(p1 \o p2, Mend(e)))
    BY <2>1, <2>2, RaisesCat
  <2>6. /\ p1 \o p2 \o p3 \in Raises(e)
        /\ Has(p1, Mend(e)) => Has(p1 \o p2 \o p3, Mend(e))
    BY <2>3, <2>5, RaisesCat
  <2>7. /\ p1 \o p2 \o p3 \o p4 \in Raises(e)
        /\ Has(p1, Mend(e)) => Has(p1 \o p2 \o p3 \o p4, Mend(e))
    BY <2>4, <2>6, RaisesCat
  <2>8. /\ p1 \o p2 \o p3 \o p4 \o p5 \in Raises(e)
        /\ Has(p1, Mend(e)) => Has(p1 \o p2 \o p3 \o p4 \o p5, Mend(e))
    BY <2>4, <2>7, RaisesCat
  <2>9. p \in Raises(e) /\ (Has(p1, Mend(e)) => Has(p, Mend(e)))
    BY <2>4, <2>8, RaisesCat
  <2> HIDE DEF p
  <2>10. QED
    BY <1>1, <2>1, <2>9, RaisesBlock
<1>4. CASE ~block
  <2>1. p1 \in Lowers(e)
    BY <1>4, EmptyHandler DEF When
  <2>2. p2 \in Lowers(e)
    BY LowersPieces, EmptyHandler DEF When
  <2>3. p3 \in Lowers(e) /\ Has(p3, Lift(e))
    BY <1>4, LowersPieces
  <2>4. p4 \in Lowers(e) /\ p5 \in Lowers(e) /\ p6 \in Lowers(e)
    BY <1>2, PeacefulLowers
  <2> HIDE DEF p1, p2, p3, p4, p5, p6
  <2>5. p1 \o p2 \in Lowers(e)
    BY <2>1, <2>2, LowersCat
  <2>6. p1 \o p2 \o p3 \in Lowers(e) /\ Has(p1 \o p2 \o p3, Lift(e))
    BY <2>3, <2>5, LowersCat
  <2>7. p1 \o p2 \o p3 \o p4 \in Lowers(e) /\ Has(p1 \o p2 \o p3 \o p4, Lift(e))
    BY <2>4, <2>6, LowersCat
  <2>8. /\ p1 \o p2 \o p3 \o p4 \o p5 \in Lowers(e)
        /\ Has(p1 \o p2 \o p3 \o p4 \o p5, Lift(e))
    BY <2>4, <2>7, LowersCat
  <2>9. p \in Lowers(e) /\ Has(p, Lift(e))
    BY <2>4, <2>8, LowersCat
  <2> HIDE DEF p
  <2>10. QED
    BY <1>1, <2>9, LowersBlock
<1>5. QED
  BY <1>3, <1>4

LEMMA AnswerBlock ==
  ASSUME TypeOK, BlockInv, NEW e \in Exes,
         NEW answer \in {"temp", "allow", "once", "block"}, Answer(e, answer)
  PROVE  BlockInv'
<1> DEFINE p == AnswerProg(e, answer) \o DoExe("finish", e, FALSE)
<1>0. Handle("answer", p)
  BY DEF Answer
<1>1. /\ DoExe("temp_allow", e, FALSE) \in Peaceful
      /\ DoExe("lockdown_unblock", e, FALSE) \in Peaceful
      /\ DoExe("answered", e, FALSE) \in Peaceful
      /\ DoExe("finish", e, FALSE) \in Peaceful
      /\ Do("save") \in Peaceful /\ SetAllowedProg(e, TRUE) \in Peaceful
  BY PeacefulDo, PeacefulPieces DEF PeacefulOps, LockdownOps, OpNames, TagOps
<1>2. CASE answer # "block"
  <2>1. AnswerProg(e, answer) \in Peaceful
    BY <1>1, <1>2, PeacefulCat DEF AnswerProg
  <2>2. p \in Peaceful
    BY <1>1, <2>1, PeacefulCat
  <2>3. QED
    BY <1>0, <2>2, PeacefulBlock
<1>3. CASE answer = "block"
  <2> DEFINE a == DoExe("answered", e, FALSE)
             b == SetBlockedProg(e, TRUE)
             c == DoExe("block_if_on", e, FALSE)
             d == DoExe("finish", e, FALSE)
  <2>1. /\ OnlyOps(a, RaiseOps \ {"block"}) /\ OnlyOps(d, RaiseOps \ {"block"})
        /\ ~Has(a, Grants) /\ ~Has(d, Grants)
    BY OnlyOpsProgs, HasOne DEF RaiseOps, OpNames, Grants, I
  <2>2. /\ a \in Raises(e) /\ b \in Raises(e) /\ c \in Raises(e) /\ d \in Raises(e)
        /\ Has(c, Mend(e))
    BY <1>1, <2>1, RaisesPieces
  <2>3. p = a \o b \o c \o d
    BY <1>3 DEF AnswerProg
  <2> HIDE DEF a, b, c, d, p
  <2>4. a \o b \in Raises(e)
    BY <2>2, RaisesCat
  <2>5. a \o b \o c \in Raises(e) /\ Has(a \o b \o c, Mend(e))
    BY <2>2, <2>4, RaisesCat
  <2>6. p \in Raises(e) /\ Has(p, Mend(e))
    BY <2>2, <2>3, <2>5, RaisesCat
  <2>7. QED
    BY <1>0, <2>6, RaisesBlock
<1>4. QED
  BY <1>2, <1>3

LEMMA RuleEventBlock ==
  ASSUME TypeOK, BlockInv, RuleEvent
  PROVE  BlockInv'
<1>0. Do("save") \in Peaceful
  BY PeacefulDo DEF PeacefulOps, LockdownOps, OpNames, TagOps
<1>1. ASSUME NEW e \in Exes, BlockSelected(e)
      PROVE  BlockInv'
  <2> DEFINE b == SetBlockedProg(e, TRUE)
             c == DoExe("block_if_on", e, FALSE)
  <2>1. b \in Raises(e) /\ c \in Raises(e) /\ Has(c, Mend(e)) /\ Handle("block", b \o c)
    BY <1>1, RaisesPieces DEF BlockSelected
  <2> HIDE DEF b, c
  <2>2. b \o c \in Raises(e) /\ Has(b \o c, Mend(e))
    BY <2>1, RaisesCat
  <2>3. QED
    BY <2>1, <2>2, RaisesBlock
<1>2. ASSUME NEW e \in Exes, UnblockSelected(e) \/ AllowSelected(e)
      PROVE  BlockInv'
  <2> DEFINE b == SetBlockedProg(e, FALSE)
             c == DoExe("unblock", e, FALSE)
             d == SetAllowedProg(e, TRUE)
  <2>1. /\ b \in Lowers(e) /\ c \in Lowers(e) /\ d \in Lowers(e) /\ Has(b, Lift(e))
        /\ Handle("unblock", b \o c) \/ Handle("allow", b \o c \o d)
    BY <1>2, LowersPieces, PeacefulPieces, PeacefulLowers DEF UnblockSelected, AllowSelected
  <2> HIDE DEF b, c, d
  <2>2. b \o c \in Lowers(e) /\ Has(b \o c, Lift(e))
    BY <2>1, LowersCat
  <2>3. b \o c \o d \in Lowers(e) /\ Has(b \o c \o d, Lift(e))
    BY <2>1, <2>2, LowersCat
  <2>4. QED
    BY <2>1, <2>2, <2>3, LowersBlock
<1>3. ASSUME NEW e \in Exes, RemoveSelected(e)
      PROVE  BlockInv'
  <2> DEFINE b == When(e \in cfg.blocked, DoExe("unblock", e, FALSE))
             c == DoExe("remove_app", e, FALSE)
             d == SetExeTagProg(e, NoTag)
  <2>1. b \in Lowers(e)
    BY LowersPieces, EmptyHandler DEF When
  <2>2. /\ c \in Lowers(e) /\ d \in Lowers(e) /\ Has(c, Lift(e))
        /\ Handle("remove", b \o c \o d)
    BY <1>3, LowersPieces, PeacefulPieces, PeacefulLowers DEF RemoveSelected
  <2> HIDE DEF b, c, d
  <2>3. b \o c \in Lowers(e) /\ Has(b \o c, Lift(e))
    BY <2>1, <2>2, LowersCat
  <2>4. b \o c \o d \in Lowers(e) /\ Has(b \o c \o d, Lift(e))
    BY <2>2, <2>3, LowersCat
  <2>5. QED
    BY <2>2, <2>4, LowersBlock
<1>4. ASSUME NEW e \in Exes, NEW tag \in Tags \cup {NoTag},
             DisallowSelected(e) \/ TagSelected(e, tag)
      PROVE  BlockInv'
  BY <1>4, PeacefulPieces, PeacefulBlock DEF DisallowSelected, TagSelected
<1>5. ASSUME NEW tag \in Tags, NEW block \in BOOLEAN, NEW allow \in BOOLEAN,
             EditTag(tag, block, allow) \/ RemoveTagRule(tag)
      PROVE  BlockInv'
  <2>1. /\ SetTagBlockedProg(tag, block) \in Peaceful
        /\ SetTagBlockedProg(tag, FALSE) \in Peaceful
        /\ SetTagAllowedProg(tag, allow /\ ~block) \in Peaceful
    BY PeacefulTag
  <2>2. Do("save") \o SetTagBlockedProg(tag, block)
          \o SetTagAllowedProg(tag, allow /\ ~block) \in Peaceful
    BY <1>0, <2>1, PeacefulCat
  <2>3. Do("save") \o SetTagBlockedProg(tag, FALSE) \in Peaceful
    BY <1>0, <2>1, PeacefulCat
  <2>4. QED
    BY <1>5, <2>2, <2>3, PeacefulBlock DEF EditTag, RemoveTagRule
<1>6. QED
  BY <1>1, <1>2, <1>3, <1>4, <1>5, ApplyRuleBlock, AnswerBlock DEF RuleEvent

LEMMA SwitchOnBlock ==
  ASSUME NEW on \in BOOLEAN
  PROVE  LET p == SetFirewallProg(on)
         IN  /\ p \in Program /\ Shape(p) /\ ~Has(p, Named(LockdownOps))
             /\ Has(p, Switch(TRUE)) <=> on
             /\ \A e : ~Has(p, Raise(e))
             /\ on => \A e : ~Has(p, Harm(e)) /\ Has(p, Mend(e))
             /\ ~on => \A e : Has(p, Lift(e))
<1> DEFINE x == I("set_firewall", {}, NoTag, on)
           r == IF on THEN Do("apply_blocks") ELSE Do("remove_all") \o Do("remove_all")
           q == Do("save") \o r
           y == I("save", {}, NoTag, FALSE)
           z == IF on THEN I("apply_blocks", {}, NoTag, FALSE)
                      ELSE I("remove_all", {}, NoTag, FALSE)
<1>1. /\ <<x>> \in Program /\ Do("save") \in Program /\ Do("apply_blocks") \in Program
      /\ Do("remove_all") \in Program /\ Do("remove_all") \o Do("remove_all") \in Program
  BY IType, DoType, CatType DEF OpNames, TagOps
<1>2. r \in Program /\ q \in Program
  BY <1>1, CatType
<1>3. \A S : Has(q, S) <=> y \in S \/ z \in S
  <2>1. \A S : Has(Do("save"), S) <=> y \in S
    BY HasOne
  <2>2. \A S : Has(r, S) <=> z \in S
    <3>1. CASE on
      BY <3>1, HasOne
    <3>2. CASE ~on
      <4>1. \A S : Has(Do("remove_all"), S) <=> I("remove_all", {}, NoTag, FALSE) \in S
        BY HasOne
      <4>2. QED
        BY <1>1, <3>2, <4>1, HasCat
    <3>3. QED
      BY <3>1, <3>2
  <2>3. QED
    BY <1>1, <1>2, <2>1, <2>2, HasCat
<1>4. SetFirewallProg(on) = <<x>> \o q
  <2>1. SetFirewallProg(on) = <<x>> \o Do("save") \o r
    BY DEF SetFirewallProg
  <2> HIDE DEF x, r
  <2>2. \A s, t, u \in Program : (s \o t) \o u = s \o (t \o u)
    BY DEF Program
  <2>3. QED
    BY <1>1, <1>2, <2>1, <2>2
<1>5. /\ x \in Instr /\ x.op = "set_firewall" /\ x.on = on
      /\ y \in Instr /\ y.op = "save" /\ z \in Instr
      /\ z.op = IF on THEN "apply_blocks" ELSE "remove_all"
  BY DEF I, Instr, OpNames, TagOps
<1>6. \A S : Has(SetFirewallProg(on), S) <=> x \in S \/ y \in S \/ z \in S
  <2>1. \A S : Has(<<x>>, S) <=> x \in S
    BY HasOne
  <2> HIDE DEF x, y, z, q, r
  <2>2. \A S : Has(<<x>> \o q, S) <=> Has(<<x>>, S) \/ Has(q, S)
    BY <1>1, <1>2, HasCat
  <2>3. QED
    BY <1>3, <1>4, <2>1, <2>2
<1>7. Tail(SetFirewallProg(on)) = q
  <2> HIDE DEF x, q
  <2>1. Tail(<<x>> \o q) = q
    BY <1>1, <1>2 DEF Program
  <2>2. QED
    BY <1>4, <2>1
<1>8. SetFirewallProg(on) \in Program
  BY SwitchProgsType
<1> HIDE DEF x, y, z, q, r
<1>9. ~Has(q, Named({"set_firewall"}))
  BY <1>3, <1>5 DEF Named
<1>10. Has(SetFirewallProg(on), Switch(TRUE)) <=> on
  BY <1>5, <1>6 DEF Switch
<1>11. /\ \A e : ~Has(SetFirewallProg(on), Raise(e))
       /\ on => \A e : ~Has(SetFirewallProg(on), Harm(e)) /\ Has(SetFirewallProg(on), Mend(e))
       /\ ~on => \A e : Has(SetFirewallProg(on), Lift(e))
  BY <1>5, <1>6 DEF Raise, Harm, Mend, Lift, Switch
<1>12. ~Has(SetFirewallProg(on), Named(LockdownOps))
  BY <1>5, <1>6 DEF Named, LockdownOps
<1>13. Has(SetFirewallProg(on), Switch(FALSE)) =>
         /\ ~Has(SetFirewallProg(on), Named(Adding))
         /\ Has(SetFirewallProg(on), Named({"remove_all"}))
  BY <1>5, <1>6 DEF Switch, Named, Adding
<1>14. Shape(SetFirewallProg(on))
  BY <1>7, <1>9, <1>11, <1>13 DEF Shape
<1>15. QED
  BY <1>8, <1>10, <1>11, <1>12, <1>14

LEMMA SwitchEventBlock ==
  ASSUME TypeOK, NoSwitchInLockdown, BlockInv, SwitchEvent
  PROVE  BlockInv'
<1>1. CASE ToggleFirewall
  <2> DEFINE p == SetFirewallProg(~cfg.fw)
  <2>1. Handle("firewall", p) /\ (~cfg.fw) \in BOOLEAN
    BY <1>1 DEF ToggleFirewall
  <2>2. /\ p \in Program /\ Shape(p) /\ ~Has(p, Named(LockdownOps))
        /\ Has(p, Switch(TRUE)) <=> ~cfg.fw
        /\ \A e : ~Has(p, Raise(e))
        /\ ~cfg.fw => \A e : ~Has(p, Harm(e)) /\ Has(p, Mend(e))
        /\ cfg.fw => \A e : Has(p, Lift(e))
    BY <2>1, SwitchOnBlock
  <2> HIDE DEF p
  <2>3. QED
    BY <2>1, <2>2, HandleBlock DEF Handle
<1>2. CASE ToggleLockdown
  BY <1>2 DEF ToggleLockdown, Handle, NoSwitchInLockdown
<1>3. CASE Close
  <2>1. /\ Do("save") \in Peaceful /\ Do("destroy") \in Peaceful /\ Do("exit") \in Peaceful
        /\ Do("halt") \in Peaceful /\ Do("join") \in Peaceful /\ Do("clear") \in Peaceful
    BY PeacefulDo DEF PeacefulOps, LockdownOps, OpNames, TagOps
  <2>2. Stop \in Peaceful
    BY <2>1, PeacefulCat DEF Stop
  <2>3. Do("save") \o Stop \o Do("destroy") \o Stop \o Do("exit") \in Peaceful
    BY <2>1, <2>2, PeacefulCat
  <2>4. QED
    BY <1>3, <2>3, PeacefulBlock DEF Close
<1>4. QED
  BY <1>1, <1>2, <1>3 DEF SwitchEvent

-----------------------------------------------------------------------------
(* The start, and the steps that do not concern the rules.                 *)

(* The program of the start.                                               *)
LEMMA BootHas ==
  ASSUME TypeOK, Boot
  PROVE  /\ prog'["gui"] \in Program /\ prog'["mon"] = prog["mon"]
         /\ \A S : Has(prog'["gui"], S) <=>
              \/ I(IF disk.fw THEN "apply_blocks" ELSE "remove_all", {}, NoTag, FALSE) \in S
              \/ \E op \in {"save", "start_monitor", "show_ui"} : I(op, {}, NoTag, FALSE) \in S
<1> DEFINE first == IF disk.fw THEN Do("apply_blocks")
                               ELSE Do("remove_all") \o Do("remove_all")
           u == first \o Do("save")
           v == u \o Do("start_monitor")
           p == v \o Do("show_ui")
           a == I("apply_blocks", {}, NoTag, FALSE)
           r == I("remove_all", {}, NoTag, FALSE)
<1>1. /\ Do("apply_blocks") \in Program /\ Do("remove_all") \in Program
      /\ Do("save") \in Program /\ Do("start_monitor") \in Program
      /\ Do("show_ui") \in Program
  BY DoType DEF OpNames, TagOps
<1>2. \A op, S : Has(Do(op), S) <=> I(op, {}, NoTag, FALSE) \in S
  BY HasOne
<1>3. first \in Program /\ \A S : Has(first, S) <=> (IF disk.fw THEN a ELSE r) \in S
  BY <1>1, <1>2, CatType, HasCat
<1> HIDE DEF first
<1>4. /\ u \in Program
      /\ \A S : Has(u, S) <=> Has(first, S) \/ I("save", {}, NoTag, FALSE) \in S
  BY <1>1, <1>2, <1>3, CatType, HasCat
<1> HIDE DEF u
<1>5. /\ v \in Program
      /\ \A S : Has(v, S) <=> Has(u, S) \/ I("start_monitor", {}, NoTag, FALSE) \in S
  BY <1>1, <1>2, <1>4, CatType, HasCat
<1> HIDE DEF v
<1>6. /\ p \in Program
      /\ \A S : Has(p, S) <=> Has(v, S) \/ I("show_ui", {}, NoTag, FALSE) \in S
  BY <1>1, <1>2, <1>5, CatType, HasCat
<1>7. prog'["gui"] = p /\ prog'["mon"] = prog["mon"]
  BY TypeSplit DEF Boot, Threads, p, v, u, first
<1> HIDE DEF p
<1>8. QED
  BY <1>3, <1>4, <1>5, <1>6, <1>7

LEMMA BootBlock ==
  ASSUME TypeOK, BlockInv, Boot
  PROVE  BlockInv'
<1> DEFINE a == I("apply_blocks", {}, NoTag, FALSE)
           r == I("remove_all", {}, NoTag, FALSE)
           ops == {"save", "start_monitor", "show_ui"}
<1>1. PICK p \in Program : prog'["gui"] = p
  BY BootHas
<1>2. \A S : Has(p, S) <=> \/ (IF disk.fw THEN a ELSE r) \in S
                           \/ \E op \in ops : I(op, {}, NoTag, FALSE) \in S
  BY <1>1, BootHas
<1>3. prog'["mon"] = prog["mon"]
  BY BootHas
<1>4. /\ a \in Instr /\ a.op = "apply_blocks" /\ r \in Instr /\ r.op = "remove_all"
      /\ \A op \in ops : I(op, {}, NoTag, FALSE).op = op
  BY DEF I, Instr, OpNames, TagOps
<1> HIDE DEF a, r
<1>5. \A op \in ops : \A e : /\ I(op, {}, NoTag, FALSE) \notin Raise(e)
                             /\ I(op, {}, NoTag, FALSE) \notin Harm(e)
                             /\ I(op, {}, NoTag, FALSE) \notin Named(Adding)
                             /\ I(op, {}, NoTag, FALSE) \notin Named({"set_firewall"})
                             /\ I(op, {}, NoTag, FALSE) \notin Named(LockdownOps)
  BY <1>4 DEF Raise, Harm, Named, Adding, LockdownOps
<1>6. \A e : /\ a \notin Raise(e) /\ r \notin Raise(e)
             /\ a \notin Harm(e) /\ r \in Harm(e) /\ a \in Mend(e)
             /\ r \notin Named(Adding)
             /\ a \notin Named({"set_firewall"}) /\ r \notin Named({"set_firewall"})
             /\ a \notin Named(LockdownOps) /\ r \notin Named(LockdownOps)
  BY <1>4 DEF Raise, Harm, Mend, Named, Adding, LockdownOps
<1>7. /\ \A e : ~Has(p, Raise(e))
      /\ ~Has(p, Named({"set_firewall"})) /\ ~Has(p, Named(LockdownOps))
      /\ disk.fw => \A e : ~Has(p, Harm(e)) /\ Has(p, Mend(e))
      /\ ~disk.fw => ~Has(p, Named(Adding)) /\ \A e : Has(p, Harm(e))
  BY <1>2, <1>5, <1>6
<1>8. Shape(p) /\ ~Has(p, Switch(TRUE))
  BY <1>1, <1>7, UnswitchedShape
<1>9. /\ cfg'.fw = disk.fw /\ cfg'.lock = disk.lock
      /\ UNCHANGED <<disk, osRules, ldBlocked>>
  BY DEF Boot, TypeOK, Settings, ldVars
<1>10. Quiet'
  BY <1>1, <1>3, <1>7, <1>9 DEF Boot, BlockInv, Quiet, Sweeping, Idle, Ahead
<1>11. Standing' /\ Cleaning'
  BY <1>1, <1>7, <1>8, <1>9 DEF Standing, Cleaning, Wanted, Ahead
<1>12. QED
  BY <1>1, <1>8, <1>10, <1>11 DEF BlockInv

LEMMA ElsewhereBlock ==
  ASSUME BlockInv, UNCHANGED <<cfg, disk, osRules, ldBlocked, app, prog>>
  PROVE  BlockInv'
BY DEF BlockInv, Quiet, Sweeping, Idle, Standing, Cleaning, Wanted, Ahead

LEMMA TickBlock ==
  ASSUME TypeOK, BlockInv, PromptInv, Tick
  PROVE  BlockInv'
<1>1. prog \in [Threads -> Program] /\ UNCHANGED <<cfg, disk, osRules, ldBlocked, app>>
  BY TypeSplit DEF Tick, lifeVars
<1>2. app = "up"
  BY DEF Tick, PromptInv, LifeInv
<1>3. CASE cfg.lock /\ cfg.fw
  <2>1. PICK es \in SUBSET Exes : prog' = [prog EXCEPT !["mon"] = Loop("scan", Busy \cup es)]
    BY <1>3 DEF Tick
  <2>2. OnlyOps(Loop("scan", Busy \cup es), SweepOps)
    BY OnlyOpsProgs DEF SweepOps, OpNames
  <2>3. prog'["gui"] = prog["gui"] /\ OnlyOps(prog'["mon"], SweepOps)
    BY <1>1, <2>1, <2>2 DEF Threads
  <2>4. QED
    BY <1>1, <1>2, <1>3, <2>3, SweepBlock DEF Sweeping
<1>4. CASE ~(cfg.lock /\ cfg.fw)
  <2>1. prog' = [prog EXCEPT !["mon"] = <<>>] /\ prog["mon"] = <<>>
    BY <1>4 DEF Tick, BlockInv, Quiet, Sweeping, Idle, When
  <2>2. prog' = prog
    BY <1>1, <2>1 DEF Threads
  <2>3. QED
    BY <1>1, <2>2, ElsewhereBlock
<1>5. QED
  BY <1>3, <1>4

LEMMA InitBlock == NoSwitchInLockdown /\ Init => BlockInv
<1>1. ASSUME NoSwitchInLockdown, Init
      PROVE  BlockInv
  <2>1. /\ prog["gui"] = <<>> /\ prog["mon"] = <<>> /\ ldBlocked = {}
        /\ (disk.lock \/ cfg.lock => "firewall" \notin Ops) /\ app # "up"
    BY <1>1 DEF Init, NoSwitchInLockdown, Threads
  <2>2. \A S : ~Has(<<>>, S)
    BY HasOne
  <2>3. \A ops : OnlyOps(<<>>, ops)
    BY DEF OnlyOps
  <2>4. Quiet /\ Shape(prog["gui"])
    BY <2>1, <2>2, <2>3 DEF Quiet, Shape, Idle, Ahead
  <2>5. QED
    BY <2>1, <2>4 DEF BlockInv
<1>2. QED
  BY <1>1

LEMMA NextBlockInv ==
  NoSwitchInLockdown /\ TypeOK /\ PromptInv /\ BlockInv /\ [Next]_vars => BlockInv'
<1> SUFFICES ASSUME NoSwitchInLockdown, TypeOK, PromptInv, BlockInv, [Next]_vars
             PROVE  BlockInv'
  OBVIOUS
<1>1. CASE MonitorEnds
  BY <1>1, ElsewhereBlock DEF MonitorEnds, ldVars
<1>2. CASE ShowPrompt
  BY <1>2, ElsewhereBlock DEF ShowPrompt, ldVars, lifeVars
<1>3. CASE Crash
  BY <1>3, MemoryLostBlock DEF Crash
<1>4. CASE \E e \in Exes : Expire(e)
  BY <1>4, ElsewhereBlock DEF Expire, lifeVars
<1>5. CASE UNCHANGED vars
  BY <1>5, ElsewhereBlock DEF vars, ldVars, lifeVars
<1>6. QED
  BY <1>1, <1>2, <1>3, <1>4, <1>5, StepBlock, TickBlock, RuleEventBlock,
     SwitchEventBlock, BootBlock DEF Next

-----------------------------------------------------------------------------
(* A window is there only while the process is up.                         *)
LEMMA RestHolds ==
  ASSUME PromptInv, BlockInv
  PROVE  UserBlockStands /\ OffMeansOff
<1>1. ASSUME AtRest
      PROVE  /\ cfg.fw => cfg.blocked \cap Valid \subseteq osRules
             /\ ~cfg.fw => osRules = {}
  <2>1. app = "up" /\ Idle("gui")
    BY <1>1 DEF AtRest, Shown, PromptInv, LifeInv
  <2>2. QED
    BY <2>1, RestBlock
<1>2. QED
  BY <1>1 DEF UserBlockStands, OffMeansOff

(* As long as no switch ends a Lockdown, an executable on the block list   *)
(* is blocked by Windows whenever the firewall switch is on and the GUI    *)
(* thread waits for the user: whatever handlers and answers came before,   *)
(* whatever the sweep does meanwhile, whichever kill or restart.           *)
THEOREM BlockStands ==
  ASSUME NoSwitchInLockdown
  PROVE  Spec => []UserBlockStands
<1>1. Init => BlockInv
  BY InitBlock
<1>2. TypeOK /\ PromptInv /\ BlockInv /\ [Next]_vars => BlockInv'
  BY NextBlockInv
<1>3. PromptInv /\ BlockInv => UserBlockStands
  BY RestHolds
<1>4. QED
  BY <1>1, <1>2, <1>3, TypeCorrect, InitPrompt, NextPrompt, PTL DEF Spec

(* As long as no switch ends a Lockdown, the firewall switch leaves no     *)
(* rule behind when it is off, also after a start that found the rules of  *)
(* a killed process.                                                       *)
THEOREM OffLeavesNothing ==
  ASSUME NoSwitchInLockdown
  PROVE  Spec => []OffMeansOff
<1>1. Init => BlockInv
  BY InitBlock
<1>2. TypeOK /\ PromptInv /\ BlockInv /\ [Next]_vars => BlockInv'
  BY NextBlockInv
<1>3. PromptInv /\ BlockInv => OffMeansOff
  BY RestHolds
<1>4. QED
  BY <1>1, <1>2, <1>3, TypeCorrect, InitPrompt, NextPrompt, PTL DEF Spec

=============================================================================
