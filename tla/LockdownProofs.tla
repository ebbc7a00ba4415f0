--------------------------- MODULE LockdownProofs ---------------------------
(* Theorems about Lockdown, for every set of executables and tags, every   *)
(* initial settings file and every bound.                                  *)
EXTENDS Lockdown, TLAPS

-----------------------------------------------------------------------------
(* Typing of programs.                                                     *)

Program == Seq(Instr)

LEMMA CatType ==
  ASSUME NEW s \in Program, NEW u \in Program
  PROVE  s \o u \in Program
BY DEF Program

LEMMA IType ==
  ASSUME NEW op \in OpNames, NEW es \in SUBSET Exes,
         NEW tag \in Tags \cup {NoTag}, NEW on \in BOOLEAN,
         op \in TagOps => tag \in Tags
  PROVE  <<I(op, es, tag, on)>> \in Program
BY DEF Program, Instr, I

LEMMA DoType ==
  ASSUME NEW op \in OpNames \ TagOps
  PROVE  Do(op) \in Program
BY IType DEF Do

LEMMA DoExeType ==
  ASSUME NEW op \in OpNames \ TagOps, NEW e \in Exes, NEW on \in BOOLEAN
  PROVE  DoExe(op, e, on) \in Program
BY IType DEF DoExe

LEMMA LoopType ==
  ASSUME NEW op \in OpNames \ TagOps, NEW es \in SUBSET Exes
  PROVE  Loop(op, es) \in Program
<1>1. <<>> \in Program
  BY DEF Program
<1>2. QED
  BY <1>1, IType DEF Loop

LEMMA WhenType ==
  ASSUME NEW p, NEW s \in Program
  PROVE  When(p, s) \in Program
<1>1. <<>> \in Program
  BY DEF Program
<1>2. QED
  BY <1>1 DEF When

(* The current instruction is one, and replacing it keeps the programs.    *)
LEMMA CurType ==
  ASSUME TypeOK, NEW t \in Threads, prog[t] # <<>>
  PROVE  /\ Cur(t) \in Instr
         /\ Tail(prog[t]) \in Program
<1>1. prog[t] \in Seq(Instr)
  BY DEF TypeOK
<1>2. QED
  BY <1>1 DEF Cur, Program

LEMMA ThenType ==
  ASSUME TypeOK, NEW t \in Threads, prog[t] # <<>>, NEW s \in Program, Then(t, s)
  PROVE  prog' \in [Threads -> Program]
<1>1. prog \in [Threads -> Program]
  BY DEF TypeOK, Program
<1>2. s \o Tail(prog[t]) \in Program
  BY CurType, CatType
<1>3. QED
  BY <1>1, <1>2 DEF Then

LEMMA AdvanceType ==
  ASSUME TypeOK, NEW t \in Threads, prog[t] # <<>>, Advance(t)
  PROVE  prog' \in [Threads -> Program]
<1>1. <<>> \in Program
  BY DEF Program
<1>2. QED
  BY <1>1, ThenType DEF Advance

LEMMA ThenRestType ==
  ASSUME TypeOK, NEW t \in Threads, prog[t] # <<>>, NEW e \in Exes,
         Cur(t).op \notin TagOps, NEW s \in Program, ThenRest(t, e, s)
  PROVE  prog' \in [Threads -> Program]
<1>1. /\ Cur(t).op \in OpNames \ TagOps
      /\ Cur(t).es \ {e} \in SUBSET Exes
  BY CurType DEF Instr
<1>2. s \o Loop(Cur(t).op, Cur(t).es \ {e}) \in Program
  BY <1>1, LoopType, CatType
<1>3. QED
  BY <1>2, ThenType DEF ThenRest, Cur

-----------------------------------------------------------------------------
(* TypeOK without the programs: what an instruction assigns elsewhere.     *)

RestOK ==
  /\ cfg \in Settings /\ disk \in Settings
  /\ osRules \in SUBSET Valid
  /\ ldBlocked \in SUBSET Exes /\ pending \in SUBSET Exes /\ decided \in SUBSET Exes
  /\ temp \in [Exes -> {"none", "live", "expired"}]
  /\ queue \in Seq(Exes) /\ dialogs \in SUBSET Exes
  /\ app \in {"new", "up", "quit", "crashed"}
  /\ ui \in {"none", "shown", "gone"}
  /\ running \in BOOLEAN /\ alive \in BOOLEAN
  /\ left \in [ops: Nat, crashes: Nat, boots: Nat]

LEMMA TypeSplit ==
  /\ TypeOK <=> (RestOK /\ prog \in [Threads -> Program])
  /\ TypeOK' <=> (RestOK' /\ prog' \in [Threads -> Program])
BY DEF TypeOK, RestOK, Program

LEMMA NoTempType == NoTemp \in [Exes -> {"none", "live", "expired"}]
BY DEF NoTemp

LEMMA RuleStepType ==
  ASSUME TypeOK, NEW t \in Threads, RuleStep(t)
  PROVE  TypeOK'
<1> USE TypeSplit
<1>1. CASE SetBlocked(t)
  <2>1. prog' \in [Threads -> Program]
    BY <1>1, AdvanceType DEF SetBlocked, At
  <2>2. Cur(t).es \in SUBSET Exes
    BY <1>1, CurType DEF SetBlocked, At, Instr
  <2>3. QED
    BY <1>1, <2>1, <2>2 DEF SetBlocked, RestOK, Settings, uiVars, lifeVars
<1>2. CASE SetAllowed(t)
  <2>1. Cur(t).es \in SUBSET Exes
    BY <1>2, CurType DEF SetAllowed, At, Instr
  <2>2. When(Cur(t).on, Loop("lockdown_unblock", Cur(t).es)) \in Program
    BY <2>1, LoopType, WhenType DEF OpNames, TagOps
  <2>3. prog' \in [Threads -> Program]
    BY <1>2, <2>2, ThenType DEF SetAllowed, At
  <2>4. QED
    BY <1>2, <2>1, <2>3 DEF SetAllowed, RestOK, Settings, ldVars, uiVars, lifeVars
<1>3. CASE AllowSettled(t)
  <2>1. prog' \in [Threads -> Program]
    BY <1>3, AdvanceType DEF AllowSettled, At
  <2>2. QED
    BY <1>3, <2>1 DEF AllowSettled, RestOK, uiVars, lifeVars
<1>4. CASE LockdownUnblock(t)
  <2>1. Cur(t).es \in SUBSET Exes
    BY <1>4, CurType DEF LockdownUnblock, At, Instr
  <2>2. PICK e \in Cur(t).es :
          /\ decided' = decided \ {e}
          /\ ldBlocked' = ldBlocked \ {e}
          /\ ThenRest(t, e, When(e \in ldBlocked \ cfg.blocked, DoExe("unblock", e, FALSE)))
    BY <1>4 DEF LockdownUnblock
  <2>3. When(e \in ldBlocked \ cfg.blocked, DoExe("unblock", e, FALSE)) \in Program
    BY <2>1, DoExeType, WhenType DEF OpNames, TagOps
  <2>4. prog' \in [Threads -> Program]
    BY <1>4, <2>1, <2>2, <2>3, ThenRestType DEF LockdownUnblock, At, Cur, TagOps
  <2>5. QED
    BY <1>4, <2>2, <2>4 DEF LockdownUnblock, RestOK, uiVars, lifeVars
<1>5. CASE SetExeTag(t)
  <2>1. prog' \in [Threads -> Program]
    BY <1>5, AdvanceType DEF SetExeTag, At
  <2>2. Cur(t).tag \in Tags \cup {NoTag}
    BY <1>5, CurType DEF SetExeTag, At, Instr
  <2>3. QED
    BY <1>5, <2>1, <2>2 DEF SetExeTag, RestOK, Settings, ldVars, uiVars, lifeVars
<1>6. CASE SetTagBlocked(t)
  <2> DEFINE op == IF Cur(t).on THEN "block_if_on" ELSE "unblock_unlisted"
  <2>1. op \in OpNames \ TagOps
    BY DEF OpNames, TagOps
  <2>2. Loop(op, Members(cfg, Cur(t).tag)) \in Program
    BY <2>1, LoopType DEF Members
  <2>3. prog' \in [Threads -> Program]
    BY <1>6, <2>2, ThenType DEF SetTagBlocked, At
  <2>4. Cur(t).tag \in Tags
    BY <1>6, CurType DEF SetTagBlocked, At, Instr, TagOps, Cur
  <2>5. QED
    BY <1>6, <2>3, <2>4 DEF SetTagBlocked, RestOK, Settings, ldVars, uiVars, lifeVars
<1>7. CASE SetTagAllowed(t)
  <2>1. Loop("lockdown_unblock", Members(cfg, Cur(t).tag)) \in Program
    BY LoopType DEF Members, OpNames, TagOps
  <2>2. prog' \in [Threads -> Program]
    BY <1>7, <2>1, WhenType, ThenType DEF SetTagAllowed, At
  <2>3. Cur(t).tag \in Tags
    BY <1>7, CurType DEF SetTagAllowed, At, Instr, TagOps, Cur
  <2>4. QED
    BY <1>7, <2>2, <2>3 DEF SetTagAllowed, RestOK, Settings, uiVars, lifeVars
<1>8. CASE RemoveApp(t)
  <2>1. Cur(t).es \in SUBSET Exes
    BY <1>8, CurType DEF RemoveApp, At, Instr
  <2>2. Loop("unblock", Cur(t).es \cap cfg.blocked) \in Program
    BY <2>1, LoopType DEF OpNames, TagOps
  <2>3. prog' \in [Threads -> Program]
    BY <1>8, <2>2, ThenType DEF RemoveApp, At
  <2>4. QED
    BY <1>8, <2>1, <2>3 DEF RemoveApp, RestOK, Settings, ldVars, uiVars, lifeVars
<1>9. CASE TempAllow(t)
  <2>1. prog' \in [Threads -> Program]
    BY <1>9, AdvanceType DEF TempAllow, At
  <2>2. QED
    BY <1>9, <2>1 DEF TempAllow, RestOK, uiVars, lifeVars
<1>10. CASE Answered(t)
  <2>1. prog' \in [Threads -> Program]
    BY <1>10, AdvanceType DEF Answered, At
  <2>2. QED
    BY <1>10, <2>1 DEF Answered, RestOK, uiVars, lifeVars
<1>11. CASE Finish(t)
  <2>1. prog' \in [Threads -> Program]
    BY <1>11, AdvanceType DEF Finish, At
  <2>2. QED
    BY <1>11, <2>1 DEF Finish, RestOK, ldVars, lifeVars
<1>12. QED
  BY <1>1, <1>2, <1>3, <1>4, <1>5, <1>6, <1>7, <1>8, <1>9, <1>10, <1>11 DEF RuleStep

LEMMA CallStepType ==
  ASSUME TypeOK, NEW t \in Threads, CallStep(t)
  PROVE  TypeOK'
<1> USE TypeSplit
<1>1. CASE Save(t)
  <2>1. prog' \in [Threads -> Program]
    BY <1>1, AdvanceType DEF Save, At
  <2>2. QED
    BY <1>1, <2>1 DEF Save, RestOK, ldVars, uiVars, lifeVars
<1>2. CASE BlockApp(t)
  <2>1. Cur(t).es \in SUBSET Exes /\ Cur(t).op \notin TagOps
    BY <1>2, CurType DEF BlockApp, At, Instr, Cur, TagOps
  <2>2. PICK e \in Cur(t).es : osRules' = osRules \cup ({e} \cap Valid) /\ ThenRest(t, e, <<>>)
    BY <1>2 DEF BlockApp
  <2>3. <<>> \in Program
    BY <2>1, DoExeType, WhenType DEF OpNames, TagOps, Program
  <2>4. prog' \in [Threads -> Program]
    BY <1>2, <2>1, <2>2, <2>3, ThenRestType DEF BlockApp, At
  <2>5. QED
    BY <1>2, <2>2, <2>4 DEF BlockApp, RestOK, ldVars, uiVars, lifeVars
<1>3. CASE UnblockApp(t)
  <2>1. Cur(t).es \in SUBSET Exes /\ Cur(t).op \notin TagOps
    BY <1>3, CurType DEF UnblockApp, At, Instr, Cur, TagOps
  <2>2. PICK e \in Cur(t).es : osRules' = osRules \ {e} /\ ThenRest(t, e, <<>>)
    BY <1>3 DEF UnblockApp
  <2>3. <<>> \in Program
    BY <2>1, DoExeType, WhenType DEF OpNames, TagOps, Program
  <2>4. prog' \in [Threads -> Program]
    BY <1>3, <2>1, <2>2, <2>3, ThenRestType DEF UnblockApp, At
  <2>5. QED
    BY <1>3, <2>2, <2>4 DEF UnblockApp, RestOK, ldVars, uiVars, lifeVars
<1>4. CASE BlockIfOn(t)
  <2>1. Cur(t).es \in SUBSET Exes /\ Cur(t).op \notin TagOps
    BY <1>4, CurType DEF BlockIfOn, At, Instr, Cur, TagOps
  <2>2. PICK e \in Cur(t).es : 
          ThenRest(t, e, When(cfg.fw, DoExe("block", e, FALSE)))
    BY <1>4 DEF BlockIfOn
  <2>3. When(cfg.fw, DoExe("block", e, FALSE)) \in Program
    BY <2>1, DoExeType, WhenType DEF OpNames, TagOps, Program
  <2>4. prog' \in [Threads -> Program]
    BY <1>4, <2>1, <2>2, <2>3, ThenRestType DEF BlockIfOn, At
  <2>5. QED
    BY <1>4, <2>2, <2>4 DEF BlockIfOn, RestOK, ldVars, uiVars, lifeVars
<1>5. CASE UnblockUnlisted(t)
  <2>1. Cur(t).es \in SUBSET Exes /\ Cur(t).op \notin TagOps
    BY <1>5, CurType DEF UnblockUnlisted, At, Instr, Cur, TagOps
  <2>2. PICK e \in Cur(t).es : 
          ThenRest(t, e, When(e \notin cfg.blocked, DoExe("unblock", e, FALSE)))
    BY <1>5 DEF UnblockUnlisted
  <2>3. When(e \notin cfg.blocked, DoExe("unblock", e, FALSE)) \in Program
    BY <2>1, DoExeType, WhenType DEF OpNames, TagOps, Program
  <2>4. prog' \in [Threads -> Program]
    BY <1>5, <2>1, <2>2, <2>3, ThenRestType DEF UnblockUnlisted, At
  <2>5. QED
    BY <1>5, <2>2, <2>4 DEF UnblockUnlisted, RestOK, ldVars, uiVars, lifeVars
<1>6. QED
  BY <1>1, <1>2, <1>3, <1>4, <1>5 DEF CallStep

LEMMA SwitchStepType ==
  ASSUME TypeOK, NEW t \in Threads, SwitchStep(t)
  PROVE  TypeOK'
<1> USE TypeSplit
<1>0. prog[t] # <<>> => Cur(t).on \in BOOLEAN
  BY CurType DEF Instr
<1>1. CASE SetFirewallEnabled(t)
  <2>1. prog' \in [Threads -> Program]
    BY <1>1, AdvanceType DEF SetFirewallEnabled, At
  <2>2. QED
    BY <1>0, <1>1, <2>1 DEF SetFirewallEnabled, At, RestOK, Settings, ldVars, uiVars, lifeVars
<1>2. CASE ApplyBlocks(t)
  <2>1. Loop("block", UserBlocked(cfg)) \in Program
    BY LoopType DEF UserBlocked, TagBlocked, TypeOK, Settings, OpNames, TagOps
  <2>2. prog' \in [Threads -> Program]
    BY <1>2, <2>1, ThenType DEF ApplyBlocks, At
  <2>3. QED
    BY <1>2, <2>2 DEF ApplyBlocks, RestOK, ldVars, uiVars, lifeVars
<1>3. CASE RemoveAllRules(t)
  <2>1. Loop("unblock", osRules) \in Program
    BY SetsAssumption, LoopType DEF TypeOK, OpNames, TagOps
  <2>2. prog' \in [Threads -> Program]
    BY <1>3, <2>1, ThenType DEF RemoveAllRules, At
  <2>3. QED
    BY <1>3, <2>2 DEF RemoveAllRules, RestOK, ldVars, uiVars, lifeVars
<1>4. CASE SetLockdown(t)
  <2>1. prog' \in [Threads -> Program]
    BY <1>4, AdvanceType DEF SetLockdown, At
  <2>2. QED
    BY <1>0, <1>4, <2>1 DEF SetLockdown, At, RestOK, Settings, ldVars, uiVars, lifeVars
<1>5. CASE ClearLockdownBlocks(t)
  <2>1. Loop("unblock_unlisted", ldBlocked) \o Do("forget") \in Program
    BY LoopType, DoType, CatType DEF TypeOK, OpNames, TagOps
  <2>2. prog' \in [Threads -> Program]
    BY <1>5, <2>1, ThenType DEF ClearLockdownBlocks, At
  <2>3. QED
    BY <1>5, <2>2 DEF ClearLockdownBlocks, RestOK, ldVars, uiVars, lifeVars
<1>6. CASE ForgetLockdown(t)
  <2>1. prog' \in [Threads -> Program]
    BY <1>6, AdvanceType DEF ForgetLockdown, At
  <2>2. QED
    BY <1>6, <2>1, NoTempType DEF ForgetLockdown, RestOK, uiVars, lifeVars
<1>7. QED
  BY <1>1, <1>2, <1>3, <1>4, <1>5, <1>6 DEF SwitchStep

LEMMA VerdictType ==
  ASSUME NEW e \in Exes
  PROVE  Verdict(e) \in Program
<1>1. /\ DoExe("mark", e, FALSE) \in Program
      /\ DoExe("block", e, FALSE) \in Program
      /\ DoExe("note", e, FALSE) \in Program
      /\ DoExe("ask", e, FALSE) \in Program
  BY DoExeType DEF OpNames, TagOps
<1>2. When(temp[e] = "none", DoExe("mark", e, FALSE)) \in Program
  BY <1>1, WhenType
<1>3. DoExe("block", e, FALSE) \o DoExe("note", e, FALSE) \o DoExe("ask", e, FALSE) \in Program
  BY <1>1, CatType
<1>4. QED
  BY <1>1, <1>2, <1>3 DEF Verdict

LEMMA SweepStepType ==
  ASSUME TypeOK, NEW t \in Threads, SweepStep(t)
  PROVE  TypeOK'
<1> USE TypeSplit
<1>1. CASE Scan(t)
  <2>1. Cur(t).es \in SUBSET Exes /\ Cur(t).op \notin TagOps
    BY <1>1, CurType DEF Scan, At, Instr, Cur, TagOps
  <2>2. PICK e \in Cur(t).es : ThenRest(t, e, When(e \notin decided, Verdict(e)))
    BY <1>1 DEF Scan
  <2>3. When(e \notin decided, Verdict(e)) \in Program
    BY <2>1, VerdictType, WhenType
  <2>4. prog' \in [Threads -> Program]
    BY <1>1, <2>1, <2>2, <2>3, ThenRestType DEF Scan, At
  <2>5. QED
    BY <1>1, <2>2, <2>4 DEF Scan, RestOK, ldVars, uiVars, lifeVars
<1>2. CASE Mark(t)
  <2>1. prog' \in [Threads -> Program]
    BY <1>2, AdvanceType DEF Mark, At
  <2>2. Cur(t).es \in SUBSET Exes
    BY <1>2, CurType DEF Mark, At, Instr
  <2>3. QED
    BY <1>2, <2>1, <2>2 DEF Mark, RestOK, uiVars, lifeVars
<1>3. CASE Note(t)
  <2>1. prog' \in [Threads -> Program]
    BY <1>3, AdvanceType DEF Note, At
  <2>2. Cur(t).es \in SUBSET Exes
    BY <1>3, CurType DEF Note, At, Instr
  <2>3. QED
    BY <1>3, <2>1, <2>2 DEF Note, RestOK, uiVars, lifeVars
<1>4. CASE Ask(t)
  <2>1. prog' \in [Threads -> Program]
    BY <1>4, AdvanceType DEF Ask, At
  <2>2. Cur(t).es \in SUBSET Exes
    BY <1>4, CurType DEF Ask, At, Instr
  <2>3. pending' \in SUBSET Exes /\ queue' \in Seq(Exes)
    <3>1. PICK e \in Cur(t).es :
            IF e \notin pending /\ ui # "none"
            THEN /\ pending' = pending \cup {e}
                 /\ queue' = IF ui = "shown" THEN Append(queue, e) ELSE queue
            ELSE UNCHANGED <<pending, queue>>
      BY <1>4 DEF Ask
    <3>2. e \in Exes /\ queue \in Seq(Exes) /\ pending \in SUBSET Exes
      BY <2>2, <3>1 DEF RestOK
    <3>3. Append(queue, e) \in Seq(Exes)
      BY <3>2
    <3>4. QED
      BY <3>1, <3>2, <3>3
  <2>4. QED
    BY <1>4, <2>1, <2>3 DEF Ask, RestOK, lifeVars
<1>5. QED
  BY <1>1, <1>2, <1>3, <1>4 DEF SweepStep

LEMMA NoPrograms == [t \in Threads |-> <<>>] \in [Threads -> Program]
BY DEF Program

LEMMA MemoryLostType ==
  ASSUME TypeOK, MemoryLost, UNCHANGED <<disk, osRules>>,
         app' \in {"quit", "crashed"}, left' \in [ops: Nat, crashes: Nat, boots: Nat]
  PROVE  TypeOK'
<1>1. prog' \in [Threads -> Program]
  BY NoPrograms DEF MemoryLost
<1>2. temp' \in [Exes -> {"none", "live", "expired"}]
  BY NoTempType DEF MemoryLost
<1>3. queue' \in Seq(Exes)
  BY DEF MemoryLost
<1>4. RestOK'
  BY TypeSplit, <1>2, <1>3 DEF MemoryLost, RestOK
<1>5. QED
  BY TypeSplit, <1>1, <1>4

LEMMA LifeStepType ==
  ASSUME TypeOK, NEW t \in Threads, LifeStep(t)
  PROVE  TypeOK'
<1> USE TypeSplit
<1>1. CASE StartMonitor(t)
  <2>1. prog' \in [Threads -> Program]
    BY <1>1, AdvanceType DEF StartMonitor, At
  <2>2. QED
    BY <1>1, <2>1 DEF StartMonitor, RestOK, ldVars, uiVars, lifeVars
<1>2. CASE ShowUI(t)
  <2>1. prog' \in [Threads -> Program]
    BY <1>2, AdvanceType DEF ShowUI, At
  <2>2. QED
    BY <1>2, <2>1 DEF ShowUI, RestOK, ldVars, uiVars, lifeVars
<1>3. CASE Halt(t)
  <2>1. prog' \in [Threads -> Program]
    BY <1>3, AdvanceType DEF Halt, At
  <2>2. QED
    BY <1>3, <2>1 DEF Halt, RestOK, ldVars, uiVars, lifeVars
<1>4. CASE Join(t)
  <2>1. prog' \in [Threads -> Program]
    BY <1>4, AdvanceType DEF Join, At
  <2>2. QED
    BY <1>4, <2>1 DEF Join, RestOK, ldVars, uiVars, lifeVars
<1>5. CASE Destroy(t)
  <2>1. prog' \in [Threads -> Program]
    BY <1>5, AdvanceType DEF Destroy, At
  <2>2. QED
    BY <1>5, <2>1 DEF Destroy, RestOK, ldVars, uiVars, lifeVars
<1>6. CASE Exit(t)
  BY <1>6, MemoryLostType DEF Exit, RestOK
<1>7. QED
  BY <1>1, <1>2, <1>3, <1>4, <1>5, <1>6 DEF LifeStep

-----------------------------------------------------------------------------
(* The programs of the handlers.                                           *)

LEMMA HandleType ==
  ASSUME TypeOK, NEW kind, NEW s \in Program, Handle(kind, s)
  PROVE  TypeOK'
<1>1. prog' \in [Threads -> Program]
  BY TypeSplit DEF Handle, Threads
<1>2. left' \in [ops: Nat, crashes: Nat, boots: Nat]
  BY DEF Handle, TypeOK
<1>3. QED
  BY TypeSplit, <1>1, <1>2 DEF Handle, RestOK, ldVars, uiVars

LEMMA ExeProgsType ==
  ASSUME NEW e \in Exes, NEW on \in BOOLEAN, NEW tag \in Tags \cup {NoTag}
  PROVE  /\ SetBlockedProg(e, on) \in Program
         /\ SetAllowedProg(e, on) \in Program
         /\ SetExeTagProg(e, tag) \in Program
         /\ DoExe("block_if_on", e, FALSE) \in Program
         /\ DoExe("unblock", e, FALSE) \in Program
         /\ DoExe("remove_app", e, FALSE) \in Program
         /\ DoExe("finish", e, FALSE) \in Program
<1>1. /\ DoExe("set_blocked", e, on) \in Program
      /\ DoExe("set_allowed", e, on) \in Program
      /\ DoExe("allow_settled", e, FALSE) \in Program
      /\ DoExe("block_if_on", e, FALSE) \in Program
      /\ DoExe("unblock", e, FALSE) \in Program
      /\ DoExe("remove_app", e, FALSE) \in Program
      /\ DoExe("finish", e, FALSE) \in Program
  BY DoExeType DEF OpNames, TagOps
<1>2. <<I("set_exe_tag", {e}, tag, FALSE)>> \in Program
  BY IType DEF OpNames, TagOps
<1>3. Do("save") \in Program
  BY DoType DEF OpNames, TagOps
<1>4. QED
  BY <1>1, <1>2, <1>3, CatType DEF SetBlockedProg, SetAllowedProg, SetExeTagProg

LEMMA TagProgsType ==
  ASSUME NEW tag \in Tags, NEW on \in BOOLEAN
  PROVE  /\ SetTagBlockedProg(tag, on) \in Program
         /\ SetTagAllowedProg(tag, on) \in Program
<1>1. /\ <<I("set_tag_blocked", {}, tag, on)>> \in Program
      /\ <<I("set_tag_allowed", {}, tag, on)>> \in Program
  BY IType DEF OpNames, TagOps
<1>2. Do("save") \in Program
  BY DoType DEF OpNames, TagOps
<1>3. QED
  BY <1>1, <1>2, CatType DEF SetTagBlockedProg, SetTagAllowedProg

LEMMA SwitchProgsType ==
  ASSUME NEW on \in BOOLEAN
  PROVE  /\ SetFirewallProg(on) \in Program
         /\ <<I("set_lockdown", {}, NoTag, on)>> \in Program
         /\ Stop \in Program
<1>1. /\ <<I("set_firewall", {}, NoTag, on)>> \in Program
      /\ <<I("set_lockdown", {}, NoTag, on)>> \in Program
  BY IType DEF OpNames, TagOps
<1>2. /\ Do("save") \in Program /\ Do("apply_blocks") \in Program
      /\ Do("remove_all") \in Program /\ Do("halt") \in Program
      /\ Do("join") \in Program /\ Do("clear") \in Program
  BY DoType DEF OpNames, TagOps
<1>3. Do("remove_all") \o Do("remove_all") \in Program
  BY <1>2, CatType
<1>4. <<I("set_firewall", {}, NoTag, on)>> \o Do("save") \in Program
  BY <1>1, <1>2, CatType
<1>5. SetFirewallProg(on) \in Program
  BY <1>2, <1>3, <1>4, CatType DEF SetFirewallProg
<1>6. Stop \in Program
  BY <1>2, CatType DEF Stop
<1>7. QED
  BY <1>1, <1>5, <1>6

LEMMA AnswerProgType ==
  ASSUME NEW e \in Exes, NEW answer \in {"temp", "allow", "once", "block"}
  PROVE  AnswerProg(e, answer) \in Program
<1>1. /\ DoExe("temp_allow", e, FALSE) \in Program
      /\ DoExe("lockdown_unblock", e, FALSE) \in Program
      /\ DoExe("answered", e, FALSE) \in Program
      /\ DoExe("block_if_on", e, FALSE) \in Program
  BY DoExeType DEF OpNames, TagOps
<1>2. Do("save") \in Program
  BY DoType DEF OpNames, TagOps
<1>3. SetAllowedProg(e, TRUE) \in Program /\ SetBlockedProg(e, TRUE) \in Program
  BY ExeProgsType
<1>4. QED
  BY <1>1, <1>2, <1>3, CatType DEF AnswerProg

LEMMA RuleEventType ==
  ASSUME TypeOK, RuleEvent
  PROVE  TypeOK'
<1>0. Do("save") \in Program
  BY DoType DEF OpNames, TagOps
<1>1. ASSUME NEW e \in Exes,
             \/ BlockSelected(e) \/ UnblockSelected(e)
             \/ AllowSelected(e) \/ DisallowSelected(e) \/ RemoveSelected(e)
      PROVE  TypeOK'
  <2>1. SetBlockedProg(e, TRUE) \o DoExe("block_if_on", e, FALSE) \in Program
    BY ExeProgsType, CatType
  <2>2. SetBlockedProg(e, FALSE) \o DoExe("unblock", e, FALSE) \in Program
    BY ExeProgsType, CatType
  <2>3. SetBlockedProg(e, FALSE) \o DoExe("unblock", e, FALSE)
          \o SetAllowedProg(e, TRUE) \in Program
    BY <2>2, ExeProgsType, CatType
  <2>4. SetAllowedProg(e, FALSE) \in Program
    BY ExeProgsType
  <2>5. When(e \in cfg.blocked, DoExe("unblock", e, FALSE))
          \o DoExe("remove_app", e, FALSE) \o SetExeTagProg(e, NoTag) \in Program
    BY ExeProgsType, WhenType, CatType
  <2>6. QED
    BY <1>1, <2>1, <2>2, <2>3, <2>4, <2>5, HandleType
       DEF BlockSelected, UnblockSelected, AllowSelected, DisallowSelected, RemoveSelected
<1>2. ASSUME NEW e \in Exes, NEW tag \in Tags \cup {NoTag}, TagSelected(e, tag)
      PROVE  TypeOK'
  BY <1>2, ExeProgsType, HandleType DEF TagSelected
<1>3. ASSUME NEW e \in Exes, NEW tag \in Tags \cup {NoTag},
             NEW block \in BOOLEAN, NEW allow \in BOOLEAN, ApplyRule(e, block, allow, tag)
      PROVE  TypeOK'
  <2> DEFINE p1 == When(block /\ e \notin cfg.blocked, DoExe("block_if_on", e, FALSE))
             p2 == When(~block /\ e \in cfg.blocked, DoExe("unblock", e, FALSE))
  <2>1. p1 \in Program /\ p2 \in Program
    BY ExeProgsType, WhenType
  <2>2. SetAllowedProg(e, allow /\ ~block) \in Program
    BY ExeProgsType
  <2>3. SetBlockedProg(e, block) \in Program /\ SetExeTagProg(e, tag) \in Program
    BY ExeProgsType
  <2> HIDE DEF p1, p2
  <2>4. p1 \o p2 \o SetBlockedProg(e, block) \o SetExeTagProg(e, tag) \o Do("save")
          \o SetAllowedProg(e, allow /\ ~block) \in Program
    BY <1>0, <2>1, <2>2, <2>3, CatType
  <2>5. QED
    BY <1>3, <2>4, HandleType DEF ApplyRule, p1, p2
<1>4. ASSUME NEW e \in Exes, NEW answer \in {"temp", "allow", "once", "block"},
             Answer(e, answer)
      PROVE  TypeOK'
  <2>1. AnswerProg(e, answer) \o DoExe("finish", e, FALSE) \in Program
    BY AnswerProgType, ExeProgsType, CatType
  <2>2. QED
    BY <1>4, <2>1, HandleType DEF Answer
<1>5. ASSUME NEW tag \in Tags, NEW block \in BOOLEAN, NEW allow \in BOOLEAN,
             EditTag(tag, block, allow)
      PROVE  TypeOK'
  <2>1. SetTagBlockedProg(tag, block) \in Program
        /\ SetTagAllowedProg(tag, allow /\ ~block) \in Program
    BY TagProgsType
  <2>2. Do("save") \o SetTagBlockedProg(tag, block)
          \o SetTagAllowedProg(tag, allow /\ ~block) \in Program
    BY <1>0, <2>1, CatType
  <2>3. QED
    BY <1>5, <2>2, HandleType DEF EditTag
<1>6. ASSUME NEW tag \in Tags, RemoveTagRule(tag)
      PROVE  TypeOK'
  <2>1. Do("save") \o SetTagBlockedProg(tag, FALSE) \in Program
    BY <1>0, TagProgsType, CatType
  <2>2. QED
    BY <1>6, <2>1, HandleType DEF RemoveTagRule
<1>7. QED
  BY <1>1, <1>2, <1>3, <1>4, <1>5, <1>6 DEF RuleEvent

LEMMA SwitchEventType ==
  ASSUME TypeOK, SwitchEvent
  PROVE  TypeOK'
<1>0. /\ Do("save") \in Program /\ Do("clear") \in Program
      /\ Do("destroy") \in Program /\ Do("exit") \in Program
  BY DoType DEF OpNames, TagOps
<1>1. (~cfg.fw) \in BOOLEAN /\ (~cfg.lock) \in BOOLEAN
  OBVIOUS
<1>2. CASE ToggleFirewall
  BY <1>1, <1>2, SwitchProgsType, HandleType DEF ToggleFirewall
<1>3. CASE ToggleLockdown
  <2>1. /\ When(~cfg.lock /\ ~cfg.fw, SetFirewallProg(TRUE)) \in Program
        /\ <<I("set_lockdown", {}, NoTag, ~cfg.lock)>> \in Program
        /\ When(cfg.lock, Do("clear")) \in Program
    BY <1>0, <1>1, SwitchProgsType, WhenType
  <2>2. When(~cfg.lock /\ ~cfg.fw, SetFirewallProg(TRUE))
          \o <<I("set_lockdown", {}, NoTag, ~cfg.lock)>> \o Do("save")
          \o When(cfg.lock, Do("clear")) \in Program
    BY <1>0, <2>1, CatType
  <2>3. QED
    BY <1>3, <2>2, HandleType DEF ToggleLockdown
<1>4. CASE Close
  <2>1. Stop \in Program
    BY SwitchProgsType
  <2>2. Do("save") \o Stop \o Do("destroy") \o Stop \o Do("exit") \in Program
    BY <1>0, <2>1, CatType
  <2>3. QED
    BY <1>4, <2>2, HandleType DEF Close
<1>5. QED
  BY <1>2, <1>3, <1>4 DEF SwitchEvent

-----------------------------------------------------------------------------
(* The monitor loop, the prompts, the life of the process.                 *)

LEMMA TickType ==
  ASSUME TypeOK, Tick
  PROVE  TypeOK'
<1>1. CASE cfg.lock /\ cfg.fw
  <2>1. PICK es \in SUBSET Exes :
          prog' = [prog EXCEPT !["mon"] = Loop("scan", Busy \cup es)]
    BY <1>1 DEF Tick
  <2>2. Loop("scan", Busy \cup es) \in Program
    BY SetsAssumption, LoopType DEF OpNames, TagOps
  <2>3. prog' \in [Threads -> Program]
    BY <2>1, <2>2, TypeSplit DEF Threads
  <2>4. QED
    BY <1>1, <2>3, TypeSplit DEF Tick, RestOK, uiVars, lifeVars
<1>2. CASE ~(cfg.lock /\ cfg.fw)
  <2>1. When(ldBlocked # {}, Do("clear")) \in Program
    BY DoType, WhenType DEF OpNames, TagOps
  <2>2. prog' \in [Threads -> Program]
    BY <1>2, <2>1, TypeSplit DEF Tick, Threads
  <2>3. QED
    BY <1>2, <2>2, TypeSplit DEF Tick, RestOK, uiVars, lifeVars
<1>3. QED
  BY <1>1, <1>2

LEMMA BootType ==
  ASSUME TypeOK, Boot
  PROVE  TypeOK'
<1>1. /\ Do("apply_blocks") \in Program /\ Do("remove_all") \in Program
      /\ Do("save") \in Program /\ Do("start_monitor") \in Program
      /\ Do("show_ui") \in Program
  BY DoType DEF OpNames, TagOps
<1> DEFINE first == IF disk.fw THEN Do("apply_blocks")
                               ELSE Do("remove_all") \o Do("remove_all")
<1>2. first \in Program
  BY <1>1, CatType
<1> HIDE DEF first
<1>3. first \o Do("save") \o Do("start_monitor") \o Do("show_ui") \in Program
  BY <1>1, <1>2, CatType
<1>4. prog' \in [Threads -> Program]
  BY <1>3, TypeSplit DEF Boot, Threads, first
<1>5. cfg' \in Settings
  <2>1. osRules \in SUBSET Exes /\ disk \in Settings
    BY SetsAssumption DEF TypeOK
  <2>2. QED
    BY <2>1 DEF Boot, Settings
<1>6. left' \in [ops: Nat, crashes: Nat, boots: Nat]
  BY DEF Boot, TypeOK
<1>7. QED
  BY <1>4, <1>5, <1>6, TypeSplit DEF Boot, RestOK, ldVars, uiVars

LEMMA OtherType ==
  ASSUME TypeOK, MonitorEnds \/ ShowPrompt \/ Crash \/ \E e \in Exes : Expire(e)
  PROVE  TypeOK'
<1>1. CASE MonitorEnds
  BY <1>1 DEF MonitorEnds, TypeOK, ldVars, uiVars
<1>2. CASE ShowPrompt
  <2>1. Head(queue) \in Exes /\ Tail(queue) \in Seq(Exes)
    BY <1>2 DEF ShowPrompt, TypeOK
  <2>2. QED
    BY <1>2, <2>1 DEF ShowPrompt, TypeOK, ldVars, lifeVars
<1>3. CASE Crash
  <2>1. left' \in [ops: Nat, crashes: Nat, boots: Nat]
    BY <1>3 DEF Crash, TypeOK
  <2>2. QED
    BY <1>3, <2>1, MemoryLostType DEF Crash
<1>4. CASE \E e \in Exes : Expire(e)
  BY <1>4 DEF Expire, TypeOK, uiVars, lifeVars
<1>5. QED
  BY <1>1, <1>2, <1>3, <1>4

LEMMA InitType == Init => TypeOK
<1>1. ASSUME Init
      PROVE  TypeOK
  <2>1. disk \in Settings /\ cfg \in Settings
    BY <1>1, DisksAssumption DEF Init
  <2>2. prog \in [Threads -> Program] /\ queue \in Seq(Exes)
    BY <1>1, NoPrograms DEF Init
  <2>3. left \in [ops: Nat, crashes: Nat, boots: Nat]
    BY <1>1, BoundsAssumption DEF Init
  <2>4. QED
    BY <1>1, <2>1, <2>2, <2>3, NoTempType, TypeSplit DEF Init, RestOK
<1>2. QED
  BY <1>1

LEMMA NextType == TypeOK /\ [Next]_vars => TypeOK'
<1> SUFFICES ASSUME TypeOK, [Next]_vars
             PROVE  TypeOK'
  OBVIOUS
<1>1. ASSUME NEW t \in Threads, Step(t)
      PROVE  TypeOK'
  BY <1>1, RuleStepType, SwitchStepType, CallStepType, SweepStepType, LifeStepType DEF Step
<1>2. CASE UNCHANGED vars
  BY <1>2 DEF vars, ldVars, uiVars, lifeVars, TypeOK
<1>3. QED
  BY <1>1, <1>2, TickType, BootType, OtherType, RuleEventType, SwitchEventType DEF Next

(* Every reachable state is well typed.  The part that is not bookkeeping: *)
(* only concrete executables ever get an OS rule (firewall._valid_exe),    *)
(* and no handler reaches the settings with an empty tag.                  *)
THEOREM TypeCorrect == Spec => []TypeOK
<1>1. QED
  BY InitType, NextType, PTL DEF Spec

-----------------------------------------------------------------------------
(* SavedWhenAtRest.  By itself it is not inductive: while a handler runs   *)
(* the settings in memory are ahead of the file.  What holds at every step *)
(* is that then a save is still to come: every instruction of the GUI      *)
(* program that edits the settings has a save behind it, and the monitor   *)
(* thread never edits them.                                                *)

Edits == {"set_blocked", "set_allowed", "set_exe_tag", "set_tag_blocked",
          "set_tag_allowed", "remove_app", "set_firewall", "set_lockdown"}
NoEdits(p) == \A i \in 1..Len(p) : p[i].op \notin Edits
HasSave(p) == \E i \in 1..Len(p) : p[i].op = "save"
SavesEdits(p) ==
  \A i \in 1..Len(p) : p[i].op \in Edits => \E j \in (i + 1)..Len(p) : p[j].op = "save"

SaveInv ==
  /\ SavesEdits(prog["gui"])
  /\ NoEdits(prog["mon"])
  /\ cfg = disk \/ HasSave(prog["gui"])

(* How the three predicates behave on concatenations and tails.            *)
LEMMA NoEditsCat ==
  ASSUME NEW s \in Program, NEW u \in Program, NoEdits(s), NoEdits(u)
  PROVE  NoEdits(s \o u)
<1> SUFFICES ASSUME NEW i \in 1..Len(s \o u)
             PROVE  (s \o u)[i].op \notin Edits
  BY DEF NoEdits
<1>1. CASE i \in 1..Len(s)
  BY <1>1 DEF NoEdits, Program
<1>2. CASE i \notin 1..Len(s)
  <2>1. (i - Len(s)) \in 1..Len(u) /\ (s \o u)[i] = u[i - Len(s)]
    BY <1>2 DEF Program
  <2>2. QED
    BY <2>1 DEF NoEdits
<1>3. QED
  BY <1>1, <1>2

LEMMA HasSaveCat ==
  ASSUME NEW s \in Program, NEW u \in Program, HasSave(s) \/ HasSave(u)
  PROVE  HasSave(s \o u)
<1>1. CASE HasSave(s)
  <2>1. PICK i \in 1..Len(s) : s[i].op = "save"
    BY <1>1 DEF HasSave
  <2>2. i \in 1..Len(s \o u) /\ (s \o u)[i] = s[i]
    BY <2>1 DEF Program
  <2>3. QED
    BY <2>1, <2>2 DEF HasSave
<1>2. CASE HasSave(u)
  <2>1. PICK i \in 1..Len(u) : u[i].op = "save"
    BY <1>2 DEF HasSave
  <2>2. (i + Len(s)) \in 1..Len(s \o u) /\ (s \o u)[i + Len(s)] = u[i]
    BY <2>1 DEF Program
  <2>3. QED
    BY <2>1, <2>2 DEF HasSave
<1>3. QED
  BY <1>1, <1>2

(* Either every edit of s is saved within s, or u saves.                   *)
LEMMA SavesEditsCat ==
  ASSUME NEW s \in Program, NEW u \in Program,
         SavesEdits(s) \/ HasSave(u), SavesEdits(u)
  PROVE  SavesEdits(s \o u)
<1> SUFFICES ASSUME NEW i \in 1..Len(s \o u), (s \o u)[i].op \in Edits
             PROVE  \E j \in (i + 1)..Len(s \o u) : (s \o u)[j].op = "save"
  BY DEF SavesEdits
<1>0. Len(s) \in Nat /\ Len(u) \in Nat /\ Len(s \o u) = Len(s) + Len(u)
  BY DEF Program
<1>1. CASE i \in 1..Len(s) /\ SavesEdits(s)
  <2>1. (s \o u)[i] = s[i]
    BY <1>1 DEF Program
  <2>2. PICK j \in (i + 1)..Len(s) : s[j].op = "save"
    BY <1>1, <2>1 DEF SavesEdits
  <2>3. j \in (i + 1)..Len(s \o u) /\ (s \o u)[j] = s[j]
    BY <1>0, <1>1, <2>2 DEF Program
  <2>4. QED
    BY <2>2, <2>3
<1>2. CASE i \in 1..Len(s) /\ HasSave(u)
  <2>1. PICK k \in 1..Len(u) : u[k].op = "save"
    BY <1>2 DEF HasSave
  <2>2. (k + Len(s)) \in (i + 1)..Len(s \o u) /\ (s \o u)[k + Len(s)] = u[k]
    BY <1>0, <1>2, <2>1 DEF Program
  <2>3. QED
    BY <2>1, <2>2
<1>3. CASE i \notin 1..Len(s)
  <2>1. (i - Len(s)) \in 1..Len(u) /\ (s \o u)[i] = u[i - Len(s)]
    BY <1>0, <1>3 DEF Program
  <2>2. PICK j \in (i - Len(s) + 1)..Len(u) : u[j].op = "save"
    BY <2>1 DEF SavesEdits
  <2>3. (j + Len(s)) \in (i + 1)..Len(s \o u) /\ (s \o u)[j + Len(s)] = u[j]
    BY <1>0, <2>1, <2>2 DEF Program
  <2>4. QED
    BY <2>2, <2>3
<1>4. QED
  BY <1>1, <1>2, <1>3

LEMMA TailFacts ==
  ASSUME NEW p \in Program, p # <<>>
  PROVE  /\ NoEdits(p) => NoEdits(Tail(p))
         /\ SavesEdits(p) => SavesEdits(Tail(p))
         /\ HasSave(p) /\ Head(p).op # "save" => HasSave(Tail(p))
         /\ SavesEdits(p) /\ Head(p).op \in Edits => HasSave(Tail(p))
<1>0. /\ Len(p) \in Nat /\ Len(p) > 0 /\ Len(Tail(p)) = Len(p) - 1
      /\ \A i \in 1..Len(Tail(p)) : Tail(p)[i] = p[i + 1]
      /\ Head(p) = p[1]
  BY DEF Program
<1>1. NoEdits(p) => NoEdits(Tail(p))
  BY <1>0 DEF NoEdits
<1>2. ASSUME SavesEdits(p)
      PROVE  SavesEdits(Tail(p))
  <2> SUFFICES ASSUME NEW i \in 1..Len(Tail(p)), Tail(p)[i].op \in Edits
               PROVE  \E j \in (i + 1)..Len(Tail(p)) : Tail(p)[j].op = "save"
    BY DEF SavesEdits
  <2>1. PICK j \in (i + 1 + 1)..Len(p) : p[j].op = "save"
    BY <1>0, <1>2 DEF SavesEdits
  <2>2. (j - 1) \in (i + 1)..Len(Tail(p)) /\ Tail(p)[j - 1] = p[j]
    BY <1>0, <2>1
  <2>3. QED
    BY <2>1, <2>2
<1>3. ASSUME HasSave(p), Head(p).op # "save"
      PROVE  HasSave(Tail(p))
  <2>1. PICK i \in 1..Len(p) : p[i].op = "save"
    BY <1>3 DEF HasSave
  <2>2. i # 1
    BY <1>0, <1>3, <2>1
  <2>3. (i - 1) \in 1..Len(Tail(p)) /\ Tail(p)[i - 1] = p[i]
    BY <1>0, <2>1, <2>2
  <2>4. QED
    BY <2>1, <2>3 DEF HasSave
<1>4. ASSUME SavesEdits(p), Head(p).op \in Edits
      PROVE  HasSave(Tail(p))
  <2>1. PICK j \in (1 + 1)..Len(p) : p[j].op = "save"
    BY <1>0, <1>4 DEF SavesEdits
  <2>2. (j - 1) \in 1..Len(Tail(p)) /\ Tail(p)[j - 1] = p[j]
    BY <1>0, <2>1
  <2>3. QED
    BY <2>1, <2>2 DEF HasSave
<1>5. QED
  BY <1>1, <1>2, <1>3, <1>4

LEMMA NoEditsSaves ==
  ASSUME NEW p \in Program, NoEdits(p)
  PROVE  SavesEdits(p)
BY DEF NoEdits, SavesEdits

(* An instruction other than save keeps SaveInv if what it puts in its     *)
(* place edits nothing and it changes the settings only when it is an edit.*)
LEMMA ThenSave ==
  ASSUME TypeOK, SaveInv, NEW t \in Threads, prog[t] # <<>>, Cur(t).op # "save",
         NEW s \in Program, NoEdits(s), Then(t, s),
         disk' = disk, cfg' = cfg \/ Cur(t).op \in Edits
  PROVE  SaveInv'
<1>0. /\ prog \in [Threads -> Program]
      /\ prog' = [prog EXCEPT ![t] = s \o Tail(prog[t])]
      /\ Tail(prog[t]) \in Program
  BY TypeSplit, CurType DEF Then
<1>1. CASE t = "gui"
  <2> DEFINE u == Tail(prog["gui"])
  <2>1. /\ prog["gui"] \in Program /\ u \in Program
        /\ prog'["gui"] = s \o u /\ prog'["mon"] = prog["mon"]
    BY <1>0, <1>1 DEF Threads
  <2>2. SavesEdits(prog["gui"]) /\ SavesEdits(u)
    BY <1>1, <2>1, TailFacts DEF SaveInv
  <2>3. cfg' = disk' \/ HasSave(u)
    BY <1>1, <2>1, <2>2, TailFacts DEF SaveInv, Cur
  <2> HIDE DEF u
  <2>4. SavesEdits(s \o u)
    BY <2>1, <2>2, NoEditsSaves, SavesEditsCat
  <2>5. cfg' = disk' \/ HasSave(s \o u)
    BY <2>1, <2>3, HasSaveCat
  <2>6. QED
    BY <2>1, <2>4, <2>5 DEF SaveInv
<1>2. CASE t = "mon"
  <2> DEFINE u == Tail(prog["mon"])
  <2>1. /\ prog["mon"] \in Program /\ u \in Program
        /\ prog'["mon"] = s \o u /\ prog'["gui"] = prog["gui"]
    BY <1>0, <1>2 DEF Threads
  <2>2. NoEdits(u)
    BY <1>2, <2>1, TailFacts DEF SaveInv
  <2>3. Cur(t).op \notin Edits
    <3>1. Len(prog["mon"]) \in Nat /\ Len(prog["mon"]) > 0 /\ Cur(t) = prog["mon"][1]
      BY <1>2, <2>1 DEF Cur, Program
    <3>2. QED
      BY <3>1 DEF SaveInv, NoEdits
  <2> HIDE DEF u
  <2>4. NoEdits(s \o u)
    BY <2>1, <2>2, NoEditsCat
  <2>5. QED
    BY <2>1, <2>3, <2>4 DEF SaveInv
<1>3. QED
  BY <1>1, <1>2 DEF Threads

LEMMA NoEditsEmpty == <<>> \in Program /\ NoEdits(<<>>)
BY DEF Program, NoEdits

LEMMA AdvanceSave ==
  ASSUME TypeOK, SaveInv, NEW t \in Threads, prog[t] # <<>>, Cur(t).op # "save",
         Advance(t), disk' = disk, cfg' = cfg \/ Cur(t).op \in Edits
  PROVE  SaveInv'
BY NoEditsEmpty, ThenSave DEF Advance

LEMMA NoEditsOne ==
  ASSUME NEW x \in Instr, x.op \notin Edits
  PROVE  NoEdits(<<x>>)
BY DEF NoEdits

LEMMA IInstr ==
  ASSUME NEW op \in OpNames \ TagOps, NEW es \in SUBSET Exes, NEW on \in BOOLEAN
  PROVE  /\ I(op, es, NoTag, on) \in Instr
         /\ I(op, es, NoTag, on).op = op
BY DEF Instr, I

LEMMA NoEditsProgs ==
  ASSUME NEW op \in OpNames \ (TagOps \cup Edits)
  PROVE  /\ NoEdits(Do(op))
         /\ \A e \in Exes, on \in BOOLEAN : NoEdits(DoExe(op, e, on))
         /\ \A es \in SUBSET Exes : NoEdits(Loop(op, es))
<1>1. NoEdits(Do(op))
  BY IInstr, NoEditsOne DEF Do
<1>2. \A e \in Exes, on \in BOOLEAN : NoEdits(DoExe(op, e, on))
  BY IInstr, NoEditsOne DEF DoExe
<1>3. \A es \in SUBSET Exes : NoEdits(Loop(op, es))
  BY IInstr, NoEditsOne, NoEditsEmpty DEF Loop
<1>4. QED
  BY <1>1, <1>2, <1>3

LEMMA NoEditsWhen ==
  ASSUME NEW p, NEW s \in Program, NoEdits(s)
  PROVE  NoEdits(When(p, s))
BY NoEditsEmpty DEF When

LEMMA ThenRestSave ==
  ASSUME TypeOK, SaveInv, NEW t \in Threads, prog[t] # <<>>,
         Cur(t).op \notin TagOps \cup Edits \cup {"save"},
         NEW e \in Exes, NEW s \in Program, NoEdits(s), ThenRest(t, e, s),
         disk' = disk, cfg' = cfg
  PROVE  SaveInv'
<1>1. /\ Cur(t).op \in OpNames \ (TagOps \cup Edits)
      /\ Cur(t).es \ {e} \in SUBSET Exes
  BY CurType DEF Instr
<1> DEFINE rest == Loop(Cur(t).op, Cur(t).es \ {e})
<1>2. rest \in Program /\ NoEdits(rest)
  BY <1>1, LoopType, NoEditsProgs
<1>3. Then(t, s \o rest)
  BY DEF ThenRest, Cur
<1> HIDE DEF rest
<1>4. s \o rest \in Program /\ NoEdits(s \o rest)
  BY <1>2, CatType, NoEditsCat
<1>5. QED
  BY <1>3, <1>4, ThenSave

LEMMA VerdictSaves ==
  ASSUME NEW e \in Exes
  PROVE  NoEdits(Verdict(e))
<1> DEFINE m == DoExe("mark", e, FALSE)
           b == DoExe("block", e, FALSE)
           n == DoExe("note", e, FALSE)
           k == DoExe("ask", e, FALSE)
<1>1. m \in Program /\ b \in Program /\ n \in Program /\ k \in Program
  BY DoExeType DEF OpNames, TagOps
<1>2. NoEdits(m) /\ NoEdits(b) /\ NoEdits(n) /\ NoEdits(k)
  BY NoEditsProgs DEF OpNames, TagOps, Edits
<1> HIDE DEF m, b, n, k
<1>3. NoEdits(When(temp[e] = "none", m))
  BY <1>1, <1>2, NoEditsWhen
<1>4. NoEdits(b \o n \o k)
  BY <1>1, <1>2, CatType, NoEditsCat
<1>5. QED
  BY <1>2, <1>3, <1>4 DEF Verdict, m, b, n, k

(* One instruction of either thread.                                       *)
LEMMA StepSave ==
  ASSUME TypeOK, SaveInv, NEW t \in Threads, Step(t), ~Exit(t)
  PROVE  SaveInv'
<1>0. prog[t] # <<>> => Cur(t).es \in SUBSET Exes
  BY CurType DEF Instr
<1>1. CASE SetBlocked(t)
  BY <1>1, AdvanceSave DEF SetBlocked, At, Cur, Edits, ldVars
<1>2. CASE AllowSettled(t)
  BY <1>2, AdvanceSave DEF AllowSettled, At, Cur, Edits, ldVars
<1>3. CASE SetExeTag(t)
  BY <1>3, AdvanceSave DEF SetExeTag, At, Cur, Edits, ldVars
<1>4. CASE TempAllow(t)
  BY <1>4, AdvanceSave DEF TempAllow, At, Cur, Edits, ldVars
<1>5. CASE Answered(t)
  BY <1>5, AdvanceSave DEF Answered, At, Cur, Edits, ldVars
<1>6. CASE Finish(t)
  BY <1>6, AdvanceSave DEF Finish, At, Cur, Edits, ldVars
<1>7. CASE SetFirewallEnabled(t)
  BY <1>7, AdvanceSave DEF SetFirewallEnabled, At, Cur, Edits, ldVars
<1>8. CASE SetLockdown(t)
  BY <1>8, AdvanceSave DEF SetLockdown, At, Cur, Edits, ldVars
<1>9. CASE ForgetLockdown(t)
  BY <1>9, AdvanceSave DEF ForgetLockdown, At, Cur, Edits, ldVars
<1>10. CASE Mark(t)
  BY <1>10, AdvanceSave DEF Mark, At, Cur, Edits, ldVars
<1>11. CASE Note(t)
  BY <1>11, AdvanceSave DEF Note, At, Cur, Edits, ldVars
<1>12. CASE Ask(t)
  BY <1>12, AdvanceSave DEF Ask, At, Cur, Edits, ldVars
<1>13. CASE StartMonitor(t)
  BY <1>13, AdvanceSave DEF StartMonitor, At, Cur, Edits, ldVars
<1>14. CASE ShowUI(t)
  BY <1>14, AdvanceSave DEF ShowUI, At, Cur, Edits, ldVars
<1>15. CASE Halt(t)
  BY <1>15, AdvanceSave DEF Halt, At, Cur, Edits, ldVars
<1>16. CASE Join(t)
  BY <1>16, AdvanceSave DEF Join, At, Cur, Edits, ldVars
<1>17. CASE Destroy(t)
  BY <1>17, AdvanceSave DEF Destroy, At, Cur, Edits, ldVars
<1>18. CASE SetAllowed(t)
  <2>1. LET s == When(Cur(t).on, Loop("lockdown_unblock", Cur(t).es)) IN s \in Program /\ NoEdits(s)
    BY <1>0, <1>18, LoopType, WhenType, NoEditsProgs, NoEditsWhen DEF SetAllowed, At, OpNames, TagOps, Edits
  <2>2. QED
    BY <1>18, <2>1, ThenSave DEF SetAllowed, At, Cur, Edits
<1>19. CASE SetTagBlocked(t)
  <2> DEFINE op == IF Cur(t).on THEN "block_if_on" ELSE "unblock_unlisted"
             s == Loop(op, Members(cfg, Cur(t).tag))
  <2>1. op \in OpNames \ (TagOps \cup Edits)
    BY DEF OpNames, TagOps, Edits
  <2>2. Members(cfg, Cur(t).tag) \in SUBSET Exes
    BY DEF Members
  <2>3. s \in Program /\ NoEdits(s)
    BY <2>1, <2>2, LoopType, NoEditsProgs
  <2>4. Then(t, s)
    BY <1>19 DEF SetTagBlocked
  <2> HIDE DEF s
  <2>5. QED
    BY <1>19, <2>3, <2>4, ThenSave DEF SetTagBlocked, At, Cur, Edits
<1>20. CASE SetTagAllowed(t)
  <2>1. LET s == When(Cur(t).on, Loop("lockdown_unblock", Members(cfg, Cur(t).tag))) IN s \in Program /\ NoEdits(s)
    BY <1>0, <1>20, LoopType, WhenType, NoEditsProgs, NoEditsWhen DEF Members, OpNames, TagOps, Edits
  <2>2. QED
    BY <1>20, <2>1, ThenSave DEF SetTagAllowed, At, Cur, Edits
<1>21. CASE RemoveApp(t)
  <2>1. LET s == Loop("unblock", Cur(t).es \cap cfg.blocked) IN s \in Program /\ NoEdits(s)
    BY <1>0, <1>21, LoopType, NoEditsProgs DEF RemoveApp, At, OpNames, TagOps, Edits
  <2>2. QED
    BY <1>21, <2>1, ThenSave DEF RemoveApp, At, Cur, Edits
<1>22. CASE ApplyBlocks(t)
  <2>1. LET s == Loop("block", UserBlocked(cfg)) IN s \in Program /\ NoEdits(s)
    BY <1>0, <1>22, LoopType, NoEditsProgs DEF UserBlocked, TagBlocked, TypeOK, Settings, OpNames, TagOps, Edits
  <2>2. QED
    BY <1>22, <2>1, ThenSave DEF ApplyBlocks, At, Cur, Edits
<1>23. CASE RemoveAllRules(t)
  <2>1. LET s == Loop("unblock", osRules) IN s \in Program /\ NoEdits(s)
    BY <1>0, <1>23, SetsAssumption, LoopType, NoEditsProgs DEF TypeOK, OpNames, TagOps, Edits
  <2>2. QED
    BY <1>23, <2>1, ThenSave DEF RemoveAllRules, At, Cur, Edits
<1>24. CASE ClearLockdownBlocks(t)
  <2>1. LET s == Loop("unblock_unlisted", ldBlocked) \o Do("forget") IN s \in Program /\ NoEdits(s)
    BY <1>0, <1>24, LoopType, DoType, CatType, NoEditsProgs, NoEditsCat DEF TypeOK, OpNames, TagOps, Edits
  <2>2. QED
    BY <1>24, <2>1, ThenSave DEF ClearLockdownBlocks, At, Cur, Edits
<1>25. CASE LockdownUnblock(t)
  <2>1. PICK e \in Cur(t).es : ThenRest(t, e, When(e \in ldBlocked \ cfg.blocked, DoExe("unblock", e, FALSE)))
    BY <1>25 DEF LockdownUnblock
  <2>2. e \in Exes
    BY <1>0, <1>25, <2>1 DEF LockdownUnblock, At
  <2>3. LET s == When(e \in ldBlocked \ cfg.blocked, DoExe("unblock", e, FALSE)) IN s \in Program /\ NoEdits(s)
    BY <2>2, DoExeType, WhenType, NoEditsProgs, NoEditsWhen DEF OpNames, TagOps, Edits
  <2>4. QED
    BY <1>25, <2>1, <2>2, <2>3, ThenRestSave DEF LockdownUnblock, At, Cur, Edits, TagOps
<1>26. CASE BlockApp(t)
  <2>1. PICK e \in Cur(t).es : ThenRest(t, e, <<>>)
    BY <1>26 DEF BlockApp
  <2>2. e \in Exes
    BY <1>0, <1>26, <2>1 DEF BlockApp, At
  <2>3. LET s == <<>> IN s \in Program /\ NoEdits(s)
    BY <2>2, NoEditsEmpty
  <2>4. QED
    BY <1>26, <2>1, <2>2, <2>3, ThenRestSave DEF BlockApp, At, Cur, Edits, TagOps
<1>27. CASE UnblockApp(t)
  <2>1. PICK e \in Cur(t).es : ThenRest(t, e, <<>>)
    BY <1>27 DEF UnblockApp
  <2>2. e \in Exes
    BY <1>0, <1>27, <2>1 DEF UnblockApp, At
  <2>3. LET s == <<>> IN s \in Program /\ NoEdits(s)
    BY <2>2, NoEditsEmpty
  <2>4. QED
    BY <1>27, <2>1, <2>2, <2>3, ThenRestSave DEF UnblockApp, At, Cur, Edits, TagOps
<1>28. CASE BlockIfOn(t)
  <2>1. PICK e \in Cur(t).es : ThenRest(t, e, When(cfg.fw, DoExe("block", e, FALSE)))
    BY <1>28 DEF BlockIfOn
  <2>2. e \in Exes
    BY <1>0, <1>28, <2>1 DEF BlockIfOn, At
  <2>3. LET s == When(cfg.fw, DoExe("block", e, FALSE)) IN s \in Program /\ NoEdits(s)
    BY <2>2, DoExeType, WhenType, NoEditsProgs, NoEditsWhen DEF OpNames, TagOps, Edits
  <2>4. QED
    BY <1>28, <2>1, <2>2, <2>3, ThenRestSave DEF BlockIfOn, At, Cur, Edits, TagOps
<1>29. CASE UnblockUnlisted(t)
  <2>1. PICK e \in Cur(t).es : ThenRest(t, e, When(e \notin cfg.blocked, DoExe("unblock", e, FALSE)))
    BY <1>29 DEF UnblockUnlisted
  <2>2. e \in Exes
    BY <1>0, <1>29, <2>1 DEF UnblockUnlisted, At
  <2>3. LET s == When(e \notin cfg.blocked, DoExe("unblock", e, FALSE)) IN s \in Program /\ NoEdits(s)
    BY <2>2, DoExeType, WhenType, NoEditsProgs, NoEditsWhen DEF OpNames, TagOps, Edits
  <2>4. QED
    BY <1>29, <2>1, <2>2, <2>3, ThenRestSave DEF UnblockUnlisted, At, Cur, Edits, TagOps
<1>30. CASE Scan(t)
  <2>1. PICK e \in Cur(t).es : ThenRest(t, e, When(e \notin decided, Verdict(e)))
    BY <1>30 DEF Scan
  <2>2. e \in Exes
    BY <1>0, <1>30, <2>1 DEF Scan, At
  <2>3. LET s == When(e \notin decided, Verdict(e)) IN s \in Program /\ NoEdits(s)
    BY <2>2, VerdictType, VerdictSaves, WhenType, NoEditsWhen
  <2>4. QED
    BY <1>30, <2>1, <2>2, <2>3, ThenRestSave DEF Scan, At, Cur, Edits, TagOps
<1>31. CASE Save(t)
  <2>0. prog[t] # <<>> /\ cfg' = disk' /\ prog' = [prog EXCEPT ![t] = <<>> \o Tail(prog[t])]
    BY <1>31 DEF Save, At, Advance, Then
  <2>1. prog \in [Threads -> Program] /\ Tail(prog[t]) \in Program
    BY <2>0, TypeSplit, CurType
  <2>2. prog' = [prog EXCEPT ![t] = Tail(prog[t])]
    BY <2>0, <2>1 DEF Program
  <2>3. SavesEdits(prog'["gui"])
    BY <2>0, <2>1, <2>2, TailFacts DEF SaveInv, Threads
  <2>4. NoEdits(prog'["mon"])
    BY <2>0, <2>1, <2>2, TailFacts DEF SaveInv, Threads
  <2>5. QED
    BY <2>0, <2>3, <2>4 DEF SaveInv
<1>32. QED
  BY <1>1, <1>2, <1>3, <1>4, <1>5, <1>6, <1>7, <1>8, <1>9, <1>10, <1>11, <1>12, <1>13, <1>14, <1>15, <1>16, <1>17, <1>18, <1>19, <1>20, <1>21, <1>22, <1>23, <1>24, <1>25, <1>26, <1>27, <1>28, <1>29, <1>30, <1>31
     DEF Step, RuleStep, SwitchStep, CallStep, SweepStep, LifeStep

-----------------------------------------------------------------------------
(* The programs that save what they edit.                                  *)

Saving == {s \in Program : SavesEdits(s)}

LEMMA SavingCat ==
  ASSUME NEW s \in Saving, NEW u \in Saving
  PROVE  s \o u \in Saving
BY CatType, SavesEditsCat DEF Saving

(* A final save covers everything before it.                               *)
LEMMA EndSave ==
  ASSUME NEW s \in Program
  PROVE  s \o Do("save") \in Saving /\ HasSave(s \o Do("save"))
<1>1. Do("save") \in Program
  BY DoType DEF OpNames, TagOps
<1>2. HasSave(Do("save"))
  BY DEF HasSave, Do, I
<1>3. SavesEdits(Do("save"))
  BY <1>1, NoEditsProgs, NoEditsSaves DEF OpNames, TagOps, Edits
<1>4. QED
  BY <1>1, <1>2, <1>3, CatType, SavesEditsCat, HasSaveCat DEF Saving

(* Programs without an edit.                                               *)
LEMMA SavingPlain ==
  ASSUME NEW op \in OpNames \ (TagOps \cup Edits), NEW p
  PROVE  /\ Do(op) \in Saving /\ When(p, Do(op)) \in Saving
         /\ \A e \in Exes : /\ DoExe(op, e, FALSE) \in Saving
                           /\ When(p, DoExe(op, e, FALSE)) \in Saving
<1>1. Do(op) \in Program /\ NoEdits(Do(op))
  BY DoType, NoEditsProgs
<1>2. ASSUME NEW e \in Exes
      PROVE  DoExe(op, e, FALSE) \in Program /\ NoEdits(DoExe(op, e, FALSE))
  BY DoExeType, NoEditsProgs
<1>3. ASSUME NEW s \in Program, NoEdits(s)
      PROVE  s \in Saving /\ When(p, s) \in Saving
  BY <1>3, NoEditsSaves, NoEditsEmpty DEF Saving, When
<1>4. QED
  BY <1>1, <1>2, <1>3

LEMMA ExeProgsSaving ==
  ASSUME NEW e \in Exes, NEW on \in BOOLEAN, NEW tag \in Tags \cup {NoTag}
  PROVE  /\ SetBlockedProg(e, on) \in Saving
         /\ SetAllowedProg(e, on) \in Saving
         /\ SetExeTagProg(e, tag) \in Saving
         /\ HasSave(SetExeTagProg(e, tag))
<1>1. /\ DoExe("set_blocked", e, on) \in Program
      /\ DoExe("set_allowed", e, on) \o DoExe("allow_settled", e, FALSE) \in Program
  BY DoExeType, CatType DEF OpNames, TagOps
<1>2. <<I("set_exe_tag", {e}, tag, FALSE)>> \in Program
  BY IType DEF OpNames, TagOps
<1>3. QED
  BY <1>1, <1>2, EndSave DEF SetBlockedProg, SetAllowedProg, SetExeTagProg

LEMMA TagProgsSaving ==
  ASSUME NEW tag \in Tags, NEW on \in BOOLEAN
  PROVE  /\ SetTagBlockedProg(tag, on) \in Saving
         /\ SetTagAllowedProg(tag, on) \in Saving
<1>1. /\ <<I("set_tag_blocked", {}, tag, on)>> \in Program
      /\ <<I("set_tag_allowed", {}, tag, on)>> \in Program
  BY IType DEF OpNames, TagOps
<1>2. QED
  BY <1>1, EndSave DEF SetTagBlockedProg, SetTagAllowedProg

LEMMA SwitchProgsSaving ==
  ASSUME NEW on \in BOOLEAN
  PROVE  SetFirewallProg(on) \in Saving /\ Stop \in Saving
<1>1. <<I("set_firewall", {}, NoTag, on)>> \in Program
  BY IType DEF OpNames, TagOps
<1>2. <<I("set_firewall", {}, NoTag, on)>> \o Do("save") \in Saving
  BY <1>1, EndSave
<1>3. /\ Do("apply_blocks") \in Saving /\ Do("remove_all") \in Saving
      /\ Do("halt") \in Saving /\ Do("join") \in Saving /\ Do("clear") \in Saving
  BY SavingPlain DEF OpNames, TagOps, Edits
<1>4. (IF on THEN Do("apply_blocks") ELSE Do("remove_all") \o Do("remove_all")) \in Saving
  BY <1>3, SavingCat
<1>5. SetFirewallProg(on) \in Saving
  BY <1>2, <1>4, SavingCat DEF SetFirewallProg
<1>6. Stop \in Saving
  BY <1>3, SavingCat DEF Stop
<1>7. QED
  BY <1>5, <1>6

LEMMA AnswerProgSaving ==
  ASSUME NEW e \in Exes, NEW answer \in {"temp", "allow", "once", "block"}
  PROVE  AnswerProg(e, answer) \in Saving
<1>1. /\ DoExe("temp_allow", e, FALSE) \in Saving
      /\ DoExe("lockdown_unblock", e, FALSE) \in Saving
      /\ DoExe("answered", e, FALSE) \in Saving
      /\ DoExe("block_if_on", e, FALSE) \in Saving
      /\ Do("save") \in Saving
  BY SavingPlain DEF OpNames, TagOps, Edits
<1>2. SetAllowedProg(e, TRUE) \in Saving /\ SetBlockedProg(e, TRUE) \in Saving
  BY ExeProgsSaving
<1>3. QED
  BY <1>1, <1>2, SavingCat DEF AnswerProg

(* A handler starts with the settings saved: the last one has returned.    *)
LEMMA HandleSave ==
  ASSUME TypeOK, SaveInv, NEW kind, NEW s \in Saving, Handle(kind, s)
  PROVE  SaveInv'
<1>1. prog["gui"] = <<>>
  BY DEF Handle, Idle
<1>2. cfg = disk
  BY <1>1 DEF SaveInv, HasSave
<1>3. prog'["gui"] = s /\ prog'["mon"] = prog["mon"]
  BY TypeSplit DEF Handle, Threads
<1>4. QED
  BY <1>2, <1>3 DEF Handle, SaveInv, Saving

LEMMA RuleEventSave ==
  ASSUME TypeOK, SaveInv, RuleEvent
  PROVE  SaveInv'
<1>0. Do("save") \in Saving
  BY SavingPlain DEF OpNames, TagOps, Edits
<1>1. ASSUME NEW e \in Exes,
             \/ BlockSelected(e) \/ UnblockSelected(e)
             \/ AllowSelected(e) \/ DisallowSelected(e) \/ RemoveSelected(e)
      PROVE  SaveInv'
  <2>1. /\ DoExe("block_if_on", e, FALSE) \in Saving
        /\ DoExe("unblock", e, FALSE) \in Saving
    BY SavingPlain DEF OpNames, TagOps, Edits
  <2>2. SetBlockedProg(e, TRUE) \o DoExe("block_if_on", e, FALSE) \in Saving
    BY <2>1, ExeProgsSaving, SavingCat
  <2>3. SetBlockedProg(e, FALSE) \o DoExe("unblock", e, FALSE) \in Saving
    BY <2>1, ExeProgsSaving, SavingCat
  <2>4. SetBlockedProg(e, FALSE) \o DoExe("unblock", e, FALSE)
          \o SetAllowedProg(e, TRUE) \in Saving
    BY <2>3, ExeProgsSaving, SavingCat
  <2>5. SetAllowedProg(e, FALSE) \in Saving
    BY ExeProgsSaving
  <2>6. When(e \in cfg.blocked, DoExe("unblock", e, FALSE))
          \o DoExe("remove_app", e, FALSE) \o SetExeTagProg(e, NoTag) \in Saving
    <3>1. When(e \in cfg.blocked, DoExe("unblock", e, FALSE))
            \o DoExe("remove_app", e, FALSE) \in Program
      BY ExeProgsType, WhenType, CatType
    <3>2. SetExeTagProg(e, NoTag) \in Saving /\ HasSave(SetExeTagProg(e, NoTag))
      BY ExeProgsSaving
    <3>3. QED
      BY <3>1, <3>2, CatType, SavesEditsCat DEF Saving
  <2>7. QED
    BY <1>1, <2>2, <2>3, <2>4, <2>5, <2>6, HandleSave
       DEF BlockSelected, UnblockSelected, AllowSelected, DisallowSelected, RemoveSelected
<1>2. ASSUME NEW e \in Exes, NEW tag \in Tags \cup {NoTag}, TagSelected(e, tag)
      PROVE  SaveInv'
  BY <1>2, ExeProgsSaving, HandleSave DEF TagSelected
<1>3. ASSUME NEW e \in Exes, NEW tag \in Tags \cup {NoTag},
             NEW block \in BOOLEAN, NEW allow \in BOOLEAN, ApplyRule(e, block, allow, tag)
      PROVE  SaveInv'
  <2> DEFINE p1 == When(block /\ e \notin cfg.blocked, DoExe("block_if_on", e, FALSE))
             p2 == When(~block /\ e \in cfg.blocked, DoExe("unblock", e, FALSE))
  <2>1. p1 \in Saving /\ p2 \in Saving
    BY SavingPlain DEF OpNames, TagOps, Edits
  <2>2. /\ SetAllowedProg(e, allow /\ ~block) \in Saving
        /\ SetBlockedProg(e, block) \in Saving /\ SetExeTagProg(e, tag) \in Saving
    BY ExeProgsSaving
  <2> HIDE DEF p1, p2
  <2>3. p1 \o p2 \o SetBlockedProg(e, block) \o SetExeTagProg(e, tag) \o Do("save")
          \o SetAllowedProg(e, allow /\ ~block) \in Saving
    BY <1>0, <2>1, <2>2, SavingCat
  <2>4. QED
    BY <1>3, <2>3, HandleSave DEF ApplyRule, p1, p2
<1>4. ASSUME NEW e \in Exes, NEW answer \in {"temp", "allow", "once", "block"},
             Answer(e, answer)
      PROVE  SaveInv'
  <2>1. DoExe("finish", e, FALSE) \in Saving
    BY SavingPlain DEF OpNames, TagOps, Edits
  <2>2. AnswerProg(e, answer) \o DoExe("finish", e, FALSE) \in Saving
    BY <2>1, AnswerProgSaving, SavingCat
  <2>3. QED
    BY <1>4, <2>2, HandleSave DEF Answer
<1>5. ASSUME NEW tag \in Tags, NEW block \in BOOLEAN, NEW allow \in BOOLEAN,
             EditTag(tag, block, allow)
      PROVE  SaveInv'
  <2>1. Do("save") \o SetTagBlockedProg(tag, block)
          \o SetTagAllowedProg(tag, allow /\ ~block) \in Saving
    BY <1>0, TagProgsSaving, SavingCat
  <2>2. QED
    BY <1>5, <2>1, HandleSave DEF EditTag
<1>6. ASSUME NEW tag \in Tags, RemoveTagRule(tag)
      PROVE  SaveInv'
  <2>1. Do("save") \o SetTagBlockedProg(tag, FALSE) \in Saving
    BY <1>0, TagProgsSaving, SavingCat
  <2>2. QED
    BY <1>6, <2>1, HandleSave DEF RemoveTagRule
<1>7. QED
  BY <1>1, <1>2, <1>3, <1>4, <1>5, <1>6 DEF RuleEvent

LEMMA SwitchEventSave ==
  ASSUME TypeOK, SaveInv, SwitchEvent
  PROVE  SaveInv'
<1>0. /\ Do("save") \in Saving /\ When(cfg.lock, Do("clear")) \in Saving
      /\ Do("destroy") \in Saving /\ Do("exit") \in Saving
  BY SavingPlain DEF OpNames, TagOps, Edits
<1>1. (~cfg.fw) \in BOOLEAN /\ (~cfg.lock) \in BOOLEAN
  OBVIOUS
<1>2. CASE ToggleFirewall
  BY <1>1, <1>2, SwitchProgsSaving, HandleSave DEF ToggleFirewall
<1>3. CASE ToggleLockdown
  <2>1. When(~cfg.lock /\ ~cfg.fw, SetFirewallProg(TRUE))
          \o <<I("set_lockdown", {}, NoTag, ~cfg.lock)>> \in Program
    BY <1>1, SwitchProgsType, WhenType, CatType
  <2>2. When(~cfg.lock /\ ~cfg.fw, SetFirewallProg(TRUE))
          \o <<I("set_lockdown", {}, NoTag, ~cfg.lock)>> \o Do("save")
          \o When(cfg.lock, Do("clear")) \in Saving
    BY <1>0, <2>1, EndSave, SavingCat
  <2>3. QED
    BY <1>3, <2>2, HandleSave DEF ToggleLockdown
<1>4. CASE Close
  <2>1. Do("save") \o Stop \o Do("destroy") \o Stop \o Do("exit") \in Saving
    BY <1>0, SwitchProgsSaving, SavingCat
  <2>2. QED
    BY <1>4, <2>1, HandleSave DEF Close
<1>5. QED
  BY <1>2, <1>3, <1>4 DEF SwitchEvent

LEMMA TickSave ==
  ASSUME TypeOK, SaveInv, Tick
  PROVE  SaveInv'
<1>1. PICK s \in Program : NoEdits(s) /\ prog' = [prog EXCEPT !["mon"] = s]
  <2>1. CASE cfg.lock /\ cfg.fw
    <3>1. PICK es \in SUBSET Exes :
            prog' = [prog EXCEPT !["mon"] = Loop("scan", Busy \cup es)]
      BY <2>1 DEF Tick
    <3>2. Loop("scan", Busy \cup es) \in Program /\ NoEdits(Loop("scan", Busy \cup es))
      BY SetsAssumption, LoopType, NoEditsProgs DEF OpNames, TagOps, Edits
    <3>3. QED
      BY <3>1, <3>2
  <2>2. CASE ~(cfg.lock /\ cfg.fw)
    <3>1. /\ When(ldBlocked # {}, Do("clear")) \in Program
          /\ NoEdits(When(ldBlocked # {}, Do("clear")))
      BY DoType, WhenType, NoEditsProgs, NoEditsWhen DEF OpNames, TagOps, Edits
    <3>2. QED
      BY <2>2, <3>1 DEF Tick
  <2>3. QED
    BY <2>1, <2>2
<1>2. prog'["gui"] = prog["gui"] /\ prog'["mon"] = s
  BY <1>1, TypeSplit DEF Threads
<1>3. QED
  BY <1>1, <1>2 DEF Tick, SaveInv

LEMMA BootSave ==
  ASSUME TypeOK, SaveInv, Boot
  PROVE  SaveInv'
<1> DEFINE first == IF disk.fw THEN Do("apply_blocks")
                               ELSE Do("remove_all") \o Do("remove_all")
           u == first \o Do("save") \o Do("start_monitor") \o Do("show_ui")
<1>1. /\ Do("apply_blocks") \in Saving /\ Do("remove_all") \in Saving
      /\ Do("start_monitor") \in Saving /\ Do("show_ui") \in Saving
  BY SavingPlain DEF OpNames, TagOps, Edits
<1>2. first \in Saving
  BY <1>1, SavingCat
<1> HIDE DEF first
<1>3. first \o Do("save") \in Saving /\ HasSave(first \o Do("save"))
  BY <1>2, EndSave DEF Saving
<1>4. u \in Saving /\ HasSave(u)
  BY <1>1, <1>3, SavingCat, HasSaveCat DEF Saving
<1>5. prog'["gui"] = u /\ prog'["mon"] = prog["mon"]
  BY TypeSplit DEF Boot, Threads, first
<1> HIDE DEF u
<1>6. QED
  BY <1>4, <1>5 DEF Boot, SaveInv, Saving

(* A process that ends takes its memory with it.                           *)
LEMMA MemoryLostSave ==
  ASSUME MemoryLost, disk' = disk
  PROVE  SaveInv'
BY DEF MemoryLost, SaveInv, SavesEdits, NoEdits, Threads

LEMMA InitSave == Init => SaveInv
BY DEF Init, SaveInv, SavesEdits, NoEdits, Threads

LEMMA NextSave == TypeOK /\ SaveInv /\ [Next]_vars => SaveInv'
<1> SUFFICES ASSUME TypeOK, SaveInv, [Next]_vars
             PROVE  SaveInv'
  OBVIOUS
<1>1. ASSUME NEW t \in Threads, Step(t)
      PROVE  SaveInv'
  <2>1. CASE Exit(t)
    BY <2>1, MemoryLostSave DEF Exit
  <2>2. QED
    BY <1>1, <2>1, StepSave
<1>2. CASE MonitorEnds
  BY <1>2 DEF MonitorEnds, SaveInv
<1>3. CASE ShowPrompt
  BY <1>3 DEF ShowPrompt, SaveInv
<1>4. CASE Crash
  BY <1>4, MemoryLostSave DEF Crash
<1>5. CASE \E e \in Exes : Expire(e)
  BY <1>5 DEF Expire, SaveInv
<1>6. CASE UNCHANGED vars
  BY <1>6 DEF vars, SaveInv
<1>7. QED
  BY <1>1, <1>2, <1>3, <1>4, <1>5, <1>6, TickSave, BootSave, RuleEventSave, SwitchEventSave
     DEF Next

(* Between two handlers settings.txt holds what memory holds, in whatever  *)
(* order the handlers, the sweep, kills and restarts come.                 *)
THEOREM SavedAtRest == Spec => []SavedWhenAtRest
<1>1. SaveInv => SavedWhenAtRest
  BY DEF SaveInv, HasSave, SavedWhenAtRest, AtRest, Idle
<1>2. QED
  BY <1>1, TypeCorrect, InitSave, NextSave, PTL DEF Spec

-----------------------------------------------------------------------------
(* Prompts: the sweep of the monitor thread, which asks once per           *)
(* executable on the strength of _lockdown_pending, and the dialogs of the *)
(* GUI thread, which settle the question and close, agree on who still     *)
(* waits for an answer, however their steps interleave.                    *)
(*                                                                         *)
(* The property alone is not inductive.  A dialog closes with finish, and  *)
(* what makes that harmless is that the same handler has settled the       *)
(* question before, and that a sweep asking again in between posts a new   *)
(* prompt.  A window appears only in a process without questions, which    *)
(* takes the facts about the life of the process.                          *)

Settles == {"answered", "allow_settled"}

(* Before a dialog of e closes the program p settles the question of e.    *)
ClosesSettled(p, e) ==
  \A i \in 1..Len(p) :
    (p[i].op = "finish" /\ e \in p[i].es)
      => \E j \in 1..(i - 1) : p[j].op \in Settles /\ e \in p[j].es

Queued(e) == \E i \in 1..Len(queue) : queue[i] = e

OnlyOps(p, ops) == \A i \in 1..Len(p) : p[i].op \in ops

(* What an instruction may leave to be done in its place, ...              *)
Later == {"block", "unblock", "block_if_on", "unblock_unlisted", "lockdown_unblock",
          "forget", "mark", "note", "ask", "scan"}

(* ... and what the monitor thread ever runs.                              *)
MonitorOps == Later \cup {"clear"}

(* The window is shown by the last instruction of the start and destroyed  *)
(* by a handler, once in a process.                                        *)
LifeInv ==
  /\ app # "up" => ui = "none" /\ ~alive /\ \A t \in Threads : Idle(t)
  /\ OnlyOps(prog["mon"], MonitorOps)
  /\ ui # "none" => OnlyOps(prog["gui"], OpNames \ {"show_ui"})
  /\ ui = "none" => OnlyOps(prog["gui"], OpNames \ {"destroy"})
  /\ \A i \in 1..Len(prog["gui"]) : prog["gui"][i].op = "show_ui" => i = Len(prog["gui"])

PromptInv ==
  /\ LifeInv
  /\ ui = "none" => pending = {}
  /\ Shown => \A e \in pending :
                Queued(e) \/ (e \in dialogs /\ ClosesSettled(prog["gui"], e))

-----------------------------------------------------------------------------
(* How the predicates behave on concatenations and tails.                  *)

LEMMA OnlyOpsCat ==
  ASSUME NEW ops, NEW s \in Program, NEW u \in Program, OnlyOps(s, ops), OnlyOps(u, ops)
  PROVE  OnlyOps(s \o u, ops)
<1> SUFFICES ASSUME NEW i \in 1..Len(s \o u)
             PROVE  (s \o u)[i].op \in ops
  BY DEF OnlyOps
<1>1. CASE i \in 1..Len(s)
  BY <1>1 DEF OnlyOps, Program
<1>2. CASE i \notin 1..Len(s)
  <2>1. (i - Len(s)) \in 1..Len(u) /\ (s \o u)[i] = u[i - Len(s)]
    BY <1>2 DEF Program
  <2>2. QED
    BY <2>1 DEF OnlyOps
<1>3. QED
  BY <1>1, <1>2

LEMMA OnlyOpsTail ==
  ASSUME NEW ops, NEW p \in Program, p # <<>>, OnlyOps(p, ops)
  PROVE  Head(p).op \in ops /\ OnlyOps(Tail(p), ops)
<1>1. /\ Len(p) \in Nat /\ Len(p) > 0 /\ Len(Tail(p)) = Len(p) - 1
      /\ \A i \in 1..Len(Tail(p)) : Tail(p)[i] = p[i + 1]
      /\ Head(p) = p[1]
  BY DEF Program
<1>2. QED
  BY <1>1 DEF OnlyOps

LEMMA OnlyOpsMono ==
  ASSUME NEW ops, NEW more, ops \subseteq more, NEW p, OnlyOps(p, ops)
  PROVE  OnlyOps(p, more)
BY DEF OnlyOps

(* The builders of programs.                                               *)
LEMMA OnlyOpsProgs ==
  ASSUME NEW ops, NEW op \in ops, op \in OpNames
  PROVE  /\ OnlyOps(<<>>, ops) /\ OnlyOps(Do(op), ops)
         /\ \A es, tag, on : OnlyOps(<<I(op, es, tag, on)>>, ops)
         /\ \A e, on : OnlyOps(DoExe(op, e, on), ops)
         /\ \A es : OnlyOps(Loop(op, es), ops)
<1>1. \A es, tag, on : OnlyOps(<<I(op, es, tag, on)>>, ops)
  BY DEF OnlyOps, I
<1>2. OnlyOps(<<>>, ops)
  BY DEF OnlyOps
<1>3. QED
  BY <1>1, <1>2 DEF Do, DoExe, Loop

LEMMA OnlyOpsWhen ==
  ASSUME NEW ops, NEW p, NEW s, OnlyOps(s, ops)
  PROVE  OnlyOps(When(p, s), ops)
BY DEF OnlyOps, When

LEMMA ClosesSettledCat ==
  ASSUME NEW e, NEW s \in Program, NEW u \in Program,
         ClosesSettled(s, e), ClosesSettled(u, e)
  PROVE  ClosesSettled(s \o u, e)
<1> SUFFICES ASSUME NEW i \in 1..Len(s \o u),
                    (s \o u)[i].op = "finish", e \in (s \o u)[i].es
             PROVE  \E j \in 1..(i - 1) : /\ (s \o u)[j].op \in Settles
                                          /\ e \in (s \o u)[j].es
  BY DEF ClosesSettled
<1>0. Len(s) \in Nat /\ Len(u) \in Nat /\ Len(s \o u) = Len(s) + Len(u)
  BY DEF Program
<1>1. CASE i \in 1..Len(s)
  <2>1. (s \o u)[i] = s[i]
    BY <1>1 DEF Program
  <2>2. PICK j \in 1..(i - 1) : s[j].op \in Settles /\ e \in s[j].es
    BY <1>1, <2>1 DEF ClosesSettled
  <2>3. (s \o u)[j] = s[j]
    BY <1>0, <1>1, <2>2 DEF Program
  <2>4. QED
    BY <2>2, <2>3
<1>2. CASE i \notin 1..Len(s)
  <2>1. (i - Len(s)) \in 1..Len(u) /\ (s \o u)[i] = u[i - Len(s)]
    BY <1>0, <1>2 DEF Program
  <2>2. PICK j \in 1..(i - Len(s) - 1) : u[j].op \in Settles /\ e \in u[j].es
    BY <2>1 DEF ClosesSettled
  <2>3. (j + Len(s)) \in 1..(i - 1) /\ (s \o u)[j + Len(s)] = u[j]
    BY <1>0, <2>1, <2>2, SMTT(30) DEF Program
  <2>4. QED
    BY <2>2, <2>3
<1>3. QED
  BY <1>1, <1>2

LEMMA ClosesSettledTail ==
  ASSUME NEW e, NEW p \in Program, p # <<>>, ClosesSettled(p, e)
  PROVE  /\ ~(Head(p).op = "finish" /\ e \in Head(p).es)
         /\ ~(Head(p).op \in Settles /\ e \in Head(p).es) => ClosesSettled(Tail(p), e)
<1>0. /\ Len(p) \in Nat /\ Len(p) > 0 /\ Len(Tail(p)) = Len(p) - 1
      /\ \A i \in 1..Len(Tail(p)) : Tail(p)[i] = p[i + 1]
      /\ Head(p) = p[1]
  BY DEF Program
<1>1. ~(p[1].op = "finish" /\ e \in p[1].es)
  <2>1. 1 \in 1..Len(p) /\ 1..(1 - 1) = {}
    BY <1>0
  <2>2. QED
    BY <2>1 DEF ClosesSettled
<1>2. ASSUME ~(p[1].op \in Settles /\ e \in p[1].es)
      PROVE  ClosesSettled(Tail(p), e)
  <2> SUFFICES ASSUME NEW i \in 1..Len(Tail(p)),
                      Tail(p)[i].op = "finish", e \in Tail(p)[i].es
               PROVE  \E j \in 1..(i - 1) : /\ Tail(p)[j].op \in Settles
                                            /\ e \in Tail(p)[j].es
    BY DEF ClosesSettled
  <2>1. PICK j \in 1..i : p[j].op \in Settles /\ e \in p[j].es
    BY <1>0 DEF ClosesSettled
  <2>2. j # 1
    BY <1>2, <2>1
  <2>3. (j - 1) \in 1..(i - 1) /\ Tail(p)[j - 1] = p[j]
    BY <1>0, <2>1, <2>2
  <2>4. QED
    BY <2>1, <2>3
<1>3. QED
  BY <1>0, <1>1, <1>2

(* A program without finish closes nothing.                                *)
LEMMA NoFinish ==
  ASSUME NEW p, OnlyOps(p, OpNames \ {"finish", "show_ui"})
  PROVE  \A e : ClosesSettled(p, e)
BY DEF OnlyOps, ClosesSettled

-----------------------------------------------------------------------------
(* Every instruction but exit is replaced by some instructions of Later.   *)

Replaced(t) == \E s \in Program : OnlyOps(s, Later) /\ Then(t, s)

LEMMA AdvanceReplaces ==
  ASSUME NEW t \in Threads, Advance(t)
  PROVE  Replaced(t)
<1>1. <<>> \in Program /\ OnlyOps(<<>>, Later)
  BY DEF Program, OnlyOps
<1>2. QED
  BY <1>1 DEF Advance, Replaced

LEMMA ThenRestReplaces ==
  ASSUME TypeOK, NEW t \in Threads, prog[t] # <<>>, Cur(t).op \in Later,
         NEW e \in Exes, NEW s \in Program, OnlyOps(s, Later), ThenRest(t, e, s)
  PROVE  Replaced(t)
<1> DEFINE rest == Loop(Cur(t).op, Cur(t).es \ {e})
<1>1. /\ Cur(t).op \in OpNames \ TagOps
      /\ Cur(t).es \ {e} \in SUBSET Exes
  BY CurType DEF Instr, Later, TagOps
<1>2. rest \in Program /\ OnlyOps(rest, Later)
  BY <1>1, LoopType, OnlyOpsProgs
<1>3. Then(t, s \o rest)
  BY DEF ThenRest, Cur
<1> HIDE DEF rest
<1>4. s \o rest \in Program /\ OnlyOps(s \o rest, Later)
  BY <1>2, CatType, OnlyOpsCat
<1>5. QED
  BY <1>3, <1>4 DEF Replaced

(* The expansions, by the instructions that leave them.                    *)
LEMMA LaterProgs ==
  ASSUME NEW op \in Later, NEW es \in SUBSET Exes, NEW p
  PROVE  LET s == Loop(op, es)
         IN  s \in Program /\ OnlyOps(s, Later)
             /\ When(p, s) \in Program /\ OnlyOps(When(p, s), Later)
<1>1. op \in OpNames \ TagOps
  BY DEF Later, OpNames, TagOps
<1>2. Loop(op, es) \in Program /\ OnlyOps(Loop(op, es), Later)
  BY <1>1, LoopType, OnlyOpsProgs
<1>3. QED
  BY <1>2, WhenType, OnlyOpsWhen

LEMMA LaterExe ==
  ASSUME NEW op \in Later, NEW e \in Exes, NEW p
  PROVE  LET s == DoExe(op, e, FALSE)
         IN  s \in Program /\ OnlyOps(s, Later)
             /\ When(p, s) \in Program /\ OnlyOps(When(p, s), Later)
<1>1. op \in OpNames \ TagOps
  BY DEF Later, OpNames, TagOps
<1>2. DoExe(op, e, FALSE) \in Program /\ OnlyOps(DoExe(op, e, FALSE), Later)
  BY <1>1, DoExeType, OnlyOpsProgs
<1>3. QED
  BY <1>2, WhenType, OnlyOpsWhen

LEMMA LaterVerdict ==
  ASSUME NEW e \in Exes
  PROVE  OnlyOps(Verdict(e), Later)
<1> DEFINE m == DoExe("mark", e, FALSE)
           b == DoExe("block", e, FALSE)
           n == DoExe("note", e, FALSE)
           k == DoExe("ask", e, FALSE)
<1>1. /\ m \in Program /\ b \in Program /\ n \in Program /\ k \in Program
      /\ OnlyOps(m, Later) /\ OnlyOps(b, Later) /\ OnlyOps(n, Later) /\ OnlyOps(k, Later)
      /\ OnlyOps(When(temp[e] = "none", m), Later)
  BY LaterExe DEF Later
<1> HIDE DEF m, b, n, k
<1>2. OnlyOps(b \o n \o k, Later)
  BY <1>1, CatType, OnlyOpsCat
<1>3. QED
  BY <1>1, <1>2 DEF Verdict, m, b, n, k

LEMMA StepReplaces ==
  ASSUME TypeOK, NEW t \in Threads, Step(t), ~Exit(t)
  PROVE  prog[t] # <<>> /\ Replaced(t)
<1>0. prog[t] # <<>> => Cur(t).es \in SUBSET Exes
  BY CurType DEF Instr
<1>1. CASE Save(t)
  BY <1>1, AdvanceReplaces DEF Save, At
<1>2. CASE SetBlocked(t)
  BY <1>2, AdvanceReplaces DEF SetBlocked, At
<1>3. CASE AllowSettled(t)
  BY <1>3, AdvanceReplaces DEF AllowSettled, At
<1>4. CASE SetExeTag(t)
  BY <1>4, AdvanceReplaces DEF SetExeTag, At
<1>5. CASE TempAllow(t)
  BY <1>5, AdvanceReplaces DEF TempAllow, At
<1>6. CASE Answered(t)
  BY <1>6, AdvanceReplaces DEF Answered, At
<1>7. CASE Finish(t)
  BY <1>7, AdvanceReplaces DEF Finish, At
<1>8. CASE SetFirewallEnabled(t)
  BY <1>8, AdvanceReplaces DEF SetFirewallEnabled, At
<1>9. CASE SetLockdown(t)
  BY <1>9, AdvanceReplaces DEF SetLockdown, At
<1>10. CASE ForgetLockdown(t)
  BY <1>10, AdvanceReplaces DEF ForgetLockdown, At
<1>11. CASE Mark(t)
  BY <1>11, AdvanceReplaces DEF Mark, At
<1>12. CASE Note(t)
  BY <1>12, AdvanceReplaces DEF Note, At
<1>13. CASE Ask(t)
  BY <1>13, AdvanceReplaces DEF Ask, At
<1>14. CASE StartMonitor(t)
  BY <1>14, AdvanceReplaces DEF StartMonitor, At
<1>15. CASE ShowUI(t)
  BY <1>15, AdvanceReplaces DEF ShowUI, At
<1>16. CASE Halt(t)
  BY <1>16, AdvanceReplaces DEF Halt, At
<1>17. CASE Join(t)
  BY <1>17, AdvanceReplaces DEF Join, At
<1>18. CASE Destroy(t)
  BY <1>18, AdvanceReplaces DEF Destroy, At
<1>19. CASE SetAllowed(t)
  <2>1. Cur(t).es \in SUBSET Exes
    BY <1>0, <1>19 DEF SetAllowed, At
  <2>2. When(Cur(t).on, Loop("lockdown_unblock", Cur(t).es)) \in Program /\ OnlyOps(When(Cur(t).on, Loop("lockdown_unblock", Cur(t).es)), Later)
    BY <2>1, LaterProgs DEF Later
  <2>3. QED
    BY <1>19, <2>2 DEF SetAllowed, At, Replaced
<1>20. CASE SetTagBlocked(t)
  <2> DEFINE op == IF Cur(t).on THEN "block_if_on" ELSE "unblock_unlisted"
             s == Loop(op, Members(cfg, Cur(t).tag))
  <2>1. op \in Later /\ Members(cfg, Cur(t).tag) \in SUBSET Exes
    BY DEF Later, Members
  <2>2. s \in Program /\ OnlyOps(s, Later)
    BY <2>1, LaterProgs
  <2>3. Then(t, s)
    BY <1>20 DEF SetTagBlocked
  <2> HIDE DEF s
  <2>4. QED
    BY <1>20, <2>2, <2>3 DEF SetTagBlocked, At, Replaced
<1>21. CASE SetTagAllowed(t)
  <2>1. Members(cfg, Cur(t).tag) \in SUBSET Exes
    BY <1>0, <1>21 DEF SetTagAllowed, At, Members
  <2>2. When(Cur(t).on, Loop("lockdown_unblock", Members(cfg, Cur(t).tag))) \in Program /\ OnlyOps(When(Cur(t).on, Loop("lockdown_unblock", Members(cfg, Cur(t).tag))), Later)
    BY <2>1, LaterProgs DEF Later
  <2>3. QED
    BY <1>21, <2>2 DEF SetTagAllowed, At, Replaced
<1>22. CASE RemoveApp(t)
  <2>1. Cur(t).es \cap cfg.blocked \in SUBSET Exes
    BY <1>0, <1>22 DEF RemoveApp, At
  <2>2. Loop("unblock", Cur(t).es \cap cfg.blocked) \in Program /\ OnlyOps(Loop("unblock", Cur(t).es \cap cfg.blocked), Later)
    BY <2>1, LaterProgs DEF Later
  <2>3. QED
    BY <1>22, <2>2 DEF RemoveApp, At, Replaced
<1>23. CASE ApplyBlocks(t)
  <2>1. UserBlocked(cfg) \in SUBSET Exes
    BY <1>0, <1>23 DEF ApplyBlocks, At, UserBlocked, TagBlocked, TypeOK, Settings
  <2>2. Loop("block", UserBlocked(cfg)) \in Program /\ OnlyOps(Loop("block", UserBlocked(cfg)), Later)
    BY <2>1, LaterProgs DEF Later
  <2>3. QED
    BY <1>23, <2>2 DEF ApplyBlocks, At, Replaced
<1>24. CASE RemoveAllRules(t)
  <2>1. osRules \in SUBSET Exes
    BY SetsAssumption DEF TypeOK
  <2>2. Loop("unblock", osRules) \in Program /\ OnlyOps(Loop("unblock", osRules), Later)
    BY <2>1, LaterProgs DEF Later
  <2>3. QED
    BY <1>24, <2>2 DEF RemoveAllRules, At, Replaced
<1>25. CASE ClearLockdownBlocks(t)
  <2> DEFINE s == Loop("unblock_unlisted", ldBlocked)
  <2>1. s \in Program /\ OnlyOps(s, Later)
    BY LaterProgs DEF TypeOK, Later
  <2>2. Do("forget") \in Program /\ OnlyOps(Do("forget"), Later)
    BY DoType, OnlyOpsProgs DEF OpNames, TagOps, Later
  <2> HIDE DEF s
  <2>3. s \o Do("forget") \in Program /\ OnlyOps(s \o Do("forget"), Later)
    BY <2>1, <2>2, CatType, OnlyOpsCat
  <2>4. QED
    BY <1>25, <2>3 DEF ClearLockdownBlocks, At, Replaced, s
<1>26. CASE LockdownUnblock(t)
  <2>1. PICK e \in Cur(t).es : ThenRest(t, e, When(e \in ldBlocked \ cfg.blocked, DoExe("unblock", e, FALSE)))
    BY <1>26 DEF LockdownUnblock
  <2>2. e \in Exes
    BY <1>0, <1>26, <2>1 DEF LockdownUnblock, At
  <2>3. When(e \in ldBlocked \ cfg.blocked, DoExe("unblock", e, FALSE)) \in Program /\ OnlyOps(When(e \in ldBlocked \ cfg.blocked, DoExe("unblock", e, FALSE)), Later)
    BY <2>2, LaterExe DEF Later
  <2>4. QED
    BY <1>26, <2>1, <2>2, <2>3, ThenRestReplaces DEF LockdownUnblock, At, Cur, Later
<1>27. CASE BlockApp(t)
  <2>1. PICK e \in Cur(t).es : ThenRest(t, e, <<>>)
    BY <1>27 DEF BlockApp
  <2>2. e \in Exes
    BY <1>0, <1>27, <2>1 DEF BlockApp, At
  <2>3. <<>> \in Program /\ OnlyOps(<<>>, Later)
    BY <2>2, OnlyOpsProgs DEF Later, Program, OnlyOps
  <2>4. QED
    BY <1>27, <2>1, <2>2, <2>3, ThenRestReplaces DEF BlockApp, At, Cur, Later
<1>28. CASE UnblockApp(t)
  <2>1. PICK e \in Cur(t).es : ThenRest(t, e, <<>>)
    BY <1>28 DEF UnblockApp
  <2>2. e \in Exes
    BY <1>0, <1>28, <2>1 DEF UnblockApp, At
  <2>3. <<>> \in Program /\ OnlyOps(<<>>, Later)
    BY <2>2, OnlyOpsProgs DEF Later, Program, OnlyOps
  <2>4. QED
    BY <1>28, <2>1, <2>2, <2>3, ThenRestReplaces DEF UnblockApp, At, Cur, Later
<1>29. CASE BlockIfOn(t)
  <2>1. PICK e \in Cur(t).es : ThenRest(t, e, When(cfg.fw, DoExe("block", e, FALSE)))
    BY <1>29 DEF BlockIfOn
  <2>2. e \in Exes
    BY <1>0, <1>29, <2>1 DEF BlockIfOn, At
  <2>3. When(cfg.fw, DoExe("block", e, FALSE)) \in Program /\ OnlyOps(When(cfg.fw, DoExe("block", e, FALSE)), Later)
    BY <2>2, LaterExe DEF Later
  <2>4. QED
    BY <1>29, <2>1, <2>2, <2>3, ThenRestReplaces DEF BlockIfOn, At, Cur, Later
<1>30. CASE UnblockUnlisted(t)
  <2>1. PICK e \in Cur(t).es : ThenRest(t, e, When(e \notin cfg.blocked, DoExe("unblock", e, FALSE)))
    BY <1>30 DEF UnblockUnlisted
  <2>2. e \in Exes
    BY <1>0, <1>30, <2>1 DEF UnblockUnlisted, At
  <2>3. When(e \notin cfg.blocked, DoExe("unblock", e, FALSE)) \in Program /\ OnlyOps(When(e \notin cfg.blocked, DoExe("unblock", e, FALSE)), Later)
    BY <2>2, LaterExe DEF Later
  <2>4. QED
    BY <1>30, <2>1, <2>2, <2>3, ThenRestReplaces DEF UnblockUnlisted, At, Cur, Later
<1>31. CASE Scan(t)
  <2>1. PICK e \in Cur(t).es : ThenRest(t, e, When(e \notin decided, Verdict(e)))
    BY <1>31 DEF Scan
  <2>2. e \in Exes
    BY <1>0, <1>31, <2>1 DEF Scan, At
  <2>3. When(e \notin decided, Verdict(e)) \in Program /\ OnlyOps(When(e \notin decided, Verdict(e)), Later)
    BY <2>2, VerdictType, WhenType, LaterVerdict, OnlyOpsWhen DEF Later
  <2>4. QED
    BY <1>31, <2>1, <2>2, <2>3, ThenRestReplaces DEF Scan, At, Cur, Later
<1>32. QED
  BY <1>1, <1>2, <1>3, <1>4, <1>5, <1>6, <1>7, <1>8, <1>9, <1>10, <1>11,
     <1>12, <1>13, <1>14, <1>15, <1>16, <1>17, <1>18, <1>19, <1>20, <1>21,
     <1>22, <1>23, <1>24, <1>25, <1>26, <1>27, <1>28, <1>29, <1>30, <1>31
     DEF Step, RuleStep, SwitchStep, CallStep, SweepStep, LifeStep

-----------------------------------------------------------------------------
(* One instruction of either thread.                                       *)

ShownLast(p) == \A i \in 1..Len(p) : p[i].op = "show_ui" => i = Len(p)

LEMMA ShownLastTail ==
  ASSUME NEW p \in Program, p # <<>>, ShownLast(p)
  PROVE  ShownLast(Tail(p))
<1>0. /\ Len(p) \in Nat /\ Len(Tail(p)) = Len(p) - 1
      /\ \A i \in 1..Len(Tail(p)) : Tail(p)[i] = p[i + 1]
  BY DEF Program
<1>1. ASSUME NEW i \in 1..Len(Tail(p)), Tail(p)[i].op = "show_ui"
      PROVE  i = Len(Tail(p))
  <2>1. i \in Nat /\ (i + 1) \in 1..Len(p) /\ p[i + 1].op = "show_ui"
    BY <1>0, <1>1
  <2>2. i + 1 = Len(p)
    BY <2>1 DEF ShownLast
  <2>3. i = Len(p) - 1
    BY <2>1, <2>2
  <2>4. QED
    BY <1>0, <2>3
<1>2. QED
  BY <1>1 DEF ShownLast

LEMMA ShownLastReplaced ==
  ASSUME NEW s \in Program, NEW p \in Program, p # <<>>,
         OnlyOps(s, Later), ShownLast(p)
  PROVE  /\ ShownLast(s \o Tail(p))
         /\ Head(p).op = "show_ui" => OnlyOps(s \o Tail(p), OpNames \ {"show_ui"})
<1> DEFINE u == Tail(p)
<1>0. /\ Len(p) \in Nat /\ Len(p) > 0 /\ Len(u) = Len(p) - 1 /\ u \in Program
      /\ \A i \in 1..Len(u) : u[i] = p[i + 1]
      /\ Head(p) = p[1]
  BY DEF Program
<1>1. ShownLast(u)
  BY ShownLastTail
<1>4. u \in Program
  BY <1>0
<1> HIDE DEF u
<1>2. ShownLast(s \o u)
  <2> SUFFICES ASSUME NEW i \in 1..Len(s \o u), (s \o u)[i].op = "show_ui"
               PROVE  i = Len(s \o u)
    BY DEF ShownLast
  <2>0. Len(s) \in Nat /\ Len(u) \in Nat /\ Len(s \o u) = Len(s) + Len(u)
    BY <1>4 DEF Program
  <2>1. CASE i \in 1..Len(s)
    <3>1. (s \o u)[i] = s[i]
      BY <1>4, <2>1 DEF Program
    <3>2. QED
      BY <2>1, <3>1 DEF OnlyOps, Later
  <2>2. CASE i \notin 1..Len(s)
    <3>1. (i - Len(s)) \in 1..Len(u) /\ (s \o u)[i] = u[i - Len(s)]
      BY <1>4, <2>0, <2>2 DEF Program
    <3>2. i - Len(s) = Len(u)
      BY <1>1, <3>1 DEF ShownLast
    <3>3. QED
      BY <2>0, <3>2
  <2>3. QED
    BY <2>1, <2>2
<1>3. ASSUME Head(p).op = "show_ui"
      PROVE  OnlyOps(s \o u, OpNames \ {"show_ui"})
  <2>1. Len(p) = 1
    BY <1>0, <1>3 DEF ShownLast
  <2>2. u \in Program /\ OnlyOps(u, OpNames \ {"show_ui"})
    BY <1>0, <2>1 DEF OnlyOps
  <2>3. OnlyOps(s, OpNames \ {"show_ui"})
    BY DEF OnlyOps, Later, OpNames
  <2>4. QED
    BY <2>2, <2>3, OnlyOpsCat
<1>5. QED
  BY <1>2, <1>3 DEF u

(* What LifeInv says of the programs survives an instruction.              *)
LEMMA ReplacedPrograms ==
  ASSUME TypeOK, LifeInv, NEW t \in Threads, prog[t] # <<>>, Replaced(t)
  PROVE  /\ app = "up"
         /\ OnlyOps(prog'["mon"], MonitorOps)
         /\ ShownLast(prog'["gui"])
         /\ ui # "none" \/ Cur(t).op = "show_ui" =>
               OnlyOps(prog'["gui"], OpNames \ {"show_ui"})
         /\ ui = "none" => OnlyOps(prog'["gui"], OpNames \ {"destroy"})
         /\ t = "mon" => Cur(t).op \in MonitorOps
<1>0. PICK s \in Program : OnlyOps(s, Later) /\ Then(t, s)
  BY DEF Replaced
<1>1. /\ prog \in [Threads -> Program] /\ Tail(prog[t]) \in Program
      /\ prog' = [prog EXCEPT ![t] = s \o Tail(prog[t])]
  BY <1>0, TypeSplit, CurType DEF Then
<1>2. app = "up"
  BY DEF LifeInv, Idle
<1>3. CASE t = "mon"
  <2>1. Cur(t).op \in MonitorOps /\ OnlyOps(Tail(prog[t]), MonitorOps)
    BY <1>1, <1>3, OnlyOpsTail DEF LifeInv, Cur
  <2>2. OnlyOps(s, MonitorOps)
    BY <1>0, OnlyOpsMono DEF MonitorOps
  <2>3. OnlyOps(prog'["mon"], MonitorOps) /\ prog'["gui"] = prog["gui"]
    BY <1>1, <1>3, <2>1, <2>2, OnlyOpsCat DEF Threads
  <2>4. QED
    BY <1>2, <1>3, <2>1, <2>3 DEF LifeInv, ShownLast, MonitorOps, Later
<1>4. CASE t = "gui"
  <2> DEFINE p == prog["gui"]
  <2>1. /\ p \in Program /\ p # <<>> /\ Tail(p) \in Program /\ Cur(t) = Head(p)
        /\ prog'["gui"] = s \o Tail(p) /\ prog'["mon"] = prog["mon"]
    BY <1>1, <1>4 DEF Threads, Cur
  <2>2. ShownLast(p)
    BY DEF LifeInv, ShownLast
  <2>3. /\ OnlyOps(s, OpNames \ {"show_ui"})
        /\ OnlyOps(s, OpNames \ {"destroy"})
    BY <1>0 DEF OnlyOps, Later, OpNames
  <2>4. /\ ui # "none" => OnlyOps(p, OpNames \ {"show_ui"})
        /\ ui = "none" => OnlyOps(p, OpNames \ {"destroy"})
        /\ OnlyOps(prog["mon"], MonitorOps)
    BY DEF LifeInv
  <2> HIDE DEF p
  <2>5. /\ ShownLast(prog'["gui"])
        /\ Cur(t).op = "show_ui" => OnlyOps(prog'["gui"], OpNames \ {"show_ui"})
    BY <1>0, <2>1, <2>2, ShownLastReplaced
  <2>6. ui # "none" => OnlyOps(prog'["gui"], OpNames \ {"show_ui"})
    BY <2>1, <2>3, <2>4, OnlyOpsTail, OnlyOpsCat
  <2>7. ui = "none" => OnlyOps(prog'["gui"], OpNames \ {"destroy"})
    BY <2>1, <2>3, <2>4, OnlyOpsTail, OnlyOpsCat
  <2>8. QED
    BY <1>2, <1>4, <2>1, <2>4, <2>5, <2>6, <2>7
<1>5. QED
  BY <1>3, <1>4 DEF Threads

(* A dialog that closes settled still does, unless its question has just   *)
(* been settled; and finish never finds an unsettled question.             *)
LEMMA ReplacedDialogs ==
  ASSUME TypeOK, LifeInv, NEW t \in Threads, prog[t] # <<>>, Replaced(t),
         NEW e, ClosesSettled(prog["gui"], e)
  PROVE  /\ ~(Cur(t).op = "finish" /\ e \in Cur(t).es)
         /\ \/ Cur(t).op \in Settles /\ e \in Cur(t).es
            \/ ClosesSettled(prog'["gui"], e)
<1>0. PICK s \in Program : OnlyOps(s, Later) /\ Then(t, s)
  BY DEF Replaced
<1>1. /\ prog \in [Threads -> Program] /\ Tail(prog[t]) \in Program
      /\ prog' = [prog EXCEPT ![t] = s \o Tail(prog[t])]
  BY <1>0, TypeSplit, CurType DEF Then
<1>2. CASE t = "mon"
  <2>1. Cur(t).op \in MonitorOps
    BY ReplacedPrograms, <1>2
  <2>2. prog'["gui"] = prog["gui"]
    BY <1>1, <1>2 DEF Threads
  <2>3. QED
    BY <2>1, <2>2 DEF MonitorOps, Later
<1>3. CASE t = "gui"
  <2> DEFINE p == prog["gui"]
  <2>1. /\ p \in Program /\ p # <<>> /\ Tail(p) \in Program /\ Cur(t) = Head(p)
        /\ prog'["gui"] = s \o Tail(p) /\ ClosesSettled(p, e)
    BY <1>1, <1>3 DEF Threads, Cur
  <2> HIDE DEF p
  <2>2. ClosesSettled(s, e)
    BY <1>0 DEF OnlyOps, Later, ClosesSettled
  <2>3. QED
    BY <2>1, <2>2, ClosesSettledTail, ClosesSettledCat
<1>4. QED
  BY <1>2, <1>3 DEF Threads

(* LifeInv under an instruction, once the window and the process agree.    *)
LEMMA ReplacedLife ==
  ASSUME TypeOK, LifeInv, NEW t \in Threads, prog[t] # <<>>, Replaced(t),
         app' = app,
         \/ ui' = ui
         \/ ui' # "none" /\ Cur(t).op = "show_ui"
         \/ ui' # "none" /\ ui # "none"
  PROVE  LifeInv'
BY ReplacedPrograms DEF LifeInv, ShownLast

(* Instructions that touch neither the questions nor the dialogs.          *)
LEMMA PlainPrompt ==
  ASSUME TypeOK, PromptInv, NEW t \in Threads, prog[t] # <<>>, Replaced(t),
         Cur(t).op \notin Settles,
         pending' = pending \/ pending' = {}, UNCHANGED <<queue, dialogs, ui, app>>
  PROVE  PromptInv'
<1>1. LifeInv'
  BY ReplacedLife DEF PromptInv
<1>2. ui' = "none" => pending' = {}
  BY DEF PromptInv
<1>3. ASSUME Shown', NEW e \in pending'
      PROVE  Queued(e)' \/ (e \in dialogs' /\ ClosesSettled(prog'["gui"], e))
  BY <1>3, ReplacedDialogs DEF PromptInv, Shown, Queued
<1>4. QED
  BY <1>1, <1>2, <1>3 DEF PromptInv, ClosesSettled

(* Instructions about the questions, the dialogs and the window.           *)
LEMMA SettlePrompt ==
  ASSUME TypeOK, PromptInv, NEW t \in Threads, Replaced(t), AllowSettled(t) \/ Answered(t)
  PROVE  PromptInv'
<1>0. prog[t] # <<>> /\ pending' = pending \ Cur(t).es /\ UNCHANGED <<queue, dialogs, ui, app>>
  BY DEF AllowSettled, Answered, At, uiVars, lifeVars
<1>1. LifeInv'
  BY <1>0, ReplacedLife DEF PromptInv
<1>2. ui' = "none" => pending' = {}
  BY <1>0 DEF PromptInv
<1>3. ASSUME Shown', NEW e \in pending'
      PROVE  Queued(e)' \/ (e \in dialogs' /\ ClosesSettled(prog'["gui"], e))
  <2>1. e \in pending /\ e \notin Cur(t).es
    BY <1>0
  <2>2. QED
    BY <1>0, <1>3, <2>1, ReplacedDialogs DEF PromptInv, Shown, Queued
<1>4. QED
  BY <1>1, <1>2, <1>3 DEF PromptInv, ClosesSettled

LEMMA FinishPrompt ==
  ASSUME TypeOK, PromptInv, NEW t \in Threads, Replaced(t), Finish(t)
  PROVE  PromptInv'
<1>0. /\ prog[t] # <<>> /\ Cur(t).op = "finish" /\ dialogs' = dialogs \ Cur(t).es
      /\ UNCHANGED <<pending, queue, ui, app>>
  BY DEF Finish, At, Cur, ldVars, lifeVars
<1>1. LifeInv'
  BY <1>0, ReplacedLife DEF PromptInv
<1>2. ui' = "none" => pending' = {}
  BY <1>0 DEF PromptInv
<1>3. ASSUME Shown', NEW e \in pending'
      PROVE  Queued(e)' \/ (e \in dialogs' /\ ClosesSettled(prog'["gui"], e))
  <2>1. Queued(e) \/ (e \in dialogs /\ ClosesSettled(prog["gui"], e))
    BY <1>0, <1>3 DEF PromptInv, Shown
  <2>2. CASE Queued(e)
    BY <1>0, <2>2 DEF Queued
  <2>3. CASE e \in dialogs /\ ClosesSettled(prog["gui"], e)
    <3>1. e \notin Cur(t).es /\ ClosesSettled(prog'["gui"], e)
      BY <1>0, <2>3, ReplacedDialogs DEF PromptInv, Settles
    <3>2. QED
      BY <1>0, <2>3, <3>1
  <2>4. QED
    BY <2>1, <2>2, <2>3
<1>4. QED
  BY <1>1, <1>2, <1>3 DEF PromptInv, ClosesSettled

(* A question and its prompt are posted in one step of the sweep.          *)
LEMMA AskPrompt ==
  ASSUME TypeOK, PromptInv, NEW t \in Threads, Replaced(t), Ask(t)
  PROVE  PromptInv'
<1>0. PICK q \in Cur(t).es :
        IF q \notin pending /\ ui # "none"
        THEN /\ pending' = pending \cup {q}
             /\ queue' = IF ui = "shown" THEN Append(queue, q) ELSE queue
        ELSE UNCHANGED <<pending, queue>>
  BY DEF Ask
<1>1. /\ prog[t] # <<>> /\ Cur(t).op = "ask" /\ UNCHANGED <<dialogs, ui, app>>
      /\ q \in Exes
  BY CurType DEF Ask, At, Cur, lifeVars, Instr
<1>2. LifeInv'
  BY <1>1, ReplacedLife DEF PromptInv
<1>3. ui' = "none" => pending' = {}
  BY <1>0, <1>1 DEF PromptInv
<1>4. ASSUME Shown', NEW e \in pending'
      PROVE  Queued(e)' \/ (e \in dialogs' /\ ClosesSettled(prog'["gui"], e))
  <2>0. ui = "shown" /\ queue \in Seq(Exes)
    BY <1>1, <1>4 DEF Shown, TypeOK
  <2>1. ASSUME Queued(e)
        PROVE  Queued(e)'
    <3>1. queue' = queue \/ queue' = Append(queue, q)
      BY <1>0, <2>0
    <3>2. PICK i \in 1..Len(queue) : queue[i] = e
      BY <2>1 DEF Queued
    <3>3. i \in 1..Len(queue') /\ queue'[i] = e
      BY <1>1, <2>0, <3>1, <3>2
    <3>4. QED
      BY <3>3 DEF Queued
  <2>2. CASE e \in pending
    BY <1>1, <1>4, <2>1, <2>2, ReplacedDialogs DEF PromptInv, Shown, Settles
  <2>3. CASE e \notin pending
    <3>1. e = q /\ queue' = Append(queue, q)
      BY <1>0, <1>4, <2>0, <2>3
    <3>2. (Len(queue) + 1) \in 1..Len(queue') /\ queue'[Len(queue) + 1] = e
      BY <1>1, <2>0, <3>1
    <3>3. QED
      BY <3>2 DEF Queued
  <2>4. QED
    BY <2>2, <2>3
<1>5. QED
  BY <1>2, <1>3, <1>4 DEF PromptInv, ClosesSettled

LEMMA WindowPrompt ==
  ASSUME TypeOK, PromptInv, NEW t \in Threads, Replaced(t), ShowUI(t) \/ Destroy(t)
  PROVE  PromptInv'
<1>1. CASE ShowUI(t)
  <2>0. prog[t] # <<>> /\ Cur(t).op = "show_ui" /\ ui' = "shown" /\ UNCHANGED <<pending, app>>
    BY <1>1 DEF ShowUI, At, Cur, ldVars, lifeVars
  <2>1. LifeInv'
    BY <2>0, ReplacedLife DEF PromptInv
  <2>2. t = "gui"
    BY <2>0, ReplacedPrograms DEF PromptInv, MonitorOps, Later, Threads
  <2>3. prog["gui"] \in Program
    BY TypeSplit DEF Threads
  <2>4. ui = "none"
    BY <2>0, <2>2, <2>3, OnlyOpsTail DEF PromptInv, LifeInv, Cur
  <2>5. pending' = {}
    BY <2>0, <2>4 DEF PromptInv
  <2>6. QED
    BY <2>1, <2>5 DEF PromptInv
<1>2. CASE Destroy(t)
  <2>0. prog[t] # <<>> /\ Cur(t).op = "destroy" /\ ui' = "gone" /\ UNCHANGED <<pending, app>>
    BY <1>2 DEF Destroy, At, Cur, ldVars, lifeVars
  <2>1. t = "gui"
    BY <2>0, ReplacedPrograms DEF PromptInv, MonitorOps, Later, Threads
  <2>2. prog["gui"] \in Program
    BY TypeSplit DEF Threads
  <2>3. ui # "none"
    BY <2>0, <2>1, <2>2, OnlyOpsTail DEF PromptInv, LifeInv, Cur
  <2>4. LifeInv'
    BY <2>0, <2>3, ReplacedLife DEF PromptInv
  <2>5. QED
    BY <2>0, <2>4 DEF PromptInv, Shown
<1>3. QED
  BY <1>1, <1>2

(* Every instruction that is not about the questions is plain.             *)
LEMMA StepPrompt ==
  ASSUME TypeOK, PromptInv, NEW t \in Threads, Step(t), ~Exit(t)
  PROVE  PromptInv'
<1>0. prog[t] # <<>> /\ Replaced(t)
  BY StepReplaces
<1>1. CASE SetBlocked(t)
  BY <1>0, <1>1, PlainPrompt DEF SetBlocked, At, Cur, Settles, ldVars, uiVars, lifeVars
<1>2. CASE SetExeTag(t)
  BY <1>0, <1>2, PlainPrompt DEF SetExeTag, At, Cur, Settles, ldVars, uiVars, lifeVars
<1>3. CASE TempAllow(t)
  BY <1>0, <1>3, PlainPrompt DEF TempAllow, At, Cur, Settles, ldVars, uiVars, lifeVars
<1>4. CASE SetFirewallEnabled(t)
  BY <1>0, <1>4, PlainPrompt DEF SetFirewallEnabled, At, Cur, Settles, ldVars, uiVars, lifeVars
<1>5. CASE SetLockdown(t)
  BY <1>0, <1>5, PlainPrompt DEF SetLockdown, At, Cur, Settles, ldVars, uiVars, lifeVars
<1>6. CASE ForgetLockdown(t)
  BY <1>0, <1>6, PlainPrompt DEF ForgetLockdown, At, Cur, Settles, ldVars, uiVars, lifeVars
<1>7. CASE Mark(t)
  BY <1>0, <1>7, PlainPrompt DEF Mark, At, Cur, Settles, ldVars, uiVars, lifeVars
<1>8. CASE Note(t)
  BY <1>0, <1>8, PlainPrompt DEF Note, At, Cur, Settles, ldVars, uiVars, lifeVars
<1>9. CASE StartMonitor(t)
  BY <1>0, <1>9, PlainPrompt DEF StartMonitor, At, Cur, Settles, ldVars, uiVars, lifeVars
<1>10. CASE Halt(t)
  BY <1>0, <1>10, PlainPrompt DEF Halt, At, Cur, Settles, ldVars, uiVars, lifeVars
<1>11. CASE Join(t)
  BY <1>0, <1>11, PlainPrompt DEF Join, At, Cur, Settles, ldVars, uiVars, lifeVars
<1>12. CASE SetAllowed(t)
  BY <1>0, <1>12, PlainPrompt DEF SetAllowed, At, Cur, Settles, ldVars, uiVars, lifeVars
<1>13. CASE SetTagBlocked(t)
  BY <1>0, <1>13, PlainPrompt DEF SetTagBlocked, At, Cur, Settles, ldVars, uiVars, lifeVars
<1>14. CASE SetTagAllowed(t)
  BY <1>0, <1>14, PlainPrompt DEF SetTagAllowed, At, Cur, Settles, ldVars, uiVars, lifeVars
<1>15. CASE RemoveApp(t)
  BY <1>0, <1>15, PlainPrompt DEF RemoveApp, At, Cur, Settles, ldVars, uiVars, lifeVars
<1>16. CASE ApplyBlocks(t)
  BY <1>0, <1>16, PlainPrompt DEF ApplyBlocks, At, Cur, Settles, ldVars, uiVars, lifeVars
<1>17. CASE RemoveAllRules(t)
  BY <1>0, <1>17, PlainPrompt DEF RemoveAllRules, At, Cur, Settles, ldVars, uiVars, lifeVars
<1>18. CASE ClearLockdownBlocks(t)
  BY <1>0, <1>18, PlainPrompt DEF ClearLockdownBlocks, At, Cur, Settles, ldVars, uiVars, lifeVars
<1>19. CASE LockdownUnblock(t)
  BY <1>0, <1>19, PlainPrompt DEF LockdownUnblock, At, Cur, Settles, ldVars, uiVars, lifeVars
<1>20. CASE Save(t)
  BY <1>0, <1>20, PlainPrompt DEF Save, At, Cur, Settles, ldVars, uiVars, lifeVars
<1>21. CASE BlockApp(t)
  BY <1>0, <1>21, PlainPrompt DEF BlockApp, At, Cur, Settles, ldVars, uiVars, lifeVars
<1>22. CASE UnblockApp(t)
  BY <1>0, <1>22, PlainPrompt DEF UnblockApp, At, Cur, Settles, ldVars, uiVars, lifeVars
<1>23. CASE BlockIfOn(t)
  BY <1>0, <1>23, PlainPrompt DEF BlockIfOn, At, Cur, Settles, ldVars, uiVars, lifeVars
<1>24. CASE UnblockUnlisted(t)
  BY <1>0, <1>24, PlainPrompt DEF UnblockUnlisted, At, Cur, Settles, ldVars, uiVars, lifeVars
<1>25. CASE Scan(t)
  BY <1>0, <1>25, PlainPrompt DEF Scan, At, Cur, Settles, ldVars, uiVars, lifeVars
<1>26. QED
  BY <1>0, <1>1, <1>2, <1>3, <1>4, <1>5, <1>6, <1>7, <1>8, <1>9, <1>10,
     <1>11, <1>12, <1>13, <1>14, <1>15, <1>16, <1>17, <1>18, <1>19, <1>20,
     <1>21, <1>22, <1>23, <1>24, <1>25, SettlePrompt, FinishPrompt, AskPrompt,
     WindowPrompt
     DEF Step, RuleStep, SwitchStep, CallStep, SweepStep, LifeStep

-----------------------------------------------------------------------------
(* The handlers.                                                           *)

Handlers ==
  {s \in Program : /\ OnlyOps(s, OpNames \ {"show_ui"})
                   /\ \A e \in Exes : ClosesSettled(s, e)}

LEMMA HandlersCat ==
  ASSUME NEW s \in Handlers, NEW u \in Handlers
  PROVE  s \o u \in Handlers
BY CatType, OnlyOpsCat, ClosesSettledCat DEF Handlers

(* What closes nothing is a handler.                                       *)
LEMMA HandlersOne ==
  ASSUME NEW op \in OpNames \ {"finish", "show_ui"}, NEW es \in SUBSET Exes,
         NEW tag \in Tags \cup {NoTag}, NEW on \in BOOLEAN,
         op \in TagOps => tag \in Tags
  PROVE  <<I(op, es, tag, on)>> \in Handlers
<1>1. <<I(op, es, tag, on)>> \in Program
  BY IType
<1>2. OnlyOps(<<I(op, es, tag, on)>>, OpNames \ {"finish", "show_ui"})
  BY OnlyOpsProgs
<1>3. OnlyOps(<<I(op, es, tag, on)>>, OpNames \ {"show_ui"})
  BY <1>2, OnlyOpsMono
<1>4. QED
  BY <1>1, <1>2, <1>3, NoFinish DEF Handlers

LEMMA HandlersDo ==
  ASSUME NEW op \in OpNames \ (TagOps \cup {"finish", "show_ui"})
  PROVE  /\ Do(op) \in Handlers
         /\ \A e \in Exes, on \in BOOLEAN : DoExe(op, e, on) \in Handlers
BY HandlersOne DEF Do, DoExe

LEMMA HandlersWhen ==
  ASSUME NEW p, NEW s \in Handlers
  PROVE  When(p, s) \in Handlers
<1>1. <<>> \in Handlers
  BY DEF Handlers, Program, OnlyOps, ClosesSettled
<1>2. QED
  BY <1>1 DEF When

LEMMA HandlersPieces ==
  ASSUME NEW e \in Exes, NEW on \in BOOLEAN
  PROVE  /\ SetBlockedProg(e, on) \in Handlers
         /\ SetAllowedProg(e, on) \in Handlers
         /\ \A tag \in Tags \cup {NoTag} : SetExeTagProg(e, tag) \in Handlers
         /\ DoExe("block_if_on", e, FALSE) \in Handlers
         /\ DoExe("unblock", e, FALSE) \in Handlers
         /\ DoExe("remove_app", e, FALSE) \in Handlers
<1>1. /\ DoExe("set_blocked", e, on) \in Handlers
      /\ DoExe("set_allowed", e, on) \in Handlers
      /\ DoExe("allow_settled", e, FALSE) \in Handlers
      /\ DoExe("block_if_on", e, FALSE) \in Handlers
      /\ DoExe("unblock", e, FALSE) \in Handlers
      /\ DoExe("remove_app", e, FALSE) \in Handlers
      /\ Do("save") \in Handlers
  BY HandlersDo DEF OpNames, TagOps
<1>2. \A tag \in Tags \cup {NoTag} : <<I("set_exe_tag", {e}, tag, FALSE)>> \in Handlers
  BY HandlersOne DEF OpNames, TagOps
<1>3. QED
  BY <1>1, <1>2, HandlersCat DEF SetBlockedProg, SetAllowedProg, SetExeTagProg

LEMMA HandlersTag ==
  ASSUME NEW tag \in Tags, NEW on \in BOOLEAN
  PROVE  SetTagBlockedProg(tag, on) \in Handlers /\ SetTagAllowedProg(tag, on) \in Handlers
<1>1. /\ <<I("set_tag_blocked", {}, tag, on)>> \in Handlers
      /\ <<I("set_tag_allowed", {}, tag, on)>> \in Handlers
  BY HandlersOne DEF OpNames, TagOps
<1>2. Do("save") \in Handlers
  BY HandlersDo DEF OpNames, TagOps
<1>3. QED
  BY <1>1, <1>2, HandlersCat DEF SetTagBlockedProg, SetTagAllowedProg

LEMMA HandlersSwitch ==
  ASSUME NEW on \in BOOLEAN
  PROVE  SetFirewallProg(on) \in Handlers /\ Stop \in Handlers
<1>1. <<I("set_firewall", {}, NoTag, on)>> \in Handlers
  BY HandlersOne DEF OpNames, TagOps
<1>2. /\ Do("save") \in Handlers /\ Do("apply_blocks") \in Handlers
      /\ Do("remove_all") \in Handlers /\ Do("halt") \in Handlers
      /\ Do("join") \in Handlers /\ Do("clear") \in Handlers
  BY HandlersDo DEF OpNames, TagOps
<1>3. /\ Do("remove_all") \o Do("remove_all") \in Handlers
      /\ <<I("set_firewall", {}, NoTag, on)>> \o Do("save") \in Handlers
  BY <1>1, <1>2, HandlersCat
<1>4. SetFirewallProg(on) \in Handlers
  BY <1>2, <1>3, HandlersCat DEF SetFirewallProg
<1>5. Stop \in Handlers
  BY <1>2, HandlersCat DEF Stop
<1>6. QED
  BY <1>4, <1>5

(* Each of the four answers settles the question, then closes the dialog.  *)
SettlesIn(p, e) == \E i \in 1..Len(p) : p[i].op \in Settles /\ e \in p[i].es

LEMMA SettlesInCat ==
  ASSUME NEW e, NEW s \in Program, NEW u \in Program, SettlesIn(s, e) \/ SettlesIn(u, e)
  PROVE  SettlesIn(s \o u, e)
<1>1. CASE SettlesIn(s, e)
  <2>1. PICK i \in 1..Len(s) : s[i].op \in Settles /\ e \in s[i].es
    BY <1>1 DEF SettlesIn
  <2>2. i \in 1..Len(s \o u) /\ (s \o u)[i] = s[i]
    BY <2>1 DEF Program
  <2>3. QED
    BY <2>1, <2>2 DEF SettlesIn
<1>2. CASE SettlesIn(u, e)
  <2>1. PICK i \in 1..Len(u) : u[i].op \in Settles /\ e \in u[i].es
    BY <1>2 DEF SettlesIn
  <2>2. (i + Len(s)) \in 1..Len(s \o u) /\ (s \o u)[i + Len(s)] = u[i]
    BY <2>1 DEF Program
  <2>3. QED
    BY <2>1, <2>2 DEF SettlesIn
<1>3. QED
  BY <1>1, <1>2

LEMMA HandlersClose ==
  ASSUME NEW e \in Exes, NEW s \in Handlers, SettlesIn(s, e)
  PROVE  s \o DoExe("finish", e, FALSE) \in Handlers
<1> DEFINE f == DoExe("finish", e, FALSE)
<1>0. s \in Program /\ f \in Program
  BY ExeProgsType DEF Handlers
<1>1. Len(f) = 1 /\ f[1] = I("finish", {e}, NoTag, FALSE)
  BY DEF DoExe
<1>2. OnlyOps(f, OpNames \ {"show_ui"})
  BY OnlyOpsProgs DEF OpNames
<1> HIDE DEF f
<1>3. s \o f \in Program /\ OnlyOps(s \o f, OpNames \ {"show_ui"})
  BY <1>0, <1>2, CatType, OnlyOpsCat DEF Handlers
<1>4. ASSUME NEW x \in Exes
      PROVE  ClosesSettled(s \o f, x)
  <2> SUFFICES ASSUME NEW i \in 1..Len(s \o f),
                      (s \o f)[i].op = "finish", x \in (s \o f)[i].es
               PROVE  \E j \in 1..(i - 1) : /\ (s \o f)[j].op \in Settles
                                            /\ x \in (s \o f)[j].es
    BY DEF ClosesSettled
  <2>0. /\ Len(s) \in Nat /\ Len(f) \in Nat /\ Len(s \o f) = Len(s) + Len(f)
        /\ \A j \in 1..Len(f) : (s \o f)[Len(s) + j] = f[j]
    BY <1>0 DEF Program
  <2>1. CASE i \in 1..Len(s)
    <3>1. (s \o f)[i] = s[i]
      BY <1>0, <2>1 DEF Program
    <3>2. PICK j \in 1..(i - 1) : s[j].op \in Settles /\ x \in s[j].es
      BY <2>1, <3>1 DEF ClosesSettled, Handlers
    <3>3. (s \o f)[j] = s[j]
      BY <1>0, <2>0, <2>1, <3>2 DEF Program
    <3>4. QED
      BY <3>2, <3>3
  <2>2. CASE i \notin 1..Len(s)
    <3>1. i = Len(s) + 1
      BY <1>1, <2>0, <2>2
    <3>2. (s \o f)[i] = f[1]
      <4>1. 1 \in 1..Len(f)
        BY <1>1
      <4>2. QED
        BY <2>0, <3>1, <4>1
    <3>3. x = e
      BY <1>1, <3>2 DEF I
    <3>4. PICK j \in 1..Len(s) : s[j].op \in Settles /\ e \in s[j].es
      BY DEF SettlesIn
    <3>5. j \in 1..(i - 1) /\ (s \o f)[j] = s[j]
      BY <1>0, <2>0, <3>1, <3>4 DEF Program
    <3>6. QED
      BY <3>3, <3>4, <3>5
  <2>3. QED
    BY <2>1, <2>2
<1>5. QED
  BY <1>3, <1>4 DEF Handlers, f

LEMMA AnswerHandler ==
  ASSUME NEW e \in Exes, NEW answer \in {"temp", "allow", "once", "block"}
  PROVE  AnswerProg(e, answer) \o DoExe("finish", e, FALSE) \in Handlers
<1> DEFINE k == DoExe("answered", e, FALSE)
<1>1. /\ DoExe("temp_allow", e, FALSE) \in Handlers
      /\ DoExe("lockdown_unblock", e, FALSE) \in Handlers
      /\ k \in Handlers /\ Do("save") \in Handlers
      /\ DoExe("set_allowed", e, TRUE) \in Handlers
      /\ DoExe("allow_settled", e, FALSE) \in Handlers
      /\ DoExe("block_if_on", e, FALSE) \in Handlers
      /\ SetAllowedProg(e, TRUE) \in Handlers /\ SetBlockedProg(e, TRUE) \in Handlers
  BY HandlersDo, HandlersPieces DEF OpNames, TagOps
<1>2. SettlesIn(k, e) /\ SettlesIn(DoExe("allow_settled", e, FALSE), e)
  <2>1. ASSUME NEW op \in Settles
        PROVE  SettlesIn(DoExe(op, e, FALSE), e)
    <3> DEFINE x == I(op, {e}, NoTag, FALSE)
    <3>1. x.op = op /\ e \in x.es
      BY DEF I
    <3> HIDE DEF x
    <3>2. SettlesIn(<<x>>, e)
      BY <3>1 DEF SettlesIn
    <3>3. QED
      BY <3>2 DEF DoExe, x
  <2>2. QED
    BY <2>1 DEF Settles
<1> HIDE DEF k
<1>3. \A s \in Handlers : s \in Program
  BY DEF Handlers
<1>4. CASE answer = "temp"
  <2>1. /\ AnswerProg(e, answer) = DoExe("temp_allow", e, FALSE)
             \o DoExe("lockdown_unblock", e, FALSE) \o k \o Do("save")
    BY <1>4 DEF AnswerProg, k
  <2>2. /\ DoExe("temp_allow", e, FALSE) \o DoExe("lockdown_unblock", e, FALSE) \in Handlers
        /\ DoExe("temp_allow", e, FALSE) \o DoExe("lockdown_unblock", e, FALSE) \o k \in Handlers
    BY <1>1, HandlersCat
  <2>3. AnswerProg(e, answer) \in Handlers
    BY <1>1, <2>1, <2>2, HandlersCat
  <2>4. SettlesIn(AnswerProg(e, answer), e)
    BY <1>1, <1>2, <1>3, <2>1, <2>2, SettlesInCat
  <2>5. QED
    BY <2>3, <2>4, HandlersClose
<1>5. CASE answer = "allow"
  <2>1. AnswerProg(e, answer) = SetAllowedProg(e, TRUE)
    BY <1>5 DEF AnswerProg
  <2>2. DoExe("set_allowed", e, TRUE) \o DoExe("allow_settled", e, FALSE) \in Handlers
    BY <1>1, HandlersCat
  <2>3. SettlesIn(SetAllowedProg(e, TRUE), e)
    BY <1>1, <1>2, <1>3, <2>2, SettlesInCat DEF SetAllowedProg
  <2>4. QED
    BY <1>1, <2>1, <2>3, HandlersClose
<1>6. CASE answer = "once"
  <2>1. AnswerProg(e, answer) = k
    BY <1>6 DEF AnswerProg, k
  <2>2. QED
    BY <1>1, <1>2, <2>1, HandlersClose
<1>7. CASE answer = "block"
  <2>1. AnswerProg(e, answer) = k \o SetBlockedProg(e, TRUE) \o DoExe("block_if_on", e, FALSE)
    BY <1>7 DEF AnswerProg, k
  <2>2. k \o SetBlockedProg(e, TRUE) \in Handlers
    BY <1>1, HandlersCat
  <2>3. AnswerProg(e, answer) \in Handlers
    BY <1>1, <2>1, <2>2, HandlersCat
  <2>4. SettlesIn(AnswerProg(e, answer), e)
    BY <1>1, <1>2, <1>3, <2>1, <2>2, SettlesInCat
  <2>5. QED
    BY <2>3, <2>4, HandlersClose
<1>8. QED
  BY <1>4, <1>5, <1>6, <1>7

(* A handler starts when the last one has returned: all dialogs of waiting *)
(* executables are open or queued.                                         *)
LEMMA HandlePrompt ==
  ASSUME TypeOK, PromptInv, NEW kind, NEW s \in Handlers, Handle(kind, s)
  PROVE  PromptInv'
<1>1. /\ ui = "shown" /\ prog["gui"] = <<>>
      /\ prog'["gui"] = s /\ prog'["mon"] = prog["mon"]
      /\ UNCHANGED <<pending, queue, dialogs, ui, app, alive>>
  BY TypeSplit DEF Handle, Idle, Threads, ldVars, uiVars
<1>2. app = "up" /\ OnlyOps(prog'["mon"], MonitorOps)
  BY <1>1 DEF PromptInv, LifeInv
<1>3. /\ OnlyOps(prog'["gui"], OpNames \ {"show_ui"})
      /\ \A e \in Exes : ClosesSettled(prog'["gui"], e)
  BY <1>1 DEF Handlers
<1>4. ShownLast(prog'["gui"])
  BY <1>3 DEF OnlyOps, ShownLast
<1>5. LifeInv'
  BY <1>1, <1>2, <1>3, <1>4 DEF LifeInv, ShownLast
<1>6. ASSUME NEW e \in pending'
      PROVE  Queued(e)' \/ (e \in dialogs' /\ ClosesSettled(prog'["gui"], e))
  <2>1. e \in pending /\ e \in Exes
    BY <1>1 DEF TypeOK
  <2>2. QED
    BY <1>1, <1>3, <2>1 DEF PromptInv, Shown, Queued
<1>7. QED
  BY <1>1, <1>5, <1>6 DEF PromptInv, ClosesSettled

LEMMA RuleEventPrompt ==
  ASSUME TypeOK, PromptInv, RuleEvent
  PROVE  PromptInv'
<1>0. Do("save") \in Handlers
  BY HandlersDo DEF OpNames, TagOps
<1>1. ASSUME NEW e \in Exes,
             \/ BlockSelected(e) \/ UnblockSelected(e)
             \/ AllowSelected(e) \/ DisallowSelected(e) \/ RemoveSelected(e)
      PROVE  PromptInv'
  <2>1. SetBlockedProg(e, TRUE) \o DoExe("block_if_on", e, FALSE) \in Handlers
    BY HandlersPieces, HandlersCat
  <2>2. SetBlockedProg(e, FALSE) \o DoExe("unblock", e, FALSE) \in Handlers
    BY HandlersPieces, HandlersCat
  <2>3. SetBlockedProg(e, FALSE) \o DoExe("unblock", e, FALSE)
          \o SetAllowedProg(e, TRUE) \in Handlers
    BY <2>2, HandlersPieces, HandlersCat
  <2>4. SetAllowedProg(e, FALSE) \in Handlers
    BY HandlersPieces
  <2>5. When(e \in cfg.blocked, DoExe("unblock", e, FALSE))
          \o DoExe("remove_app", e, FALSE) \o SetExeTagProg(e, NoTag) \in Handlers
    BY HandlersPieces, HandlersWhen, HandlersCat
  <2>6. QED
    BY <1>1, <2>1, <2>2, <2>3, <2>4, <2>5, HandlePrompt
       DEF BlockSelected, UnblockSelected, AllowSelected, DisallowSelected, RemoveSelected
<1>2. ASSUME NEW e \in Exes, NEW tag \in Tags \cup {NoTag}, TagSelected(e, tag)
      PROVE  PromptInv'
  BY <1>2, HandlersPieces, HandlePrompt DEF TagSelected
<1>3. ASSUME NEW e \in Exes, NEW tag \in Tags \cup {NoTag},
             NEW block \in BOOLEAN, NEW allow \in BOOLEAN, ApplyRule(e, block, allow, tag)
      PROVE  PromptInv'
  <2> DEFINE p1 == When(block /\ e \notin cfg.blocked, DoExe("block_if_on", e, FALSE))
             p2 == When(~block /\ e \in cfg.blocked, DoExe("unblock", e, FALSE))
  <2>1. p1 \in Handlers /\ p2 \in Handlers
    BY HandlersPieces, HandlersWhen
  <2>2. /\ SetAllowedProg(e, allow /\ ~block) \in Handlers
        /\ SetBlockedProg(e, block) \in Handlers /\ SetExeTagProg(e, tag) \in Handlers
    BY HandlersPieces
  <2> HIDE DEF p1, p2
  <2>3. p1 \o p2 \o SetBlockedProg(e, block) \o SetExeTagProg(e, tag) \o Do("save")
          \o SetAllowedProg(e, allow /\ ~block) \in Handlers
    BY <1>0, <2>1, <2>2, HandlersCat
  <2>4. QED
    BY <1>3, <2>3, HandlePrompt DEF ApplyRule, p1, p2
<1>4. ASSUME NEW e \in Exes, NEW answer \in {"temp", "allow", "once", "block"},
             Answer(e, answer)
      PROVE  PromptInv'
  BY <1>4, AnswerHandler, HandlePrompt DEF Answer
<1>5. ASSUME NEW tag \in Tags, NEW block \in BOOLEAN, NEW allow \in BOOLEAN,
             EditTag(tag, block, allow)
      PROVE  PromptInv'
  <2>1. Do("save") \o SetTagBlockedProg(tag, block)
          \o SetTagAllowedProg(tag, allow /\ ~block) \in Handlers
    BY <1>0, HandlersTag, HandlersCat
  <2>2. QED
    BY <1>5, <2>1, HandlePrompt DEF EditTag
<1>6. ASSUME NEW tag \in Tags, RemoveTagRule(tag)
      PROVE  PromptInv'
  <2>1. Do("save") \o SetTagBlockedProg(tag, FALSE) \in Handlers
    BY <1>0, HandlersTag, HandlersCat
  <2>2. QED
    BY <1>6, <2>1, HandlePrompt DEF RemoveTagRule
<1>7. QED
  BY <1>1, <1>2, <1>3, <1>4, <1>5, <1>6 DEF RuleEvent

LEMMA SwitchEventPrompt ==
  ASSUME TypeOK, PromptInv, SwitchEvent
  PROVE  PromptInv'
<1>0. /\ Do("save") \in Handlers /\ Do("clear") \in Handlers
      /\ Do("destroy") \in Handlers /\ Do("exit") \in Handlers
  BY HandlersDo DEF OpNames, TagOps
<1>1. (~cfg.fw) \in BOOLEAN /\ (~cfg.lock) \in BOOLEAN
  OBVIOUS
<1>2. CASE ToggleFirewall
  BY <1>1, <1>2, HandlersSwitch, HandlePrompt DEF ToggleFirewall
<1>3. CASE ToggleLockdown
  <2>1. /\ When(~cfg.lock /\ ~cfg.fw, SetFirewallProg(TRUE)) \in Handlers
        /\ When(cfg.lock, Do("clear")) \in Handlers
    BY <1>0, HandlersSwitch, HandlersWhen
  <2>2. <<I("set_lockdown", {}, NoTag, ~cfg.lock)>> \in Handlers
    BY <1>1, HandlersOne DEF OpNames, TagOps
  <2>3. When(~cfg.lock /\ ~cfg.fw, SetFirewallProg(TRUE))
          \o <<I("set_lockdown", {}, NoTag, ~cfg.lock)>> \o Do("save")
          \o When(cfg.lock, Do("clear")) \in Handlers
    BY <1>0, <2>1, <2>2, HandlersCat
  <2>4. QED
    BY <1>3, <2>3, HandlePrompt DEF ToggleLockdown
<1>4. CASE Close
  <2>1. Do("save") \o Stop \o Do("destroy") \o Stop \o Do("exit") \in Handlers
    BY <1>0, HandlersSwitch, HandlersCat
  <2>2. QED
    BY <1>4, <2>1, HandlePrompt DEF Close
<1>5. QED
  BY <1>2, <1>3, <1>4 DEF SwitchEvent

-----------------------------------------------------------------------------
(* The monitor loop, the prompts, the life of the process.                 *)

LEMMA TickPrompt ==
  ASSUME TypeOK, PromptInv, Tick
  PROVE  PromptInv'
<1>1. PICK s \in Program : OnlyOps(s, MonitorOps) /\ prog' = [prog EXCEPT !["mon"] = s]
  <2>1. CASE cfg.lock /\ cfg.fw
    <3>1. PICK es \in SUBSET Exes :
            prog' = [prog EXCEPT !["mon"] = Loop("scan", Busy \cup es)]
      BY <2>1 DEF Tick
    <3>2. /\ Loop("scan", Busy \cup es) \in Program
          /\ OnlyOps(Loop("scan", Busy \cup es), MonitorOps)
      BY SetsAssumption, LoopType, OnlyOpsProgs DEF OpNames, TagOps, MonitorOps, Later
    <3>3. QED
      BY <3>1, <3>2
  <2>2. CASE ~(cfg.lock /\ cfg.fw)
    <3>1. /\ When(ldBlocked # {}, Do("clear")) \in Program
          /\ OnlyOps(When(ldBlocked # {}, Do("clear")), MonitorOps)
      BY DoType, WhenType, OnlyOpsProgs, OnlyOpsWhen DEF OpNames, TagOps, MonitorOps
    <3>2. QED
      BY <2>2, <3>1 DEF Tick
  <2>3. QED
    BY <2>1, <2>2
<1>2. prog'["gui"] = prog["gui"] /\ prog'["mon"] = s
  BY <1>1, TypeSplit DEF Threads
<1>3. alive /\ UNCHANGED <<pending, queue, dialogs, ui, app, alive>>
  BY DEF Tick, uiVars, lifeVars
<1>4. LifeInv'
  BY <1>1, <1>2, <1>3 DEF PromptInv, LifeInv
<1>5. QED
  BY <1>2, <1>3, <1>4 DEF PromptInv, Shown, Queued, ClosesSettled

(* The program of a start shows the window last and destroys nothing.      *)
LEMMA BootPrompt ==
  ASSUME TypeOK, PromptInv, Boot
  PROVE  PromptInv'
<1> DEFINE ops == OpNames \ {"show_ui", "destroy"}
           first == IF disk.fw THEN Do("apply_blocks")
                               ELSE Do("remove_all") \o Do("remove_all")
           u == first \o Do("save") \o Do("start_monitor")
           w == Do("show_ui")
<1>1. /\ Do("apply_blocks") \in Program /\ Do("remove_all") \in Program
      /\ Do("save") \in Program /\ Do("start_monitor") \in Program /\ w \in Program
  BY DoType DEF OpNames, TagOps
<1>2. /\ OnlyOps(Do("apply_blocks"), ops) /\ OnlyOps(Do("remove_all"), ops)
      /\ OnlyOps(Do("save"), ops) /\ OnlyOps(Do("start_monitor"), ops)
      /\ OnlyOps(w, OpNames \ {"destroy"})
  BY OnlyOpsProgs DEF OpNames
<1>3. Len(w) = 1
  BY DEF Do
<1> HIDE DEF ops
<1>4. first \in Program /\ OnlyOps(first, ops)
  BY <1>1, <1>2, CatType, OnlyOpsCat
<1> HIDE DEF first
<1>5. first \o Do("save") \in Program /\ OnlyOps(first \o Do("save"), ops)
  BY <1>1, <1>2, <1>4, CatType, OnlyOpsCat
<1>6. u \in Program /\ OnlyOps(u, ops)
  BY <1>1, <1>2, <1>5, CatType, OnlyOpsCat
<1>7. prog'["gui"] = u \o w /\ prog'["mon"] = prog["mon"]
  BY TypeSplit DEF Boot, Threads, first
<1> HIDE DEF u, w
<1>8. u \o w \in Program /\ OnlyOps(u \o w, OpNames \ {"destroy"})
  <2>1. OnlyOps(u, OpNames \ {"destroy"})
    BY <1>6, OnlyOpsMono DEF ops
  <2>2. QED
    BY <1>1, <1>2, <1>6, <2>1, CatType, OnlyOpsCat
<1>9. ShownLast(u \o w)
  <2> SUFFICES ASSUME NEW i \in 1..Len(u \o w), (u \o w)[i].op = "show_ui"
               PROVE  i = Len(u \o w)
    BY DEF ShownLast
  <2>1. Len(u) \in Nat /\ Len(w) \in Nat /\ Len(u \o w) = Len(u) + Len(w)
    BY <1>1, <1>6 DEF Program
  <2>2. i \notin 1..Len(u)
    <3>1. SUFFICES ASSUME i \in 1..Len(u) PROVE FALSE
      OBVIOUS
    <3>2. (u \o w)[i] = u[i]
      BY <1>1, <1>6, <3>1 DEF Program
    <3>3. QED
      BY <1>6, <3>1, <3>2 DEF OnlyOps, ops
  <2>3. QED
    BY <1>3, <2>1, <2>2
<1>10. app' = "up" /\ ui = "none" /\ UNCHANGED <<pending, ui>>
  BY DEF Boot, PromptInv, LifeInv, ldVars, uiVars
<1>11. LifeInv'
  BY <1>7, <1>8, <1>9, <1>10 DEF LifeInv, PromptInv, ShownLast
<1>12. QED
  BY <1>10, <1>11 DEF PromptInv, Shown

(* Tk opens the dialog it takes from its queue.                            *)
LEMMA ShowPromptPrompt ==
  ASSUME TypeOK, PromptInv, ShowPrompt
  PROVE  PromptInv'
<1>1. /\ ui = "shown" /\ prog["gui"] = <<>> /\ queue # <<>> /\ queue \in Seq(Exes)
      /\ dialogs' = dialogs \cup {Head(queue)} /\ queue' = Tail(queue)
      /\ UNCHANGED <<pending, ui, app, alive, prog>>
  BY DEF ShowPrompt, Idle, ldVars, lifeVars, TypeOK
<1>2. LifeInv'
  BY <1>1 DEF PromptInv, LifeInv, Idle
<1>3. ASSUME NEW e \in pending'
      PROVE  Queued(e)' \/ (e \in dialogs' /\ ClosesSettled(prog'["gui"], e))
  <2>1. ClosesSettled(prog'["gui"], e)
    BY <1>1 DEF ClosesSettled
  <2>2. Queued(e) \/ e \in dialogs
    BY <1>1, <1>3 DEF PromptInv, Shown
  <2>3. CASE Queued(e)
    <3>1. PICK i \in 1..Len(queue) : queue[i] = e
      BY <2>3 DEF Queued
    <3>2. CASE i = 1
      BY <1>1, <2>1, <3>1, <3>2
    <3>3. CASE i # 1
      <4>1. (i - 1) \in 1..Len(queue') /\ queue'[i - 1] = e
        BY <1>1, <3>1, <3>3
      <4>2. QED
        BY <4>1 DEF Queued
    <3>4. QED
      BY <3>2, <3>3
  <2>4. QED
    BY <1>1, <2>1, <2>2, <2>3
<1>4. QED
  BY <1>1, <1>2, <1>3 DEF PromptInv, ClosesSettled

(* A process that ends takes its window and its questions with it.         *)
LEMMA MemoryLostPrompt ==
  ASSUME MemoryLost
  PROVE  PromptInv'
<1>1. ui' = "none" /\ pending' = {} /\ alive' = FALSE /\ prog' = [t \in Threads |-> <<>>]
  BY DEF MemoryLost
<1>2. LifeInv'
  BY <1>1 DEF LifeInv, Idle, OnlyOps, Threads
<1>3. QED
  BY <1>1, <1>2 DEF PromptInv, Shown

LEMMA InitPrompt == Init => PromptInv
<1>1. ASSUME Init
      PROVE  PromptInv
  <2>1. ui = "none" /\ pending = {} /\ alive = FALSE /\ prog = [t \in Threads |-> <<>>]
    BY <1>1 DEF Init
  <2>2. LifeInv
    BY <2>1 DEF LifeInv, Idle, OnlyOps, Threads
  <2>3. QED
    BY <2>1, <2>2 DEF PromptInv, Shown
<1>2. QED
  BY <1>1

LEMMA NextPrompt == TypeOK /\ PromptInv /\ [Next]_vars => PromptInv'
<1> SUFFICES ASSUME TypeOK, PromptInv, [Next]_vars
             PROVE  PromptInv'
  OBVIOUS
<1>1. ASSUME NEW t \in Threads, Step(t)
      PROVE  PromptInv'
  <2>1. CASE Exit(t)
    BY <2>1, MemoryLostPrompt DEF Exit
  <2>2. QED
    BY <1>1, <2>1, StepPrompt
<1>2. CASE MonitorEnds
  BY <1>2 DEF MonitorEnds, PromptInv, LifeInv, Idle, Shown, Queued, ldVars, uiVars
<1>3. CASE Crash
  BY <1>3, MemoryLostPrompt DEF Crash
<1>4. CASE \E e \in Exes : Expire(e)
  BY <1>4 DEF Expire, PromptInv, LifeInv, Idle, Shown, Queued, uiVars, lifeVars
<1>5. CASE UNCHANGED vars
  BY <1>5 DEF vars, PromptInv, LifeInv, Idle, Shown, Queued, ldVars, uiVars, lifeVars
<1>6. QED
  BY <1>1, <1>2, <1>3, <1>4, <1>5, TickPrompt, BootPrompt, ShowPromptPrompt,
     RuleEventPrompt, SwitchEventPrompt DEF Next

(* Whoever is in _lockdown_pending has its dialog open or on the way: an   *)
(* executable the sweep has blocked never waits, unasked, for an answer    *)
(* nobody can give.                                                        *)
THEOREM AskedIsPrompted == Spec => []PendingIsPrompted
<1>1. PromptInv => PendingIsPrompted
  BY DEF PromptInv, PendingIsPrompted, Queued
<1>2. QED
  BY <1>1, TypeCorrect, InitPrompt, NextPrompt, PTL DEF Spec

=============================================================================
