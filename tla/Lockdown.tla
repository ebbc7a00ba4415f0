------------------------------ MODULE Lockdown ------------------------------
(***************************************************************************)
(* The application rules of Net-Peekier and the two threads that enforce   *)
(* them: the GUI thread, which runs every handler of the windows, and the  *)
(* monitor thread, whose tick ends in Monitor._lockdown_sweep.  The two    *)
(* share Settings and the lockdown sets without a lock; netsh calls and    *)
(* file writes take long and let the other thread in.                      *)
(*                                                                         *)
(* A thread is a program: the sequence of instructions it still has to     *)
(* run.  A handler puts its program there, each instruction is one action, *)
(* and the programs of the two threads interleave.  An instruction is a    *)
(* netsh call, a save, or the memory accesses between two of those.        *)
(***************************************************************************)
EXTENDS Naturals, Sequences, FiniteSets

CONSTANTS Exes,       \* executable paths
          Valid,      \* those firewall._valid_exe accepts
          Own,        \* those os.path.normcase maps to _own_exe()
          Busy,       \* those that use the WAN in every tick
          Tags,       \* group tags
          NoTag,      \* absence of a tag
          Disks,      \* settings files the application may find at first
          Ops,        \* kinds of user action considered in this instance
          MaxOps,     \* bound: user actions
          MaxCrashes, \* bound: process kills
          MaxBoots,   \* bound: starts of the application
          JoinWaits   \* TRUE: the sweep ends within the join timeout

OpKinds == {"block", "unblock", "allow", "disallow", "tag", "edit_tag",
            "rule", "remove", "firewall", "lockdown", "answer", "quit"}

Settings == [blocked: SUBSET Exes, allowed: SUBSET Exes,
             tagOf: [Exes -> Tags \cup {NoTag}],
             tagBlocked: SUBSET Tags, tagAllowed: SUBSET Tags,
             fw: BOOLEAN, lock: BOOLEAN]

ASSUME SetsAssumption == Valid \subseteq Exes /\ Own \subseteq Exes /\ Busy \subseteq Exes
ASSUME TagAssumption == NoTag \notin Tags
ASSUME DisksAssumption == Disks \subseteq Settings
ASSUME OpsAssumption == Ops \subseteq OpKinds
ASSUME BoundsAssumption == MaxOps \in Nat /\ MaxCrashes \in Nat /\ MaxBoots \in Nat
ASSUME FlagsAssumption == JoinWaits \in BOOLEAN

VARIABLES
  cfg,       \* Monitor.settings, in memory
  disk,      \* settings.txt
  osRules,   \* executables Windows blocks by a "NetPeekier block" rule
  ldBlocked, \* Monitor._lockdown_blocked
  pending,   \* Monitor._lockdown_pending
  decided,   \* Monitor._lockdown_decided
  temp,      \* Monitor._temp_allow: no entry, a live one or an expired one
  queue,     \* prompts handed to Tk with after(), oldest first
  dialogs,   \* NetPeekierApp._lockdown_dialogs
  prog,      \* what each thread still has to run
  app,       \* the process: not started yet, up, quit or killed
  ui,        \* the main window: not built, shown or destroyed
  running,   \* Monitor._running
  alive,     \* the monitor thread exists
  left       \* what remains of the bounds

ldVars == <<ldBlocked, pending, decided, temp>>
uiVars == <<queue, dialogs, ui>>
lifeVars == <<app, running, alive, left>>
vars == <<cfg, disk, osRules, ldVars, uiVars, prog, lifeVars>>

Threads == {"gui", "mon"}

OpNames == {"save", "block", "unblock", "block_if_on", "unblock_unlisted",
            "set_blocked", "set_allowed", "allow_settled", "set_exe_tag",
            "set_tag_blocked", "set_tag_allowed", "lockdown_unblock",
            "temp_allow", "answered", "finish", "set_firewall", "apply_blocks",
            "remove_all", "set_lockdown", "clear", "forget", "remove_app",
            "start_monitor", "show_ui", "halt", "join", "destroy", "exit",
            "scan", "mark", "note", "ask"}

(* An instruction: its name, the executables it is still to be run for (a  *)
(* loop body keeps the rest of the loop here), a tag and a flag.  The tag  *)
(* handlers return at once when there is no tag.                           *)
TagOps == {"set_tag_blocked", "set_tag_allowed"}
Instr == {i \in [op: OpNames, es: SUBSET Exes, tag: Tags \cup {NoTag}, on: BOOLEAN] :
            i.op \in TagOps => i.tag \in Tags}

I(op, es, tag, on) == [op |-> op, es |-> es, tag |-> tag, on |-> on]
Do(op) == <<I(op, {}, NoTag, FALSE)>>
DoExe(op, e, on) == <<I(op, {e}, NoTag, on)>>
Loop(op, es) == IF es = {} THEN <<>> ELSE <<I(op, es, NoTag, FALSE)>>
When(p, s) == IF p THEN s ELSE <<>>

-----------------------------------------------------------------------------
(* Views of the settings.                                                  *)

Members(c, tag) == {e \in Exes : c.tagOf[e] = tag}
TagBlocked(c) == {e \in Exes : c.tagOf[e] \in c.tagBlocked}
UserBlocked(c) == c.blocked \cup TagBlocked(c)
PermAllowed(c, e) == e \in c.allowed \/ c.tagOf[e] \in c.tagAllowed
IsAllowed(e) == PermAllowed(cfg, e) \/ temp[e] = "live"
Exempt == Own \cup (Exes \ Valid)

NoTemp == [e \in Exes |-> "none"]

TypeOK ==
  /\ cfg \in Settings
  /\ disk \in Settings
  /\ osRules \in SUBSET Valid
  /\ ldBlocked \in SUBSET Exes
  /\ pending \in SUBSET Exes
  /\ decided \in SUBSET Exes
  /\ temp \in [Exes -> {"none", "live", "expired"}]
  /\ queue \in Seq(Exes)
  /\ dialogs \in SUBSET Exes
  /\ prog \in [Threads -> Seq(Instr)]
  /\ app \in {"new", "up", "quit", "crashed"}
  /\ ui \in {"none", "shown", "gone"}
  /\ running \in BOOLEAN
  /\ alive \in BOOLEAN
  /\ left \in [ops: Nat, crashes: Nat, boots: Nat]

Init ==
  /\ disk \in Disks
  /\ cfg = disk
  /\ osRules = IF disk.fw THEN UserBlocked(disk) \cap Valid ELSE {}
  /\ ldBlocked = {} /\ pending = {} /\ decided = {} /\ temp = NoTemp
  /\ queue = <<>> /\ dialogs = {} /\ ui = "none"
  /\ prog = [t \in Threads |-> <<>>]
  /\ app = "new" /\ running = FALSE /\ alive = FALSE
  /\ left = [ops |-> MaxOps, crashes |-> MaxCrashes, boots |-> MaxBoots]

-----------------------------------------------------------------------------
(* Running a thread.                                                       *)

Idle(t) == prog[t] = <<>>
Cur(t) == Head(prog[t])

At(t, op) == prog[t] # <<>> /\ Head(prog[t]).op = op

(* Replace the current instruction by the instructions s.                  *)
Then(t, s) == prog' = [prog EXCEPT ![t] = s \o Tail(prog[t])]
Advance(t) == Then(t, <<>>)

(* The loop body has started on e: s, then the rest of the loop.           *)
ThenRest(t, e, s) ==
  LET c == Head(prog[t])
  IN Then(t, s \o Loop(c.op, c.es \ {e}))

-----------------------------------------------------------------------------
(* netsh and the settings file: firewall.block_app, firewall.unblock_app,  *)
(* Settings.save.  The callers drop the return codes or only report them.  *)

Save(t) ==
  /\ At(t, "save")
  /\ disk' = cfg
  /\ Advance(t)
  /\ UNCHANGED <<cfg, osRules, ldVars, uiVars, lifeVars>>

BlockAppUnchecked(t) ==  \* mutant: block_app without the _valid_exe test
  /\ At(t, "block")
  /\ \E e \in Cur(t).es : osRules' = osRules \cup {e} /\ ThenRest(t, e, <<>>)
  /\ UNCHANGED <<cfg, disk, ldVars, uiVars, lifeVars>>

BlockApp(t) ==
  /\ At(t, "block")
  /\ \E e \in Cur(t).es :
       /\ osRules' = osRules \cup ({e} \cap Valid)
       /\ ThenRest(t, e, <<>>)
  /\ UNCHANGED <<cfg, disk, ldVars, uiVars, lifeVars>>

UnblockApp(t) ==
  /\ At(t, "unblock")
  /\ \E e \in Cur(t).es :
       /\ osRules' = osRules \ {e}
       /\ ThenRest(t, e, <<>>)
  /\ UNCHANGED <<cfg, disk, ldVars, uiVars, lifeVars>>

(* if settings.firewall_enabled: firewall.block_app(exe)                   *)
BlockIfOn(t) ==
  /\ At(t, "block_if_on")
  /\ \E e \in Cur(t).es : ThenRest(t, e, When(cfg.fw, DoExe("block", e, FALSE)))
  /\ UNCHANGED <<cfg, disk, osRules, ldVars, uiVars, lifeVars>>

(* if exe not in settings.blocked_exes: firewall.unblock_app(exe)          *)
UnblockUnlisted(t) ==
  /\ At(t, "unblock_unlisted")
  /\ \E e \in Cur(t).es :
       ThenRest(t, e, When(e \notin cfg.blocked, DoExe("unblock", e, FALSE)))
  /\ UNCHANGED <<cfg, disk, osRules, ldVars, uiVars, lifeVars>>

-----------------------------------------------------------------------------
(* The methods of Monitor that edit the rules, up to their next netsh call *)
(* or save.                                                                *)

SetBlocked(t) ==
  /\ At(t, "set_blocked")
  /\ LET es == Cur(t).es IN
       /\ cfg' = [cfg EXCEPT !.blocked = IF Cur(t).on THEN @ \cup es ELSE @ \ es]
       /\ decided' = decided \ es
  /\ Advance(t)
  /\ UNCHANGED <<disk, osRules, ldBlocked, pending, temp, uiVars, lifeVars>>

LockdownUnblockKeeps(t) ==  \* mutant: _lockdown_blocked.discard is missing
  /\ At(t, "lockdown_unblock")
  /\ \E e \in Cur(t).es :
       /\ decided' = decided \ {e}
       /\ ThenRest(t, e, When(e \in ldBlocked \ cfg.blocked, DoExe("unblock", e, FALSE)))
  /\ UNCHANGED <<cfg, disk, osRules, ldBlocked, pending, temp, uiVars, lifeVars>>

LockdownUnblockAlways(t) ==  \* mutant: the user's own block is not looked at
  /\ At(t, "lockdown_unblock")
  /\ \E e \in Cur(t).es :
       /\ decided' = decided \ {e}
       /\ ldBlocked' = ldBlocked \ {e}
       /\ ThenRest(t, e, When(e \in ldBlocked, DoExe("unblock", e, FALSE)))
  /\ UNCHANGED <<cfg, disk, osRules, pending, temp, uiVars, lifeVars>>

(* Monitor._lockdown_unblock and _lockdown_discard_and_unblock: the netsh  *)
(* call follows, unless the user blocks the executable too.                *)
LockdownUnblock(t) ==
  /\ At(t, "lockdown_unblock")
  /\ \E e \in Cur(t).es :
       /\ decided' = decided \ {e}
       /\ ldBlocked' = ldBlocked \ {e}
       /\ ThenRest(t, e, When(e \in ldBlocked \ cfg.blocked, DoExe("unblock", e, FALSE)))
  /\ UNCHANGED <<cfg, disk, osRules, pending, temp, uiVars, lifeVars>>

SetAllowed(t) ==
  /\ At(t, "set_allowed")
  /\ LET es == Cur(t).es IN
       /\ cfg' = [cfg EXCEPT !.allowed = IF Cur(t).on THEN @ \cup es ELSE @ \ es]
       /\ Then(t, When(Cur(t).on, Loop("lockdown_unblock", es)))
  /\ UNCHANGED <<disk, osRules, ldVars, uiVars, lifeVars>>

AllowSettled(t) ==
  /\ At(t, "allow_settled")
  /\ pending' = pending \ Cur(t).es
  /\ decided' = decided \ Cur(t).es
  /\ Advance(t)
  /\ UNCHANGED <<cfg, disk, osRules, ldBlocked, temp, uiVars, lifeVars>>

SetExeTag(t) ==
  /\ At(t, "set_exe_tag")
  /\ cfg' = [cfg EXCEPT !.tagOf =
               [e \in Exes |-> IF e \in Cur(t).es THEN Cur(t).tag ELSE @[e]]]
  /\ Advance(t)
  /\ UNCHANGED <<disk, osRules, ldVars, uiVars, lifeVars>>

SetTagBlocked(t) ==
  /\ At(t, "set_tag_blocked")
  /\ LET tag == Cur(t).tag IN
       /\ cfg' = [cfg EXCEPT !.tagBlocked =
                    IF Cur(t).on THEN @ \cup {tag} ELSE @ \ {tag}]
       /\ Then(t, Loop(IF Cur(t).on THEN "block_if_on" ELSE "unblock_unlisted",
                       Members(cfg, tag)))
  /\ UNCHANGED <<disk, osRules, ldVars, uiVars, lifeVars>>

SetTagAllowed(t) ==
  /\ At(t, "set_tag_allowed")
  /\ LET tag == Cur(t).tag IN
       /\ cfg' = [cfg EXCEPT !.tagAllowed =
                    IF Cur(t).on THEN @ \cup {tag} ELSE @ \ {tag}]
       /\ decided' = IF Cur(t).on THEN decided ELSE decided \ Members(cfg, tag)
       /\ Then(t, When(Cur(t).on, Loop("lockdown_unblock", Members(cfg, tag))))
  /\ UNCHANGED <<disk, osRules, ldBlocked, pending, temp, uiVars, lifeVars>>

(* Monitor.remove_app: the block and its OS rule, the tag; limits are not  *)
(* modelled here.                                                          *)
RemoveApp(t) ==
  /\ At(t, "remove_app")
  /\ LET es == Cur(t).es IN
       /\ cfg' = [cfg EXCEPT !.blocked = @ \ es]
       /\ Then(t, Loop("unblock", es \cap cfg.blocked))
  /\ UNCHANGED <<disk, osRules, ldVars, uiVars, lifeVars>>

TempAllow(t) ==
  /\ At(t, "temp_allow")
  /\ temp' = [e \in Exes |-> IF e \in Cur(t).es THEN "live" ELSE temp[e]]
  /\ Advance(t)
  /\ UNCHANGED <<cfg, disk, osRules, ldBlocked, pending, decided, uiVars, lifeVars>>

Answered(t) ==
  /\ At(t, "answered")
  /\ pending' = pending \ Cur(t).es
  /\ Advance(t)
  /\ UNCHANGED <<cfg, disk, osRules, ldBlocked, decided, temp, uiVars, lifeVars>>

(* LockdownPrompt._finish                                                  *)
Finish(t) ==
  /\ At(t, "finish")
  /\ dialogs' = dialogs \ Cur(t).es
  /\ Advance(t)
  /\ UNCHANGED <<cfg, disk, osRules, ldVars, queue, ui, lifeVars>>

-----------------------------------------------------------------------------
(* The two switches.                                                       *)

SetFirewallEnabled(t) ==
  /\ At(t, "set_firewall")
  /\ cfg' = [cfg EXCEPT !.fw = Cur(t).on]
  /\ Advance(t)
  /\ UNCHANGED <<disk, osRules, ldVars, uiVars, lifeVars>>

(* every configured block is put into force                                *)
ApplyBlocks(t) ==
  /\ At(t, "apply_blocks")
  /\ Then(t, Loop("block", UserBlocked(cfg)))
  /\ UNCHANGED <<cfg, disk, osRules, ldVars, uiVars, lifeVars>>

(* one of the two passes of firewall.remove_all_rules: list, then delete   *)
RemoveAllRules(t) ==
  /\ At(t, "remove_all")
  /\ Then(t, Loop("unblock", osRules))
  /\ UNCHANGED <<cfg, disk, osRules, ldVars, uiVars, lifeVars>>

SetLockdown(t) ==
  /\ At(t, "set_lockdown")
  /\ cfg' = [cfg EXCEPT !.lock = Cur(t).on]
  /\ Advance(t)
  /\ UNCHANGED <<disk, osRules, ldVars, uiVars, lifeVars>>

(* Monitor._clear_lockdown_blocks: iterate over a snapshot of the set, ... *)
ClearLockdownBlocks(t) ==
  /\ At(t, "clear")
  /\ Then(t, Loop("unblock_unlisted", ldBlocked) \o Do("forget"))
  /\ UNCHANGED <<cfg, disk, osRules, ldVars, uiVars, lifeVars>>

(* ... then empty the four lockdown collections, whatever they hold by now *)
ForgetLockdown(t) ==
  /\ At(t, "forget")
  /\ ldBlocked' = {} /\ pending' = {} /\ decided' = {} /\ temp' = NoTemp
  /\ Advance(t)
  /\ UNCHANGED <<cfg, disk, osRules, uiVars, lifeVars>>

-----------------------------------------------------------------------------
(* The monitor thread: Monitor._loop, _tick and _lockdown_sweep.           *)

TickNeverClears ==  \* mutant: with a mode off the sweep just returns
  /\ alive /\ running /\ Idle("mon") /\ cfg.lock /\ cfg.fw
  /\ LET old == {e \in Exes : temp[e] = "expired"} IN
       /\ temp' = [e \in Exes |-> IF e \in old THEN "none" ELSE temp[e]]
       /\ decided' = decided \ old
  /\ \E es \in SUBSET Exes : prog' = [prog EXCEPT !["mon"] = Loop("scan", Busy \cup es)]
  /\ UNCHANGED <<cfg, disk, osRules, ldBlocked, pending, uiVars, lifeVars>>

(* The head of the sweep.  With a mode off it lifts what it still holds;   *)
(* otherwise it drops the expired passes and goes through the processes    *)
(* that use the WAN in this tick.                                          *)
Tick ==
  /\ alive /\ running /\ Idle("mon")
  /\ IF cfg.lock /\ cfg.fw
     THEN LET old == {e \in Exes : temp[e] = "expired"} IN
            /\ temp' = [e \in Exes |-> IF e \in old THEN "none" ELSE temp[e]]
            /\ decided' = decided \ old
            /\ \E es \in SUBSET Exes :
                 prog' = [prog EXCEPT !["mon"] = Loop("scan", Busy \cup es)]
     ELSE /\ prog' = [prog EXCEPT !["mon"] = When(ldBlocked # {}, Do("clear"))]
          /\ UNCHANGED <<temp, decided>>
  /\ UNCHANGED <<cfg, disk, osRules, ldBlocked, pending, uiVars, lifeVars>>

VerdictTooEarly(e) ==  \* mutant: decided before block_app has run
  IF e \in Exempt \/ IsAllowed(e) \/ e \in cfg.blocked \cup ldBlocked
  THEN DoExe("mark", e, FALSE)
  ELSE DoExe("mark", e, FALSE) \o DoExe("block", e, FALSE)
       \o DoExe("note", e, FALSE) \o DoExe("ask", e, FALSE)

(* What the sweep does next about a WAN user it has not decided yet.       *)
Verdict(e) ==
  CASE e \in Exempt -> DoExe("mark", e, FALSE)
    [] e \notin Exempt /\ (IsAllowed(e) \/ e \in cfg.blocked) ->
         When(temp[e] = "none", DoExe("mark", e, FALSE))
    [] e \notin Exempt /\ ~IsAllowed(e) /\ e \notin cfg.blocked /\ e \in ldBlocked ->
         DoExe("mark", e, FALSE)
    [] OTHER ->
         DoExe("block", e, FALSE) \o DoExe("note", e, FALSE) \o DoExe("ask", e, FALSE)

Scan(t) ==
  /\ At(t, "scan")
  /\ \E e \in Cur(t).es : ThenRest(t, e, When(e \notin decided, Verdict(e)))
  /\ UNCHANGED <<cfg, disk, osRules, ldVars, uiVars, lifeVars>>

(* _lockdown_decided.add                                                   *)
Mark(t) ==
  /\ At(t, "mark")
  /\ decided' = decided \cup Cur(t).es
  /\ Advance(t)
  /\ UNCHANGED <<cfg, disk, osRules, ldBlocked, pending, temp, uiVars, lifeVars>>

(* block_app has returned, whatever its result                             *)
Note(t) ==
  /\ At(t, "note")
  /\ ldBlocked' = ldBlocked \cup Cur(t).es
  /\ decided' = decided \cup Cur(t).es
  /\ Advance(t)
  /\ UNCHANGED <<cfg, disk, osRules, pending, temp, uiVars, lifeVars>>

AskUnhooked(t) ==  \* mutant: pending although no callback is registered
  /\ At(t, "ask")
  /\ pending' = pending \cup Cur(t).es
  /\ queue' = IF ui = "shown" /\ ~(Cur(t).es \subseteq pending)
              THEN Append(queue, CHOOSE e \in Cur(t).es : TRUE) ELSE queue
  /\ Advance(t)
  /\ UNCHANGED <<cfg, disk, osRules, ldBlocked, decided, temp, dialogs, ui, lifeVars>>

(* Prompt once per executable, if the window has registered its callback;  *)
(* after() of a destroyed window raises, which the sweep swallows.         *)
Ask(t) ==
  /\ At(t, "ask")
  /\ \E e \in Cur(t).es :
       IF e \notin pending /\ ui # "none"
       THEN /\ pending' = pending \cup {e}
            /\ queue' = IF ui = "shown" THEN Append(queue, e) ELSE queue
       ELSE UNCHANGED <<pending, queue>>
  /\ Advance(t)
  /\ UNCHANGED <<cfg, disk, osRules, ldBlocked, decided, temp, dialogs, ui, lifeVars>>

MonitorEnds ==
  /\ alive /\ ~running /\ Idle("mon")
  /\ alive' = FALSE
  /\ UNCHANGED <<cfg, disk, osRules, ldVars, uiVars, prog, app, running, left>>

-----------------------------------------------------------------------------
(* The life of the process.                                                *)

BootLeavesRules ==  \* mutant: start does not look for lingering rules
  /\ app # "up" /\ left.boots > 0
  /\ app' = "up"
  /\ left' = [left EXCEPT !.boots = @ - 1]
  /\ cfg' = [disk EXCEPT !.blocked = @ \cup osRules]
  /\ prog' = [prog EXCEPT !["gui"] = When(disk.fw, Do("apply_blocks"))
                \o Do("save") \o Do("start_monitor") \o Do("show_ui")]
  /\ UNCHANGED <<disk, osRules, ldVars, uiVars, running, alive>>

(* Monitor.__init__ imports the OS blocks into the block list; start puts  *)
(* the configuration into force before the thread and the window exist.    *)
Boot ==
  /\ app # "up" /\ left.boots > 0
  /\ app' = "up"
  /\ left' = [left EXCEPT !.boots = @ - 1]
  /\ cfg' = [disk EXCEPT !.blocked = @ \cup osRules]
  /\ prog' = [prog EXCEPT !["gui"] =
                (IF disk.fw THEN Do("apply_blocks")
                            ELSE Do("remove_all") \o Do("remove_all"))
                \o Do("save") \o Do("start_monitor") \o Do("show_ui")]
  /\ UNCHANGED <<disk, osRules, ldVars, uiVars, running, alive>>

StartMonitor(t) ==
  /\ At(t, "start_monitor")
  /\ running' = TRUE /\ alive' = TRUE
  /\ Advance(t)
  /\ UNCHANGED <<cfg, disk, osRules, ldVars, uiVars, app, left>>

ShowUI(t) ==
  /\ At(t, "show_ui")
  /\ ui' = "shown"
  /\ Advance(t)
  /\ UNCHANGED <<cfg, disk, osRules, ldVars, queue, dialogs, lifeVars>>

StopUnjoined == Do("halt") \o Do("clear")  \* mutant: the sweep is not waited for

(* Monitor.stop, called by _on_close and once more by run.main             *)
Stop == Do("halt") \o Do("join") \o Do("clear")

Halt(t) ==
  /\ At(t, "halt")
  /\ running' = FALSE
  /\ Advance(t)
  /\ UNCHANGED <<cfg, disk, osRules, ldVars, uiVars, app, alive, left>>

(* join(timeout=2.0): either the thread has ended or the time is up        *)
Join(t) ==
  /\ At(t, "join")
  /\ JoinWaits => ~alive
  /\ Advance(t)
  /\ UNCHANGED <<cfg, disk, osRules, ldVars, uiVars, lifeVars>>

Destroy(t) ==
  /\ At(t, "destroy")
  /\ ui' = "gone" /\ queue' = <<>> /\ dialogs' = {}
  /\ Advance(t)
  /\ UNCHANGED <<cfg, disk, osRules, ldVars, lifeVars>>

MemoryLost ==
  /\ cfg' = disk
  /\ ldBlocked' = {} /\ pending' = {} /\ decided' = {} /\ temp' = NoTemp
  /\ queue' = <<>> /\ dialogs' = {} /\ ui' = "none"
  /\ prog' = [t \in Threads |-> <<>>]
  /\ running' = FALSE /\ alive' = FALSE

Exit(t) ==
  /\ At(t, "exit")
  /\ app' = "quit"
  /\ MemoryLost
  /\ UNCHANGED <<disk, osRules, left>>

Crash ==
  /\ app = "up" /\ left.crashes > 0
  /\ app' = "crashed"
  /\ left' = [left EXCEPT !.crashes = @ - 1]
  /\ MemoryLost
  /\ UNCHANGED <<disk, osRules>>

(* A temporary pass runs out.  It lasts at least a minute: the handler     *)
(* that granted it has returned by then.                                   *)
Expire(e) ==
  /\ Idle("gui") /\ temp[e] = "live"
  /\ temp' = [temp EXCEPT ![e] = "expired"]
  /\ UNCHANGED <<cfg, disk, osRules, ldBlocked, pending, decided, uiVars, prog, lifeVars>>

-----------------------------------------------------------------------------
(* The handlers of the windows.  Tk runs one at a time, to its end.        *)

Handle(kind, program) ==
  /\ kind \in Ops
  /\ ui = "shown" /\ Idle("gui") /\ left.ops > 0
  /\ left' = [left EXCEPT !.ops = @ - 1]
  /\ prog' = [prog EXCEPT !["gui"] = program]
  /\ UNCHANGED <<cfg, disk, osRules, ldVars, uiVars, app, running, alive>>

SetBlockedProg(e, on) == DoExe("set_blocked", e, on) \o Do("save")
SetAllowedUnsaved(e, on) ==  \* mutant: set_allowed returns without save
  DoExe("set_allowed", e, on) \o DoExe("allow_settled", e, FALSE)
SetAllowedProg(e, on) ==
  DoExe("set_allowed", e, on) \o DoExe("allow_settled", e, FALSE) \o Do("save")
SetExeTagProg(e, tag) == <<I("set_exe_tag", {e}, tag, FALSE)>> \o Do("save")
SetTagBlockedProg(tag, on) == <<I("set_tag_blocked", {}, tag, on)>> \o Do("save")
SetTagAllowedProg(tag, on) == <<I("set_tag_allowed", {}, tag, on)>> \o Do("save")
SetFirewallForgets(on) ==  \* mutant: switching on applies nothing
  <<I("set_firewall", {}, NoTag, on)>> \o Do("save")
  \o When(~on, Do("remove_all") \o Do("remove_all"))
SetFirewallProg(on) ==
  <<I("set_firewall", {}, NoTag, on)>> \o Do("save")
  \o (IF on THEN Do("apply_blocks") ELSE Do("remove_all") \o Do("remove_all"))

(* Block and Unblock in the process list                                   *)
BlockSelected(e) ==
  Handle("block", SetBlockedProg(e, TRUE) \o DoExe("block_if_on", e, FALSE))
UnblockSelected(e) ==
  Handle("unblock", SetBlockedProg(e, FALSE) \o DoExe("unblock", e, FALSE))

(* Allow and Disallow in the process list                                  *)
AllowSelected(e) ==
  Handle("allow", SetBlockedProg(e, FALSE) \o DoExe("unblock", e, FALSE)
                  \o SetAllowedProg(e, TRUE))
DisallowSelected(e) == Handle("disallow", SetAllowedProg(e, FALSE))

TagSelected(e, tag) == Handle("tag", SetExeTagProg(e, tag))

(* The rule dialog of one executable: the netsh call comes first.          *)
ApplyRule(e, block, allow, tag) ==
  Handle("rule",
    When(block /\ e \notin cfg.blocked, DoExe("block_if_on", e, FALSE))
    \o When(~block /\ e \in cfg.blocked, DoExe("unblock", e, FALSE))
    \o SetBlockedProg(e, block) \o SetExeTagProg(e, tag) \o Do("save")
    \o SetAllowedProg(e, allow /\ ~block))

RemoveSelected(e) ==
  Handle("remove", When(e \in cfg.blocked, DoExe("unblock", e, FALSE))
                   \o DoExe("remove_app", e, FALSE) \o SetExeTagProg(e, NoTag))

(* The rule dialog of one tag, and the removal of a tag rule, which leaves *)
(* the tag in the allow list.                                              *)
EditTag(tag, block, allow) ==
  Handle("edit_tag", Do("save") \o SetTagBlockedProg(tag, block)
                     \o SetTagAllowedProg(tag, allow /\ ~block))
RemoveTagRule(tag) == Handle("edit_tag", Do("save") \o SetTagBlockedProg(tag, FALSE))

ToggleFirewall == Handle("firewall", SetFirewallProg(~cfg.fw))
ToggleLockdown ==
  Handle("lockdown",
    When(~cfg.lock /\ ~cfg.fw, SetFirewallProg(TRUE))
    \o <<I("set_lockdown", {}, NoTag, ~cfg.lock)>> \o Do("save")
    \o When(cfg.lock, Do("clear")))

(* The four answers of the lockdown prompt; closing it is "once".          *)
AnswerProg(e, answer) ==
  CASE answer = "temp" ->
         DoExe("temp_allow", e, FALSE) \o DoExe("lockdown_unblock", e, FALSE)
         \o DoExe("answered", e, FALSE) \o Do("save")
    [] answer = "allow" -> SetAllowedProg(e, TRUE)
    [] answer = "once" -> DoExe("answered", e, FALSE)
    [] answer = "block" ->
         DoExe("answered", e, FALSE) \o SetBlockedProg(e, TRUE)
         \o DoExe("block_if_on", e, FALSE)

Answer(e, answer) ==
  /\ e \in dialogs
  /\ Handle("answer", AnswerProg(e, answer) \o DoExe("finish", e, FALSE))

Close == Handle("quit", Do("save") \o Stop \o Do("destroy") \o Stop \o Do("exit"))

(* Tk runs a callback the monitor thread posted: one dialog per executable *)
ShowPrompt ==
  /\ ui = "shown" /\ Idle("gui") /\ queue # <<>>
  /\ dialogs' = dialogs \cup {Head(queue)}
  /\ queue' = Tail(queue)
  /\ UNCHANGED <<cfg, disk, osRules, ldVars, ui, prog, lifeVars>>

-----------------------------------------------------------------------------

RuleStep(t) ==
  \/ SetBlocked(t) \/ SetAllowed(t) \/ AllowSettled(t) \/ LockdownUnblock(t)
  \/ SetExeTag(t) \/ SetTagBlocked(t) \/ SetTagAllowed(t) \/ RemoveApp(t)
  \/ TempAllow(t) \/ Answered(t) \/ Finish(t)
SwitchStep(t) ==
  \/ SetFirewallEnabled(t) \/ ApplyBlocks(t) \/ RemoveAllRules(t)
  \/ SetLockdown(t) \/ ClearLockdownBlocks(t) \/ ForgetLockdown(t)
CallStep(t) ==
  \/ Save(t) \/ BlockApp(t) \/ UnblockApp(t) \/ BlockIfOn(t) \/ UnblockUnlisted(t)
SweepStep(t) == Scan(t) \/ Mark(t) \/ Note(t) \/ Ask(t)
LifeStep(t) ==
  StartMonitor(t) \/ ShowUI(t) \/ Halt(t) \/ Join(t) \/ Destroy(t) \/ Exit(t)
Step(t) == RuleStep(t) \/ SwitchStep(t) \/ CallStep(t) \/ SweepStep(t) \/ LifeStep(t)

RuleEvent ==
  \/ \E e \in Exes :
       \/ BlockSelected(e) \/ UnblockSelected(e)
       \/ AllowSelected(e) \/ DisallowSelected(e) \/ RemoveSelected(e)
       \/ \E tag \in Tags \cup {NoTag} :
            \/ TagSelected(e, tag)
            \/ \E block, allow \in BOOLEAN : ApplyRule(e, block, allow, tag)
       \/ \E answer \in {"temp", "allow", "once", "block"} : Answer(e, answer)
  \/ \E tag \in Tags :
       \/ \E block, allow \in BOOLEAN : EditTag(tag, block, allow)
       \/ RemoveTagRule(tag)
SwitchEvent == ToggleFirewall \/ ToggleLockdown \/ Close

Next ==
  \/ \E t \in Threads : Step(t)
  \/ Tick \/ MonitorEnds \/ ShowPrompt
  \/ RuleEvent \/ SwitchEvent
  \/ Boot \/ Crash
  \/ \E e \in Exes : Expire(e)

Spec == Init /\ [][Next]_vars

(* The scheduler runs both threads, Tk dispatches what was posted to it,   *)
(* the monitor loop keeps ticking and time passes.  The user, the power    *)
(* switch and the launcher owe nothing.                                    *)
Fairness ==
  /\ \A t \in Threads : WF_vars(Step(t))
  /\ WF_vars(Tick) /\ WF_vars(MonitorEnds) /\ WF_vars(ShowPrompt)
  /\ \A e \in Exes : WF_vars(Expire(e))

LiveSpec == Spec /\ Fairness

-----------------------------------------------------------------------------
(* Properties.                                                             *)

Shown == ui = "shown"
AtRest == Shown /\ Idle("gui")
LockedDown == cfg.lock /\ cfg.fw

(* Every handler that edits the rules ends with them saved: when the GUI   *)
(* thread waits for the next event, settings.txt holds what memory holds.  *)
SavedWhenAtRest == AtRest => disk = cfg

(* An executable the user blocked is blocked by Windows as long as the     *)
(* firewall switch is on, whatever the sweep does meanwhile and whichever  *)
(* kill or restart came before.                                            *)
UserBlockStands == (AtRest /\ cfg.fw) => cfg.blocked \cap Valid \subseteq osRules

(* README: under Lockdown "only programs on the allow-list may reach the   *)
(* internet".  The sweep skips what is in _lockdown_decided, so each one   *)
(* there must be exempt, allowed, really blocked, or a pass that has run   *)
(* out and that the next tick takes up.                                    *)
DecidedIsEnforced ==
  (AtRest /\ LockedDown) =>
    \A e \in decided \ Exempt : IsAllowed(e) \/ temp[e] = "expired" \/ e \in osRules

(* The sweep asks once per executable, on the strength of                  *)
(* _lockdown_pending: whoever is in it has a dialog or is about to get it. *)
PendingIsPrompted ==
  Shown => \A e \in pending : e \in dialogs \/ \E i \in 1..Len(queue) : queue[i] = e

(* With the firewall switch off none of our rules blocks anything, also    *)
(* right after a start that finds the rules of a killed process.           *)
OffMeansOff == (AtRest /\ ~cfg.fw /\ ~cfg.lock) => osRules = {}

(* A regular exit leaves no block behind but the user's own.               *)
QuitLeavesNothing == app = "quit" => osRules \subseteq UserBlocked(disk)

(* README: "Turning Lockdown off lifts every block it imposed".            *)
LockdownOffLifts ==
  (AtRest /\ Idle("mon") /\ ~cfg.lock /\ ldBlocked = {}) => osRules \subseteq UserBlocked(cfg)

(* Monitor.set_lockdown: "the user's explicit blocks stay".                *)
TagBlockStands == (AtRest /\ cfg.fw) => TagBlocked(cfg) \cap Valid \subseteq osRules

(* Default deny: under Lockdown a WAN user with no pass ends up blocked,   *)
(* also when its temporary pass runs out.                                  *)
NewcomerIsDenied ==
  \A e \in Busy \ Exempt :
    (Shown /\ LockedDown /\ ~IsAllowed(e))
      ~> (e \in osRules \/ IsAllowed(e) \/ ~Shown \/ ~LockedDown)

(* With Lockdown on and the firewall switch off, a block that a sweep      *)
(* still under way slipped in goes away again, unless the user has put it  *)
(* on the block list since.                                                *)
FirewallOffDrains ==
  (Shown /\ cfg.lock /\ ~cfg.fw)
    ~> (osRules \subseteq cfg.blocked \/ LockedDown \/ ~cfg.lock \/ ~Shown)

=============================================================================
