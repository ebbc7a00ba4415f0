------------------------------- MODULE Limits -------------------------------
(***************************************************************************)
(* Speed limits and group tags: the methods of Monitor that edit them, the *)
(* windows that call these methods, the settings file and the tables the   *)
(* throttle reads for every packet (WinDivertBackend._snapshot).           *)
(*                                                                         *)
(* The GUI thread edits the settings in memory, then Monitor.apply_settings*)
(* replaces the tables and then it saves.  Packets are judged and the      *)
(* process may be killed between any two of these steps.                   *)
(***************************************************************************)
EXTENDS Integers, Sequences

CONSTANTS Exes,       \* executable paths
          Tags,       \* group tags
          NoTag,      \* absence of a tag
          MaxRate,    \* bound: highest rate the user enters, in KB/s
          Starts      \* what a behaviour starts from: a settings file (disk)
                      \* and bounds (left) on user actions, kills and starts
                      \* of the application

ASSUME TagAssumption == NoTag \notin Tags
ASSUME RateAssumption == MaxRate \in Nat

VARIABLES
  cfg,   \* Monitor.settings in memory: exe_limits, exe_tags, tag_limits
  disk,  \* settings.txt
  snap,  \* CaptureBackend._snapshot: the token buckets in force
  prog,  \* what the GUI thread still has to run
  up,    \* the process runs
  left   \* what remains of the bounds

vars == <<cfg, disk, snap, prog, up, left>>

(* A rate of 0 or less is no limit.  The prompt of the process list lets a *)
(* negative rate through, the dialogs do not.                              *)
Rates == 0..MaxRate
Limits == [up: Rates, down: Rates]
OwnRates == -1..MaxRate
OwnLimits == [up: OwnRates, down: OwnRates]
Loose == [up |-> 0, down |-> 0]

Settings == [own: [Exes -> OwnLimits], tagOf: [Exes -> Tags \cup {NoTag}],
             cap: [Tags -> Limits]]

(* A bucket in force for each direction; 10**12 stands for no limit.       *)
Unlimited == MaxRate + 1
Buckets == [up: 1..Unlimited, down: 1..Unlimited]
NoBuckets == [up |-> Unlimited, down |-> Unlimited]
Tables == [own: [Exes -> Buckets], tagOf: [Exes -> Tags \cup {NoTag}],
           cap: [Tags -> Buckets]]

Instr == [op: {"set_limit"}, exe: Exes, limit: OwnLimits]
         \cup [op: {"set_exe_tag"}, exe: Exes, tag: Tags \cup {NoTag}]
         \cup [op: {"set_tag_limit"}, tag: Tags, limit: Limits]
         \cup [op: {"remove_app"}, exe: Exes]
         \cup [op: {"sync", "save"}]

SetLimitOf(e, l) == <<[op |-> "set_limit", exe |-> e, limit |-> l]>>
SetExeTagOf(e, tag) == <<[op |-> "set_exe_tag", exe |-> e, tag |-> tag]>>
SetTagLimitOf(tag, l) == <<[op |-> "set_tag_limit", tag |-> tag, limit |-> l]>>
RemoveAppOf(e) == <<[op |-> "remove_app", exe |-> e]>>
Saves == <<[op |-> "save"]>>

(* Monitor.apply_settings                                                  *)
Apply == <<[op |-> "sync"], [op |-> "save"]>>

Bounds == [ops: Nat, crashes: Nat, boots: Nat]

TypeOK ==
  /\ cfg \in Settings
  /\ disk \in Settings
  /\ snap \in Tables
  /\ prog \in Seq(Instr)
  /\ up \in BOOLEAN
  /\ left \in Bounds

Fresh == [own |-> [e \in Exes |-> Loose], tagOf |-> [e \in Exes |-> NoTag],
          cap |-> [tag \in Tags |-> Loose]]
NoTables == [own |-> [e \in Exes |-> NoBuckets], tagOf |-> [e \in Exes |-> NoTag],
             cap |-> [tag \in Tags |-> NoBuckets]]

-----------------------------------------------------------------------------
(* The cap of a tag.                                                       *)

TagLimit(c, tag) == IF tag = NoTag THEN Loose ELSE c.cap[tag]

Cap(cap, rate) == IF cap > 0 /\ (rate <= 0 \/ cap < rate) THEN cap ELSE rate

(* Monitor._clamp_to_tag, with the limit of the tag given                  *)
Clamp(cap, l) == [up |-> Cap(cap.up, l.up), down |-> Cap(cap.down, l.down)]

Within(c) ==
  \A e \in Exes : c.tagOf[e] # NoTag /\ c.own[e] # Loose =>
    Clamp(c.cap[c.tagOf[e]], c.own[e]) = c.own[e]

(* The files to start from are ones the program has written: no file at    *)
(* all, or own limits within the caps.                                     *)
ASSUME StartsAssumption ==
  \A s \in Starts : s.disk \in Settings /\ Within(s.disk) /\ s.left \in Bounds

StartFrom(s) ==
  /\ cfg = s.disk /\ disk = s.disk /\ snap = NoTables
  /\ prog = <<>> /\ up = FALSE
  /\ left = s.left

Init == \E s \in Starts : StartFrom(s)

(* What the rules manager shows: Monitor.effective_limit                   *)
EffectiveLimit(e) == Clamp(TagLimit(cfg, cfg.tagOf[e]), cfg.own[e])

-----------------------------------------------------------------------------
(* The instructions.                                                       *)

At(op) == prog # <<>> /\ Head(prog).op = op
Edit(c) ==
  /\ cfg' = c
  /\ prog' = Tail(prog)
  /\ UNCHANGED <<disk, snap, up, left>>

(* a limit without a positive rate is dropped from exe_limits              *)
Entry(l) == IF l.up <= 0 /\ l.down <= 0 THEN Loose ELSE l

SetLimitUnclamped ==  \* mutant: set_limit stores what was entered
  /\ At("set_limit")
  /\ LET i == Head(prog) IN Edit([cfg EXCEPT !.own[i.exe] = Entry(i.limit)])

SetLimit ==
  /\ At("set_limit")
  /\ LET i == Head(prog)
         cap == TagLimit(cfg, cfg.tagOf[i.exe])
     IN Edit([cfg EXCEPT !.own[i.exe] = Entry(Clamp(cap, i.limit))])

(* The limit of e after the cap of its tag has changed.                    *)
Reclamp(l, cap) == IF l = Loose THEN l ELSE Clamp(cap, l)

SetExeTag ==
  /\ At("set_exe_tag")
  /\ LET i == Head(prog)
     IN Edit([cfg EXCEPT !.tagOf[i.exe] = i.tag,
                         !.own[i.exe] = Reclamp(@, TagLimit(cfg, i.tag))])

SetTagLimit ==
  /\ At("set_tag_limit")
  /\ LET i == Head(prog)
     IN Edit([cfg EXCEPT
                !.cap[i.tag] = i.limit,
                !.own = [e \in Exes |-> IF cfg.tagOf[e] = i.tag
                                        THEN Reclamp(@[e], i.limit) ELSE @[e]]])

RemoveApp ==
  /\ At("remove_app")
  /\ LET i == Head(prog)
     IN Edit([cfg EXCEPT !.own[i.exe] = Loose, !.tagOf[i.exe] = NoTag])

Rate(r) == IF r > 0 THEN r ELSE Unlimited
Bucket(l) == [up |-> Rate(l.up), down |-> Rate(l.down)]
TablesOf(c) == [own |-> [e \in Exes |-> Bucket(c.own[e])], tagOf |-> c.tagOf,
                cap |-> [tag \in Tags |-> Bucket(c.cap[tag])]]

SyncRulesAdds ==  \* mutant: an old tag mapping stays until replaced
  /\ At("sync")
  /\ snap' = [TablesOf(cfg) EXCEPT !.tagOf =
                [e \in Exes |-> IF cfg.tagOf[e] = NoTag THEN snap.tagOf[e] ELSE cfg.tagOf[e]]]
  /\ prog' = Tail(prog)
  /\ UNCHANGED <<cfg, disk, up, left>>

(* sync_rules: all three tables replaced at once                           *)
SyncRules ==
  /\ At("sync")
  /\ snap' = TablesOf(cfg)
  /\ prog' = Tail(prog)
  /\ UNCHANGED <<cfg, disk, up, left>>

Save ==
  /\ At("save")
  /\ disk' = cfg
  /\ prog' = Tail(prog)
  /\ UNCHANGED <<cfg, snap, up, left>>

-----------------------------------------------------------------------------
(* The handlers of the windows; Tk runs one at a time.                     *)

Handle(program) ==
  /\ up /\ prog = <<>> /\ left.ops > 0
  /\ left' = [left EXCEPT !.ops = @ - 1]
  /\ prog' = program
  /\ UNCHANGED <<cfg, disk, snap, up>>

(* What the dialogs accept: whole numbers that are not negative.           *)
AnyEntered(l) == TRUE  \* mutant: the dialogs do not check the sign
Entered(l) == l \in Limits

LimitSelected(e, l) == Handle(SetLimitOf(e, l) \o Apply)
TagSelected(e, tag) == Handle(SetExeTagOf(e, tag) \o Apply)

(* The rule dialog clamps to the cap of the tag chosen in it; the tag is   *)
(* set first, then the limit.  Block and allow flags are saved around it.  *)
ApplyRule(e, l, tag) ==
  /\ Entered(l)
  /\ Handle(Saves \o SetExeTagOf(e, tag) \o Apply
            \o SetLimitOf(e, Clamp(TagLimit(cfg, tag), l)) \o Apply \o Saves)

EditTag(tag, l) ==
  /\ Entered(l)
  /\ Handle(SetTagLimitOf(tag, l) \o Apply \o Saves \o Saves)
RemoveTagRule(tag) == Handle(SetTagLimitOf(tag, Loose) \o Apply \o Saves)
RemoveSelected(e) == Handle(RemoveAppOf(e) \o Apply)

(* Saving the options window re-applies every rule.                        *)
SaveOptions == Handle(Saves \o Apply)

Boot ==
  /\ ~up /\ left.boots > 0
  /\ up' = TRUE
  /\ left' = [left EXCEPT !.boots = @ - 1]
  /\ cfg' = disk
  /\ prog' = Apply
  /\ UNCHANGED <<disk, snap>>

(* The process ends and leaves the settings file d behind.                 *)
Ends(d) ==
  /\ up' = FALSE
  /\ disk' = d /\ cfg' = d
  /\ snap' = NoTables /\ prog' = <<>>

(* Closing the main window saves the geometry, and with it everything.     *)
Close == up /\ prog = <<>> /\ Ends(cfg) /\ UNCHANGED left
Crash ==
  /\ up /\ left.crashes > 0
  /\ left' = [left EXCEPT !.crashes = @ - 1]
  /\ Ends(disk)

Instruction == SetLimit \/ SetExeTag \/ SetTagLimit \/ RemoveApp \/ SyncRules \/ Save
Handler ==
  \/ \E e \in Exes : \/ RemoveSelected(e)
                     \/ \E l \in OwnLimits : LimitSelected(e, l)
                     \/ \E tag \in Tags \cup {NoTag} :
                          \/ TagSelected(e, tag)
                          \/ \E l \in OwnLimits : ApplyRule(e, l, tag)
  \/ \E tag \in Tags : RemoveTagRule(tag) \/ \E l \in OwnLimits : EditTag(tag, l)
  \/ SaveOptions

Next == Instruction \/ Handler \/ Boot \/ Close \/ Crash

Spec == Init /\ [][Next]_vars

-----------------------------------------------------------------------------
(* Properties.                                                             *)

(* README: "An app's own limit is capped by its tag's limit".  No order of *)
(* setting limits, tags and tag limits breaks it, not in memory and not in *)
(* the file a kill leaves behind.                                          *)
OwnLimitWithinTagCap == Within(cfg) /\ Within(disk)

LessOf(x, y) == IF x < y THEN x ELSE y

(* The rate _allow_packet lets an executable have: every bucket it finds   *)
(* in the tables must afford the packet.                                   *)
Enforced(e) ==
  LET tag == snap.tagOf[e]
      group == IF tag = NoTag THEN NoBuckets ELSE snap.cap[tag]
  IN [up |-> LessOf(snap.own[e].up, group.up),
      down |-> LessOf(snap.own[e].down, group.down)]

(* Between two handlers the throttle enforces exactly the limit the rules  *)
(* manager shows (Monitor.effective_limit), also after a restart.          *)
ThrottleMatchesManager ==
  up /\ prog = <<>> => \A e \in Exes : Bucket(EffectiveLimit(e)) = Enforced(e)

=============================================================================
