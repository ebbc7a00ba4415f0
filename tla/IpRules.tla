------------------------------ MODULE IpRules ------------------------------
(***************************************************************************)
(* Per-IP rules: the list in the settings, the methods of the monitor that *)
(* change it, and the rules they keep in Windows Firewall.  A block rule   *)
(* becomes netsh rules of its own.  The allow rules of a program become    *)
(* its whitelist: netsh rules that block the complement of what they allow.*)
(*                                                                         *)
(* All of it runs on the GUI thread, so a handler is a program of steps    *)
(* that only the end of the process interrupts: an edit of the list, a     *)
(* loop of netsh calls, a save.  Killed inside a loop, some of its calls   *)
(* have been made.  Blocks of whole programs are left to module Lockdown.  *)
(***************************************************************************)
EXTENDS Intervals

CONSTANTS
    Exe,        \* executables
    ValidExe,   \* those that _valid_exe accepts
    Spec4,      \* [spec -> intervals]: what a text means as IPv4 addresses,
    Spec6,      \* and as IPv6 addresses; the texts are the common domain
    AnyIp,        \* "any", a text that means no interval
    V4Max, V6Max,
    PortMax,    \* 65535
    ChunkSize,  \* ranges in one netsh rule: 80
    Offers,     \* what a behaviour may do: the rules that are added in it,
                \* and how many netsh loops have calls that fail
    MaxRules    \* bound on the list

Text == DOMAIN Spec4
Direction == {"in", "out"}
Protocol == {"tcp", "udp"}

(* A rule as the settings hold it; ports {} means all of them. *)
Rule == [exe : Exe, action : {"allow", "block"}, dir : Direction \cup {"both"}, ip : Text,
         ports : SUBSET ((1 .. PortMax) \X (1 .. PortMax)), proto : Protocol \cup {"any"}]

(* What _spec_to_intervals returns of one family.                          *)
Ascending(top) == {i \in (0 .. top) \X (0 .. top) : i[1] <= i[2]}

ASSUME IpRulesAssumption ==
    /\ ValidExe \subseteq Exe
    /\ Spec4 \in [Text -> SUBSET Ascending(V4Max)]
    /\ Spec6 \in [Text -> SUBSET Ascending(V6Max)]
    /\ AnyIp \in Text /\ Spec4[AnyIp] = {} /\ Spec6[AnyIp] = {}
    /\ V4Max \in Nat /\ V6Max \in Nat /\ PortMax \in Nat \ {0}
    /\ ChunkSize \in Nat \ {0} /\ MaxRules \in Nat
    /\ \A o \in Offers : o.rules \subseteq Rule /\ o.refusals \in Nat

VARIABLES
    rules,   \* settings.ip_rules
    saved,   \* ip_rules in settings.txt
    on,      \* settings.firewall_enabled, saved as soon as it is changed
    single,  \* Windows: the rules named "NetPeekier ip ..."
    white,   \* Windows: the rules named "NetPeekier wl ..."
    prog,    \* what is left of the handler that runs
    up,      \* Net-Peekier runs
    offer,   \* one of Offers, with the refusals that are left
    lapsed   \* history variable: an edit or a start with the switch off, or
             \* a failed call, has left Windows behind, and no start with
             \* the switch on came since; FALSE while Net-Peekier is down

vars == <<rules, saved, on, single, white, prog, up, offer, lapsed>>

(* A netsh rule.  The name of the first kind holds a hash of the rule's    *)
(* fields, that of the second the program's hash and a number.             *)
Single(r, d, p) == [rule |-> r, dir |-> d, proto |-> p]
White(e, n, f) == [exe |-> e, idx |-> n, dir |-> f.dir, ips |-> f.ips, ports |-> f.ports,
                   proto |-> f.proto]
-----------------------------------------------------------------------------
(* add_ip_rule and remove_ip_rule of the firewall: one netsh rule per      *)
(* direction and protocol; ports need a protocol.                          *)
ConcreteDirs(dir) == IF dir = "both" THEN Direction ELSE {dir}

OneProtocol(proto, ports) == {proto}  \* mutant: "any" is not split for ports

ConcreteProtos(proto, ports) ==
    IF proto = "any" /\ ports # {} THEN Protocol ELSE {proto}

SinglesOf(r) ==
    {Single(r, d, p) : d \in ConcreteDirs(r.dir), p \in ConcreteProtos(r.proto, r.ports)}

(* set_whitelist.  For one direction: every range of either family that no *)
(* entry allows, in groups of ChunkSize ...                                *)
Family(f) == IF f = 4 THEN Spec4 ELSE Spec6
Top(f) == IF f = 4 THEN V4Max ELSE V6Max

BlockRangesExcept(f, texts) == Complement(UNION {Family(f)[t] : t \in texts}, 0, Top(f))

Chunk(seq) ==
    LET Cut(k) == {seq[i] : i \in {j \in DOMAIN seq : (j - 1) \div ChunkSize = k - 1}}
    IN  [k \in 1 .. ((Len(seq) + ChunkSize - 1) \div ChunkSize) |-> Cut(k)]

Ranges(d, f, entries) ==
    LET groups == Chunk(BlockRangesExcept(f, {e.ip : e \in entries}))
    IN  [k \in DOMAIN groups |->
           [dir |-> d, ips |-> {<<f, i[1], i[2]>> : i \in groups[k]}, ports |-> {},
            proto |-> "any"]]

(* ... and for each text that only entries with ports allow, the other     *)
(* ports of it.                                                            *)
Intervals46(t) ==
    {<<4, i[1], i[2]>> : i \in Spec4[t]} \cup {<<6, i[1], i[2]>> : i \in Spec6[t]}

OtherPorts(t, entries) ==
    LET comp == Complement(UNION {e.ports : e \in {x \in entries : x.ip = t}}, 1, PortMax)
    IN  {comp[i] : i \in DOMAIN comp}

PortsOnly(entries) ==
    {t \in Text \ {AnyIp} : /\ \E e \in entries : e.ip = t
                          /\ \A e \in entries : e.ip = t => e.ports # {}}

PortBlocks(d, entries) ==
    LET texts == {t \in PortsOnly(entries) : OtherPorts(t, entries) # {}}
        Block(t, p) == [dir |-> d, ips |-> Intervals46(t), ports |-> OtherPorts(t, entries),
                        proto |-> p]
    IN  FlattenSeq([i \in 1 .. Cardinality(texts) |->
                      LET t == SetToSeq(texts)[i] IN <<Block(t, "tcp"), Block(t, "udp")>>])

Filters(d, entries) ==
    LET ents == {e \in entries : d \in ConcreteDirs(e.dir)}
    IN  IF ents = {} THEN <<>>
        ELSE Ranges(d, 4, ents) \o Ranges(d, 6, ents) \o PortBlocks(d, ents)

AllowOf(e, list) == {r \in list : r.exe = e /\ r.action = "allow"}

WhiteOf(e, list) ==
    LET all == Filters("in", AllowOf(e, list)) \o Filters("out", AllowOf(e, list))
    IN  {White(e, i - 1, all[i]) : i \in DOMAIN all}
-----------------------------------------------------------------------------
(* The steps of handlers.  A netsh loop adds rules, or deletes rules by    *)
(* name: those of some per-IP rules and those of the whitelists of some    *)
(* programs.                                                               *)
Instruction(op, list, s, w, exes) ==
    [op |-> op, list |-> list, single |-> s, white |-> w, exes |-> exes]

Edit(list) == Instruction("edit", list, {}, {}, {})
Add(s, w) == Instruction("add", {}, s, w, {})
Delete(s, exes) == Instruction("delete", {}, s, {}, exes)
Save == Instruction("save", {}, {}, {}, {})

(* firewall.add_ip_rule and set_whitelist refuse an executable that is not *)
(* valid.                                                                  *)
AddIpRuleSteps(r) == IF r.exe \in ValidExe THEN <<Add(SinglesOf(r), {})>> ELSE <<>>

WhitelistOnTop(e, list) ==  \* mutant: the old whitelist is not removed first
    IF e \in ValidExe THEN <<Add({}, WhiteOf(e, list))>> ELSE <<>>

WhitelistSteps(e, list) ==
    IF e \in ValidExe THEN <<Delete({}, {e}), Add({}, WhiteOf(e, list))>> ELSE <<>>

(* Monitor._apply_whitelist *)
ApplyWhitelist(e, list) == IF on THEN WhitelistSteps(e, list) ELSE <<>>

(* Monitor.add_ip_rule and remove_ip_rule, called with the list as it is.  *)
Adding(r, list) ==
    LET new == list \cup {r}
    IN  <<Edit(new)>>
          \o (IF r.action = "allow" THEN ApplyWhitelist(r.exe, new)
              ELSE IF on THEN AddIpRuleSteps(r) ELSE <<>>)
          \o <<Save>>

Removing(r, list) ==
    LET new == list \ {r}
    IN  <<Edit(new)>>
          \o (IF r.action = "allow" THEN ApplyWhitelist(r.exe, new)
              ELSE <<Delete(SinglesOf(r), {})>>)
          \o <<Save>>
-----------------------------------------------------------------------------
SingleRule == [rule : Rule, dir : Direction, proto : Protocol \cup {"any"}]

Range46 == {<<4, i[1], i[2]>> : i \in Ascending(V4Max)}
             \cup {<<6, i[1], i[2]>> : i \in Ascending(V6Max)}

WhiteRule == [exe : ValidExe, idx : Nat, dir : Direction, ips : SUBSET Range46,
              ports : SUBSET ((1 .. PortMax) \X (1 .. PortMax)),
              proto : Protocol \cup {"any"}]

InstructionType ==
    [op : {"edit", "add", "delete", "save"}, list : SUBSET Rule, single : SUBSET SingleRule,
     white : SUBSET WhiteRule, exes : SUBSET Exe]

TypeOK ==
    /\ rules \subseteq Rule /\ IsFiniteSet(rules)
    /\ saved \subseteq Rule /\ IsFiniteSet(saved)
    /\ on \in BOOLEAN /\ up \in BOOLEAN /\ lapsed \in BOOLEAN
    /\ \E o \in Offers : offer.rules = o.rules /\ offer.refusals \in 0 .. o.refusals
    /\ \A s \in single : s \in SingleRule /\ s.rule.exe \in ValidExe
    /\ white \subseteq WhiteRule
    /\ prog \in Seq(InstructionType)

Init ==
    /\ rules = {}
    /\ saved = {}
    /\ on = TRUE
    /\ single = {}
    /\ white = {}
    /\ prog = <<>>
    /\ up = TRUE
    /\ offer \in Offers
    /\ lapsed = FALSE

AtRest == up /\ prog = <<>>

Handle(steps) ==
    /\ prog' = steps
    /\ UNCHANGED <<rules, saved, on, single, white, up, offer>>

(* IPRuleDialog and _add_ip_rule, and the menu of a connection, which does *)
(* not look at the executable: an outbound rule of one address.            *)
FromDialog(r) == r.exe \in ValidExe
Lone(intervals) == Cardinality(intervals) <= 1 /\ \A i \in intervals : i[1] = i[2]
FromConnection(r) ==
    r.dir = "out" /\ r.ip # AnyIp /\ Lone(Spec4[r.ip] \cup Spec6[r.ip]) /\ Lone(r.ports)

AddIpRule(r) ==
    /\ AtRest
    /\ FromDialog(r) \/ FromConnection(r)
    /\ Cardinality(rules \cup {r}) <= MaxRules
    /\ Handle(Adding(r, rules))
    /\ lapsed' = (lapsed \/ ~on)

RemoveIpRule(r) ==
    /\ AtRest
    /\ r \in rules
    /\ Handle(Removing(r, rules))
    /\ lapsed' = (lapsed \/ ~on)

(* _edit_ip_rule: the old rule is removed, with a save, then the new one   *)
(* added.                                                                  *)
EditIpRule(r, n) ==
    /\ AtRest
    /\ r \in rules
    /\ FromDialog(n)
    /\ Handle(Removing(r, rules) \o Adding(n, rules \ {r}))
    /\ lapsed' = (lapsed \/ ~on)

(* set_firewall_enabled: per-IP rules stay as they are.                    *)
SetFirewallEnabled ==
    /\ AtRest
    /\ on' = ~on
    /\ UNCHANGED <<rules, saved, single, white, prog, up, offer, lapsed>>

(* What a netsh loop does to Windows when it adds or deletes these.        *)
OfWhitelists(exes) == {w \in white : w.exe \in exes}

Effect(op, s, w) ==
    /\ single' = IF op = "add" THEN single \cup s ELSE single \ s
    /\ white' = IF op = "add" THEN white \cup w ELSE white \ w

(* The place of a netsh call in its loop. *)
SinglePlace(s) == (IF s.dir = "out" THEN 2 ELSE 0) + (IF s.proto = "udp" THEN 1 ELSE 0)

(* The end of the process, killed or not.  A netsh loop under way has made *)
(* some of its calls: the first n, or any, if the names come from a set    *)
(* that was filled from the listing of all rules.                          *)
Cut(i) ==
    LET w == i.white \cup OfWhitelists(i.exes)
    IN  IF i.exes # {}
          THEN \E s \in SUBSET i.single, v \in SUBSET w : Effect(i.op, s, v)
          ELSE \E n \in 0 .. Cardinality(i.single \cup w) + 4 :
                 Effect(i.op, {x \in i.single : SinglePlace(x) < n},
                              {x \in w : x.idx < n})

Kill ==
    /\ up
    /\ up' = FALSE
    /\ prog' = <<>>
    /\ rules' = {}
    /\ IF prog # <<>> /\ Head(prog).op \in {"add", "delete"}
         THEN Cut(Head(prog))
         ELSE UNCHANGED <<single, white>>
    /\ lapsed' = FALSE
    /\ UNCHANGED <<saved, on, offer>>

(* load and apply_settings: everything of ours is deleted, then installed  *)
(* again, unless the switch is off.                                        *)
Reinstall(list) ==
    LET blocks == {r \in list : r.action = "block"}
        exes == {e \in Exe : AllowOf(e, list) # {}}
    IN  FlattenSeq([i \in 1 .. Cardinality(blocks) |-> AddIpRuleSteps(SetToSeq(blocks)[i])])
          \o FlattenSeq([i \in 1 .. Cardinality(exes) |->
                           WhitelistSteps(SetToSeq(exes)[i], list)])

Start ==
    /\ ~up
    /\ up' = TRUE
    /\ rules' = saved
    /\ prog' = <<Delete(single, Exe)>> \o (IF on THEN Reinstall(saved) ELSE <<>>) \o <<Save>>
    /\ lapsed' = ~on
    /\ UNCHANGED <<saved, on, single, white, offer>>

(* Calls of a netsh loop fail (no administrator, the service is stopped):  *)
(* the loop and the handler go on, the save included.                      *)
Refused ==
    /\ prog # <<>>
    /\ offer.refusals > 0
    /\ LET i == Head(prog)
       IN  /\ i.op \in {"add", "delete"}
           /\ \E s \in SUBSET i.single, w \in SUBSET (i.white \cup OfWhitelists(i.exes)) :
                Effect(i.op, s, w)
    /\ offer' = [offer EXCEPT !.refusals = @ - 1]
    /\ prog' = Tail(prog)
    /\ lapsed' = TRUE
    /\ UNCHANGED <<rules, saved, on, up>>

(* The next step of a handler. *)
Step ==
    /\ prog # <<>>
    /\ prog' = Tail(prog)
    /\ LET i == Head(prog)
       IN  \/ /\ i.op = "edit"
              /\ rules' = i.list
              /\ UNCHANGED <<saved, single, white>>
           \/ /\ i.op = "save"
              /\ saved' = rules
              /\ UNCHANGED <<rules, single, white>>
           \/ /\ i.op \in {"add", "delete"}
              /\ Effect(i.op, i.single, i.white \cup OfWhitelists(i.exes))
              /\ UNCHANGED <<rules, saved>>
    /\ UNCHANGED <<on, up, offer, lapsed>>

Next ==
    \/ \E r \in offer.rules : AddIpRule(r)
    \/ \E r \in rules : RemoveIpRule(r)
    \/ \E r \in rules, n \in offer.rules : EditIpRule(r, n)
    \/ SetFirewallEnabled
    \/ Kill
    \/ Start
    \/ Refused
    \/ Step

Spec == Init /\ [][Next]_vars
-----------------------------------------------------------------------------
(* What the rules mean, said of single endpoints and without intervals.    *)
Endpoint ==
    {x \in [fam : {4, 6}, addr : 0 .. Larger(V4Max, V6Max), port : 1 .. PortMax,
            proto : Protocol, dir : Direction] : x.addr <= Top(x.fam)}

Means(t, x) == t = AnyIp \/ \E i \in Family(x.fam)[t] : Covers(i, x.addr)

(* The rule is about the endpoint, its protocol aside. *)
About(r, x) ==
    /\ x.dir = r.dir \/ r.dir = "both"
    /\ Means(r.ip, x)
    /\ r.ports = {} \/ \E i \in r.ports : Covers(i, x.port)

AboutProto(r, x) == About(r, x) /\ r.proto \in {"any", x.proto}

(* What Windows does: a packet of the program is blocked that a rule       *)
(* matches.                                                                *)
Blocked(e, x) ==
    \/ \E s \in single : /\ s.rule.exe = e /\ s.rule.action = "block"
                         /\ s.dir = x.dir /\ s.proto \in {"any", x.proto}
                         /\ Means(s.rule.ip, x)
                         /\ s.rule.ports = {} \/ /\ s.proto # "any"
                                                 /\ \E i \in s.rule.ports : Covers(i, x.port)
    \/ \E w \in white : /\ w.exe = e /\ w.dir = x.dir /\ w.proto \in {"any", x.proto}
                        /\ \E i \in w.ips : /\ i[1] = x.fam
                                            /\ Covers(<<i[2], i[3]>>, x.addr)
                        /\ w.ports = {} \/ \E i \in w.ports : Covers(i, x.port)

Restricted(e, d) == \E r \in AllowOf(e, rules) : d \in ConcreteDirs(r.dir)
BlockOf(e) == {r \in rules : r.exe = e /\ r.action = "block"}

(* Between handlers, with the switch on and nothing edited while it was    *)
(* off.                                                                    *)
InForce == AtRest /\ on /\ ~lapsed

(* Block rules block what they name, and a program with allow rules        *)
(* reaches nothing else (README.md:193-199, "the app is restricted to its  *)
(* allowed endpoints"), whatever was added, edited, removed, killed half   *)
(* way and started again before.  An allow rule's protocol is not looked   *)
(* at by set_whitelist.                                                    *)
NoLeak ==
    InForce =>
      \A e \in ValidExe, x \in Endpoint :
         \/ \E r \in BlockOf(e) : AboutProto(r, x)
         \/ Restricted(e, x.dir) /\ ~\E r \in AllowOf(e, rules) : About(r, x)
         => Blocked(e, x)

(* The entries of a whitelist that it keeps apart: no "any", and two texts *)
(* that are different share no address.                                    *)
Apart(e) ==
    \A r, s \in AllowOf(e, rules) :
       /\ r.ip # AnyIp
       /\ r.ip = s.ip \/ ~\E x \in Endpoint : Means(r.ip, x) /\ Means(s.ip, x)

(* ... and what they allow stays open, for the entries that a whitelist    *)
(* keeps apart: nothing of an old whitelist or of a removed rule blocks    *)
(* it, no range is one too long, and no other program is hit.              *)
NoOverblock ==
    InForce =>
      \A e \in Exe, x \in Endpoint :
         (Apart(e) /\ Blocked(e, x)) =>
            \/ \E r \in BlockOf(e) : AboutProto(r, x)
            \/ Restricted(e, x.dir) /\ ~\E r \in AllowOf(e, rules) : About(r, x)
=============================================================================
