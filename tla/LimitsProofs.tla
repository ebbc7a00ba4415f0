---------------------------- MODULE LimitsProofs ----------------------------
(* Theorems about Limits, for every set of executables and tags and every  *)
(* rate the user may enter, and about Throttle, which spends these rates,  *)
(* for every packet length and every division of the second.               *)
EXTENDS Throttle, TLAPS

-----------------------------------------------------------------------------
(* The arithmetic of a cap: the result is a limit, and capping it again    *)
(* changes nothing.                                                        *)

LEMMA CapFacts ==
  ASSUME NEW c \in Rates, NEW r \in OwnRates
  PROVE  /\ Cap(c, r) \in OwnRates
         /\ r \in Rates => Cap(c, r) \in Rates
         /\ Cap(c, Cap(c, r)) = Cap(c, r)
         /\ Cap(0, r) = r
BY RateAssumption DEF Cap, Rates, OwnRates

LEMMA LimitsOwn ==
  /\ Limits \subseteq OwnLimits /\ Loose \in Limits /\ Loose \in OwnLimits
BY RateAssumption DEF Limits, OwnLimits, Rates, OwnRates, Loose

LEMMA ClampFacts ==
  ASSUME NEW cap \in Limits, NEW l \in OwnLimits
  PROVE  /\ Clamp(cap, l) \in OwnLimits
         /\ Clamp(cap, Clamp(cap, l)) = Clamp(cap, l)
<1>1. /\ cap.up \in Rates /\ cap.down \in Rates
      /\ l.up \in OwnRates /\ l.down \in OwnRates
  BY DEF Limits, OwnLimits
<1>2. Clamp(cap, l) \in OwnLimits
  BY <1>1, CapFacts DEF Clamp, OwnLimits
<1>3. /\ Clamp(cap, l).up = Cap(cap.up, l.up)
      /\ Clamp(cap, l).down = Cap(cap.down, l.down)
  BY DEF Clamp
<1>4. Clamp(cap, Clamp(cap, l)) = Clamp(cap, l)
  BY <1>1, <1>3, CapFacts DEF Clamp
<1>5. QED
  BY <1>2, <1>4

LEMMA EntryFacts ==
  ASSUME NEW l \in OwnLimits
  PROVE  /\ Entry(l) \in OwnLimits
         /\ Entry(l) = Loose \/ Entry(l) = l
BY LimitsOwn DEF Entry

LEMMA TagLimitType ==
  ASSUME NEW c \in Settings, NEW tag \in Tags \cup {NoTag}
  PROVE  TagLimit(c, tag) \in Limits
BY LimitsOwn DEF TagLimit, Settings

LEMMA BucketType ==
  ASSUME NEW l \in OwnLimits
  PROVE  Bucket(l) \in Buckets
BY RateAssumption DEF Bucket, Rate, Buckets, Unlimited, OwnLimits, OwnRates

LEMMA TablesType ==
  ASSUME NEW c \in Settings
  PROVE  TablesOf(c) \in Tables
<1>1. \A e \in Exes : Bucket(c.own[e]) \in Buckets
  BY BucketType DEF Settings
<1>2. \A tag \in Tags : Bucket(c.cap[tag]) \in Buckets
  BY BucketType, LimitsOwn DEF Settings
<1>3. QED
  BY <1>1, <1>2 DEF TablesOf, Tables, Settings

LEMMA NoTablesType == NoTables \in Tables
<1>1. NoBuckets \in Buckets
  BY RateAssumption DEF NoBuckets, Buckets, Unlimited
<1>2. QED
  BY <1>1 DEF NoTables, Tables

LEMMA NoProgramType == <<>> \in Seq(Instr)
OBVIOUS

-----------------------------------------------------------------------------
(* Each edit of the settings keeps their type, and keeps every own limit   *)
(* within the cap of its tag.                                              *)

LEMMA SetLimitEdit ==
  ASSUME NEW c \in Settings, Within(c), NEW e \in Exes, NEW l \in OwnLimits
  PROVE  LET d == [c EXCEPT !.own[e] = Entry(Clamp(TagLimit(c, c.tagOf[e]), l))]
         IN  d \in Settings /\ Within(d)
<1> DEFINE cap == TagLimit(c, c.tagOf[e])
           n == Entry(Clamp(cap, l))
           d == [c EXCEPT !.own[e] = n]
<1>1. cap \in Limits
  BY TagLimitType DEF Settings
<1>2. Clamp(cap, l) \in OwnLimits /\ Clamp(cap, Clamp(cap, l)) = Clamp(cap, l)
  BY <1>1, ClampFacts
<1>3. n \in OwnLimits /\ (n = Loose \/ Clamp(cap, n) = n)
  BY <1>2, EntryFacts
<1>4. c.tagOf[e] # NoTag => cap = c.cap[c.tagOf[e]]
  BY DEF TagLimit
<1> HIDE DEF cap, n
<1>5. /\ d.tagOf = c.tagOf /\ d.cap = c.cap
      /\ d.own = [c.own EXCEPT ![e] = n]
  BY DEF Settings
<1>6. d \in Settings
  BY <1>3 DEF Settings
<1>7. Within(d)
  <2> SUFFICES ASSUME NEW x \in Exes, c.tagOf[x] # NoTag, d.own[x] # Loose
               PROVE  Clamp(c.cap[c.tagOf[x]], d.own[x]) = d.own[x]
    BY <1>5 DEF Within
  <2>1. CASE x = e
    BY <1>3, <1>4, <1>5, <2>1 DEF Settings
  <2>2. CASE x # e
    BY <1>5, <2>2 DEF Settings, Within
  <2>3. QED
    BY <2>1, <2>2
<1>8. QED
  BY <1>6, <1>7 DEF cap, n

LEMMA ReclampFacts ==
  ASSUME NEW cap \in Limits, NEW l \in OwnLimits
  PROVE  /\ Reclamp(l, cap) \in OwnLimits
         /\ Reclamp(l, cap) = Loose \/ Clamp(cap, Reclamp(l, cap)) = Reclamp(l, cap)
BY ClampFacts, LimitsOwn DEF Reclamp

LEMMA SetExeTagEdit ==
  ASSUME NEW c \in Settings, Within(c), NEW e \in Exes, NEW tag \in Tags \cup {NoTag}
  PROVE  LET d == [c EXCEPT !.tagOf[e] = tag,
                            !.own[e] = Reclamp(@, TagLimit(c, tag))]
         IN  d \in Settings /\ Within(d)
<1> DEFINE cap == TagLimit(c, tag)
           n == Reclamp(c.own[e], cap)
           d == [c EXCEPT !.tagOf[e] = tag, !.own[e] = Reclamp(@, TagLimit(c, tag))]
<1>1. cap \in Limits
  BY TagLimitType
<1>2. n \in OwnLimits /\ (n = Loose \/ Clamp(cap, n) = n)
  BY <1>1, ReclampFacts DEF Settings
<1>3. /\ d.cap = c.cap
      /\ d.tagOf = [c.tagOf EXCEPT ![e] = tag]
      /\ d.own = [c.own EXCEPT ![e] = n]
  BY DEF Settings
<1>4. tag # NoTag => cap = c.cap[tag]
  BY DEF TagLimit
<1>5. d \in Settings
  <2>1. d.own \in [Exes -> OwnLimits] /\ d.tagOf \in [Exes -> Tags \cup {NoTag}]
    BY <1>2, <1>3 DEF Settings
  <2>2. QED
    BY <2>1 DEF Settings
<1> HIDE DEF cap, n, d
<1>6. Within(d)
  <2> SUFFICES ASSUME NEW x \in Exes, d.tagOf[x] # NoTag, d.own[x] # Loose
               PROVE  Clamp(c.cap[d.tagOf[x]], d.own[x]) = d.own[x]
    BY <1>3 DEF Within
  <2>1. CASE x = e
    BY <1>2, <1>3, <1>4, <2>1 DEF Settings
  <2>2. CASE x # e
    BY <1>3, <2>2 DEF Settings, Within
  <2>3. QED
    BY <2>1, <2>2
<1>7. QED
  BY <1>5, <1>6 DEF d

LEMMA SetTagLimitEdit ==
  ASSUME NEW c \in Settings, Within(c), NEW tag \in Tags, NEW l \in Limits
  PROVE  LET d == [c EXCEPT
                    !.cap[tag] = l,
                    !.own = [e \in Exes |-> IF c.tagOf[e] = tag
                                            THEN Reclamp(@[e], l) ELSE @[e]]]
         IN  d \in Settings /\ Within(d)
<1> DEFINE n == [e \in Exes |-> IF c.tagOf[e] = tag THEN Reclamp(c.own[e], l) ELSE c.own[e]]
           d == [c EXCEPT !.cap[tag] = l,
                          !.own = [e \in Exes |-> IF c.tagOf[e] = tag
                                                  THEN Reclamp(@[e], l) ELSE @[e]]]
<1>1. \A e \in Exes : /\ n[e] \in OwnLimits
                      /\ c.tagOf[e] = tag => n[e] = Loose \/ Clamp(l, n[e]) = n[e]
                      /\ c.tagOf[e] # tag => n[e] = c.own[e]
  BY ReclampFacts DEF Settings
<1>2. /\ d.cap = [c.cap EXCEPT ![tag] = l] /\ d.tagOf = c.tagOf /\ d.own = n
  BY DEF Settings
<1>3. n \in [Exes -> OwnLimits]
  BY <1>1
<1>4. d \in Settings
  BY <1>3 DEF Settings
<1> HIDE DEF n, d
<1>5. Within(d)
  <2> SUFFICES ASSUME NEW x \in Exes, c.tagOf[x] # NoTag, n[x] # Loose
               PROVE  Clamp(d.cap[c.tagOf[x]], n[x]) = n[x]
    BY <1>2 DEF Within
  <2>1. CASE c.tagOf[x] = tag
    BY <1>1, <1>2, <2>1 DEF Settings
  <2>2. CASE c.tagOf[x] # tag
    BY <1>1, <1>2, <2>2 DEF Settings, Within
  <2>3. QED
    BY <2>1, <2>2
<1>6. QED
  BY <1>4, <1>5 DEF d

LEMMA RemoveAppEdit ==
  ASSUME NEW c \in Settings, Within(c), NEW e \in Exes
  PROVE  LET d == [c EXCEPT !.own[e] = Loose, !.tagOf[e] = NoTag]
         IN  d \in Settings /\ Within(d)
BY LimitsOwn DEF Settings, Within

-----------------------------------------------------------------------------
(* OwnLimitWithinTagCap is inductive once the types are known: each method *)
(* of Monitor leaves the settings it edits within the caps, and the file   *)
(* only ever holds a copy of them.                                         *)

CapInv == TypeOK /\ Within(cfg) /\ Within(disk)

LEMMA EditInv ==
  ASSUME CapInv, prog # <<>>, NEW c \in Settings, Within(c), Edit(c)
  PROVE  CapInv'
<1>1. prog' \in Seq(Instr)
  BY DEF CapInv, TypeOK, Edit
<1>2. QED
  BY <1>1 DEF CapInv, TypeOK, Edit, Within

LEMMA InstructionInv ==
  ASSUME CapInv, Instruction
  PROVE  CapInv'
<1> DEFINE i == Head(prog)
<1>0. prog # <<>> /\ i \in Instr /\ cfg \in Settings /\ Within(cfg)
  BY DEF Instruction, SetLimit, SetExeTag, SetTagLimit, RemoveApp, SyncRules, Save,
         At, CapInv, TypeOK
<1>1. CASE SetLimit
  <2>1. i.exe \in Exes /\ i.limit \in OwnLimits
    BY <1>0, <1>1 DEF SetLimit, At, Instr
  <2>2. QED
    BY <1>0, <1>1, <2>1, SetLimitEdit, EditInv DEF SetLimit
<1>2. CASE SetExeTag
  <2>1. i.exe \in Exes /\ i.tag \in Tags \cup {NoTag}
    BY <1>0, <1>2 DEF SetExeTag, At, Instr
  <2>2. QED
    BY <1>0, <1>2, <2>1, SetExeTagEdit, EditInv DEF SetExeTag
<1>3. CASE SetTagLimit
  <2>1. i.tag \in Tags /\ i.limit \in Limits
    BY <1>0, <1>3 DEF SetTagLimit, At, Instr
  <2>2. QED
    BY <1>0, <1>3, <2>1, SetTagLimitEdit, EditInv DEF SetTagLimit
<1>4. CASE RemoveApp
  <2>1. i.exe \in Exes
    BY <1>0, <1>4 DEF RemoveApp, At, Instr
  <2>2. QED
    BY <1>0, <1>4, <2>1, RemoveAppEdit, EditInv DEF RemoveApp
<1>5. CASE SyncRules
  <2>1. prog' \in Seq(Instr) /\ snap' \in Tables
    BY <1>0, <1>5, TablesType DEF SyncRules, CapInv, TypeOK
  <2>2. QED
    BY <1>5, <2>1 DEF SyncRules, CapInv, TypeOK, Within
<1>6. CASE Save
  <2>1. prog' \in Seq(Instr)
    BY <1>0, <1>6 DEF Save, CapInv, TypeOK
  <2>2. QED
    BY <1>6, <2>1 DEF Save, CapInv, TypeOK, Within
<1>7. QED
  BY <1>1, <1>2, <1>3, <1>4, <1>5, <1>6 DEF Instruction

LEMMA HandleInv ==
  ASSUME CapInv, NEW s \in Seq(Instr), Handle(s)
  PROVE  CapInv'
<1>1. left' \in Bounds
  BY DEF Handle, CapInv, TypeOK, Bounds
<1>2. QED
  BY <1>1 DEF Handle, CapInv, TypeOK, Within

LEMMA HandlerInv ==
  ASSUME CapInv, Handler
  PROVE  CapInv'
<1>0. Apply \in Seq(Instr) /\ Saves \in Seq(Instr)
  BY DEF Apply, Saves, Instr
<1>1. ASSUME NEW e \in Exes
      PROVE  /\ RemoveAppOf(e) \in Seq(Instr)
             /\ \A l \in OwnLimits : SetLimitOf(e, l) \in Seq(Instr)
             /\ \A tag \in Tags \cup {NoTag} : SetExeTagOf(e, tag) \in Seq(Instr)
  BY DEF RemoveAppOf, SetLimitOf, SetExeTagOf, Instr
<1>2. ASSUME NEW tag \in Tags, NEW l \in Limits
      PROVE  SetTagLimitOf(tag, l) \in Seq(Instr)
  BY DEF SetTagLimitOf, Instr
<1>3. ASSUME NEW s \in Seq(Instr), NEW u \in Seq(Instr)
      PROVE  s \o u \in Seq(Instr)
  OBVIOUS
<1>4. ASSUME NEW e \in Exes, RemoveSelected(e)
      PROVE  CapInv'
  <2>1. RemoveAppOf(e) \o Apply \in Seq(Instr)
    BY <1>0, <1>1, <1>3
  <2>2. QED
    BY <1>4, <2>1, HandleInv DEF RemoveSelected
<1>5. ASSUME NEW e \in Exes, NEW l \in OwnLimits, LimitSelected(e, l)
      PROVE  CapInv'
  <2>1. SetLimitOf(e, l) \o Apply \in Seq(Instr)
    BY <1>0, <1>1, <1>3
  <2>2. QED
    BY <1>5, <2>1, HandleInv DEF LimitSelected
<1>6. ASSUME NEW e \in Exes, NEW tag \in Tags \cup {NoTag}, TagSelected(e, tag)
      PROVE  CapInv'
  <2>1. SetExeTagOf(e, tag) \o Apply \in Seq(Instr)
    BY <1>0, <1>1, <1>3
  <2>2. QED
    BY <1>6, <2>1, HandleInv DEF TagSelected
<1>7. ASSUME NEW e \in Exes, NEW tag \in Tags \cup {NoTag}, NEW l \in OwnLimits,
             ApplyRule(e, l, tag)
      PROVE  CapInv'
  <2> DEFINE k == Clamp(TagLimit(cfg, tag), l)
  <2>1. k \in OwnLimits
    BY TagLimitType, ClampFacts DEF CapInv, TypeOK
  <2> HIDE DEF k
  <2>2. Saves \o SetExeTagOf(e, tag) \o Apply \o SetLimitOf(e, k) \o Apply \o Saves
          \in Seq(Instr)
    BY <1>0, <1>1, <1>3, <2>1
  <2>3. QED
    BY <1>7, <2>2, HandleInv DEF ApplyRule, k
<1>8. ASSUME NEW tag \in Tags, NEW l \in OwnLimits, EditTag(tag, l)
      PROVE  CapInv'
  <2>1. SetTagLimitOf(tag, l) \o Apply \o Saves \o Saves \in Seq(Instr)
    BY <1>0, <1>2, <1>3, <1>8 DEF EditTag, Entered
  <2>2. QED
    BY <1>8, <2>1, HandleInv DEF EditTag
<1>9. ASSUME NEW tag \in Tags, RemoveTagRule(tag)
      PROVE  CapInv'
  <2>1. SetTagLimitOf(tag, Loose) \o Apply \o Saves \in Seq(Instr)
    BY <1>0, <1>2, <1>3, LimitsOwn
  <2>2. QED
    BY <1>9, <2>1, HandleInv DEF RemoveTagRule
<1>10. CASE SaveOptions
  <2>1. Saves \o Apply \in Seq(Instr)
    BY <1>0, <1>3
  <2>2. QED
    BY <1>10, <2>1, HandleInv DEF SaveOptions
<1>11. QED
  BY <1>4, <1>5, <1>6, <1>7, <1>8, <1>9, <1>10 DEF Handler

LEMMA EndsInv ==
  ASSUME CapInv, NEW d \in Settings, Within(d), Ends(d),
         left' \in Bounds
  PROVE  CapInv'
<1>1. disk' = d /\ cfg' = d /\ snap' \in Tables /\ up' \in BOOLEAN /\ prog' \in Seq(Instr)
  BY NoTablesType, NoProgramType, Zenon DEF Ends
<1>2. Within(cfg)' /\ Within(disk)'
  BY <1>1 DEF Within
<1>3. QED
  BY <1>1, <1>2 DEF CapInv, TypeOK

LEMMA InitInv == Init => CapInv
<1> SUFFICES ASSUME Init
             PROVE  CapInv
  OBVIOUS
<1>0. PICK s \in Starts : StartFrom(s)
  BY DEF Init
<1>1. cfg \in Settings /\ disk \in Settings /\ Within(cfg) /\ Within(disk)
  BY <1>0, StartsAssumption DEF StartFrom
<1>2. snap \in Tables /\ prog \in Seq(Instr) /\ up \in BOOLEAN
  BY <1>0, NoTablesType, NoProgramType, Zenon DEF StartFrom
<1>3. left \in Bounds
  BY <1>0, StartsAssumption DEF StartFrom
<1>4. QED
  BY <1>1, <1>2, <1>3 DEF CapInv, TypeOK

LEMMA NextInv == CapInv /\ [Next]_vars => CapInv'
<1> SUFFICES ASSUME CapInv, [Next]_vars
             PROVE  CapInv'
  OBVIOUS
<1>1. CASE Boot
  <2>1. Apply \in Seq(Instr)
    BY DEF Apply, Instr
  <2>2. left' \in Bounds
    BY <1>1 DEF Boot, CapInv, TypeOK, Bounds
  <2>3. QED
    BY <1>1, <2>1, <2>2 DEF Boot, CapInv, TypeOK, Within
<1>2. CASE Close
  BY <1>2, EndsInv DEF Close, CapInv, TypeOK
<1>3. CASE Crash
  <2>1. left' \in Bounds
    BY <1>3 DEF Crash, CapInv, TypeOK, Bounds
  <2>2. QED
    BY <1>3, <2>1, EndsInv DEF Crash, CapInv, TypeOK
<1>4. CASE UNCHANGED vars
  BY <1>4 DEF vars, CapInv, TypeOK, Within
<1>5. QED
  BY <1>1, <1>2, <1>3, <1>4, InstructionInv, HandlerInv DEF Next

(* The settings, the file and the tables of the throttle keep their types: *)
(* in particular no tag ever has a negative rate.                          *)
THEOREM LimitsTyped == Spec => []TypeOK
<1>1. CapInv => TypeOK
  BY DEF CapInv
<1>2. QED
  BY <1>1, InitInv, NextInv, PTL DEF Spec

(* An own limit never exceeds the limit of its tag, neither in memory nor  *)
(* in settings.txt, in whatever order limits, tags and tag limits are set  *)
(* and wherever a kill falls.                                              *)
THEOREM CapHolds == Spec => []OwnLimitWithinTagCap
<1>1. CapInv => OwnLimitWithinTagCap
  BY DEF CapInv, OwnLimitWithinTagCap
<1>2. QED
  BY <1>1, InitInv, NextInv, PTL DEF Spec

-----------------------------------------------------------------------------
(* The throttle follows the settings.  An edit leaves the tables behind the*)
(* settings until the next "sync", so the invariant says that whoever      *)
(* programs an edit has programmed a "sync" after it.                      *)

EditOps == {"set_limit", "set_exe_tag", "set_tag_limit", "remove_app"}
HasSync(s) == \E i \in 1..Len(s) : s[i].op = "sync"
SyncsEdits(s) ==
  \A i \in 1..Len(s) : s[i].op \in EditOps => \E j \in (i + 1)..Len(s) : s[j].op = "sync"

SyncInv ==
  /\ SyncsEdits(prog)
  /\ up => snap = TablesOf(cfg) \/ HasSync(prog)

LEMMA SyncsTail ==
  ASSUME NEW s \in Seq(Instr), s # <<>>, SyncsEdits(s)
  PROVE  /\ SyncsEdits(Tail(s))
         /\ Head(s).op \in EditOps => HasSync(Tail(s))
<1>0. /\ Len(s) \in Nat /\ Len(s) > 0
      /\ Len(Tail(s)) = Len(s) - 1 /\ Head(s) = s[1]
      /\ \A i \in 1..Len(Tail(s)) : Tail(s)[i] = s[i + 1]
  OBVIOUS
<1>1. ASSUME NEW i \in 1..Len(s), s[i].op \in EditOps
      PROVE  \E k \in i..Len(Tail(s)) : Tail(s)[k].op = "sync"
  <2>1. PICK j \in (i + 1)..Len(s) : s[j].op = "sync"
    BY <1>1 DEF SyncsEdits
  <2>2. (j - 1) \in i..Len(Tail(s)) /\ Tail(s)[j - 1] = s[j]
    BY <1>0, <2>1
  <2>3. QED
    BY <2>1, <2>2
<1>2. SyncsEdits(Tail(s))
  <2> SUFFICES ASSUME NEW i \in 1..Len(Tail(s)), Tail(s)[i].op \in EditOps
               PROVE  \E j \in (i + 1)..Len(Tail(s)) : Tail(s)[j].op = "sync"
    BY DEF SyncsEdits
  <2>1. (i + 1) \in 1..Len(s) /\ s[i + 1].op \in EditOps
    BY <1>0
  <2>2. QED
    BY <1>1, <2>1
<1>3. ASSUME Head(s).op \in EditOps
      PROVE  HasSync(Tail(s))
  BY <1>0, <1>1, <1>3 DEF HasSync
<1>4. QED
  BY <1>2, <1>3

LEMMA HasSyncTail ==
  ASSUME NEW s \in Seq(Instr), s # <<>>, HasSync(s), Head(s).op # "sync"
  PROVE  HasSync(Tail(s))
<1>1. PICK i \in 1..Len(s) : s[i].op = "sync"
  BY DEF HasSync
<1>2. (i - 1) \in 1..Len(Tail(s)) /\ Tail(s)[i - 1] = s[i]
  BY <1>1
<1>3. QED
  BY <1>1, <1>2 DEF HasSync

(* Whatever comes before it, Apply brings the tables up to date; a save    *)
(* edits nothing.                                                          *)
LEMMA SyncsApply ==
  ASSUME NEW s \in Seq(Instr)
  PROVE  SyncsEdits(s \o Apply)
<1> DEFINE u == s \o Apply
<1>1. /\ Len(u) = Len(s) + 2 /\ Len(s) \in Nat
      /\ u[Len(s) + 1].op = "sync" /\ u[Len(s) + 2].op = "save"
  BY DEF Apply
<1> HIDE DEF u
<1>2. SyncsEdits(u)
  <2> SUFFICES ASSUME NEW i \in 1..Len(u), u[i].op \in EditOps
               PROVE  \E j \in (i + 1)..Len(u) : u[j].op = "sync"
    BY DEF SyncsEdits
  <2>1. i # Len(s) + 1 /\ i # Len(s) + 2
    BY <1>1 DEF EditOps
  <2>2. (Len(s) + 1) \in (i + 1)..Len(u)
    BY <1>1, <2>1
  <2>3. QED
    BY <1>1, <2>2
<1>3. QED
  BY <1>2 DEF u

LEMMA SyncsSaves ==
  ASSUME NEW s \in Seq(Instr), SyncsEdits(s)
  PROVE  SyncsEdits(s \o Saves)
<1> DEFINE u == s \o Saves
<1>1. /\ Len(u) = Len(s) + 1 /\ Len(s) \in Nat
      /\ \A i \in 1..Len(s) : u[i] = s[i]
      /\ u[Len(s) + 1].op = "save"
  BY DEF Saves
<1> HIDE DEF u
<1>2. SyncsEdits(u)
  <2> SUFFICES ASSUME NEW i \in 1..Len(u), u[i].op \in EditOps
               PROVE  \E j \in (i + 1)..Len(u) : u[j].op = "sync"
    BY DEF SyncsEdits
  <2>1. i \in 1..Len(s) /\ u[i] = s[i]
    BY <1>1 DEF EditOps
  <2>2. PICK j \in (i + 1)..Len(s) : s[j].op = "sync"
    BY <2>1 DEF SyncsEdits
  <2>3. j \in (i + 1)..Len(u) /\ u[j] = s[j]
    BY <1>1, <2>1, <2>2
  <2>4. QED
    BY <2>2, <2>3
<1>3. QED
  BY <1>2 DEF u

LEMMA HandlerSyncs ==
  ASSUME CapInv, SyncInv, Handler
  PROVE  SyncInv'
<1>1. ASSUME NEW s \in Seq(Instr), SyncsEdits(s), Handle(s)
      PROVE  SyncInv'
  <2>1. up => snap = TablesOf(cfg)
    BY <1>1 DEF SyncInv, HasSync, Handle
  <2>2. QED
    BY <1>1, <2>1 DEF SyncInv, Handle, TablesOf
<1>2. Apply \in Seq(Instr) /\ Saves \in Seq(Instr)
  BY DEF Apply, Saves, Instr
<1>3. ASSUME NEW s \in Seq(Instr), NEW u \in Seq(Instr)
      PROVE  s \o u \in Seq(Instr)
  OBVIOUS
<1>4. ASSUME NEW e \in Exes, NEW tag \in Tags \cup {NoTag}, NEW l \in OwnLimits
      PROVE  /\ RemoveAppOf(e) \in Seq(Instr) /\ SetLimitOf(e, l) \in Seq(Instr)
             /\ SetExeTagOf(e, tag) \in Seq(Instr)
  BY DEF RemoveAppOf, SetLimitOf, SetExeTagOf, Instr
<1>5. ASSUME NEW tag \in Tags, NEW l \in Limits
      PROVE  SetTagLimitOf(tag, l) \in Seq(Instr)
  BY DEF SetTagLimitOf, Instr
<1>6. ASSUME NEW e \in Exes, RemoveSelected(e)
      PROVE  SyncInv'
  BY <1>1, <1>2, <1>3, <1>4, <1>6, LimitsOwn, SyncsApply DEF RemoveSelected
<1>7. ASSUME NEW e \in Exes, NEW l \in OwnLimits, LimitSelected(e, l)
      PROVE  SyncInv'
  BY <1>1, <1>2, <1>3, <1>4, <1>7, SyncsApply DEF LimitSelected
<1>8. ASSUME NEW e \in Exes, NEW tag \in Tags \cup {NoTag}, TagSelected(e, tag)
      PROVE  SyncInv'
  BY <1>1, <1>2, <1>3, <1>4, <1>8, LimitsOwn, SyncsApply DEF TagSelected
<1>9. ASSUME NEW e \in Exes, NEW tag \in Tags \cup {NoTag}, NEW l \in OwnLimits,
             ApplyRule(e, l, tag)
      PROVE  SyncInv'
  <2> DEFINE k == Clamp(TagLimit(cfg, tag), l)
             s == Saves \o SetExeTagOf(e, tag) \o Apply \o SetLimitOf(e, k)
  <2>1. k \in OwnLimits
    BY TagLimitType, ClampFacts DEF CapInv, TypeOK
  <2> HIDE DEF k
  <2>2. s \in Seq(Instr)
    BY <1>2, <1>3, <1>4, <2>1
  <2>3. Handle(s \o Apply \o Saves)
    BY <1>9 DEF ApplyRule, k
  <2> HIDE DEF s
  <2>4. s \o Apply \in Seq(Instr) /\ SyncsEdits(s \o Apply)
    BY <1>2, <1>3, <2>2, SyncsApply
  <2>5. s \o Apply \o Saves \in Seq(Instr) /\ SyncsEdits(s \o Apply \o Saves)
    BY <1>2, <1>3, <2>4, SyncsSaves
  <2>6. QED
    BY <1>1, <2>3, <2>5
<1>10. ASSUME NEW tag \in Tags, NEW l \in OwnLimits, EditTag(tag, l)
      PROVE  SyncInv'
  <2> DEFINE s == SetTagLimitOf(tag, l) \o Apply
  <2>1. s \in Seq(Instr) /\ SyncsEdits(s) /\ Handle(s \o Saves \o Saves)
    BY <1>2, <1>3, <1>5, <1>10, SyncsApply DEF EditTag, Entered
  <2> HIDE DEF s
  <2>2. s \o Saves \in Seq(Instr) /\ SyncsEdits(s \o Saves)
    BY <1>2, <1>3, <2>1, SyncsSaves
  <2>3. s \o Saves \o Saves \in Seq(Instr) /\ SyncsEdits(s \o Saves \o Saves)
    BY <1>2, <1>3, <2>2, SyncsSaves
  <2>4. QED
    BY <1>1, <2>1, <2>3
<1>11. ASSUME NEW tag \in Tags, RemoveTagRule(tag)
      PROVE  SyncInv'
  <2> DEFINE s == SetTagLimitOf(tag, Loose) \o Apply
  <2>1. s \in Seq(Instr) /\ SyncsEdits(s) /\ Handle(s \o Saves)
    BY <1>2, <1>3, <1>5, <1>11, LimitsOwn, SyncsApply DEF RemoveTagRule
  <2> HIDE DEF s
  <2>2. s \o Saves \in Seq(Instr) /\ SyncsEdits(s \o Saves)
    BY <1>2, <1>3, <2>1, SyncsSaves
  <2>3. QED
    BY <1>1, <2>1, <2>2
<1>12. CASE SaveOptions
  BY <1>1, <1>2, <1>3, <1>12, SyncsApply DEF SaveOptions
<1>13. QED
  BY <1>6, <1>7, <1>8, <1>9, <1>10, <1>11, <1>12 DEF Handler

LEMMA InstructionSyncs ==
  ASSUME CapInv, SyncInv, Instruction
  PROVE  SyncInv'
<1>0. prog # <<>> /\ prog \in Seq(Instr) /\ prog' = Tail(prog) /\ up' = up
  BY DEF Instruction, SetLimit, SetExeTag, SetTagLimit, RemoveApp, SyncRules, Save,
         At, Edit, CapInv, TypeOK
<1>1. SyncsEdits(prog')
  BY <1>0, SyncsTail DEF SyncInv
<1>2. CASE SetLimit \/ SetExeTag \/ SetTagLimit \/ RemoveApp
  <2>1. Head(prog).op \in EditOps
    BY <1>2 DEF SetLimit, SetExeTag, SetTagLimit, RemoveApp, At, EditOps
  <2>2. HasSync(prog')
    BY <1>0, <2>1, SyncsTail DEF SyncInv
  <2>3. QED
    BY <1>1, <2>2 DEF SyncInv
<1>3. CASE SyncRules
  BY <1>1, <1>3 DEF SyncInv, SyncRules, TablesOf
<1>4. CASE Save
  <2>1. Head(prog).op # "sync" /\ snap' = snap /\ cfg' = cfg
    BY <1>4 DEF Save, At
  <2>2. HasSync(prog) => HasSync(prog')
    BY <1>0, <2>1, HasSyncTail
  <2>3. QED
    BY <1>0, <1>1, <2>1, <2>2 DEF SyncInv, TablesOf
<1>5. QED
  BY <1>2, <1>3, <1>4 DEF Instruction

LEMMA SyncInit == Init => SyncInv
BY DEF Init, StartFrom, SyncInv, SyncsEdits

LEMMA SyncNext == CapInv /\ SyncInv /\ [Next]_vars => SyncInv'
<1> SUFFICES ASSUME CapInv, SyncInv, [Next]_vars
             PROVE  SyncInv'
  OBVIOUS
<1>1. CASE Boot
  <2>1. SyncsEdits(Apply)
    <3>1. <<>> \o Apply = Apply
      BY DEF Apply
    <3>2. QED
      BY <3>1, NoProgramType, SyncsApply
  <2>2. HasSync(Apply)
    <3>1. Len(Apply) = 2 /\ Apply[1].op = "sync"
      BY DEF Apply
    <3>2. QED
      BY <3>1 DEF HasSync
  <2>3. QED
    BY <1>1, <2>1, <2>2 DEF Boot, SyncInv
<1>2. CASE Close \/ Crash
  BY <1>2 DEF Close, Crash, Ends, SyncInv, SyncsEdits
<1>3. CASE UNCHANGED vars
  BY <1>3 DEF vars, SyncInv, TablesOf
<1>4. QED
  BY <1>1, <1>2, <1>3, HandlerSyncs, InstructionSyncs DEF Next

(* The lower of two buckets is the bucket of the lower limit, where 0 and  *)
(* less mean that there is none.                                           *)
LEMMA RateOfCap ==
  ASSUME NEW c \in Rates, NEW r \in OwnRates
  PROVE  /\ Rate(Cap(c, r)) = LessOf(Rate(r), Rate(c))
         /\ Rate(Cap(0, r)) = LessOf(Rate(r), Unlimited)
BY RateAssumption DEF Rate, Cap, LessOf, Unlimited, Rates, OwnRates

LEMMA TablesEnforce ==
  ASSUME cfg \in Settings, snap = TablesOf(cfg), NEW e \in Exes
  PROVE  Bucket(EffectiveLimit(e)) = Enforced(e)
<1> DEFINE tag == cfg.tagOf[e]
           own == cfg.own[e]
           cap == TagLimit(cfg, tag)
<1>1. /\ tag \in Tags \cup {NoTag} /\ own \in OwnLimits
      /\ tag # NoTag => cfg.cap[tag] \in Limits
      /\ own.up \in OwnRates /\ own.down \in OwnRates
  BY DEF Settings, OwnLimits
<1>2. /\ Bucket(EffectiveLimit(e)).up = Rate(Cap(cap.up, own.up))
      /\ Bucket(EffectiveLimit(e)).down = Rate(Cap(cap.down, own.down))
  BY DEF EffectiveLimit, Bucket, Clamp
<1>3. /\ snap.tagOf[e] = tag /\ snap.own[e] = Bucket(own)
      /\ tag # NoTag => snap.cap[tag] = Bucket(cfg.cap[tag])
  BY <1>1 DEF TablesOf
<1>4. CASE tag = NoTag
  <2>1. cap.up = 0 /\ cap.down = 0 /\ 0 \in Rates
    BY <1>4, RateAssumption DEF TagLimit, Loose, Rates
  <2>2. Enforced(e) = [up |-> LessOf(Rate(own.up), Unlimited),
                       down |-> LessOf(Rate(own.down), Unlimited)]
    BY <1>3, <1>4 DEF Enforced, NoBuckets, Bucket
  <2>3. /\ Rate(Cap(cap.up, own.up)) = LessOf(Rate(own.up), Unlimited)
        /\ Rate(Cap(cap.down, own.down)) = LessOf(Rate(own.down), Unlimited)
    BY <1>1, <2>1, RateOfCap
  <2>4. QED
    BY <1>2, <2>2, <2>3 DEF Bucket
<1>5. CASE tag # NoTag
  <2>1. cap = cfg.cap[tag] /\ cap.up \in Rates /\ cap.down \in Rates
    BY <1>1, <1>5 DEF TagLimit, Limits
  <2>2. Enforced(e) = [up |-> LessOf(Rate(own.up), Rate(cap.up)),
                       down |-> LessOf(Rate(own.down), Rate(cap.down))]
    BY <1>3, <1>5, <2>1 DEF Enforced, Bucket
  <2>3. /\ Rate(Cap(cap.up, own.up)) = LessOf(Rate(own.up), Rate(cap.up))
        /\ Rate(Cap(cap.down, own.down)) = LessOf(Rate(own.down), Rate(cap.down))
    BY <1>1, <2>1, RateOfCap
  <2>4. QED
    BY <1>2, <2>2, <2>3 DEF Bucket
<1>6. QED
  BY <1>4, <1>5

(* Whenever no handler is at work, the buckets in force give every program *)
(* the rate the rules manager shows for it, also after kills and restarts: *)
(* no handler forgets to replace the tables, and the tables of own limits, *)
(* tags and tag limits together mean what Monitor.effective_limit computes.*)
THEOREM ThrottleFollowsManager == Spec => []ThrottleMatchesManager
<1>1. CapInv /\ SyncInv => ThrottleMatchesManager
  <2> SUFFICES ASSUME CapInv, SyncInv, up, prog = <<>>, NEW e \in Exes
               PROVE  Bucket(EffectiveLimit(e)) = Enforced(e)
    BY DEF ThrottleMatchesManager
  <2>1. snap = TablesOf(cfg)
    BY DEF SyncInv, HasSync
  <2>2. QED
    BY <2>1, TablesEnforce DEF CapInv, TypeOK
<1>2. QED
  BY <1>1, InitInv, NextInv, SyncInit, SyncNext, PTL DEF Spec

-----------------------------------------------------------------------------
(* Throttle: arithmetic of a bucket with t tokens that let x bytes pass.   *)

Good(t, x, rate, el) ==
  /\ t \in Int /\ x \in Int
  /\ Holds(t, rate)
  /\ t + Second * x <= rate * (Second + el)
  /\ Accounted(t, x, rate)

LEMMA Distributes ==
  ASSUME NEW i \in Int, NEW j \in Int, NEW k \in Int
  PROVE  i * (j + k) = i * j + i * k
OBVIOUS

LEMMA NewGood ==
  ASSUME NEW rate \in Nat
  PROVE  Good(Second * rate, 0, rate, 0)
<1>1. Second * rate \in Int /\ Second * rate >= 0
  BY ThrottleAssumption
<1>2. Second * 0 = 0 /\ rate * (Second + 0) = Second * rate
  BY ThrottleAssumption
<1>3. QED
  BY <1>1, <1>2 DEF Good, Holds, Accounted

LEMMA RefillGood ==
  ASSUME NEW t, NEW x, NEW rate \in Nat, NEW el \in Nat, Good(t, x, rate, el)
  PROVE  Good(Refill(t, rate), x, rate, el + 1)
<1> DEFINE full == Second * rate
           spent == Second * x
           limit == rate * (Second + el)
           next == rate * (Second + (el + 1))
<1>1. full \in Int /\ spent \in Int /\ limit \in Int /\ t \in Int /\ x \in Int
  BY ThrottleAssumption DEF Good
<1>2. next = limit + rate
  <2>1. Second + (el + 1) = (Second + el) + 1
    BY ThrottleAssumption
  <2>2. rate * ((Second + el) + 1) = limit + rate * 1
    BY ThrottleAssumption, Distributes
  <2>3. QED
    BY <2>1, <2>2
<1>3. /\ t <= full /\ (Limited(rate) => t >= 0)
      /\ t + spent <= limit /\ t + spent >= full
  BY DEF Good, Holds, Accounted
<1>4. full >= 0
  BY ThrottleAssumption
<1> HIDE DEF full, spent, limit, next
<1>5. /\ Refill(t, rate) \in Int /\ Refill(t, rate) >= t
      /\ Refill(t, rate) <= full /\ Refill(t, rate) <= t + rate
  BY <1>1, <1>3 DEF Refill, LessOf, full
<1>6. /\ Refill(t, rate) <= full /\ (Limited(rate) => Refill(t, rate) >= 0)
      /\ Refill(t, rate) + spent <= next /\ Refill(t, rate) + spent >= full
  BY <1>1, <1>2, <1>3, <1>5
<1>7. QED
  BY <1>1, <1>5, <1>6 DEF Good, Holds, Accounted, full, spent, next

LEMMA SpendGood ==
  ASSUME NEW t, NEW x, NEW rate \in Nat, NEW el \in Nat, NEW n \in Nat,
         Good(t, x, rate, el), Limited(rate) => t >= Second * n
  PROVE  Good(t + -(Second * n), x + n, rate, el)
<1> DEFINE cost == Second * n
           spent == Second * x
           full == Second * rate
           limit == rate * (Second + el)
<1>1. /\ cost \in Nat /\ spent \in Int /\ full \in Int /\ limit \in Int
      /\ t \in Int /\ x \in Int
  BY ThrottleAssumption DEF Good
<1>2. Second * (x + n) = spent + cost
  BY <1>1, ThrottleAssumption, Distributes
<1>3. /\ t <= full /\ t + spent <= limit /\ t + spent >= full
  BY DEF Good, Holds, Accounted
<1>4. Limited(rate) => t >= cost
  OBVIOUS
<1> HIDE DEF cost, spent, full, limit
<1>5. /\ t + -cost \in Int /\ t + -cost <= full /\ (Limited(rate) => t + -cost >= 0)
      /\ (t + -cost) + (spent + cost) <= limit /\ (t + -cost) + (spent + cost) >= full
  BY <1>1, <1>3, <1>4
<1>6. x + n \in Int
  BY <1>1
<1>7. QED
  BY <1>2, <1>5, <1>6 DEF Good, Holds, Accounted, cost, spent, full, limit

-----------------------------------------------------------------------------
(* The books of a packet: only its program and its tag, only its direction.*)

LEMMA InBothFacts ==
  ASSUME NEW f \in Amounts, NEW e \in Exes, NEW d \in Dir, NEW x \in Int
  PROVE  /\ InBoth(f, e, d, x) \in Amounts
         /\ \A y \in Exes, c \in Dir :
              InBoth(f, e, d, x).own[y][c] =
                IF y = e /\ c = d THEN f.own[y][c] + x ELSE f.own[y][c]
         /\ \A tag \in Tags, c \in Dir :
              InBoth(f, e, d, x).cap[tag][c] =
                IF tag = snap.tagOf[e] /\ c = d THEN f.cap[tag][c] + x ELSE f.cap[tag][c]
<1> DEFINE own == [f.own EXCEPT ![e][d] = @ + x]
           cap == [tag \in Tags |-> IF tag = snap.tagOf[e]
                                    THEN [f.cap[tag] EXCEPT ![d] = @ + x]
                                    ELSE f.cap[tag]]
<1>1. f = [own |-> f.own, cap |-> f.cap]
      /\ f.own \in [Exes -> [Dir -> Int]] /\ f.cap \in [Tags -> [Dir -> Int]]
  BY DEF Amounts
<1>2. InBoth(f, e, d, x) = [own |-> own, cap |-> cap]
  BY DEF InBoth, InOwn, InTag
<1>3. own \in [Exes -> [Dir -> Int]]
  BY <1>1
<1>4. cap \in [Tags -> [Dir -> Int]]
  BY <1>1
<1>5. \A y \in Exes, c \in Dir :
        own[y][c] = IF y = e /\ c = d THEN f.own[y][c] + x ELSE f.own[y][c]
  BY <1>1
<1>6. \A tag \in Tags, c \in Dir :
        cap[tag][c] = IF tag = snap.tagOf[e] /\ c = d THEN f.cap[tag][c] + x ELSE f.cap[tag][c]
  BY <1>1
<1> HIDE DEF own, cap
<1>7. QED
  BY <1>2, <1>3, <1>4, <1>5, <1>6 DEF Amounts

LEMMA RatesType ==
  ASSUME NEW t \in Tables
  PROVE  /\ \A e \in Exes, d \in Dir : t.own[e][d] \in Nat
         /\ \A tag \in Tags, d \in Dir : t.cap[tag][d] \in Nat
<1>1. \A b \in Buckets, d \in Dir : b[d] \in Nat
  BY RateAssumption DEF Buckets, Dir, Unlimited
<1>2. QED
  BY <1>1 DEF Tables

-----------------------------------------------------------------------------
(* The inductive invariant: the types of Limits, and every bucket is good. *)

AllGood(tk, ps, tables, el) ==
  /\ \A e \in Exes, d \in Dir : Good(tk.own[e][d], ps.own[e][d], tables.own[e][d], el)
  /\ \A tag \in Tags, d \in Dir : Good(tk.cap[tag][d], ps.cap[tag][d], tables.cap[tag][d], el)

BucketInv ==
  /\ CapInv
  /\ tokens \in Amounts /\ passed \in Amounts /\ elapsed \in Nat
  /\ load \in [packets: Nat, ticks: Nat]
  /\ AllGood(tokens, passed, snap, elapsed)

LEMMA FullGood ==
  ASSUME NEW t \in Tables
  PROVE  Full(t) \in Amounts /\ None \in Amounts /\ AllGood(Full(t), None, t, 0)
<1>1. /\ \A e \in Exes, d \in Dir : Second * t.own[e][d] \in Int
      /\ \A tag \in Tags, d \in Dir : Second * t.cap[tag][d] \in Int
  BY RatesType, ThrottleAssumption
<1>2. Full(t) \in Amounts /\ None \in Amounts
  BY <1>1 DEF Full, None, Amounts
<1>3. AllGood(Full(t), None, t, 0)
  BY RatesType, NewGood DEF Full, None, AllGood
<1>4. QED
  BY <1>2, <1>3

(* A packet or a tick leaves the rules alone.                              *)
LEMMA RulesUntouched ==
  ASSUME CapInv, UNCHANGED vars
  PROVE  CapInv'
BY DEF vars, CapInv, TypeOK, Within

LEMMA ElapseInv ==
  ASSUME BucketInv, Elapse
  PROVE  BucketInv'
<1>1. snap \in Tables /\ snap' = snap
  BY DEF BucketInv, CapInv, TypeOK, Elapse, vars
<1>2. /\ \A e \in Exes, d \in Dir :
           Good(Refill(tokens.own[e][d], snap.own[e][d]), passed.own[e][d], snap.own[e][d],
                elapsed + 1)
      /\ \A tag \in Tags, d \in Dir :
           Good(Refill(tokens.cap[tag][d], snap.cap[tag][d]), passed.cap[tag][d],
                snap.cap[tag][d], elapsed + 1)
  BY <1>1, RatesType, RefillGood DEF BucketInv, AllGood
<1>3. /\ \A e \in Exes, d \in Dir :
           /\ tokens'.own[e][d] = Refill(tokens.own[e][d], snap.own[e][d])
           /\ tokens'.own[e][d] \in Int
      /\ \A tag \in Tags, d \in Dir :
           /\ tokens'.cap[tag][d] = Refill(tokens.cap[tag][d], snap.cap[tag][d])
           /\ tokens'.cap[tag][d] \in Int
  BY <1>2 DEF Elapse, Good
<1>4. tokens' \in Amounts
  BY <1>3 DEF Elapse, Amounts
<1>5. passed' = passed /\ elapsed' = elapsed + 1 /\ load' \in [packets: Nat, ticks: Nat]
  BY DEF Elapse, BucketInv
<1>6. AllGood(tokens, passed, snap, elapsed)'
  BY <1>1, <1>2, <1>3, <1>5 DEF AllGood
<1>7. CapInv'
  BY RulesUntouched DEF Elapse, BucketInv
<1>8. QED
  BY <1>4, <1>5, <1>6, <1>7 DEF BucketInv

LEMMA PacketInv ==
  ASSUME BucketInv, NEW e \in Exes, NEW d \in Dir, NEW n \in Lengths, Packet(e, d, n)
  PROVE  BucketInv'
<1>1. snap \in Tables /\ snap' = snap /\ elapsed' = elapsed /\ n \in Nat
  BY ThrottleAssumption DEF BucketInv, CapInv, TypeOK, Packet, vars
<1>2. CapInv' /\ load' \in [packets: Nat, ticks: Nat]
  BY RulesUntouched DEF Packet, BucketInv
<1>3. CASE UNCHANGED <<tokens, passed>>
  BY <1>1, <1>2, <1>3 DEF BucketInv, AllGood
<1>4. CASE ~UNCHANGED <<tokens, passed>>
  <2>1. /\ OwnCan(e, d, n) /\ TagCan(e, d, n)
        /\ tokens' = InBoth(tokens, e, d, -(Second * n))
        /\ passed' = InBoth(passed, e, d, n)
    BY <1>4 DEF Packet, Judge
  <2>2. -(Second * n) \in Int /\ n \in Int
    BY <1>1, ThrottleAssumption
  <2>3. ASSUME NEW f \in Amounts, NEW x \in Int
        PROVE  /\ InBoth(f, e, d, x) \in Amounts
               /\ \A y \in Exes, c \in Dir :
                    InBoth(f, e, d, x).own[y][c] =
                      IF y = e /\ c = d THEN f.own[y][c] + x ELSE f.own[y][c]
               /\ \A tag \in Tags, c \in Dir :
                    InBoth(f, e, d, x).cap[tag][c] =
                      IF tag = snap.tagOf[e] /\ c = d THEN f.cap[tag][c] + x
                                                     ELSE f.cap[tag][c]
    BY InBothFacts
  <2> DEFINE cost == -(Second * n)
  <2>4. cost \in Int /\ n \in Int /\ tokens \in Amounts /\ passed \in Amounts
    BY <2>2 DEF BucketInv
  <2>5. tokens' = InBoth(tokens, e, d, cost) /\ passed' = InBoth(passed, e, d, n)
    BY <2>1
  <2> HIDE DEF cost
  <2>6. /\ tokens' \in Amounts
        /\ \A y \in Exes, c \in Dir :
             tokens'.own[y][c] =
               IF y = e /\ c = d THEN tokens.own[y][c] + cost ELSE tokens.own[y][c]
        /\ \A tag \in Tags, c \in Dir :
             tokens'.cap[tag][c] =
               IF tag = snap.tagOf[e] /\ c = d THEN tokens.cap[tag][c] + cost
                                              ELSE tokens.cap[tag][c]
    BY <2>3, <2>4, <2>5
  <2>7. /\ passed' \in Amounts
        /\ \A y \in Exes, c \in Dir :
             passed'.own[y][c] =
               IF y = e /\ c = d THEN passed.own[y][c] + n ELSE passed.own[y][c]
        /\ \A tag \in Tags, c \in Dir :
             passed'.cap[tag][c] =
               IF tag = snap.tagOf[e] /\ c = d THEN passed.cap[tag][c] + n
                                              ELSE passed.cap[tag][c]
    BY <2>3, <2>4, <2>5
  <2>8. tokens' \in Amounts /\ passed' \in Amounts
    BY <2>6, <2>7
  <2>9. ASSUME NEW y \in Exes, NEW c \in Dir
        PROVE  Good(tokens'.own[y][c], passed'.own[y][c], snap.own[y][c], elapsed)
    <3>1. /\ tokens'.own[y][c] = IF y = e /\ c = d THEN tokens.own[y][c] + -(Second * n)
                                                   ELSE tokens.own[y][c]
          /\ passed'.own[y][c] = IF y = e /\ c = d THEN passed.own[y][c] + n
                                                   ELSE passed.own[y][c]
      BY <2>6, <2>7 DEF cost
    <3>2. Good(tokens.own[y][c], passed.own[y][c], snap.own[y][c], elapsed)
      BY DEF BucketInv, AllGood
    <3>3. snap.own[y][c] \in Nat /\ elapsed \in Nat
      BY <1>1, RatesType DEF BucketInv
    <3>4. CASE y = e /\ c = d
      <4>1. Limited(snap.own[y][c]) => tokens.own[y][c] >= Second * n
        BY <2>1, <3>4 DEF OwnCan
      <4>2. QED
        BY <1>1, <3>1, <3>2, <3>3, <3>4, <4>1, SpendGood
    <3>5. CASE ~(y = e /\ c = d)
      BY <3>1, <3>2, <3>5
    <3>6. QED
      BY <3>4, <3>5
  <2>10. ASSUME NEW tag \in Tags, NEW c \in Dir
        PROVE  Good(tokens'.cap[tag][c], passed'.cap[tag][c], snap.cap[tag][c], elapsed)
    <3>1. /\ tokens'.cap[tag][c] = IF tag = snap.tagOf[e] /\ c = d
                                   THEN tokens.cap[tag][c] + -(Second * n)
                                   ELSE tokens.cap[tag][c]
          /\ passed'.cap[tag][c] = IF tag = snap.tagOf[e] /\ c = d
                                   THEN passed.cap[tag][c] + n ELSE passed.cap[tag][c]
      BY <2>6, <2>7 DEF cost
    <3>2. Good(tokens.cap[tag][c], passed.cap[tag][c], snap.cap[tag][c], elapsed)
      BY DEF BucketInv, AllGood
    <3>3. snap.cap[tag][c] \in Nat /\ elapsed \in Nat
      BY <1>1, RatesType DEF BucketInv
    <3>4. CASE tag = snap.tagOf[e] /\ c = d
      <4>1. Limited(snap.cap[tag][c]) => tokens.cap[tag][c] >= Second * n
        BY <2>1, <3>4 DEF TagCan
      <4>2. QED
        BY <1>1, <3>1, <3>2, <3>3, <3>4, <4>1, SpendGood
    <3>5. CASE ~(tag = snap.tagOf[e] /\ c = d)
      BY <3>1, <3>2, <3>5
    <3>6. QED
      BY <3>4, <3>5
  <2>11. AllGood(tokens, passed, snap, elapsed)'
    BY <1>1, <2>9, <2>10 DEF AllGood
  <2>12. QED
    BY <1>1, <1>2, <2>8, <2>11 DEF BucketInv
<1>5. QED
  BY <1>3, <1>4

-----------------------------------------------------------------------------
(* The throttle adds buckets to Limits and changes nothing of the rules:   *)
(* every step of it is one of Limits or leaves its variables alone.        *)
LEMMA ThrottleStepIsLimits ==
  [ThrottleNext]_<<vars, throttleVars>> => [Next]_vars
BY DEF ThrottleNext, Editing, Elapse, Packet, Next, Instruction

THEOREM ThrottleImplementsLimits == ThrottleSpec => Spec
<1>1. ThrottleInit => Init
  BY DEF ThrottleInit, Init
<1>2. QED
  BY <1>1, ThrottleStepIsLimits, PTL DEF ThrottleSpec, Spec

(* What holds of the limits holds while packets flow and time passes: the  *)
(* caps, and the rates in force between two handlers, which are those of   *)
(* the rules manager.                                                      *)
THEOREM LimitsHoldUnderTraffic ==
  ThrottleSpec => [](OwnLimitWithinTagCap /\ ThrottleMatchesManager)
BY ThrottleImplementsLimits, CapHolds, ThrottleFollowsManager, PTL

LEMMA ThrottleInitInv == ThrottleInit => BucketInv
<1> SUFFICES ASSUME ThrottleInit
             PROVE  BucketInv
  OBVIOUS
<1>1. PICK s \in Starts : StartFrom(s) /\ load = s.load
  BY DEF ThrottleInit
<1>2. CapInv
  BY <1>1, InitInv DEF Init
<1>3. load \in [packets: Nat, ticks: Nat]
  BY <1>1, ThrottleAssumption
<1>4. snap = NoTables /\ tokens = Full(NoTables) /\ passed = None /\ elapsed = 0
  BY <1>1 DEF ThrottleInit, StartFrom
<1>5. QED
  BY <1>2, <1>3, <1>4, NoTablesType, FullGood DEF BucketInv

LEMMA ThrottleNextInv == BucketInv /\ [ThrottleNext]_<<vars, throttleVars>> => BucketInv'
<1> SUFFICES ASSUME BucketInv, [ThrottleNext]_<<vars, throttleVars>>
             PROVE  BucketInv'
  OBVIOUS
<1>1. CapInv'
  BY ThrottleStepIsLimits, NextInv DEF BucketInv
<1>2. CASE Installed
  <2>1. snap' \in Tables
    BY <1>1 DEF CapInv, TypeOK
  <2>2. QED
    BY <1>1, <1>2, <2>1, FullGood DEF Installed, BucketInv
<1>3. CASE Editing /\ UNCHANGED throttleVars
  <2>1. snap' = snap
    BY <1>3 DEF Editing, SetLimit, SetExeTag, SetTagLimit, RemoveApp, Save, Edit, Boot,
       Handler, Handle, RemoveSelected, LimitSelected, TagSelected, ApplyRule, EditTag,
       RemoveTagRule, SaveOptions
  <2>2. QED
    BY <1>1, <1>3, <2>1 DEF throttleVars, BucketInv, AllGood
<1>4. CASE UNCHANGED <<vars, throttleVars>>
  BY <1>1, <1>4 DEF vars, throttleVars, BucketInv, AllGood
<1>5. QED
  BY <1>2, <1>3, <1>4, ElapseInv, PacketInv DEF ThrottleNext

(* Whatever the rules, the rates and the packets are: no bucket is ever    *)
(* overdrawn or holds more than one second's worth.                        *)
THEOREM BucketsAreBounded == ThrottleSpec => []BucketsBounded
<1>1. BucketInv => BucketsBounded
  BY DEF BucketInv, AllGood, Good, BucketsBounded
<1>2. QED
  BY <1>1, ThrottleInitInv, ThrottleNextInv, PTL DEF ThrottleSpec

(* Whatever the rules, the rates and the packets are: a program and a tag  *)
(* stay within the rate and one second's worth above it.                   *)
THEOREM RateIsKept == ThrottleSpec => []RateKept
<1>1. ASSUME BucketInv, NEW t, NEW x, NEW rate \in Nat, Good(t, x, rate, elapsed)
      PROVE  Kept(x, rate)
  <2>1. t \in Int /\ Second * x \in Int /\ rate * (Second + elapsed) \in Int
    BY <1>1, ThrottleAssumption DEF Good, BucketInv
  <2>2. QED
    BY <1>1, <2>1 DEF Good, Holds, Kept
<1>2. BucketInv => RateKept
  BY <1>1, RatesType DEF BucketInv, AllGood, RateKept, CapInv, TypeOK
<1>3. QED
  BY <1>2, ThrottleInitInv, ThrottleNextInv, PTL DEF ThrottleSpec

(* Whatever the rules, the rates and the packets are: no token is lost to  *)
(* a packet that did not pass.                                             *)
THEOREM NoTokenIsBurned == ThrottleSpec => []NothingBurned
<1>1. BucketInv => NothingBurned
  BY DEF BucketInv, AllGood, Good, NothingBurned
<1>2. QED
  BY <1>1, ThrottleInitInv, ThrottleNextInv, PTL DEF ThrottleSpec
=============================================================================
