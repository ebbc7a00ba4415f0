------------------------------ MODULE Throttle ------------------------------
(***************************************************************************)
(* The token buckets that enforce the limits of module Limits              *)
(* (capture.TokenBucket and WinDivertBackend._allow_packet): the tables    *)
(* that the rules install bring full buckets, time refills them, and a     *)
(* packet needs tokens of its program's bucket and of the one the programs *)
(* with its tag share.                                                     *)
(*                                                                         *)
(* A tick is 1/Second of a second, and a byte costs Second tokens, so that *)
(* a tick adds as many tokens as the rate is.  Whether packets reach the   *)
(* throttle at all is module Enforcer's subject.                           *)
(***************************************************************************)
EXTENDS Limits

CONSTANTS Second,  \* ticks of a second
          Lengths  \* lengths of packets

ASSUME ThrottleAssumption ==
  /\ Second \in Nat \ {0}
  /\ Lengths \subseteq Nat
  /\ \A s \in Starts : s.load \in [packets: Nat, ticks: Nat]

VARIABLES
  tokens,   \* TokenBucket.tokens of the buckets in the tables
  passed,   \* history variable: the bytes that _allow_packet has let through
            \* since the tables were installed, of each program and each tag
  elapsed,  \* history variable: ticks since then
  load      \* what remains of the bounds on packets and ticks

throttleVars == <<tokens, passed, elapsed, load>>

Dir == {"up", "down"}
Amounts == [own: [Exes -> [Dir -> Int]], cap: [Tags -> [Dir -> Int]]]

(* A bucket of each program and tag; where the rate is Unlimited the code  *)
(* has none, or one of 10**12 tokens, and nobody looks at it here.         *)
Limited(rate) == rate # Unlimited

(* TokenBucket.__init__: a bucket starts full.                             *)
Full(tables) ==
  [own |-> [e \in Exes |-> [d \in Dir |-> Second * tables.own[e][d]]],
   cap |-> [tag \in Tags |-> [d \in Dir |-> Second * tables.cap[tag][d]]]]

None == [own |-> [e \in Exes |-> [d \in Dir |-> 0]],
         cap |-> [tag \in Tags |-> [d \in Dir |-> 0]]]

ThrottleInit ==
  /\ \E s \in Starts : StartFrom(s) /\ load = s.load
  /\ tokens = Full(NoTables)
  /\ passed = None
  /\ elapsed = 0

(* _refill, when a second is Second ticks.  The code does it when a packet *)
(* asks, for all the time since the last one; the tokens are the same.     *)
RefillUncapped(t, rate) == t + rate  \* mutant: tokens pile up while idle
Refill(t, rate) == LessOf(Second * rate, t + rate)

Elapse ==
  /\ up /\ load.ticks > 0
  /\ load' = [load EXCEPT !.ticks = @ - 1]
  /\ elapsed' = elapsed + 1
  /\ tokens' = [own |-> [e \in Exes |->
                           [d \in Dir |-> Refill(tokens.own[e][d], snap.own[e][d])]],
                cap |-> [tag \in Tags |->
                           [d \in Dir |-> Refill(tokens.cap[tag][d], snap.cap[tag][d])]]]
  /\ UNCHANGED <<vars, passed>>

(* _allow_packet, for a packet whose program is known.                     *)
OwnCan(e, d, n) == Limited(snap.own[e][d]) => tokens.own[e][d] >= Second * n
TagCan(e, d, n) ==
  \A tag \in Tags : snap.tagOf[e] = tag /\ Limited(snap.cap[tag][d]) =>
                      tokens.cap[tag][d] >= Second * n

InOwn(f, e, d, x) == [own |-> [f.own EXCEPT ![e][d] = @ + x], cap |-> f.cap]
InTag(f, e, d, x) ==
  [own |-> f.own,
   cap |-> [tag \in Tags |-> IF tag = snap.tagOf[e]
                             THEN [f.cap[tag] EXCEPT ![d] = @ + x] ELSE f.cap[tag]]]
InBoth(f, e, d, x) == InTag(InOwn(f, e, d, x), e, d, x)

JudgeInTurn(e, d, n) ==  \* mutant: allow() of one bucket after the other
  IF ~OwnCan(e, d, n) THEN UNCHANGED <<tokens, passed>>
  ELSE IF ~TagCan(e, d, n)
    THEN tokens' = InOwn(tokens, e, d, -(Second * n)) /\ UNCHANGED passed
    ELSE /\ tokens' = InBoth(tokens, e, d, -(Second * n))
         /\ passed' = InBoth(passed, e, d, n)

JudgeByOwn(e, d, n) ==  \* mutant: a program with a limit of its own skips the tag's
  IF OwnCan(e, d, n) /\ (Limited(snap.own[e][d]) \/ TagCan(e, d, n))
    THEN /\ tokens' = InOwn(tokens, e, d, -(Second * n))
         /\ passed' = InBoth(passed, e, d, n)
    ELSE UNCHANGED <<tokens, passed>>

Judge(e, d, n) ==
  IF OwnCan(e, d, n) /\ TagCan(e, d, n)
    THEN /\ tokens' = InBoth(tokens, e, d, -(Second * n))
         /\ passed' = InBoth(passed, e, d, n)
    ELSE UNCHANGED <<tokens, passed>>

Packet(e, d, n) ==
  /\ up /\ load.packets > 0
  /\ load' = [load EXCEPT !.packets = @ - 1]
  /\ Judge(e, d, n)
  /\ UNCHANGED <<vars, elapsed>>

(* New tables, at a sync of the rules or at the end of the process, which  *)
(* is the end of the throttle.                                             *)
Installed ==
  /\ tokens' = Full(snap')
  /\ passed' = None
  /\ elapsed' = 0
  /\ UNCHANGED load

Editing == SetLimit \/ SetExeTag \/ SetTagLimit \/ RemoveApp \/ Save \/ Handler \/ Boot

ThrottleNext ==
  \/ (SyncRules \/ Close \/ Crash) /\ Installed
  \/ Editing /\ UNCHANGED throttleVars
  \/ Elapse
  \/ \E e \in Exes, d \in Dir, n \in Lengths : Packet(e, d, n)

ThrottleSpec == ThrottleInit /\ [][ThrottleNext]_<<vars, throttleVars>>

-----------------------------------------------------------------------------
(* The tokens of a bucket that is asked stay between none and one second's *)
(* worth, whatever waits between two packets (TokenBucket._refill).        *)
Holds(t, rate) ==
  t <= Second * rate /\ (Limited(rate) => t >= 0)

BucketsBounded ==
  /\ tokens \in Amounts /\ passed \in Amounts
  /\ elapsed \in Nat
  /\ load \in [packets: Nat, ticks: Nat]
  /\ \A d \in Dir : /\ \A e \in Exes : Holds(tokens.own[e][d], snap.own[e][d])
                    /\ \A tag \in Tags : Holds(tokens.cap[tag][d], snap.cap[tag][d])

(* From the moment the tables are installed a program, and all programs of *)
(* a tag together, get through what the rate allows and one second's worth *)
(* more, the full bucket of the start (_allow_packet: "must satisfy BOTH   *)
(* its own limit and any shared tag limit").                               *)
Kept(x, rate) == Limited(rate) => Second * x <= rate * (Second + elapsed)

RateKept ==
  \A d \in Dir : /\ \A e \in Exes : Kept(passed.own[e][d], snap.own[e][d])
                 /\ \A tag \in Tags : Kept(passed.cap[tag][d], snap.cap[tag][d])

(* A packet that one bucket refuses costs the other nothing (TokenBucket:  *)
(* "otherwise checking the first would wrongly burn its tokens"): what is  *)
(* missing in a bucket has passed.                                         *)
Accounted(t, x, rate) == t + Second * x >= Second * rate

NothingBurned ==
  \A d \in Dir :
    /\ \A e \in Exes : Accounted(tokens.own[e][d], passed.own[e][d], snap.own[e][d])
    /\ \A tag \in Tags : Accounted(tokens.cap[tag][d], passed.cap[tag][d], snap.cap[tag][d])

=============================================================================
