# Net-Peekier: a TLA+ model

Net-Peekier is a Windows program that shows the network use of processes, blocks
programs through Windows Firewall, caps their speed through WinDivert, and has a
Lockdown mode in which only allowed programs reach the internet. It has several
threads, no tests, and rules that live in three places at once: in memory, in
`settings.txt`, and in Windows (firewall rules, an open divert handle). This
directory models the part of it where the order of events matters.

    tlasany M.tla                          parse a module
    tlc -config X.cfg MC<Module>           one run of the table below
    tlapm <Module>Proofs.tla               the proofs: LockdownProofs, BlockProofs,
                                           SweepProofs, LimitsProofs, EnforcerProofs,
                                           TrafficProofs, IntervalProofs, IpRulesProofs

## 1. The system

### Threads

| thread | started by | what it does |
|---|---|---|
| GUI | `run.py` | every handler of every window, one at a time (Tk); start-up; exit |
| monitor | `Monitor.start` | once a second: processes, connections, rates, history, enforcer ports, Lockdown sweep |
| sniffer | `WinDivertBackend.start` | counts and stores packets |
| enforcer | `_sync_enforcer` (on demand) | diverts the ports of limited programs, drops what is over the limit |
| meters | `sysstats` | samples CPU, memory and sensors for display |

`Monitor._lock` guards the published snapshot, `_rules_lock` the tables of the
throttle, `WinDivertBackend._lock` the counters. **Settings and the four lockdown
sets are shared by the GUI and the monitor thread without any lock.** The slow
operations (netsh, fsync) let the other thread run in between.

### Components

| component (source) | state | operations | what is hard | what makes it correct |
|---|---|---|---|---|
| Rules and Lockdown (`monitor.py`, `firewall.py`, handlers in `gui/`) | block and allow lists, tags, firewall switch, Lockdown switch; `_lockdown_blocked/_pending/_decided`, `_temp_allow`; the firewall rules of Windows | block, allow, tag, tag rules, rule dialog, remove, both switches, sweep, prompt and its four answers, start, exit | sweep against handler at every netsh call; a cache of verdicts; passes that expire; kill between netsh and save; exit with a sweep under way | user blocks stand; an unknown program ends up blocked; who is marked decided really is decided; nothing is left behind |
| Limits and tags (`monitor.py`, `settings.py`) | own limits, tags, tag limits; the tables `_snapshot` of the throttle | `set_limit`, `set_exe_tag`, `set_tag_limit`, `remove_app`, `apply_settings` | the cap must hold for every order of edits; 0 means no limit; copies in the throttle | own limit within the tag's cap; throttle = what the rules manager shows |
| Enforcer (`capture.py`) | rule tables, `_enforced_ports`, `_enforce_handle`, filter and handle of the loop | `sync_rules`, `set_enforced_ports`, `stop`, the loop | three threads; wake-up by closing a handle; lost wake-ups | no handle without a reader; filter and handle follow rules and ports |
| Token buckets (`capture.py`) | rate, tokens, time | `can`, `take`, refill | both buckets or none; full again at every table swap; packet longer than the bucket | never above the rate; nothing charged for what is refused |
| Settings file (`settings.py`) | `settings.txt` | `load`, `save` (temp file, fsync, replace) | kill during save | old or new contents, never half |
| Firewall adapter (`firewall.py`) | rules by name | block, unblock, list, whitelist, remove all | two rules per program, netsh failures | names identify rules of this program only |
| IP rules (`ipcalc.py`, `firewall.py`, `monitor.py`, dialogs) | the list in memory and on disk, two kinds of netsh rules | add, edit, remove, whitelist, start | ends of ranges, `any`, overlaps; kill inside a netsh loop | Windows blocks what the rules say, and nothing else |
| Accounting and packets (`capture.py`, `monitor._tick`) | per-pid and per-connection counters, packet rings | `_on_packet`, `drain_rates`, `forget_pids`, `purge_packets` | sniffer against tick; eviction; reused pids | every byte logged once, to its program; what ended is forgotten; the packet store and its totals agree |
| History (`history.py`) | current window, log file and one backup | `record`, `flush`, rotate, load, aggregate | flush from two threads; rotation; failing write | nothing lost or doubled unless thrown away |
| Process map (`procmap.py`) | caches of pids and ports | refresh, lookup, fallback by port | stale cache | packets go to the right process |
| Windows, widgets, meters | layout | display | | |

Parts interact by direct calls (windows to `Monitor`, `Monitor` to `firewall`,
`settings` and the capture backend), one callback (`lockdown_prompt`, handed to Tk
with `after`), shared dictionaries and sets, and the handle that one thread closes
to wake another.

## 2. Plan

Order: what can cut off or expose a user's programs comes first.

1. **Lockdown** (done): rules, switches, sweep, prompts, life cycle. Proved: types,
   the save property, that who is asked about has a prompt, that the user's blocks
   and the firewall switch mean what they say while no switch ends a Lockdown, that the
   sweep's decisions stand while the user only blocks, allows, answers and quits, and
   that a regular exit leaves nothing behind.
2. **Limits** (done): limits, tags, caps, tables; all three properties proved.
3. **Enforcer** (done): the divert handle and its three threads; safety proved.
4. **Traffic**, **History**, **Ledger** (done): counters, packet store and log between
   sniffer, tick and windows; the ledger of bytes as the abstract specification. All
   safety and action properties proved except `EndedIsForgotten` and `TrafficShows`,
   which are liveness.
5. **IpRules**, **Intervals** (done): per-IP rules and whitelists, their arithmetic
   against the meaning of the rules for each endpoint. Proved: what `_complement`
   computes, the types, and both properties.
6. **Throttle** (done): the buckets of `_allow_packet` on top of Limits; the three
   properties proved, and that it implements Limits.
7. Proofs to come: `QuitLeavesNothing` with the firewall switch used in Lockdown, where TLC
   finds no violation; `UserBlockStands` with both Lockdown switches but without a block
   while the monitor clears; `DecidedIsEnforced` with the exact moments at which each
   other action breaks it as its hypothesis.

## 3. The modules

### Lockdown

The two threads are *programs*: sequences of instructions they still have to run
(`prog["gui"]`, `prog["mon"]`). A handler such as `BlockSelected` or `ApplyRule`
puts its program there; each instruction is one action. An instruction is one
netsh call on one executable, one save, or the memory accesses between two of
those. This is where the code really lets the other thread in; accesses between
two slow operations are merged. Loops over executables become one instruction per
member, in every order the set iteration can have.

| model | code |
|---|---|
| `cfg`, `disk` | `Monitor.settings`, `settings.txt` |
| `osRules` | executables with a "NetPeekier block" rule (the in/out pair is one) |
| `ldBlocked`, `pending`, `decided`, `temp` | `_lockdown_blocked`, `_lockdown_pending`, `_lockdown_decided`, `_temp_allow` |
| `queue`, `dialogs`, `ui` | prompts handed to `after`, open dialogs, the main window |
| `app`, `running`, `alive` | the process, `_running`, the monitor thread |
| `Tick`, `Scan`, `Mark`, `Note`, `Ask` | `_lockdown_sweep`: the guard at its top, then per executable the verdict, the netsh call, the marks, the prompt |
| `Stop` ... `Exit` | `Monitor.stop`, which runs twice: from `_on_close` and from `run.py`'s `finally` |
| `Boot` | `Monitor.__init__` (imports Windows rules as user blocks) and `Monitor.start` |
| `Crash` | a kill between any two instructions: memory is lost, file and Windows stay |
| `Expire` | time passes: a pass of at least one minute outlasts a handler, so it expires only while the GUI thread is idle |
| `Busy` | executables that use the WAN in every tick (the others may, in any tick) |
| `JoinWaits` | whether a sweep ends within the two seconds of `join` |

### Limits

One thread of programs (the GUI thread), because only handlers edit limits; the
throttle and a kill look in between any two instructions. Rates are `0..MaxRate`,
-1 for the negative rates the prompt of the process list lets through, and
`Unlimited` for the code's 10**12. `Clamp`, `SetLimit`, `SetExeTag`,
`SetTagLimit` are the methods of `Monitor`; `LimitSelected`, `ApplyRule`,
`EditTag` and so on the windows, with every call they make in order (including
saves that only write the same file again). `TablesOf` and `SyncRules` are
`sync_rules`.

`Starts` says where a behaviour begins and how far it goes: the settings file, the
handlers, kills and starts that are left, the packets and ticks that are left.

### Throttle

Extends Limits with the buckets behind its tables; nothing of Limits changes except
that a table swap (`SyncRules`, and the end of the process) brings full buckets.

| model | code |
|---|---|
| `tokens.own`, `tokens.cap` | `TokenBucket.tokens` in `_buckets` and `_tag_buckets` |
| `Elapse`, `Refill` | time, and `_refill`. The code refills when a packet asks, for all the time since the last one; clamping at once or late gives the same tokens |
| `OwnCan`, `TagCan`, `Judge` | `_allow_packet`: first ask every bucket, then charge every bucket |
| `Installed` | `sync_rules`: new buckets start full |
| `passed`, `elapsed` | history: what got through, and how long the tables are there |

A tick is `1/Second` of a second and a byte costs `Second` tokens, so everything is an
integer. One judgement is one step: only the enforcer thread judges, and on tables
it took from one snapshot.

### Traffic, History, Ledger

Traffic follows a byte: the sniffer attributes a packet to a pid through the tables
of the process map, the tick turns totals into deltas and gives them to the log,
and the log (History) carries them to the file. A tick is one step per lock it takes
and one per process it visits; a flush is one step per line. Packets, sockets,
processes, the statistics window and its flush come between any two of them.

| model | code |
|---|---|
| `proc`, `sock` | the system: processes and sockets, outside the program |
| `exact`, `loose`, `exeOf`, `timed` | `ProcessMap._exact`, `_loose`, `_exes`, and which `_ctime` is right |
| `ExeFor`, `Denied` | `ProcessMap.exe`: the executable, or the `""` it caches for a process that is gone and for one that may not be read (AccessDenied) |
| `acc`, `total`, `connTotal`, `packets` | the counters and packet rings of the backend |
| `prev`, `prevConns`, `quiet` | `_prev_pid_totals`, `_prev_conns`, time since `_last_active` in ticks |
| `mon` | the locals of the tick in progress: connections, rates, totals, pids to visit, dead pids, rows |
| `TickRefresh` ... `TickPublish` | `_tick` from `procmap.refresh` to the snapshot |
| `bucket`, `live`, `backup` | `_bucket`, `history.jsonl` and `history.jsonl.1`, as bytes per executable |
| `flusher` | where each thread is in `flush` (a line, end of the loop with the file closed, clear and rotation), `_clear_log` (removal) and `load_history` (backup open, file open) |
| `due`, `raced`, `logged`, `ran` | history variables: what should be in the books, whether two flushes met, what was logged of a pid, who has had the pid |

Python raises an error when a dictionary changes its size under a loop; `flush`
swallows it, closes the file and clears the bucket (`WriteEnd`). Windows refuses to
remove or rename a file that a thread has open, also one that the statistics window
reads; `Rotate` then does nothing (backup open), or removes the backup and keeps the
log as it is (log open). One direction of
bytes is modelled, as the code has the same expressions for both, and a packet is one
byte. `_on_packet` is one step: it takes the lock for each packet. `loose` is any
owner of the port, because it depends on the order of the listing.

Ledger is the abstract specification: bytes of a pid that wait, and bytes that were
logged. Counting adds one, logging moves some, and the rest may be dropped. Traffic
implements it with `fresh` as `total - prev`.

### Intervals, IpRules

Intervals is `ipcalc.py`: `Merge` and `Complement` as folds over sorted intervals
(`Sorted` is Python's `sorted` of a set of pairs, by its specification).
IpRules has the list of rules in memory and on disk and two sets of netsh rules.
Everything runs on the GUI thread, so a handler is a program of edits, netsh
loops and saves, which only the end of the process cuts short.

| model | code |
|---|---|
| `rules`, `saved`, `on` | `Settings.ip_rules`, `settings.txt`, `firewall_enabled` |
| `single`, `white` | the rules "NetPeekier ip ..." and "NetPeekier wl ..." of Windows |
| `Adding`, `Removing`, `ApplyWhitelist` | `Monitor.add_ip_rule`, `remove_ip_rule`, `_apply_whitelist` |
| `SinglesOf` | `firewall.add_ip_rule`: one netsh rule per direction and protocol |
| `Ranges`, `PortBlocks`, `WhiteOf` | `set_whitelist` |
| `Cut`, `Kill` | a kill inside a netsh loop: the first calls were made, or any of them where the names come from a set |
| `Refused` | netsh calls fail, any of a loop: loop and handler go on, the list is saved |
| `Start` | `apply_settings`: remove all, install again |
| `lapsed` | history: an edit or a start with the switch off, or a failed call, has left Windows behind |

A text is a model value with its intervals in each family (`Spec4`, `Spec6`), which
is all `ipcalc` makes of it. The list is a set: `_same_ip_rule` keeps it free of
doubles and its order reaches only the order of netsh calls.

### Enforcer

Three threads with a program counter each. `gui` runs `Monitor.start`, `sync_rules`
and `stop`; `mon` the part of `_tick` that reads connections, then limits, then
calls `set_enforced_ports`, and closes the handle it read under the lock after
leaving it; `enf` is `_enforce_loop` line by line (`Test`, `Build`, `CloseOld`,
`Unpublish`, `OpenNew`, `Publish`, `Recv`, ...). `open` and `filter` are the driver:
which handles are open and which ports each one diverts. `recv` raises on a closed
handle (`RecvRaises`) and may fail on an open one (`RecvFails`, up to `MaxFails`
times); either way the loop drops its handle without a close (`DropHandle`), and
`abandoned` remembers the open handles that were dropped so. The verdict on a packet
is a choice. The empty filter stands for Python's `None`. A failed `open` is
`OpenNone`, allowed when `DriverRefuses`. There is one enforcer thread at a time:
only the GUI thread starts one, and only when the last is not alive.

## 4. The runs

| run | result | question |
|---|---|---|
| `lockdown_steady` | pass | Lockdown on; the user blocks, allows and answers while the sweep runs, and quits |
| `lockdown_restarts` | pass | all rule handlers and the firewall switch with kills and restarts |
| `lockdown_switch` | pass | both switches go off and on under a running sweep; exit does not wait for it |
| `lockdown_off` | violated | does turning Lockdown off lift every block? |
| `lockdown_tag` | violated | do blocks through a tag survive Lockdown on and off? |
| `lockdown_unblock` | violated | does Unblock leave the sweep's cache right? |
| `limits` | pass | all edits of limits and tags with kills and restarts; packets and time against the buckets |
| `traffic` | pass | sniffer, tick, processes and sockets, the log with its two writers and a reader |
| `iprules` | pass | IP rules added, edited, removed, refused by netsh, killed half way, started again |
| `enforcer` | pass | edits, moving ports, a `recv` that fails, the three threads in any order |
| `enforcer_spin` | violated | does the loop wait when there is nothing to police? |
| `enforcer_restart` | violated | is a saved limit enforced after a restart? |

### Properties

- `UserBlockStands`: what the user blocked is blocked in Windows whenever the GUI is
  at rest and the switch is on. The sweep, allow and unblock of *Lockdown* blocks,
  kills and restarts all come near it.
- `DecidedIsEnforced`: the cache `_lockdown_decided` is right for each of its members.
- `NewcomerIsDenied`: a program without a pass that uses the WAN ends up blocked,
  also when its pass runs out (liveness).
- `QuitLeavesNothing`: a regular exit leaves only the user's blocks, provided that
  the sweep ends within the join.
- `PendingIsPrompted`: an executable marked as asked-about has a dialog or a prompt
  on its way; otherwise it would never be asked again.
- `FirewallOffDrains`: with Lockdown on and the firewall switch off, a block that a
  late sweep slipped in goes away (liveness). Turning Lockdown off as well is the
  run `lockdown_off`.
- `OffMeansOff`: at rest with the switch off there are no rules, also at a start that
  finds those of a killed process.
- `SavedWhenAtRest`: at rest the file equals memory.
- `OwnLimitWithinTagCap`: no order of edits breaks the cap, in memory or in the file.
- `ThrottleMatchesManager`: between handlers the buckets enforce exactly
  `effective_limit`.
- `NoOrphanHandle`: an open handle is in the hands of the enforcer, so diverted
  packets have a reader; the only exception is a handle on which `recv` failed while it
  was open, which the code drops (item 11 below).
- `HandleFollowsRules`, `FilterFollowsPorts`: while diverted ports carry packets, a
  handle does not outlive the rules or keep an old filter (liveness).
- `WakeUpsArrive`: a thread that waits in `recv` when `sync_rules` or
  `set_enforced_ports` starts to wake it does wake up, packets or not (liveness). A
  thread between `open` and `recv` is not meant (item 12 below).
- `BucketsBounded`: tokens stay between none and a second's worth.
- `RateKept`: since the tables were installed a program, and all programs of a tag
  together, got through what the rate allows and one full bucket.
- `NothingBurned`: what is missing in a bucket has passed; a packet that one bucket
  refuses costs the other nothing.
- `BooksBalance`: every recorded byte is in the bucket, the file or the backup, once,
  except what rotation, Clear log or a failed write threw away, and unless the two
  threads have met inside `flush`, where the code loses and doubles lines.
- `StoreInStep`: packets and totals of connections have the same keys, through purge,
  eviction and new traffic, and a total covers the packets kept.
- `LoggedToOwner`: what is logged for a pid goes to an executable that ran as this pid
  since the tick last looked, so no cache survives the reuse of a pid.
- `RunningIsLogged`: while one process keeps a pid, each byte attributed to it is
  logged, unless its executable could not be read (protected system processes); those
  bytes, and the last ones of processes that ended, are dropped.
- `LedgerSpec`: no byte is logged twice or without having been counted.
- `EndedIsForgotten`, `TrafficShows`: what has ended leaves list and counters; what
  has traffic is in the list, also after it was hidden (liveness).
- `NoLeak`, `NoOverblock`: at rest, for every endpoint, Windows blocks what the block
  rules name and everything that a whitelist does not allow; and nothing else.
  `NoLeak` takes an allow rule for every protocol, as `set_whitelist` does;
  `NoOverblock` is about whitelists without `any` and without two texts that share
  an address (the code blocks too much in the others). After an edit with the switch off or a failed netsh
  call both wait for the next start, which has to repair whatever was left.

### Bounds

Lockdown: two executables (one to be blocked and one that is our own or invalid, or
two that race), one tag, up to three user actions, one kill, two starts. The races
are between one sweep and one handler on one executable; two starts are what
crash recovery needs. `Ops` selects the kinds of action of a run:

- `lockdown_steady` has no `unblock` and no `disallow`. `unblock` breaks
  `DecidedIsEnforced`, which is the run `lockdown_unblock`; allow and disallow within
  one netsh call of the sweep leave a mark that is wrong.
- `lockdown_switch` has no block actions: a block that is taken back within the sweep's
  netsh call leaves a rule that no tick takes away.
- `lockdown_restarts` starts with Lockdown off and has no Lockdown switch: a sweep that
  outlasts both switches breaks `OffMeansOff`, and the monitor's own clear, which
  tests the block list and then calls netsh, can delete a block the user sets in
  between.

Limits: two programs and two tags under symmetry, rates -1..2 in each direction (no
limit, a lower and a higher one, so that a cap can be below, equal and above). Edits
begin with an empty file and have three handlers, one kill, two starts. Packets begin
with a limited program that shares a limited tag with another, and have three packets
of one or two bytes, two ticks of half a second and one handler: enough to empty
both buckets, to refuse by either one, to refill beyond full and to swap the tables
in between. The theorems of section 5 have none of these bounds.

Traffic: two pids, two executables, two connections that share a port, a ring of two
packets, a ceiling of one connection, a log that rolls at two lines, writes that may
fail. Seven scenes, each with up to three packets and without a bound on ticks:
`Reuse` and `Late` (a process ends, its pid is taken over, with sockets of its own
or with late packets of the old ones), `Share` (two processes on a port), `Store`
(purge and eviction), `Quiet` (sockets close, the process is hidden),
`Protected` (executables that cannot be read), `Log` (flush, clear and reading
against the tick). Each scene has the operations that its question needs:
all at once are beyond TLC.

IpRules: addresses 0..4 and 0..1 in the two families and ports 1..3, so that ranges
touch both ends, overlap, nest and leave one gap or none; groups of one range, so that
a whitelist has several netsh rules; eight rules for three programs (one of them no
valid path), two of them in the list at a time; kills and restarts without a bound.
In a second part of the behaviours, with four of the rules, one netsh loop may have
failing calls (`Offers`).
`any` occurs in a block rule only.

Enforcer: one limited program and one tag limit that no program carries, two ports,
two edits, two moves of a port, a filter with room for one port (so that it also
overflows), one `recv` that fails on an open handle. Five handles are enough: at most
one open in the loop, one published, one in the hands of each closing thread, one
abandoned; the two violated runs have no failing `recv` and four handles.

### Fairness

Lockdown: weak fairness of each thread's next instruction, of `Tick` (the loop of
`_loop` sleeps at most a second), of `MonitorEnds`, of `ShowPrompt` (Tk runs what
`after` queued) and of `Expire` (time passes). The user, kills and starts are not
fair. Enforcer: weak fairness of each of the three threads; for `Recv` this means
that a program with a diverted port keeps sending. It is the assumption under which
the code can notice a change it was not woken for, and the properties are stated
for handles that serve packets (`Serving`) for that reason. `WakeUpsArrive` is the
part that needs no packets: a closed handle alone has to wake the thread. `RecvFails`
is not fair: nothing makes a `recv` fail. Traffic: weak fairness of
the tick's next step and of the monitor's own flush (the loop of `_loop` goes on,
and nothing in it waits for another thread longer than a lock is held). Packets,
processes, sockets and the statistics window are not fair. The safety properties of
Limits, Throttle and IpRules need none.

### What the violations show

1. `lockdown_off`: `_clear_lockdown_blocks` copies the set, makes its netsh calls, then
   clears it; a sweep adds an executable meanwhile. Its rule stays in Windows, and
   the next start takes it for a block of the user.
2. `lockdown_tag`: the sweep knows `blocked_exes` but not tags with a block rule. It
   takes a program blocked through its tag for its own, and turning Lockdown off
   removes the rule, although the tag stays blocked.
3. `lockdown_unblock`: Unblock in the process list deletes the rule but leaves the
   executable in `_lockdown_blocked`; the next sweep marks it decided without
   blocking it.
4. `enforcer_spin`: the sleep for "nothing to police yet" is reached only when the
   filter *changes* to `None`. From the start it *is* `None`: the loop calls `recv` on
   `None`, swallows the exception and spins.
5. `enforcer_restart`: `Monitor.start` starts the enforcer before `_running` is set.
   The thread ends at once, and only the next edit starts another one.

Further disagreements, found while modelling and not by a run of their own:

6. The firewall switch leaves per-IP rules and whitelists alone, although the
   README says that all rules are removed and applied again (`lapsed` in IpRules).
7. Clear log removes `history.jsonl` but not the backup, which the window reads too
   (`RemoveLog`).
8. The packet window redraws when the number of packets has changed; when the ring of
   a connection is full it never does.
9. A whitelist ignores protocols, takes `any` for nothing, and lets an entry with
   ports block another entry's ports at a common address.
10. `set_exe_tag` takes a program out of an allowed tag but leaves it in
   `_lockdown_decided`, so the sweep skips it and it keeps its access, although under
   Lockdown "only programs on the allow-list may reach the internet". TLC finds it with
   `Ops = {"tag"}` and a program that starts with an allowed tag.
11. The enforcer is to be fail-open, but a `recv` that fails on a handle that is still
   open makes the loop forget the handle without closing it. It goes on diverting the
   limited ports, and nobody reads it (`RecvFails`, `abandoned`).
12. `sync_rules` is to release the handle "now instead of waiting for the next packet".
   The handle diverts from `open` but is published later; a wake-up in between finds
   none to close, and the stale handle stays until the next packet.
13. The log is to keep one backup. Rotation removes it before it renames the log; when
   another thread has the log open, the rename is refused and there is no backup.

Known and not a run: a sweep that outlasts the join leaves blocks at exit
(`QuitLeavesNothing` with `JoinWaits = FALSE`); an allow that arrives between the
sweep's check and its netsh call leaves an allowed program blocked; a program
blocked in a tick before the window has hooked `lockdown_prompt` is never asked
about; leftovers of tag blocks and Lockdown become user blocks at the next start;
the rule dialog swaps the tables twice, so a program that moves from a tag limit
to a limit of its own is free in between; a limit that is set while the enforcer
thread is on its way out starts no new thread; a write of the log that fails, and two
flushes that meet, lose bytes; the first bytes of a process that takes over a pid
within a tick are forgotten; a packet in hand when the handle is closed is lost. The
properties do not cover these, and where one excuses them its comment says so.

## 5. The proofs

All theorems are about `Spec` of their module (`ThrottleSpec` for the buckets), for
every value of the constants that satisfies the module's assumptions: sets of
executables, tags, pids, ports and connections of any size, any bounds. The two
theorems of BlockProofs and the two of SweepProofs have further hypotheses, explained
below.

| theorem | says | argument |
|---|---|---|
| `LockdownProofs!TypeCorrect` | `[]TypeOK` | one lemma per group of instructions and of handlers; the programs that handlers build are sequences of well-formed instructions |
| `LockdownProofs!SavedAtRest` | `[]SavedWhenAtRest` | `SaveInv` |
| `LockdownProofs!AskedIsPrompted` | `[]PendingIsPrompted` | `PromptInv`, with `LifeInv` |
| `BlockProofs!BlockStands` | `[]UserBlockStands` if no switch ends a Lockdown | `BlockInv` |
| `BlockProofs!OffLeavesNothing` | `[]OffMeansOff` if no switch ends a Lockdown | `BlockInv` |
| `SweepProofs!DecisionsStand` | `[]DecidedIsEnforced` if the user only blocks, allows, answers and quits | `SweepInv`, with `PromptInv` and `BlockInv` |
| `SweepProofs!ExitLeavesNothing` | `[]QuitLeavesNothing` if the monitor ends within the join, no switch is used in Lockdown and nobody leaves a blocked tag | `QuitInv`, with `SaveInv`, `PromptInv` and `BlockInv` |
| `LimitsProofs!LimitsTyped` | `[]TypeOK` | first part of `CapInv` |
| `LimitsProofs!CapHolds` | `[]OwnLimitWithinTagCap` | `CapInv` |
| `LimitsProofs!ThrottleFollowsManager` | `[]ThrottleMatchesManager` | `SyncInv` |
| `LimitsProofs!ThrottleImplementsLimits` | `ThrottleSpec => Spec` | each step of the buckets is a step of Limits or leaves its variables alone |
| `LimitsProofs!LimitsHoldUnderTraffic` | cap and agreement under packets and time | the refinement |
| `LimitsProofs!BucketsAreBounded` | `[]BucketsBounded` | `BucketInv` |
| `LimitsProofs!RateIsKept` | `[]RateKept` | `BucketInv` |
| `LimitsProofs!NoTokenIsBurned` | `[]NothingBurned` | `BucketInv` |
| `EnforcerProofs!EnforcerTyped` | `[]TypeOK` | first part of `HandleInv` |
| `EnforcerProofs!NoHandleIsOrphaned` | `[]NoOrphanHandle`: a `recv` that fails is the only way to leave an open handle without a reader | `HandleInv` |
| `TrafficProofs!TrafficTyped` | `[]TypeOK` | one lemma per step of the tick and per operation |
| `TrafficProofs!StoreStaysInStep` | `[]StoreInStep` | inductive with the types |
| `TrafficProofs!BooksStayBalanced` | `[]BooksBalance` | `Books` |
| `TrafficProofs!AccountingImplementsLedger` | `Spec => LedgerSpec` | `LedgerInv` |
| `TrafficProofs!TrafficGoesToOwner` | `LoggedToOwner` | `OwnerInv` |
| `TrafficProofs!RunningIsNotLost` | `RunningIsLogged` | `LedgerInv`: what a step takes from the waiting bytes, it logs, or the executable of the pid is not readable |
| `IntervalProofs!ComplementCovers` | what `Complement` returns for every finite set of intervals and all bounds | sorting, merging and the loop over the merged intervals, each with its own invariant |
| `IpRulesProofs!IpRulesTyped` | `[]TypeOK` | first part of `Inv` |
| `IpRulesProofs!NothingLeaks` | `[]NoLeak` | `Inv`, `ComplementCovers` |
| `IpRulesProofs!NothingElseIsBlocked` | `[]NoOverblock` | `Inv`, `ComplementCovers` |

### The inductive invariants

`SaveInv`. `SavedWhenAtRest` is not inductive: it says nothing of the moments when a
program runs. `SaveInv` says it for all moments: in the GUI program every edit has a
save behind it (`SavesEdits`), and memory and file are equal unless a save is still
ahead; the monitor's program holds no edit at all. Each handler is shown to build
such a program (`SavingCat`, `EndSave`), and each instruction to leave one.

`PromptInv`. A member of `_lockdown_pending` has a prompt on its way to Tk, or its
dialog is open and no program will close that dialog without having taken the
executable out of the set before (`ClosesSettled`). For the prompts that never come
because there is no window, `LifeInv` has the life cycle: without a window nobody is
pending, the window comes once per process and last in the program of a start,
and after a process nothing of it is left to run.

`BlockInv`. Between the edit of the block list and the netsh call that belongs to it
memory and Windows disagree, so the invariant says what the rest of the GUI program
is going to do. `Standing`: for each executable that the user wants blocked, or will
have blocked when the program has run, the program either lifts that block further
on, or it deletes nothing of the executable and the rule is there or is still going to
be put there. `Cleaning`: while the switch is off and stays so, the program adds no
rule, and each one that is left has a deletion ahead. `Shape` is why no handler blocks
and lifts in one program, and `Quiet` that the sweep does no harm: the monitor thread
runs a sweep only in Lockdown and with the switch on, and a sweep only adds rules.

Its hypothesis `NoSwitchInLockdown` says that the Lockdown switch is not used, and the
firewall switch only where no settings file begins in Lockdown. All other operations
are there: sweep, prompts, unblock, disallow, tags, kills, an exit that does not wait
for the sweep. The runs `lockdown_steady` and `lockdown_restarts` are instances.
The hypothesis is needed: at the end of a Lockdown the monitor thread
(`_clear_lockdown_blocks`) tests the block list and calls netsh later, and when the
user blocks the executable in between, his rule is deleted; and when both switches go
off within one netsh call of the sweep, a rule stays (`lockdown_off`).

`SweepInv`. `DecidedIsEnforced` speaks of the cache at rest; the sweep fills it in four steps
(block, note, ask, mark), and between any two of them an answer, an expiry or another
handler comes. `SweepShape` says which steps are left for the executable in hand,
`Steady` what the GUI programs may hold, and `Enforced(e)` ties together, for each
executable that is neither allowed nor blocked by the user: who is in the books of the
sweep, or about to be noted there, is blocked in Windows; who is decided is blocked or
has a pass; while the sweep works on e no dialog, prompt or pass of e is on its way,
so that nothing lifts the block it has just made; a pass is noted before the block is
lifted and taken out of the books; and a dialog that is answered ends with the handler.
TLC checked it on three instances of 0.4 to 1.7 million states before it was proved.
Its hypothesis `SteadyOps` is the set of actions of the run `lockdown_steady`. It is
needed: cached decisions are not invalidated, and TLC has a counterexample for each
other action (`unblock` is the run `lockdown_unblock`, `tag` is item 10 above;
`disallow`, `rule`, `remove`, `edit_tag` and both switches break it too, some of them
only between two steps of the sweep).

`QuitInv`. Whether a rule is left at the exit is decided long before, so the invariant
accounts for every rule at all times (`Accounted`): it has a reason that the running
program will not take away (`Kept`), or the program is going to delete it (`Undo`), or it
is in the books of the sweep, from which an exit lifts it (`Held`). For a step to
preserve this, netsh adds rules only for a reason (`Puts`), a handler takes a reason
away in its first instructions or not at all and exits last (`Ordered`), and the closing of
a process runs in the order join, clear, exit, with the monitor thread ended and the
books empty at the end (`Closing`). At the exit no program is left to run, memory is
saved (`SaveInv`), and only rules with a reason in the file remain. TLC checked it on
four instances of 8 thousand to 1.1 million states. Its hypotheses: `JoinWaits`, since a
sweep longer than the two seconds of `join` adds a block after the blocks were lifted;
`NoSwitchInLockdown`, since the end of a Lockdown empties the books while a sweep may be
adding to them; `NoBlockedTagLeft`, since a program that leaves a blocked tag through
the tag menu, the rule dialog or remove keeps its rule. TLC has an exit with a rule too many
for the first, the third, and the Lockdown switch. For the firewall switch in Lockdown it
has none; that part of the hypothesis comes from `BlockInv`. The runs check
`QuitLeavesNothing` in `lockdown_steady`, which is an instance.

`CapInv` is `TypeOK` with the cap in memory *and* in the file: `Boot` copies the file,
`Save` copies memory, so neither half is inductive alone. The heart is `ClampFacts`
(clamping is idempotent and its result fits the cap) and one lemma per method.

`SyncInv`. Each edit in a program has a table swap behind it, and while the program
runs the tables are those of the settings or a swap is still ahead. It is the
counterpart of `SaveInv`, and as with it the work is to show of each handler that it
builds such a program. What equal tables mean is the second half: `TablesOf` has
a bucket for positive rates only, for programs and for tags apart, and the theorem
says that together they give `effective_limit`.

`BucketInv`. `RateKept` alone is not inductive: whether a packet may pass depends on
the tokens, so the invariant has to tie tokens, time and what has passed together.
It says of every bucket (`Good`): tokens and what has passed, in tokens, together are
at most a full bucket and what time has added, and at least a full bucket; and no
bucket that is asked is below zero. A refill adds at most one tick's worth to the
left and exactly that to the right; a packet moves an amount from tokens to passed. All
three properties follow from `Good`. That the rates in the tables are natural numbers
comes from the types of Limits, so `CapInv` is a part of `BucketInv`.

`HandleInv`. Of the handles on which no `recv` has failed, at most the one in the
enforcer's own hands is open, and it has none at
the places where it has closed the old one and not opened a new one. That alone is
not inductive: on its way out the thread forgets its handle after `last_unpublish`, so
the invariant needs that the handle is closed there, so that only abandoned ones are
open. The others close only handles that
were published, so they can make `open` smaller and nothing else.

`StoreInStep` is inductive with the types: an eviction takes packets and total of the
same connection, and the purge, which shortens rings, takes a total along exactly when
nothing is left of its ring.

`Books`. As long as no flush has met another flush or a record, one thread at most is
inside the loop of `flush`, and each line in its buffer is the entry of the bucket
(`Alone`). Then the books balance at every step of it (`Balanced`): until the file is
closed the bucket counts and the buffer does not, and from there until the bucket is
cleared the file counts and the bucket does not. A reader changes nothing of this: it
makes a rotation or a removal fail, and what they do in part is accounted for. After a
meeting nothing is claimed.

`LedgerInv`. What the last tick saw of a pid is at most what is counted, and the total
that a tick in progress holds lies in between. `OwnerInv` says of every pid which
executables the caches may still name (one that ran as it, or `""`), by what the tick
knows of its creation time and by whether its death has been noticed.

`Inv` of IpRulesProofs. A handler edits the list first and Windows afterwards, so while
it runs the two disagree, and the invariant says where the rest of it leads: as long as
nothing has lapsed, there is a list such that of every per-IP rule, every rule of a
whitelist and every entry of the list, the last instruction that makes it what that
list wants is followed by none that undoes this (`Leads`). Programs that lead from one
content of Windows to another can be put behind each other (`LeadsOn`), a step leaves
such a program (`LeadsRest`), and add, remove, edit and start build one; start has loops
(`LoopLeads`). At rest nothing is left to run, and Windows mirrors the list. The rest is
about sets of addresses: what the filters of one direction stop (`FiltersStop`) and what
they spare (`FiltersSpare`), from `ComplementCovers`. TLC has checked `Leads` for the
elements that occur, in the behaviours of the run `iprules`, before it was proved.

Induction by counting. The induction theorems of the library take an operator as
their parameter, which no installed prover can instantiate. IntervalProofs does without:
a set within 0..n that holds 0 and with each k < n also k + 1 holds n, because
otherwise adding one would map it one to one into itself without 0, a smaller set
(`CountUp`, `CountAll`, from the pigeonhole principle of the library). A fold
then has the states of its loop as a sequence (`Iterate`), and an invariant of the loop is
proved as in a program. `FlattenSeq`, which is recursive, gets its elements in
the same way (`FlattenElements`).

### Only model-checked

`UserBlockStands` and `OffMeansOff` where a switch is used in Lockdown. Liveness under fairness stays with TLC,
as the prover does not reach `ENABLED`: the fair properties of Lockdown and Enforcer,
and `EndedIsForgotten` and `TrafficShows` of Traffic.

## 6. Not modelled

- netsh calls for whole programs that fail, and the pair of rules per program as two
  rules: Lockdown takes them as one step that succeeds. (IpRules has failing calls.)
- Texts of IP rules that differ in case only: the list tells them apart, the hash in
  the names of their netsh rules does not.
- Settings that only the display uses; a damaged settings file.
- What a row of the process list shows (names, rates, WAN or LAN, totals), the filter
  of the activity log by time, and the age at which a connection list counts as fresh
  (Traffic takes either list).
- Per-connection rates: `_conn_acc` is drained with `acc` and only displayed.
- Drawing, sorting, formatting, the meters: no state that another part reads.
