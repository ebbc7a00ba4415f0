------------------------------ MODULE History ------------------------------
(***************************************************************************)
(* The rolling activity log (netpeekier/history.py) and the statistics     *)
(* window that reads, flushes and clears it (gui/stats_window.py).         *)
(*                                                                         *)
(* The monitor thread records byte counts in _bucket and flushes them to   *)
(* log/history.jsonl; the statistics window flushes and clears from the    *)
(* GUI thread.  No lock protects _bucket or the two files, so a flush is   *)
(* several steps here: start of the loop, one line, end of the loop (the   *)
(* file is closed), clear and rotation.  Windows refuses to remove or      *)
(* rename a file that a thread has open, for writing or (the window) for   *)
(* reading.  Numbers of bytes are kept for one direction: the code treats  *)
(* both alike.                                                             *)
(***************************************************************************)
EXTENDS Integers, FiniteSets

CONSTANTS
    Exe,       \* executables
    MaxLines,  \* stands for _MAX_BYTES: lines in the file that make it roll
    WriteFails \* TRUE: opening or writing the file may fail

ASSUME HistoryAssumption ==
    /\ IsFiniteSet(Exe)
    /\ MaxLines \in Nat \ {0}
    /\ WriteFails \in BOOLEAN

VARIABLES
    bucket,    \* _bucket: bytes per executable of the window; 0 is no entry
    live,      \* history.jsonl: bytes per executable
    lines,     \* history.jsonl: number of lines
    backup,    \* history.jsonl.1
    flusher,   \* where each thread is in flush, _clear_log and load_history
    due,       \* history variable: what was recorded and not thrown away
               \* on purpose (rotation, Clear log) or by a failed write
    raced      \* history variable: two threads met inside flush

historyVars == <<bucket, live, lines, backup, flusher, due, raced>>

Thread == {"mon", "gui"}
Empty == [e \in Exe |-> 0]
Idle == [at |-> "idle", keys |-> {}, buf |-> Empty, next |-> "idle"]
At(place) == [Idle EXCEPT !.at = place]

(* The entries of _bucket. *)
Entries == {e \in Exe : bucket[e] > 0}

Plus(f, g) == [e \in Exe |-> f[e] + g[e]]
Minus(f, g) == [e \in Exe |-> f[e] - g[e]]
Busy(t) == flusher[t].at # "idle"
InLoop(t) == flusher[t].at \in {"write", "clear"}
Others(t) == Thread \ {t}
HeldOpen(t, places) == \E o \in Others(t) : flusher[o].at \in places

HistoryTypeOK ==
    /\ bucket \in [Exe -> Nat]
    /\ live \in [Exe -> Nat]
    /\ backup \in [Exe -> Nat]
    /\ lines \in Nat
    /\ due \in [Exe -> Int]
    /\ raced \in BOOLEAN
    /\ flusher \in [Thread -> [at : {"idle", "write", "clear", "remove", "load", "backup", "file"},
                               keys : SUBSET Exe,
                               buf : [Exe -> Nat],
                               next : {"idle", "remove", "load"}]]

HistoryInit ==
    /\ bucket = Empty
    /\ live = Empty
    /\ lines = 0
    /\ backup = Empty
    /\ flusher = [t \in Thread |-> Idle]
    /\ due = Empty
    /\ raced = FALSE

(***************************************************************************)
(* record, called by the monitor thread: an addition to the entry of an    *)
(* executable.  It is no step of its own but part of the caller's.         *)
(***************************************************************************)
Record(e, n) ==
    /\ bucket' = [bucket EXCEPT ![e] = @ + n]
    /\ due' = [due EXCEPT ![e] = @ + n]
    /\ raced' = (raced \/ InLoop("gui"))
    /\ UNCHANGED <<live, lines, backup, flusher>>

(* flush begins: with an empty bucket there is nothing to open. *)
FlushStart(t, next) ==
    /\ ~Busy(t)
    /\ flusher' = [flusher EXCEPT ![t] =
                     [Idle EXCEPT !.at = IF Entries = {} THEN "clear" ELSE "write",
                                  !.keys = Entries, !.next = next]]
    /\ raced' = (raced \/ \E o \in Others(t) : InLoop(o))
    /\ UNCHANGED <<bucket, live, lines, backup, due>>

(* One line of the loop, into the buffer of the open file.  Python checks  *)
(* before each step that the dictionary still has the size it had.         *)
WriteLine(t) ==
    /\ flusher[t].at = "write"
    /\ Cardinality(Entries) = Cardinality(flusher[t].keys)
    /\ \E e \in Entries :
         /\ flusher[t].buf[e] = 0
         /\ flusher' = [flusher EXCEPT ![t].buf[e] = bucket[e]]
    /\ UNCHANGED <<bucket, live, lines, backup, due, raced>>

(* The loop is over, or the dictionary has changed its size: either way    *)
(* the with statement closes the file, which writes the lines so far, and  *)
(* the exception is swallowed.                                             *)
WriteEnd(t) ==
    /\ flusher[t].at = "write"
    /\ \/ \A e \in Entries : flusher[t].buf[e] > 0
       \/ Cardinality(Entries) # Cardinality(flusher[t].keys)
    /\ live' = Plus(live, flusher[t].buf)
    /\ lines' = lines + Cardinality({e \in Exe : flusher[t].buf[e] > 0})
    /\ flusher' = [flusher EXCEPT ![t].at = "clear", ![t].buf = Empty]
    /\ UNCHANGED <<bucket, backup, due, raced>>

(* The file cannot be opened or written: nothing of it arrives. *)
WriteFail(t) ==
    /\ WriteFails
    /\ flusher[t].at = "write"
    /\ flusher' = [flusher EXCEPT ![t].at = "clear", ![t].buf = Empty]
    /\ due' = Minus(due, bucket)
    /\ UNCHANGED <<bucket, live, lines, backup, raced>>

(* _bucket.clear() and _maybe_rotate: the old backup is removed first,     *)
(* then the file takes its place.  The first may be refused, and nothing   *)
(* happens, or only the second, and there is no backup.                    *)
Rotate(t) ==
    \/ /\ lines < MaxLines \/ HeldOpen(t, {"backup"})
       /\ UNCHANGED <<live, lines, backup, due>>
    \/ /\ lines >= MaxLines /\ ~HeldOpen(t, {"backup"})
       /\ due' = Minus(due, backup)
       /\ IF HeldOpen(t, {"write", "file"})
            THEN /\ backup' = Empty
                 /\ UNCHANGED <<live, lines>>
            ELSE /\ backup' = live
                 /\ live' = Empty
                 /\ lines' = 0

BucketStays(t) ==  \* mutant: the window is not cleared
    /\ flusher[t].at = "clear"
    /\ Rotate(t)
    /\ flusher' = [flusher EXCEPT ![t] = Idle]
    /\ UNCHANGED <<bucket, raced>>

ClearBucket(t) ==
    /\ flusher[t].at = "clear"
    /\ bucket' = Empty
    /\ Rotate(t)
    /\ flusher' = [flusher EXCEPT ![t] = At(flusher[t].next)]
    /\ UNCHANGED raced

(* _clear_log after its flush: os.remove of history.jsonl, not of the      *)
(* backup; an open file cannot be removed, and the window says so.         *)
RemoveLog(t) ==
    /\ flusher[t].at = "remove"
    /\ IF HeldOpen(t, {"write"})
         THEN UNCHANGED <<live, lines, due>>
         ELSE /\ due' = Minus(due, live)
              /\ live' = Empty
              /\ lines' = 0
    /\ flusher' = [flusher EXCEPT ![t] = At("load")]
    /\ UNCHANGED <<bucket, backup, raced>>

(* reload, by itself or after a flush: load_history opens the backup, then *)
(* the file, if they are there.                                            *)
LoadStart(t) ==
    /\ ~Busy(t)
    /\ flusher' = [flusher EXCEPT ![t] = At("load")]
    /\ UNCHANGED <<bucket, live, lines, backup, due, raced>>

LoadNext(t) ==
    /\ flusher[t].at \in {"load", "backup", "file"}
    /\ flusher' = [flusher EXCEPT ![t] =
                     IF flusher[t].at = "load" /\ backup # Empty THEN At("backup")
                     ELSE IF flusher[t].at # "file" /\ lines > 0 THEN At("file")
                     ELSE Idle]
    /\ UNCHANGED <<bucket, live, lines, backup, due, raced>>

FlushStep(t) ==
    \/ WriteLine(t)
    \/ WriteEnd(t)
    \/ WriteFail(t)
    \/ ClearBucket(t)
    \/ RemoveLog(t)
    \/ LoadNext(t)

(* load_history and aggregate: what the statistics window shows of an      *)
(* executable, backup and file together, over all time.                    *)
Loaded(e) == backup[e] + live[e]
=============================================================================
