------------------------------- MODULE Logger -------------------------------
(***************************************************************************)
(* Logger (xx_logger.h): callers put items in one buffer, a thread of the  *)
(* logger swaps it with another and writes that one to the current file,   *)
(* which is renamed and followed by a new one when it is full.             *)
(*                                                                         *)
(* Items are numbered as they are accepted, and files filled by number of  *)
(* items instead of bytes.  A section under the mutex is one step.         *)
(***************************************************************************)
EXTENDS Integers, Sequences

CONSTANTS Caller,
          Sizes,        \* the values of cfg.maxBytes: a file with more items is renamed
          FileCounts,   \* the values of cfg.logFileCount
          MaxItem       \* bound on the items

ASSUME LoggerAssumption ==
  /\ Sizes \subseteq Nat /\ Sizes # {} /\ MaxItem \in Nat
  /\ FileCounts \subseteq Nat \ {0} /\ FileCounts # {}

VARIABLES
  items1, items2,   \* filled by the callers; what the thread has still to write
  disposing,
  caller,           \* "in" when a caller is in Log behind the test of disposing
  writer,           \* of the thread: "load", "swap", "dump", "end", "exited"
  maxBytes, logFileCount, fileCount, wroteLen,
  ofs,              \* "good", "bad" after a write that failed, or "closed"
  current, old,     \* contents of the current file, and of old[n] renamed to .n, or none
  dtor,             \* the destructor: "no", "joining", "done"
  accepted, due,    \* history: items accepted, and those before the destructor began
  written, failed,  \* history: what went to files; has one failed to open or to be written?
  begin,            \* history: how many items were written before those of the current file,
                    \* begin[0], and before those of .n
  cut               \* history: were there more files than logFileCount at a rename?

file == <<maxBytes, logFileCount, fileCount, wroteLen, ofs, current, old, written, failed,
          begin, cut>>
vars == <<items1, items2, disposing, caller, writer, dtor, accepted, due, file>>

Item == 1..MaxItem
\* A name .n is given up to the greatest fileCount and one more.
Number == UNION {1..(n + 1) : n \in FileCounts}

TypeOK ==
  /\ items1 \in Seq(Item) /\ items2 \in Seq(Item)
  /\ disposing \in 0..2 /\ caller \in [Caller -> {"idle", "in"}]
  /\ writer \in {"load", "swap", "dump", "end", "exited"}
  /\ writer = "dump" <=> items2 # <<>>
  /\ maxBytes \in Sizes /\ logFileCount \in FileCounts
  /\ fileCount \in Nat /\ \E n \in FileCounts : fileCount <= n
  /\ wroteLen \in Nat /\ \E n \in Sizes : wroteLen <= n
  /\ ofs \in {"good", "bad", "closed"} /\ failed \in BOOLEAN /\ cut \in BOOLEAN
  /\ current \in Seq(Item) /\ old \in [Number -> Seq(Item)] /\ written \in Seq(Item)
  /\ begin \in [{0} \cup Number -> 0..Len(written)]
  /\ dtor \in {"no", "joining", "done"} /\ accepted \in 0..MaxItem /\ due \in 0..accepted

Init ==
  /\ items1 = <<>> /\ items2 = <<>> /\ disposing = 0
  /\ caller = [c \in Caller |-> "idle"]
  /\ writer = "load"
  /\ maxBytes \in Sizes /\ logFileCount \in FileCounts /\ fileCount = 0 /\ wroteLen = 0
  /\ ofs \in {"good", "closed"} /\ failed = (ofs # "good") /\ cut = FALSE
  /\ current = <<>> /\ old = [n \in Number |-> <<>>] /\ written = <<>>
  /\ begin = [n \in {0} \cup Number |-> 0]
  /\ dtor = "no" /\ accepted = 0 /\ due = 0

-----------------------------------------------------------------------------
(* Log, the destructor *)

LogTest(c) ==
  /\ caller[c] = "idle" /\ disposing = 0 /\ accepted < MaxItem
  /\ caller' = [caller EXCEPT ![c] = "in"]
  /\ UNCHANGED <<items1, items2, disposing, writer, dtor, accepted, due, file>>

\* disposing is not tested again under the mutex.  A caller that is still here when
\* the destructor has returned would use a logger that is gone.
LogPush(c) ==
  /\ caller[c] = "in" /\ dtor # "done" /\ accepted < MaxItem
  /\ accepted' = accepted + 1
  /\ items1' = Append(items1, accepted')
  /\ caller' = [caller EXCEPT ![c] = "idle"]
  /\ UNCHANGED <<items2, disposing, writer, dtor, due, file>>

Dispose ==
  /\ dtor = "no"
  /\ disposing' = 1 /\ dtor' = "joining" /\ due' = accepted
  /\ UNCHANGED <<items1, items2, caller, writer, accepted, file>>

Join ==
  /\ dtor = "joining" /\ writer = "exited"
  /\ dtor' = "done"
  /\ UNCHANGED <<items1, items2, disposing, caller, writer, accepted, due, file>>

-----------------------------------------------------------------------------
(* The thread (Loop) *)

LoadConfig ==
  /\ writer = "load" /\ writer' = "swap"
  /\ logFileCount' \in FileCounts /\ maxBytes' \in Sizes
  /\ UNCHANGED <<items1, items2, disposing, caller, dtor, accepted, due, fileCount, wroteLen,
                 ofs, current, old, written, failed, begin, cut>>

\* A batch is left out when there is no file for it.
Swap ==
  /\ writer = "swap"
  /\ items1' = <<>>
  /\ items2' = IF ofs # "closed" THEN items1 ELSE <<>>
  /\ writer' = IF items1 = <<>> THEN "end" ELSE IF ofs # "closed" THEN "dump" ELSE "load"
  /\ UNCHANGED <<disposing, caller, dtor, accepted, due, file>>

\* FileRename, where last is what the current file holds: the numbers of the others go
\* up by one, the last first, and the one with number logFileCount is removed.  (A file
\* that has nothing counts as none.)
Moves(n) == n <= fileCount /\ old[n] # <<>>
RenamedUpwards(last) ==   \* mutant: the first first
  [n \in Number |-> IF n = 1 THEN last
                    ELSE IF n = fileCount + 1 /\ fileCount < logFileCount THEN old[1] ELSE <<>>]
Renamed(last) ==
  [n \in Number |-> IF n = 1 THEN last
                    ELSE IF n - 1 # logFileCount /\ Moves(n - 1) THEN old[n - 1]
                    ELSE IF Moves(n) THEN <<>> ELSE old[n]]

\* One item is written, unless that fails or something has failed before, and the file
\* renamed if that was too much.  To open the next one leaves the failure behind.
DumpResetting(n) ==
  \E done \in BOOLEAN :
    LET line == IF done THEN <<Head(items2)>> ELSE <<>>
        full == wroteLen + 1 > maxBytes
    IN /\ writer = "dump" /\ (done => ofs = "good")
       /\ items2' = Tail(items2)
       /\ writer' = IF items2' = <<>> THEN "load" ELSE "dump"
       /\ written' = written \o line
       /\ IF full
          THEN /\ current' = <<>> /\ old' = Renamed(current \o line) /\ wroteLen' = n
               /\ fileCount' = IF fileCount < logFileCount THEN fileCount + 1 ELSE fileCount
               /\ ofs' \in {"good", "closed"}
               /\ begin' = [k \in {0} \cup Number |->
                               IF k = 0 THEN Len(written') ELSE begin[k - 1]]
               /\ cut' = (cut \/ fileCount > logFileCount)
          ELSE /\ current' = current \o line /\ wroteLen' = wroteLen + 1
               /\ ofs' = IF done \/ ofs = "closed" THEN ofs ELSE "bad"
               /\ UNCHANGED <<old, fileCount, begin, cut>>
       /\ failed' = (failed \/ ~done \/ ofs' # "good")
       /\ UNCHANGED <<items1, disposing, caller, dtor, accepted, due, logFileCount, maxBytes>>
DumpWithoutReset == DumpResetting(wroteLen + 1)   \* mutant
Dump == DumpResetting(0)

\* LabEnd: when the logger is to end, one more round.
EndAfter(n) ==
  /\ writer = "end"
  /\ IF disposing = n THEN writer' = "exited" /\ UNCHANGED disposing
     ELSE writer' = "load" /\ disposing' = IF disposing = 1 THEN 2 ELSE disposing
  /\ UNCHANGED <<items1, items2, caller, dtor, accepted, due, file>>
EndAtOnce == EndAfter(1)     \* mutant
EndTooLate == EndAfter(3)    \* mutant
End == EndAfter(2)

Loop == LoadConfig \/ Swap \/ Dump \/ End

Next == \/ \E c \in Caller : LogTest(c) \/ LogPush(c)
        \/ Dispose \/ Join \/ Loop

\* The thread runs and gets the mutex in the end.
Spec == Init /\ [][Next]_vars /\ WF_vars(Loop) /\ WF_vars(Join)

-----------------------------------------------------------------------------
\* What was accepted comes in order and once, whatever the callers do while the buffers
\* are swapped, and a file that does not open or a write that fails leaves gaps only.  As
\* long as neither happens each item is in one place, and all that was accepted before the
\* destructor began is written when it returns: "loop once more before leaving, to write
\* all data" (comment on line 647).
WrittenInOrder ==
  LET all == written \o items2 \o items1
  IN /\ \A i, j \in DOMAIN all : i < j => all[i] < all[j]
     /\ ~failed => all = [n \in 1..accepted |-> n] /\ (dtor = "done" => Len(written) >= due)

\* The files hold the last items without a gap: the numbered ones from the oldest, which
\* has the greatest number, to .1, and then the current file; none of them is empty, and
\* only those that were above logFileCount are ever removed.  That ends with an open or a
\* write that fails, and when a configuration that was loaded has a logFileCount less than
\* the files there are: the next rename leaves the oldest and removes one between.
FilesInOrder ==
  ~failed /\ ~cut =>
    /\ current = SubSeq(written, begin[0] + 1, Len(written))
    /\ \A n \in Number :
         IF n <= fileCount
         THEN begin[n] < begin[n - 1] /\ old[n] = SubSeq(written, begin[n] + 1, begin[n - 1])
         ELSE old[n] = <<>>

\* What is accepted before the destructor begins is written, unless an open or a write fails;
\* and the destructor returns.
Served ==
  /\ \A n \in Item :
       accepted >= n /\ dtor = "no" ~> failed \/ n \in {written[k] : k \in DOMAIN written}
  /\ dtor = "joining" ~> dtor = "done"
=============================================================================
