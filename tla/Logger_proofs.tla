---------------------------- MODULE Logger_proofs ----------------------------
(* Proofs that what Logger writes is in order and complete, and that the    *)
(* files hold the last of it, for any number of callers, items and files    *)
(* and for any sizes, whatever is loaded from the configuration.            *)
EXTENDS Logger, SequenceTheorems, TLAPS

\* What does not depend on the files.
Typed ==
  /\ items1 \in Seq(Item) /\ items2 \in Seq(Item) /\ written \in Seq(Item)
  /\ disposing \in 0..2 /\ caller \in [Caller -> {"idle", "in"}]
  /\ writer \in {"load", "swap", "dump", "end", "exited"}
  /\ writer = "dump" <=> items2 # <<>>
  /\ ofs \in {"good", "bad", "closed"} /\ failed \in BOOLEAN
  /\ dtor \in {"no", "joining", "done"} /\ accepted \in 0..MaxItem /\ due \in 0..accepted

Increasing(s) == \A i, j \in DOMAIN s : i < j => s[i] < s[j]
Below(s, t) == \A i \in DOMAIN s, j \in DOMAIN t : s[i] < t[j]
UpTo(s, n) == \A i \in DOMAIN s : s[i] <= n
From(s, n) == \A i \in DOMAIN s : s[i] = n + i

\* Whatever is lost, what is left is in the order of the numbers.
Sorted ==
  /\ Increasing(written) /\ Increasing(items2) /\ Increasing(items1)
  /\ Below(written, items2) /\ Below(written, items1) /\ Below(items2, items1)
  /\ UpTo(written, accepted) /\ UpTo(items2, accepted) /\ UpTo(items1, accepted)

\* Nothing is lost as long as nothing fails.
Exact == ~failed =>
  /\ ofs = "good"
  /\ accepted = Len(written) + Len(items2) + Len(items1)
  /\ From(written, 0) /\ From(items2, Len(written)) /\ From(items1, Len(written) + Len(items2))

\* The thread ends after a round that began when disposing was set, and found nothing.
Late ==
  /\ disposing # 0 <=> dtor # "no"
  /\ dtor = "done" => writer = "exited"
  /\ writer = "exited" => disposing = 2
  /\ (writer = "exited" \/ (writer = "end" /\ disposing = 2)) /\ ~failed => Len(written) >= due

OrderInv == Typed /\ Sorted /\ Exact /\ Late

\* The current file holds as many items as were counted.
Counted ==
  ~failed => /\ ofs = "good" /\ Len(current) = wroteLen
             /\ begin[0] = Len(written) - Len(current)

FilesInv == TypeOK /\ Counted /\ FilesInOrder

LEMMA Lengths ==
  ASSUME NEW s \in Seq(Item)
  PROVE  /\ Len(s) \in Nat /\ DOMAIN s = 1..Len(s)
         /\ \A i \in DOMAIN s : s[i] \in Item /\ s[i] \in Int
         /\ (s = <<>> <=> Len(s) = 0)
<1>1. Len(s) \in Nat /\ DOMAIN s = 1..Len(s) BY LenProperties
<1>2. \A i \in DOMAIN s : s[i] \in Item BY <1>1, ElementOfSeq
<1>3. s = <<>> <=> Len(s) = 0 BY EmptySeq
<1> QED BY <1>1, <1>2, <1>3 DEF Item

LEMMA Empty == <<>> \in Seq(Item) /\ Len(<<>>) = 0 /\ DOMAIN <<>> = {}
  OBVIOUS

LEMMA Consts == MaxItem \in Nat /\ Sizes \subseteq Nat /\ FileCounts \subseteq Nat \ {0}
  BY LoggerAssumption DEF LoggerAssumption

-----------------------------------------------------------------------------
(* What is written, on its way and waiting. *)

LEMMA InitOrder == Init => OrderInv
<1> SUFFICES ASSUME Init PROVE OrderInv OBVIOUS
<1>1. Typed BY Consts, Empty DEF Init, Typed
<1>2. Sorted BY Empty DEF Init, Sorted, Increasing, Below, UpTo
<1>3. Exact
  <2>1. ~failed => ofs = "good" BY DEF Init
  <2> QED BY <2>1, Empty DEF Init, Exact, From
<1>4. Late BY DEF Init, Late
<1> QED BY <1>1, <1>2, <1>3, <1>4 DEF OrderInv

\* A step that leaves the items where they are.
LEMMA SameItems ==
  ASSUME Sorted, Exact, UNCHANGED <<items1, items2, written, failed, ofs, accepted>>
  PROVE  Sorted' /\ Exact'
  BY DEF Sorted, Exact, Increasing, Below, UpTo, From

LEMMA PushOrder == ASSUME OrderInv, NEW c \in Caller, LogPush(c) PROVE OrderInv'
<1> USE DEF OrderInv
<1>1. /\ items1 \in Seq(Item) /\ Len(items1) \in Nat /\ DOMAIN items1 = 1..Len(items1)
      /\ \A i \in DOMAIN items1 : items1[i] \in Int
  BY Lengths DEF Typed
<1>2. /\ written \in Seq(Item) /\ Len(written) \in Nat /\ DOMAIN written = 1..Len(written)
      /\ \A i \in DOMAIN written : written[i] \in Int
  BY Lengths DEF Typed
<1>3. /\ items2 \in Seq(Item) /\ Len(items2) \in Nat /\ DOMAIN items2 = 1..Len(items2)
      /\ \A i \in DOMAIN items2 : items2[i] \in Int
  BY Lengths DEF Typed
<1>4. accepted \in Nat /\ accepted' = accepted + 1 /\ accepted' \in Item /\ accepted' \in 0..MaxItem
  BY Consts DEF Typed, LogPush, Item
<1>5. /\ items1' \in Seq(Item) /\ Len(items1') = Len(items1) + 1
      /\ \A i \in 1..Len(items1) : items1'[i] = items1[i]
      /\ items1'[Len(items1) + 1] = accepted'
  BY <1>1, <1>4, AppendProperties DEF LogPush
<1>6. DOMAIN items1' = 1..(Len(items1) + 1) BY <1>5, LenProperties
<1>7. UNCHANGED <<items2, written, failed, ofs, disposing, writer, dtor, due>>
  BY DEF LogPush, file
<1>8. Typed'
  <2>1. caller' \in [Caller -> {"idle", "in"}] BY DEF LogPush, Typed
  <2>2. due \in 0..accepted' BY <1>4 DEF Typed
  <2> QED BY <1>4, <1>5, <1>7, <2>1, <2>2 DEF Typed
<1>9. Sorted'
  <2>1. Increasing(items1)' BY <1>1, <1>4, <1>5, <1>6 DEF Increasing, Sorted, UpTo
  <2>2. Below(written, items1)' BY <1>1, <1>2, <1>4, <1>5, <1>6, <1>7 DEF Below, Sorted, UpTo
  <2>3. Below(items2, items1)' BY <1>1, <1>3, <1>4, <1>5, <1>6, <1>7 DEF Below, Sorted, UpTo
  <2>4. UpTo(items1, accepted)' BY <1>1, <1>4, <1>5, <1>6 DEF Sorted, UpTo
  <2>5. UpTo(written, accepted)' /\ UpTo(items2, accepted)'
    BY <1>2, <1>3, <1>4, <1>7 DEF Sorted, UpTo
  <2>6. Increasing(written)' /\ Increasing(items2)' /\ Below(written, items2)'
    BY <1>7 DEF Sorted, Increasing, Below
  <2> QED BY <2>1, <2>2, <2>3, <2>4, <2>5, <2>6 DEF Sorted
<1>10. Exact'
  <2> SUFFICES ASSUME ~failed PROVE Exact' BY <1>7 DEF Exact
  <2>1. accepted = Len(written) + Len(items2) + Len(items1) BY DEF Exact
  <2>2. From(items1, Len(written) + Len(items2))'
    <3>1. From(items1, Len(written) + Len(items2)) BY DEF Exact
    <3>2. \A i \in DOMAIN items1' : items1'[i] = Len(written) + Len(items2) + i
      <4> SUFFICES ASSUME NEW i \in DOMAIN items1' PROVE items1'[i] = Len(written) + Len(items2) + i
        OBVIOUS
      <4>1. CASE i = Len(items1) + 1
        <5>1. items1'[i] = accepted' BY <4>1, <1>5
        <5> QED BY <5>1, <4>1, <2>1, <1>1, <1>2, <1>3, <1>4
      <4>2. CASE i # Len(items1) + 1
        <5>1. i \in DOMAIN items1 /\ items1'[i] = items1[i] BY <4>2, <1>1, <1>5, <1>6
        <5> QED BY <5>1, <3>1 DEF From
      <4> QED BY <4>1, <4>2
    <3> QED BY <3>2, <1>7 DEF From
  <2>3. From(written, 0)' /\ From(items2, Len(written))' BY <1>7 DEF Exact, From
  <2>4. accepted' = Len(written)' + Len(items2)' + Len(items1)'
    BY <2>1, <1>1, <1>2, <1>3, <1>4, <1>5, <1>7
  <2> QED BY <2>2, <2>3, <2>4, <1>7 DEF Exact
<1>11. Late' BY <1>7 DEF Late
<1> QED BY <1>8, <1>9, <1>10, <1>11

LEMMA SwapOrder == ASSUME OrderInv, Swap PROVE OrderInv'
<1> USE DEF OrderInv
<1>1. /\ items2 = <<>> /\ items1' = <<>> /\ items2' = IF ofs # "closed" THEN items1 ELSE <<>>
      /\ UNCHANGED <<written, failed, ofs, disposing, dtor, accepted, due, caller>>
  BY DEF Swap, file, Typed
<1>2. Len(items1) \in Nat /\ Len(written) \in Nat /\ (items1 = <<>> <=> Len(items1) = 0)
  BY Lengths DEF Typed
<1>3. Typed'
  <2>1. items1' \in Seq(Item) /\ items2' \in Seq(Item) BY <1>1, Empty DEF Typed
  <2>2. writer' = "dump" <=> items2' # <<>> BY <1>1 DEF Swap
  <2>3. writer' \in {"load", "swap", "dump", "end", "exited"} BY DEF Swap
  <2> QED BY <1>1, <2>1, <2>2, <2>3 DEF Typed
<1>4. Sorted'
  <2>1. CASE ofs # "closed"
    <3>1. items2' = items1 BY <2>1, <1>1
    <3> QED BY <3>1, <1>1, Empty DEF Sorted, Increasing, Below, UpTo
  <2>2. CASE ofs = "closed"
    <3>1. items2' = <<>> BY <2>2, <1>1
    <3> QED BY <3>1, <1>1, Empty DEF Sorted, Increasing, Below, UpTo
  <2> QED BY <2>1, <2>2
<1>5. Exact'
  <2> SUFFICES ASSUME ~failed PROVE Exact' BY <1>1 DEF Exact
  <2>1. ofs = "good" /\ items2' = items1 BY <1>1 DEF Exact
  <2>2. Len(items2) = 0 /\ Len(items1') = 0 /\ DOMAIN items1' = {} BY <1>1, Empty
  <2>3. From(items1, Len(written)) BY <2>2, <1>2 DEF Exact
  <2> QED BY <1>1, <1>2, <2>1, <2>2, <2>3 DEF Exact, From
<1>6. Late'
  <2>1. ~failed /\ writer' = "end" => Len(written) >= due
    <3> SUFFICES ASSUME ~failed, writer' = "end" PROVE Len(written) >= due OBVIOUS
    <3>1. items1 = <<>> BY DEF Swap
    <3>2. accepted = Len(written) BY <3>1, <1>1, <1>2, Empty DEF Exact
    <3> QED BY <3>2 DEF Typed
  <2>2. writer' # "exited" /\ writer # "exited" BY DEF Swap
  <2> QED BY <1>1, <2>1, <2>2 DEF Late
<1> QED BY <1>3, <1>4, <1>5, <1>6

\* What Dump does to the current file.
DumpOf(done) ==
  LET line == IF done THEN <<Head(items2)>> ELSE <<>> IN
  /\ done => ofs = "good"
  /\ written' = written \o line
  /\ failed' = (failed \/ ~done \/ ofs' # "good")
  /\ \/ /\ wroteLen + 1 > maxBytes
        /\ current' = <<>> /\ old' = Renamed(current \o line) /\ wroteLen' = 0
        /\ fileCount' = IF fileCount < logFileCount THEN fileCount + 1 ELSE fileCount
        /\ ofs' \in {"good", "closed"}
        /\ begin' = [k \in {0} \cup Number |-> IF k = 0 THEN Len(written') ELSE begin[k - 1]]
        /\ cut' = (cut \/ fileCount > logFileCount)
     \/ /\ ~(wroteLen + 1 > maxBytes)
        /\ current' = current \o line /\ wroteLen' = wroteLen + 1
        /\ ofs' = IF done \/ ofs = "closed" THEN ofs ELSE "bad"
        /\ UNCHANGED <<old, fileCount, begin, cut>>

LEMMA DumpParts == Dump => \E done \in BOOLEAN : DumpOf(done)
BY DEF Dump, DumpResetting, DumpOf

LEMMA DumpOrder == ASSUME OrderInv, Dump PROVE OrderInv'
<1> USE DEF OrderInv
<1>1. /\ items1 \in Seq(Item) /\ Len(items1) \in Nat /\ DOMAIN items1 = 1..Len(items1)
      /\ \A i \in DOMAIN items1 : items1[i] \in Int
  BY Lengths DEF Typed
<1>2. /\ written \in Seq(Item) /\ Len(written) \in Nat /\ DOMAIN written = 1..Len(written)
      /\ \A i \in DOMAIN written : written[i] \in Int
  BY Lengths DEF Typed
<1>3. /\ items2 \in Seq(Item) /\ Len(items2) \in Nat /\ DOMAIN items2 = 1..Len(items2)
      /\ \A i \in DOMAIN items2 : items2[i] \in Int
  BY Lengths DEF Typed
<1>4. items2 # <<>> /\ Len(items2) # 0 /\ items2[1] \in Item /\ Head(items2) = items2[1]
  <2>1. items2 # <<>> BY DEF Dump, DumpResetting, Typed
  <2>2. Len(items2) # 0 BY <2>1, Lengths DEF Typed
  <2>3. items2[1] \in Item BY <2>2, <1>3, ElementOfSeq
  <2> QED BY <2>1, <2>2, <2>3
<1>5. items2' = Tail(items2) BY DEF Dump, DumpResetting
<1>6. /\ items2' \in Seq(Item) /\ Len(items2') = Len(items2) - 1
      /\ \A i \in 1..(Len(items2) - 1) : items2'[i] = items2[i + 1]
  BY <1>3, <1>4, <1>5, HeadTailProperties
<1>7. DOMAIN items2' = 1..(Len(items2) - 1) BY <1>6, LenProperties
<1>8. \A i \in DOMAIN items2' : i + 1 \in DOMAIN items2 /\ items2'[i] = items2[i + 1]
  BY <1>3, <1>6, <1>7
<1>9. UNCHANGED <<items1, disposing, caller, dtor, accepted, due>> BY DEF Dump, DumpResetting
<1> PICK done \in BOOLEAN : DumpOf(done) BY DumpParts
<1>10. written' = IF done THEN Append(written, items2[1]) ELSE written
  <2>1. written' = written \o (IF done THEN <<Head(items2)>> ELSE <<>>) BY DEF DumpOf
  <2>2. CASE done
    <3>1. Append(written, items2[1]) = written \o <<items2[1]>> BY <1>2, <1>4, AppendIsConcat
    <3> QED BY <2>1, <2>2, <3>1, <1>4
  <2>3. CASE ~done
    <3>1. written \o <<>> = written BY <1>2, ConcatEmptySeq
    <3> QED BY <2>1, <2>3, <3>1
  <2> QED BY <2>2, <2>3
<1>11. /\ ofs' \in {"good", "bad", "closed"} /\ failed' \in BOOLEAN
       /\ ~failed' => ~failed /\ done /\ ofs' = "good"
  BY DEF DumpOf, Typed
<1>12. ASSUME done PROVE written' \in Seq(Item) /\ Sorted' /\ Exact'
  <2>1. /\ written' \in Seq(Item) /\ Len(written') = Len(written) + 1
        /\ \A i \in 1..Len(written) : written'[i] = written[i]
        /\ written'[Len(written) + 1] = items2[1]
    BY <1>2, <1>4, <1>10, <1>12, AppendProperties
  <2>2. DOMAIN written' = 1..(Len(written) + 1) BY <2>1, LenProperties
  <2>3. \A i \in DOMAIN written' :
           \/ i \in DOMAIN written /\ written'[i] = written[i]
           \/ i = Len(written) + 1 /\ written'[i] = items2[1]
    BY <1>2, <2>1, <2>2
  <2>4. 1 \in DOMAIN items2 BY <1>3, <1>4
  <2>5. Sorted'
    <3>1. Increasing(written)' BY <1>2, <1>3, <2>2, <2>3, <2>4 DEF Sorted, Increasing, Below
    <3>2. Increasing(items2)' BY <1>3, <1>7, <1>8 DEF Sorted, Increasing
    <3>3. Below(written, items2)'
      BY <1>3, <1>7, <1>8, <2>3, <2>4 DEF Sorted, Increasing, Below
    <3>4. Below(written, items1)' BY <1>9, <2>3, <2>4 DEF Sorted, Below
    <3>5. Below(items2, items1)' BY <1>8, <1>9 DEF Sorted, Below
    <3>6. UpTo(written, accepted)' BY <1>9, <2>3, <2>4 DEF Sorted, UpTo
    <3>7. UpTo(items2, accepted)' BY <1>8, <1>9 DEF Sorted, UpTo
    <3>8. Increasing(items1)' /\ UpTo(items1, accepted)' BY <1>9 DEF Sorted, Increasing, UpTo
    <3> QED BY <3>1, <3>2, <3>3, <3>4, <3>5, <3>6, <3>7, <3>8 DEF Sorted
  <2>6. Exact'
    <3> SUFFICES ASSUME ~failed, ofs' = "good" PROVE Exact' BY <1>11 DEF Exact
    <3>1. From(written, 0) /\ From(items2, Len(written)) /\ From(items1, Len(written) + Len(items2))
      BY DEF Exact
    <3>2. \A i \in DOMAIN written' : written'[i] = 0 + i
      <4>1. items2[1] = Len(written) + 1 BY <3>1, <2>4 DEF From
      <4> QED BY <4>1, <3>1, <1>2, <2>3 DEF From
    <3>3. \A i \in DOMAIN items2' : items2'[i] = Len(written') + i
      BY <3>1, <1>2, <1>3, <1>7, <1>8, <2>1 DEF From
    <3>4. Len(written') + Len(items2') = Len(written) + Len(items2) BY <1>2, <1>3, <1>6, <2>1
    <3>5. \A i \in DOMAIN items1' : items1'[i] = (Len(written') + Len(items2')) + i
      BY <3>1, <3>4, <1>9 DEF From
    <3>6. accepted' = Len(written') + Len(items2') + Len(items1') BY <3>4, <1>9 DEF Exact
    <3> QED BY <3>2, <3>3, <3>5, <3>6 DEF Exact, From
  <2> QED BY <2>1, <2>5, <2>6
<1>13. ASSUME ~done PROVE written' \in Seq(Item) /\ Sorted' /\ Exact'
  <2>1. written' = written BY <1>10, <1>13
  <2>2. Sorted'
    <3>1. Increasing(items2)' BY <1>3, <1>7, <1>8 DEF Sorted, Increasing
    <3>2. Below(written, items2)' BY <1>8, <2>1 DEF Sorted, Below
    <3>3. Below(items2, items1)' BY <1>8, <1>9 DEF Sorted, Below
    <3>4. UpTo(items2, accepted)' BY <1>8, <1>9 DEF Sorted, UpTo
    <3>5. Increasing(written)' /\ Increasing(items1)' /\ Below(written, items1)'
      BY <1>9, <2>1 DEF Sorted, Increasing, Below
    <3>6. UpTo(written, accepted)' /\ UpTo(items1, accepted)' BY <1>9, <2>1 DEF Sorted, UpTo
    <3> QED BY <3>1, <3>2, <3>3, <3>4, <3>5, <3>6 DEF Sorted
  <2>3. Exact' BY <1>11, <1>13 DEF Exact
  <2> QED BY <2>1, <2>2, <2>3, <1>2
<1>6a. written' \in Seq(Item) /\ Sorted' /\ Exact'
  BY <1>12, <1>13
<1>15. Typed'
  <2>1. writer' \in {"load", "dump"} /\ (writer' = "dump" <=> items2' # <<>>)
    BY DEF Dump, DumpResetting
  <2> QED BY <1>6, <1>9, <1>11, <1>6a, <2>1 DEF Typed
<1>16. Late'
  <2>1. writer' \in {"load", "dump"} /\ writer = "dump" BY DEF Dump, DumpResetting
  <2> QED BY <1>9, <2>1 DEF Late
<1> QED BY <1>6a, <1>15, <1>16

LEMMA OrderStep == ASSUME OrderInv, [Next]_vars PROVE OrderInv'
<1> USE DEF OrderInv
<1>1. CASE UNCHANGED vars
  <2>1. Typed' BY <1>1 DEF Typed, vars, file
  <2>2. Sorted' /\ Exact' BY <1>1, SameItems DEF vars, file
  <2>3. Late' BY <1>1 DEF Late, vars, file
  <2> QED BY <2>1, <2>2, <2>3
<1>2. ASSUME NEW c \in Caller, LogTest(c) PROVE OrderInv'
  <2>1. Typed' BY <1>2 DEF Typed, LogTest, file
  <2>2. Sorted' /\ Exact' BY <1>2, SameItems DEF LogTest, file
  <2>3. Late' BY <1>2 DEF Late, LogTest, file
  <2> QED BY <2>1, <2>2, <2>3
<1>3. ASSUME NEW c \in Caller, LogPush(c) PROVE OrderInv' BY <1>3, PushOrder
<1>4. CASE Dispose
  <2>1. Typed' BY <1>4, Consts DEF Typed, Dispose, file
  <2>2. Sorted' /\ Exact' BY <1>4, SameItems DEF Dispose, file
  <2>3. Late' BY <1>4 DEF Late, Dispose, file
  <2> QED BY <2>1, <2>2, <2>3
<1>5. CASE Join
  <2>1. Typed' BY <1>5 DEF Typed, Join, file
  <2>2. Sorted' /\ Exact' BY <1>5, SameItems DEF Join, file
  <2>3. Late' BY <1>5 DEF Late, Join, file
  <2> QED BY <2>1, <2>2, <2>3
<1>6. CASE LoadConfig
  <2>1. Typed' BY <1>6 DEF Typed, LoadConfig
  <2>2. Sorted' /\ Exact' BY <1>6, SameItems DEF LoadConfig
  <2>3. Late' BY <1>6 DEF Late, LoadConfig
  <2> QED BY <2>1, <2>2, <2>3
<1>7. CASE Swap BY <1>7, SwapOrder
<1>8. CASE Dump BY <1>8, DumpOrder
<1>9. CASE End
  <2>1. Typed' BY <1>9 DEF Typed, End, EndAfter, file
  <2>2. Sorted' /\ Exact' BY <1>9, SameItems DEF End, EndAfter, file
  <2>3. Late' BY <1>9 DEF Late, End, EndAfter, file, Typed
  <2> QED BY <2>1, <2>2, <2>3
<1> QED BY <1>1, <1>2, <1>3, <1>4, <1>5, <1>6, <1>7, <1>8, <1>9 DEF Next, Loop

\* One sequence after another.
LEMMA Concat ==
  ASSUME NEW s \in Seq(Item), NEW t \in Seq(Item)
  PROVE  /\ s \o t \in Seq(Item) /\ Len(s \o t) = Len(s) + Len(t)
         /\ \A i \in DOMAIN (s \o t) :
              \/ i \in DOMAIN s /\ (s \o t)[i] = s[i]
              \/ i > Len(s) /\ i - Len(s) \in DOMAIN t /\ (s \o t)[i] = t[i - Len(s)]
<1>1. /\ Len(s) \in Nat /\ DOMAIN s = 1..Len(s)
      /\ Len(t) \in Nat /\ DOMAIN t = 1..Len(t)
  BY Lengths
<1>2. /\ s \o t \in Seq(Item) /\ Len(s \o t) = Len(s) + Len(t)
      /\ \A i \in 1..(Len(s) + Len(t)) : (s \o t)[i] = IF i <= Len(s) THEN s[i] ELSE t[i - Len(s)]
  BY ConcatProperties
<1>3. DOMAIN (s \o t) = 1..(Len(s) + Len(t)) BY <1>2, LenProperties
<1> QED BY <1>1, <1>2, <1>3

LEMMA ConcatOrder ==
  ASSUME NEW s \in Seq(Item), NEW t \in Seq(Item), Increasing(s), Increasing(t), Below(s, t)
  PROVE  Increasing(s \o t)
<1> DEFINE u == s \o t
<1>1. \A i \in DOMAIN u :
        \/ i \in DOMAIN s /\ u[i] = s[i]
        \/ i > Len(s) /\ i - Len(s) \in DOMAIN t /\ u[i] = t[i - Len(s)]
  BY Concat
<1>2. u \in Seq(Item) /\ DOMAIN u \subseteq Int BY Concat, LenProperties
<1>3. Len(s) \in Nat /\ DOMAIN s = 1..Len(s) BY Lengths
<1> HIDE DEF u
<1>4. SUFFICES ASSUME NEW i \in DOMAIN u, NEW j \in DOMAIN u, i < j PROVE u[i] < u[j]
  BY DEF Increasing, u
<1>5. CASE i \in DOMAIN s /\ u[i] = s[i] /\ j \in DOMAIN s /\ u[j] = s[j]
  BY <1>4, <1>5 DEF Increasing
<1>6. CASE i \in DOMAIN s /\ u[i] = s[i] /\ j - Len(s) \in DOMAIN t /\ u[j] = t[j - Len(s)]
  BY <1>6 DEF Below
<1>7. CASE /\ i > Len(s) /\ i - Len(s) \in DOMAIN t /\ u[i] = t[i - Len(s)]
           /\ j > Len(s) /\ j - Len(s) \in DOMAIN t /\ u[j] = t[j - Len(s)]
  <2>1. i - Len(s) < j - Len(s) BY <1>2, <1>3, <1>4
  <2> QED BY <1>7, <2>1 DEF Increasing
<1>8. CASE i > Len(s) /\ j \in DOMAIN s BY <1>2, <1>3, <1>4, <1>8
<1> QED BY <1>1, <1>5, <1>6, <1>7, <1>8

LEMMA ConcatBelow ==
  ASSUME NEW s \in Seq(Item), NEW t \in Seq(Item), NEW u \in Seq(Item), Below(s, u), Below(t, u)
  PROVE  Below(s \o t, u)
  BY Concat DEF Below

LEMMA ConcatFrom ==
  ASSUME NEW s \in Seq(Item), NEW t \in Seq(Item), NEW n \in Nat, From(s, n), From(t, n + Len(s))
  PROVE  From(s \o t, n)
<1> DEFINE u == s \o t
<1>1. \A i \in DOMAIN u :
        \/ i \in DOMAIN s /\ u[i] = s[i]
        \/ i > Len(s) /\ i - Len(s) \in DOMAIN t /\ u[i] = t[i - Len(s)]
  BY Concat
<1>2. u \in Seq(Item) /\ DOMAIN u \subseteq Int BY Concat, LenProperties
<1>3. Len(s) \in Nat BY Lengths
<1> HIDE DEF u
<1>4. SUFFICES ASSUME NEW i \in DOMAIN u PROVE u[i] = n + i BY DEF From, u
<1>5. CASE i \in DOMAIN s /\ u[i] = s[i] BY <1>5 DEF From
<1>6. CASE i - Len(s) \in DOMAIN t /\ u[i] = t[i - Len(s)]
  <2>1. u[i] = (n + Len(s)) + (i - Len(s)) BY <1>6 DEF From
  <2> QED BY <2>1, <1>2, <1>3
<1> QED BY <1>1, <1>5, <1>6

LEMMA OrderHolds == OrderInv => WrittenInOrder
<1> SUFFICES ASSUME OrderInv PROVE WrittenInOrder OBVIOUS
<1> USE DEF OrderInv
<1>1. items1 \in Seq(Item) /\ items2 \in Seq(Item) /\ written \in Seq(Item) BY DEF Typed
<1>2. Len(items1) \in Nat /\ Len(items2) \in Nat /\ Len(written) \in Nat BY <1>1, Lengths
<1> DEFINE some == written \o items2
           all == some \o items1
<1>3. some \in Seq(Item) /\ Len(some) = Len(written) + Len(items2) BY <1>1, Concat
<1>4. Increasing(some) /\ Below(some, items1) BY <1>1, ConcatOrder, ConcatBelow DEF Sorted
<1>5. ~failed => From(some, 0)
  <2>1. ~failed => From(items2, 0 + Len(written)) BY <1>2 DEF Exact
  <2> QED BY <1>1, <2>1, ConcatFrom DEF Exact
<1> HIDE DEF some
<1>6. all \in Seq(Item) /\ Len(all) = Len(some) + Len(items1) BY <1>1, <1>3, Concat
<1>7. Increasing(all) BY <1>1, <1>3, <1>4, ConcatOrder DEF Sorted
<1>8. ~failed => From(all, 0)
  <2>1. ~failed => From(items1, 0 + Len(some)) BY <1>2, <1>3 DEF Exact
  <2> QED BY <1>1, <1>3, <1>5, <2>1, ConcatFrom DEF Exact
<1> HIDE DEF all
<1>9. ASSUME ~failed PROVE all = [n \in 1..accepted |-> n]
  <2>1. accepted \in Nat /\ Len(all) = accepted BY <1>2, <1>3, <1>6, <1>9, Consts DEF Exact, Typed
  <2>2. all \in [1..accepted -> Item] /\ DOMAIN all = 1..accepted BY <1>6, <2>1, LenProperties
  <2>3. \A n \in 1..accepted : all[n] = n
    <3>1. \A n \in 1..accepted : all[n] = 0 + n BY <1>8, <1>9, <2>2 DEF From
    <3> QED BY <2>1, <3>1
  <2> QED BY <2>2, <2>3
<1>10. ~failed /\ dtor = "done" => Len(written) >= due BY DEF Late
<1>11. all = written \o items2 \o items1 BY DEF all, some
<1> QED BY <1>7, <1>9, <1>10, <1>11 DEF WrittenInOrder, Increasing

LEMMA OrderAlways == Spec => []OrderInv
<1>1. Init => OrderInv BY InitOrder
<1>2. OrderInv /\ [Next]_vars => OrderInv' BY OrderStep
<1> QED BY <1>1, <1>2, PTL DEF Spec

\* What was accepted is written in order and once, by any number of callers, whether or not
\* files fail to open; while they open nothing is lost, and the destructor (line 578) returns
\* only when all that came before it is written.
THEOREM InOrder == Spec => []WrittenInOrder
<1>1. OrderInv => WrittenInOrder BY OrderHolds
<1> QED BY <1>1, OrderAlways, PTL

-----------------------------------------------------------------------------
(* The files. *)

LEMMA Numbers ==
  /\ Number \subseteq Nat \ {0}
  /\ \A n \in Number : n # 1 => n - 1 \in Number
  /\ \A n \in Number : n - 1 \in {0} \cup Number
<1>1. /\ Number \subseteq Nat \ {0}
      /\ \A n \in Number : n # 1 => n - 1 \in Number
  BY LoggerAssumption DEF LoggerAssumption, Number
<1> QED BY <1>1

LEMMA InitFiles == Init => FilesInv
<1> SUFFICES ASSUME Init PROVE FilesInv OBVIOUS
<1>1. TypeOK
  <2>1. old \in [Number -> Seq(Item)] BY Empty DEF Init
  <2>2. \E n \in FileCounts : 0 <= n
    <3>1. PICK n \in FileCounts : n \in Nat BY LoggerAssumption DEF LoggerAssumption
    <3> QED BY <3>1
  <2>3. \E n \in Sizes : 0 <= n
    <3>1. PICK n \in Sizes : n \in Nat BY LoggerAssumption DEF LoggerAssumption
    <3> QED BY <3>1
  <2>4. begin \in [{0} \cup Number -> 0..Len(written)] BY Empty DEF Init
  <2>5. Typed BY InitOrder DEF OrderInv
  <2>6. /\ maxBytes \in Sizes /\ logFileCount \in FileCounts /\ cut \in BOOLEAN
        /\ current \in Seq(Item) /\ fileCount = 0 /\ wroteLen = 0
    BY Empty DEF Init
  <2> QED BY <2>1, <2>2, <2>3, <2>4, <2>5, <2>6 DEF TypeOK, Typed
<1>2. begin[0] = 0 /\ Len(written) = 0 /\ Len(current) = 0 /\ wroteLen = 0 BY Empty DEF Init
<1>3. Counted
  <2>1. ~failed => ofs = "good" BY DEF Init
  <2> QED BY <1>2, <2>1 DEF Counted
<1>4. FilesInOrder
  <2>1. current = SubSeq(written, begin[0] + 1, Len(written))
    BY <1>2, Empty, SubSeqEmpty DEF Init
  <2>2. \A n \in Number : ~(n <= fileCount) /\ old[n] = <<>> BY Numbers DEF Init
  <2> QED BY <2>1, <2>2 DEF FilesInOrder
<1> QED BY <1>1, <1>3, <1>4 DEF FilesInv

\* A step that does nothing to the files.
LEMMA SameFiles ==
  ASSUME FilesInv, Typed', UNCHANGED file
  PROVE  FilesInv'
<1>1. TypeOK' BY DEF FilesInv, TypeOK, Typed, file
<1>2. Counted' BY DEF FilesInv, Counted, file
<1>3. FilesInOrder' BY DEF FilesInv, FilesInOrder, file
<1> QED BY <1>1, <1>2, <1>3 DEF FilesInv

LEMMA LoadFiles ==
  ASSUME FilesInv, LoadConfig, Typed'
  PROVE  FilesInv'
<1>1. TypeOK' BY DEF FilesInv, TypeOK, Typed, LoadConfig
<1>2. Counted' BY DEF FilesInv, Counted, LoadConfig
<1>3. FilesInOrder' BY DEF FilesInv, FilesInOrder, LoadConfig
<1> QED BY <1>1, <1>2, <1>3 DEF FilesInv

\* A part of a sequence that another item follows.
LEMMA SubSeqs ==
  ASSUME NEW s \in Seq(Item), NEW e \in Item, NEW m \in Nat, NEW n \in Nat, n <= Len(s)
  PROVE  /\ SubSeq(Append(s, e), m + 1, n) = SubSeq(s, m + 1, n)
         /\ m <= Len(s) => SubSeq(Append(s, e), m + 1, Len(s) + 1) = Append(SubSeq(s, m + 1, Len(s)), e)
<1> DEFINE u == Append(s, e)
<1>1. Len(s) \in Nat /\ DOMAIN s = 1..Len(s) /\ \A i \in DOMAIN s : s[i] \in Item BY Lengths
<1>2. /\ u \in Seq(Item) /\ Len(u) = Len(s) + 1
      /\ \A i \in 1..Len(s) : u[i] = s[i]
      /\ u[Len(s) + 1] = e
  BY AppendProperties
<1> HIDE DEF u
<1>3. \A i \in 1..(Len(s) + 1) : u[i] \in Item BY <1>1, <1>2
<1>4. /\ SubSeq(s, m + 1, n) \in Seq(Item)
      /\ Len(SubSeq(s, m + 1, n)) = IF m + 1 <= n THEN n - (m + 1) + 1 ELSE 0
      /\ \A i \in 1..(n - (m + 1) + 1) : SubSeq(s, m + 1, n)[i] = s[m + 1 + i - 1]
  <2>1. \A i \in (m + 1)..n : s[i] \in Item BY <1>1
  <2> QED BY <2>1, SubSeqProperties
<1>5. /\ SubSeq(u, m + 1, n) \in Seq(Item)
      /\ Len(SubSeq(u, m + 1, n)) = IF m + 1 <= n THEN n - (m + 1) + 1 ELSE 0
      /\ \A i \in 1..(n - (m + 1) + 1) : SubSeq(u, m + 1, n)[i] = u[m + 1 + i - 1]
  <2>1. \A i \in (m + 1)..n : u[i] \in Item BY <1>1, <1>3
  <2> QED BY <2>1, SubSeqProperties
<1>6. SubSeq(u, m + 1, n) = SubSeq(s, m + 1, n)
  <2>1. \A i \in 1..Len(SubSeq(u, m + 1, n)) : SubSeq(u, m + 1, n)[i] = SubSeq(s, m + 1, n)[i]
    <3> SUFFICES ASSUME NEW i \in 1..Len(SubSeq(u, m + 1, n))
                 PROVE  SubSeq(u, m + 1, n)[i] = SubSeq(s, m + 1, n)[i]
      OBVIOUS
    <3>1. i \in 1..(n - (m + 1) + 1) /\ m + 1 + i - 1 \in 1..Len(s) BY <1>1, <1>5
    <3> QED BY <3>1, <1>2, <1>4, <1>5
  <2> QED BY <2>1, <1>4, <1>5, SeqEqual
<1>7. ASSUME m <= Len(s)
      PROVE  SubSeq(u, m + 1, Len(s) + 1) = Append(SubSeq(s, m + 1, Len(s)), e)
  <2> DEFINE t == SubSeq(s, m + 1, Len(s))
             v == SubSeq(u, m + 1, Len(s) + 1)
  <2>1. t \in Seq(Item) /\ Len(t) = Len(s) - m /\ \A i \in 1..(Len(s) - m) : t[i] = s[m + i]
    <3>1. \A i \in (m + 1)..Len(s) : s[i] \in Item BY <1>1
    <3>2. /\ t \in Seq(Item) /\ Len(t) = IF m + 1 <= Len(s) THEN Len(s) - (m + 1) + 1 ELSE 0
          /\ \A i \in 1..(Len(s) - (m + 1) + 1) : t[i] = s[m + 1 + i - 1]
      BY <1>1, <3>1, SubSeqProperties
    <3> HIDE DEF t
    <3>3. \A i \in 1..(Len(s) - m) : i \in 1..(Len(s) - (m + 1) + 1) /\ m + 1 + i - 1 = m + i BY <1>1
    <3>4. Len(t) = Len(s) - m
      <4>1. CASE m + 1 <= Len(s) BY <4>1, <1>1, <3>2
      <4>2. CASE ~(m + 1 <= Len(s))
        <5>1. Len(t) = 0 BY <4>2, <3>2
        <5>2. \A l \in Nat : m <= l /\ ~(m + 1 <= l) => l - m = 0 OBVIOUS
        <5>3. Len(s) - m = 0 BY <4>2, <5>2, <1>1, <1>7
        <5> QED BY <5>1, <5>3
      <4> QED BY <4>1, <4>2
    <3>5. \A i \in 1..(Len(s) - m) : t[i] = s[m + i] BY <3>2, <3>3
    <3> QED BY <3>2, <3>4, <3>5
  <2>2. v \in Seq(Item) /\ Len(v) = Len(s) - m + 1 /\ \A i \in 1..(Len(s) - m + 1) : v[i] = u[m + i]
    <3>1. \A i \in (m + 1)..(Len(s) + 1) : u[i] \in Item BY <1>1, <1>3
    <3>2. /\ v \in Seq(Item) /\ Len(v) = IF m + 1 <= Len(s) + 1 THEN Len(s) + 1 - (m + 1) + 1 ELSE 0
          /\ \A i \in 1..(Len(s) + 1 - (m + 1) + 1) : v[i] = u[m + 1 + i - 1]
      BY <1>1, <3>1, SubSeqProperties
    <3> HIDE DEF v
    <3>3. \A i \in 1..(Len(s) - m + 1) : i \in 1..(Len(s) + 1 - (m + 1) + 1) /\ m + 1 + i - 1 = m + i
      BY <1>1
    <3> QED BY <1>1, <1>7, <3>2, <3>3
  <2> HIDE DEF t, v
  <2>3. /\ Append(t, e) \in Seq(Item) /\ Len(Append(t, e)) = Len(t) + 1
        /\ \A i \in 1..Len(t) : Append(t, e)[i] = t[i]
        /\ Append(t, e)[Len(t) + 1] = e
    BY <2>1, AppendProperties
  <2>4. \A i \in 1..Len(v) : v[i] = Append(t, e)[i]
    <3> SUFFICES ASSUME NEW i \in 1..Len(v) PROVE v[i] = Append(t, e)[i] OBVIOUS
    <3>1. CASE i = Len(s) - m + 1
      <4>1. v[i] = u[Len(s) + 1]
        <5>1. m + i = Len(s) + 1 /\ i \in 1..(Len(s) - m + 1) BY <3>1, <1>1, <2>2
        <5> QED BY <5>1, <2>2
      <4> QED BY <4>1, <3>1, <1>2, <2>1, <2>3
    <3>2. CASE i # Len(s) - m + 1
      <4>1. i \in 1..(Len(s) - m) /\ i \in 1..(Len(s) - m + 1) /\ m + i \in 1..Len(s)
        BY <3>2, <1>1, <1>7, <2>2
      <4>2. v[i] = u[m + i] /\ u[m + i] = s[m + i] BY <4>1, <1>2, <2>2
      <4> QED BY <4>1, <4>2, <2>1, <2>3
    <3> QED BY <3>1, <3>2
  <2>6. Len(v) = Len(Append(t, e)) BY <2>1, <2>2, <2>3, <1>1
  <2>5. v = Append(t, e) BY <2>2, <2>3, <2>4, <2>6, SeqEqual
  <2> QED BY <2>5 DEF t, v
<1> QED BY <1>6, <1>7 DEF u

LEMMA DumpTypes == ASSUME FilesInv, Dump, Typed' PROVE TypeOK'
<1> USE DEF FilesInv
<1> PICK done \in BOOLEAN : DumpOf(done) BY DumpParts
<1>1. Head(items2) \in Item
  <2>1. items2 # <<>> /\ items2 \in Seq(Item) BY DEF Dump, DumpResetting, TypeOK
  <2> QED BY <2>1, HeadTailProperties
<1> DEFINE line == IF done THEN <<Head(items2)>> ELSE <<>>
<1>2. line \in Seq(Item)
  <2>1. CASE done BY <1>1, <2>1
  <2>2. CASE ~done BY <2>2, Empty
  <2> QED BY <2>1, <2>2
<1>3. current \o line \in Seq(Item) BY <1>2, ConcatProperties DEF TypeOK
<1>4. Renamed(current \o line) \in [Number -> Seq(Item)]
  <2> HIDE DEF line
  <2> SUFFICES ASSUME NEW n \in Number PROVE Renamed(current \o line)[n] \in Seq(Item)
    BY DEF Renamed
  <2>1. Renamed(current \o line)[n] =
          IF n = 1 THEN current \o line
          ELSE IF n - 1 # logFileCount /\ Moves(n - 1) THEN old[n - 1]
          ELSE IF Moves(n) THEN <<>> ELSE old[n]
    BY DEF Renamed
  <2>2. n # 1 => old[n - 1] \in Seq(Item) BY Numbers DEF TypeOK
  <2>3. old[n] \in Seq(Item) BY DEF TypeOK
  <2> QED BY <1>3, <2>1, <2>2, <2>3, Empty
<1>5. Len(written) \in Nat /\ Len(written') \in Nat /\ Len(written) <= Len(written')
  <2>1. written' = written \o line /\ written \in Seq(Item) BY DEF DumpOf, TypeOK
  <2>2. Len(written') = Len(written) + Len(line) BY <1>2, <2>1, ConcatProperties
  <2>3. Len(written) \in Nat /\ Len(line) \in Nat BY <1>2, <2>1, Lengths
  <2> QED BY <2>2, <2>3
<1>6. UNCHANGED <<logFileCount, maxBytes>> BY DEF Dump, DumpResetting
<1> HIDE DEF line
<1>7. CASE wroteLen + 1 > maxBytes
  <2>1. /\ current' = <<>> /\ old' = Renamed(current \o line) /\ wroteLen' = 0
        /\ fileCount' = IF fileCount < logFileCount THEN fileCount + 1 ELSE fileCount
        /\ begin' = [k \in {0} \cup Number |-> IF k = 0 THEN Len(written') ELSE begin[k - 1]]
        /\ cut' = (cut \/ fileCount > logFileCount)
    BY <1>7 DEF DumpOf, line
  <2>2. fileCount' \in Nat /\ \E n \in FileCounts : fileCount' <= n
    <3>1. logFileCount \in FileCounts /\ logFileCount \in Nat /\ fileCount \in Nat
      BY Consts DEF TypeOK
    <3>2. CASE fileCount < logFileCount
      <4>1. fileCount' = fileCount + 1 /\ fileCount' <= logFileCount BY <2>1, <3>1, <3>2
      <4> QED BY <3>1, <4>1
    <3>3. CASE ~(fileCount < logFileCount) BY <2>1, <3>3 DEF TypeOK
    <3> QED BY <3>2, <3>3
  <2>3. wroteLen' \in Nat /\ \E n \in Sizes : wroteLen' <= n BY <2>1, Consts DEF TypeOK
  <2>4. begin' \in [{0} \cup Number -> 0..Len(written')]
    <3>1. ASSUME NEW k \in Number PROVE begin[k - 1] \in 0..Len(written')
      <4>1. begin[k - 1] \in 0..Len(written) BY Numbers DEF TypeOK
      <4> QED BY <4>1, <1>5
    <3>2. 0 \notin Number /\ Len(written') \in 0..Len(written') BY <1>5, Numbers
    <3> QED BY <2>1, <3>1, <3>2
  <2>5. cut' \in BOOLEAN BY <2>1 DEF TypeOK
  <2> QED BY <1>4, <1>6, <2>1, <2>2, <2>3, <2>4, <2>5, Empty DEF TypeOK, Typed
<1>8. CASE ~(wroteLen + 1 > maxBytes)
  <2>1. /\ current' = current \o line /\ wroteLen' = wroteLen + 1
        /\ UNCHANGED <<old, fileCount, begin, cut>>
    BY <1>8 DEF DumpOf, line
  <2>2. wroteLen' \in Nat /\ \E n \in Sizes : wroteLen' <= n
    <3>1. maxBytes \in Sizes /\ maxBytes \in Nat /\ wroteLen \in Nat BY Consts DEF TypeOK
    <3>2. wroteLen' <= maxBytes BY <1>8, <2>1, <3>1
    <3> QED BY <2>1, <3>1, <3>2
  <2>3. begin' \in [{0} \cup Number -> 0..Len(written')]
    <3>1. 0..Len(written) \subseteq 0..Len(written') BY <1>5
    <3> QED BY <2>1, <3>1 DEF TypeOK
  <2> QED BY <1>3, <1>6, <2>1, <2>2, <2>3 DEF TypeOK, Typed
<1> QED BY <1>7, <1>8

\* As long as nothing fails, Dump writes one item to the current file.
LEMMA DumpWrites ==
  ASSUME FilesInv, Dump, Typed', ~failed'
  PROVE  /\ ~failed /\ ofs' = "good" /\ Head(items2) \in Item
         /\ written' = Append(written, Head(items2))
         /\ Len(written) \in Nat /\ Len(written') = Len(written) + 1
         /\ begin[0] = Len(written) - Len(current) /\ begin[0] \in 0..Len(written)
         /\ Len(current) \in Nat /\ Len(current) = wroteLen
         /\ \/ /\ wroteLen + 1 > maxBytes
               /\ current' = <<>> /\ old' = Renamed(Append(current, Head(items2)))
               /\ wroteLen' = 0
               /\ fileCount' = IF fileCount < logFileCount THEN fileCount + 1 ELSE fileCount
               /\ begin' = [k \in {0} \cup Number |->
                               IF k = 0 THEN Len(written') ELSE begin[k - 1]]
               /\ cut' = (cut \/ fileCount > logFileCount)
            \/ /\ current' = Append(current, Head(items2)) /\ wroteLen' = wroteLen + 1
               /\ UNCHANGED <<old, fileCount, begin, cut>>
<1> USE DEF FilesInv
<1> PICK done \in BOOLEAN : DumpOf(done) BY DumpParts
<1>1. ~failed /\ done /\ ofs' = "good" BY DEF DumpOf
<1>2. Head(items2) \in Item
  <2>1. items2 # <<>> /\ items2 \in Seq(Item) BY DEF Dump, DumpResetting, TypeOK
  <2> QED BY <2>1, HeadTailProperties
<1>3. written' = written \o <<Head(items2)>> BY <1>1 DEF DumpOf
<1>4. written \in Seq(Item) /\ current \in Seq(Item) BY DEF TypeOK
<1>5. written' = Append(written, Head(items2)) /\ Len(written') = Len(written) + 1
  BY <1>2, <1>3, <1>4, AppendIsConcat, AppendProperties
<1>6. Append(current, Head(items2)) = current \o <<Head(items2)>> BY <1>2, <1>4, AppendIsConcat
<1>7. Len(written) \in Nat /\ Len(current) \in Nat BY <1>4, Lengths
<1>8. /\ begin[0] = Len(written) - Len(current) /\ begin[0] \in 0..Len(written)
      /\ Len(current) = wroteLen
  BY <1>1 DEF Counted, TypeOK
<1> DEFINE line == IF done THEN <<Head(items2)>> ELSE <<>>
<1>9. current \o line = Append(current, Head(items2)) BY <1>1, <1>6
<1>10. \/ /\ wroteLen + 1 > maxBytes
          /\ current' = <<>> /\ old' = Renamed(current \o line) /\ wroteLen' = 0
          /\ fileCount' = IF fileCount < logFileCount THEN fileCount + 1 ELSE fileCount
          /\ begin' = [k \in {0} \cup Number |-> IF k = 0 THEN Len(written') ELSE begin[k - 1]]
          /\ cut' = (cut \/ fileCount > logFileCount)
       \/ /\ current' = current \o line /\ wroteLen' = wroteLen + 1
          /\ UNCHANGED <<old, fileCount, begin, cut>>
  BY DEF DumpOf
<1> HIDE DEF line
<1> QED BY <1>1, <1>2, <1>5, <1>7, <1>8, <1>9, <1>10

\* begin tells where the items of a file are.
LEMMA Begins ==
  ASSUME TypeOK
  PROVE  /\ Len(written) \in Nat
         /\ \A n \in {0} \cup Number : begin[n] \in Nat /\ begin[n] <= Len(written)
<1>1. Len(written) \in Nat BY Lengths DEF TypeOK
<1> QED BY <1>1 DEF TypeOK

LEMMA DumpOn ==
  ASSUME FilesInv, Dump, Typed', ~failed', ~cut,
         current' = Append(current, Head(items2)), UNCHANGED <<old, fileCount, begin>>
  PROVE  FilesInOrder'
<1> USE DEF FilesInv
<1> DEFINE e == Head(items2)
<1>1. /\ ~failed /\ e \in Item /\ written' = Append(written, e)
      /\ Len(written) \in Nat /\ Len(written') = Len(written) + 1
      /\ begin[0] \in Nat /\ begin[0] <= Len(written)
  BY DumpWrites
<1>2. written \in Seq(Item) /\ current' = Append(current, e) BY DEF TypeOK
<1> HIDE DEF e
<1>3. current' = SubSeq(written', begin[0] + 1, Len(written'))
  <2>1. current = SubSeq(written, begin[0] + 1, Len(written)) BY <1>1 DEF FilesInOrder
  <2>2. Len(written) <= Len(written) BY <1>1
  <2>3. SubSeq(written', begin[0] + 1, Len(written) + 1) =
          Append(SubSeq(written, begin[0] + 1, Len(written)), e)
    BY <1>1, <1>2, <2>2, SubSeqs
  <2> QED BY <1>1, <1>2, <2>1, <2>3
<1>4. ASSUME NEW n \in Number
      PROVE  IF n <= fileCount
             THEN begin[n] < begin[n - 1] /\ old[n] = SubSeq(written', begin[n] + 1, begin[n - 1])
             ELSE old[n] = <<>>
  <2>1. CASE n <= fileCount
    <3>1. begin[n] < begin[n - 1] /\ old[n] = SubSeq(written, begin[n] + 1, begin[n - 1])
      BY <1>1, <2>1 DEF FilesInOrder
    <3>2. begin[n] \in Nat /\ begin[n - 1] \in Nat /\ begin[n - 1] <= Len(written)
      BY Begins, Numbers
    <3>3. SubSeq(written', begin[n] + 1, begin[n - 1]) = SubSeq(written, begin[n] + 1, begin[n - 1])
      BY <1>1, <1>2, <3>2, SubSeqs
    <3> QED BY <2>1, <3>1, <3>3
  <2>2. CASE ~(n <= fileCount) BY <1>1, <2>2 DEF FilesInOrder
  <2> QED BY <2>1, <2>2
<1> QED BY <1>3, <1>4 DEF FilesInOrder

LEMMA DumpRenames ==
  ASSUME FilesInv, Dump, Typed', ~failed', ~cut, ~(fileCount > logFileCount),
         current' = <<>>, old' = Renamed(Append(current, Head(items2))),
         fileCount' = IF fileCount < logFileCount THEN fileCount + 1 ELSE fileCount,
         begin' = [k \in {0} \cup Number |-> IF k = 0 THEN Len(written') ELSE begin[k - 1]]
  PROVE  FilesInOrder'
<1> USE DEF FilesInv
<1> DEFINE e == Head(items2)
<1>1. /\ ~failed /\ e \in Item /\ written' = Append(written, e)
      /\ Len(written) \in Nat /\ Len(written') = Len(written) + 1
      /\ begin[0] \in Nat /\ begin[0] <= Len(written)
  BY DumpWrites
<1>2. /\ written \in Seq(Item) /\ old' = Renamed(Append(current, e))
      /\ logFileCount \in Nat \ {0} /\ fileCount \in Nat /\ fileCount <= logFileCount
      /\ fileCount' \in Nat /\ fileCount' <= fileCount + 1 /\ fileCount' <= logFileCount
      /\ fileCount <= fileCount' /\ 1 <= fileCount'
  BY Consts DEF TypeOK
<1> HIDE DEF e
<1>3. begin'[0] = Len(written') /\ \A n \in Number : begin'[n] = begin[n - 1] BY Numbers
<1>4. current' = SubSeq(written', begin'[0] + 1, Len(written'))
  <2>1. /\ Len(written') \in Int /\ Len(written') + 1 \in Int
        /\ Len(written') < Len(written') + 1
    BY <1>1
  <2> QED BY <2>1, <1>3, SubSeqEmpty
<1>5. Append(current, e) = SubSeq(written', begin[0] + 1, Len(written'))
  <2>1. current = SubSeq(written, begin[0] + 1, Len(written)) BY <1>1 DEF FilesInOrder
  <2>2. Len(written) <= Len(written) BY <1>1
  <2>3. SubSeq(written', begin[0] + 1, Len(written) + 1) =
          Append(SubSeq(written, begin[0] + 1, Len(written)), e)
    BY <1>1, <1>2, <2>2, SubSeqs
  <2> QED BY <1>1, <2>1, <2>3
<1>6. ASSUME NEW n \in Number
      PROVE  IF n <= fileCount'
             THEN /\ begin'[n] < begin'[n - 1]
                  /\ old'[n] = SubSeq(written', begin'[n] + 1, begin'[n - 1])
             ELSE old'[n] = <<>>
  <2>1. n \in Nat /\ n # 0 /\ begin'[n] = begin[n - 1] BY <1>3, Numbers
  <2>2. old'[n] = IF n = 1 THEN Append(current, e)
                  ELSE IF n - 1 # logFileCount /\ Moves(n - 1) THEN old[n - 1]
                  ELSE IF Moves(n) THEN <<>> ELSE old[n]
    BY <1>2 DEF Renamed
  <2>3. CASE n = 1
    <3>1. n - 1 = 0 /\ n <= fileCount' BY <2>3, <1>2
    <3>2. begin'[n] = begin[0] /\ begin'[n - 1] = Len(written') BY <2>1, <3>1, <1>3
    <3>3. begin'[n] < begin'[n - 1] BY <3>2, <1>1
    <3> QED BY <3>1, <3>2, <3>3, <2>2, <2>3, <1>5
  <2>4. CASE n # 1 /\ n <= fileCount'
    <3>1. n - 1 \in Number /\ n - 1 <= fileCount /\ n - 1 # logFileCount
      BY <2>1, <2>4, <1>2, Numbers
    <3>2. begin'[n - 1] = begin[(n - 1) - 1] BY <3>1, <1>3
    <3>3. /\ begin[n - 1] < begin[(n - 1) - 1]
          /\ old[n - 1] = SubSeq(written, begin[n - 1] + 1, begin[(n - 1) - 1])
      BY <3>1, <1>1 DEF FilesInOrder
    <3>4. PICK b, c : b = begin[n - 1] /\ c = begin[(n - 1) - 1] OBVIOUS
    <3>5. b \in Nat /\ c \in Nat /\ c <= Len(written) /\ b < c
      BY <3>1, <3>3, <3>4, Begins, Numbers
    <3>6. SubSeq(written', b + 1, c) = SubSeq(written, b + 1, c) BY <1>1, <1>2, <3>5, SubSeqs
    <3>7. old[n - 1] # <<>>
      <4>1. \A i \in (b + 1)..c : written[i] \in Item
        <5>1. \A i \in 1..Len(written) : written[i] \in Item BY <1>2, ElementOfSeq
        <5> QED BY <5>1, <3>5, <1>1
      <4>2. b + 1 <= c BY <3>5
      <4>3. Len(SubSeq(written, b + 1, c)) = c - (b + 1) + 1
        BY <3>5, <4>1, <4>2, SubSeqProperties
      <4>4. c - (b + 1) + 1 # 0 BY <3>5
      <4> QED BY <3>3, <3>4, <4>3, <4>4, Empty
    <3>8. Moves(n - 1) BY <3>1, <3>7 DEF Moves
    <3>9. old'[n] = old[n - 1] BY <2>2, <2>4, <3>1, <3>8
    <3> QED BY <2>1, <2>4, <3>2, <3>3, <3>4, <3>6, <3>9
  <2>5. CASE n # 1 /\ ~(n <= fileCount')
    <3>1. ~(n <= fileCount) BY <2>1, <2>5, <1>2
    <3>2. ~(n - 1 # logFileCount /\ Moves(n - 1)) BY <2>1, <2>5, <1>2 DEF Moves
    <3>3. old[n] = <<>> BY <3>1, <1>1 DEF FilesInOrder
    <3> QED BY <2>2, <2>5, <3>2, <3>3
  <2> QED BY <2>3, <2>4, <2>5
<1> QED BY <1>4, <1>6 DEF FilesInOrder

LEMMA DumpFiles == ASSUME FilesInv, Dump, Typed' PROVE FilesInv'
<1>1. TypeOK' BY DumpTypes
<1>2. CASE failed' BY <1>1, <1>2 DEF FilesInv, Counted, FilesInOrder
<1>3. CASE ~failed'
  <2>1. /\ ofs' = "good" /\ Len(written) \in Nat /\ Len(written') = Len(written) + 1
        /\ begin[0] = Len(written) - Len(current)
        /\ Len(current) \in Nat /\ Len(current) = wroteLen
    BY <1>3, DumpWrites
  <2>2. CASE /\ current' = <<>> /\ old' = Renamed(Append(current, Head(items2)))
             /\ wroteLen' = 0
             /\ fileCount' = IF fileCount < logFileCount THEN fileCount + 1 ELSE fileCount
             /\ begin' = [k \in {0} \cup Number |-> IF k = 0 THEN Len(written') ELSE begin[k - 1]]
             /\ cut' = (cut \/ fileCount > logFileCount)
    <3>1. begin'[0] = Len(written') /\ Len(current') = 0 BY <2>2, Empty
    <3>2. Counted' BY <2>1, <2>2, <3>1 DEF Counted
    <3>3. CASE cut' BY <1>1, <3>2, <3>3 DEF FilesInv, FilesInOrder
    <3>4. CASE ~cut'
      <4>1. ~cut /\ ~(fileCount > logFileCount) BY <2>2, <3>4
      <4>2. FilesInOrder' BY <1>3, <2>2, <4>1, DumpRenames
      <4> QED BY <1>1, <3>2, <4>2 DEF FilesInv
    <3> QED BY <1>1, <3>2, <3>3, <3>4 DEF FilesInv
  <2>3. CASE /\ current' = Append(current, Head(items2)) /\ wroteLen' = wroteLen + 1
             /\ UNCHANGED <<old, fileCount, begin, cut>>
    <3>1. Len(current') = Len(current) + 1
      <4>1. Head(items2) \in Item /\ current \in Seq(Item)
        BY <1>3, DumpWrites DEF FilesInv, TypeOK
      <4> QED BY <2>3, <4>1, AppendProperties
    <3>2. Counted' BY <2>1, <2>3, <3>1 DEF Counted
    <3>3. CASE cut' BY <1>1, <3>2, <3>3 DEF FilesInv, FilesInOrder
    <3>4. CASE ~cut'
      <4>1. FilesInOrder' BY <1>3, <2>3, <3>4, DumpOn
      <4> QED BY <1>1, <3>2, <4>1 DEF FilesInv
    <3> QED BY <1>1, <3>2, <3>3, <3>4 DEF FilesInv
  <2> QED BY <1>3, <2>2, <2>3, DumpWrites
<1> QED BY <1>2, <1>3

LEMMA FilesStep == ASSUME OrderInv, FilesInv, [Next]_vars PROVE FilesInv'
<1>1. Typed' BY OrderStep DEF OrderInv
<1>2. CASE LoadConfig BY <1>1, <1>2, LoadFiles
<1>3. CASE Dump BY <1>1, <1>3, DumpFiles
<1>4. CASE UNCHANGED file BY <1>1, <1>4, SameFiles
<1>5. LoadConfig \/ Dump \/ UNCHANGED file
  <2>1. CASE UNCHANGED vars BY <2>1 DEF vars
  <2>2. CASE Next BY <2>2 DEF Next, Loop, LogTest, LogPush, Dispose, Join, Swap, End, EndAfter
  <2> QED BY <2>1, <2>2
<1> QED BY <1>2, <1>3, <1>4, <1>5

LEMMA FilesAlways == Spec => []FilesInv
<1>1. Init => FilesInv BY InitFiles
<1>2. OrderInv /\ FilesInv /\ [Next]_vars => FilesInv' BY FilesStep
<1> QED BY <1>1, <1>2, OrderAlways, PTL DEF Spec

\* The state has its type whatever is loaded (LoadConfig, line 693) and whatever fails: no
\* file has more items than some maxBytes admits but for the one that made it full, and
\* no more files are numbered than some logFileCount admits.
THEOREM TypeCorrect == Spec => []TypeOK
<1>1. FilesInv => TypeOK BY DEF FilesInv
<1> QED BY <1>1, FilesAlways, PTL

\* Renaming (line 662) neither loses nor mixes files: the numbered ones and the current one
\* hold the last items without a gap, for any sizes and numbers of files that are loaded,
\* until an open or a write fails or files are renamed that are more than logFileCount.
THEOREM NoGap == Spec => []FilesInOrder
<1>1. FilesInv => FilesInOrder BY DEF FilesInv
<1> QED BY <1>1, FilesAlways, PTL
=============================================================================
