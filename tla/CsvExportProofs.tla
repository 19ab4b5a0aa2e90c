--------------------------- MODULE CsvExportProofs ---------------------------
(***************************************************************************)
(* Proofs about the Load Profile CSV of a meter, for any number of         *)
(* intervals, any window and skew, any folders, heads and disowned rows,   *)
(* with or without a Logger 2.                                             *)
(*                                                                         *)
(* Neither NoRowTwice nor WatermarkIsCovered is inductive: an append trusts*)
(* what it selected a step before, and the table goes on meanwhile.  So    *)
(* CsvInv says what the file holds up to the watermark and beyond it       *)
(* (Settled), that neither the watermark nor the cap of a call overtakes   *)
(* the end where rows come in (FrontierAhead), and at each step of a call  *)
(* what its selection is worth (WorkIsSound).                              *)
(***************************************************************************)
EXTENDS CsvExport, NaturalsInduction, WellFoundedInduction, TLAPS

-----------------------------------------------------------------------------
(* The least and the most of a set of numbers.                              *)

LEMMA HasLeast ==
    ASSUME NEW T \in SUBSET Nat, T # {}
    PROVE  Min(T) \in T /\ \A y \in T : Min(T) <= y
<1>1. PICK x \in T : \A y \in T : ~(<<y, x>> \in OpToRel(<, Nat))
  BY NatLessThanWellFounded, WFMin
<1>2. \A y \in T : ~(y < x)
  BY <1>1 DEF OpToRel
<1>3. \A y \in T : x <= y
  BY <1>2
<1> QED BY <1>3 DEF Min

LEMMA HasMost ==
    ASSUME NEW M \in Nat, NEW T \in SUBSET (0 .. M), T # {}
    PROVE  Max(T) \in T /\ \A y \in T : Max(T) >= y
<1> DEFINE U == {m \in Nat : M - m \in T}
<1>1. U \in SUBSET Nat /\ U # {}
  <2> PICK t \in T : TRUE
    OBVIOUS
  <2>1. M - t \in Nat /\ M - (M - t) = t
    OBVIOUS
  <2> QED BY <2>1
<1>2. PICK m \in U : \A y \in U : m <= y
  <2> HIDE DEF U
  <2> QED BY <1>1, HasLeast
<1>3. M - m \in T /\ m \in Nat
  OBVIOUS
<1>4. \A y \in T : M - m >= y
  <2> TAKE y \in T
  <2>0. y \in 0 .. M
    OBVIOUS
  <2>1. M - y \in U
    BY <2>0
  <2>2. m <= M - y
    BY <1>2, <2>1
  <2> HIDE DEF U
  <2> QED BY <2>0, <2>2, <1>3
<1> QED BY <1>3, <1>4 DEF Max

LEMMA GreaterOfTwo ==
    ASSUME NEW a \in Int, NEW b \in Int
    PROVE  Max({a, b}) = IF a >= b THEN a ELSE b
<1>1. (IF a >= b THEN a ELSE b) \in {a, b} /\ \A y \in {a, b} : (IF a >= b THEN a ELSE b) >= y
  OBVIOUS
<1>2. Max({a, b}) \in {a, b} /\ \A y \in {a, b} : Max({a, b}) >= y
  BY <1>1 DEF Max
<1> QED BY <1>2

LEMMA LesserOfTwo ==
    ASSUME NEW a \in Int, NEW b \in Int
    PROVE  Min({a, b}) = IF a <= b THEN a ELSE b
<1>1. (IF a <= b THEN a ELSE b) \in {a, b} /\ \A y \in {a, b} : (IF a <= b THEN a ELSE b) <= y
  OBVIOUS
<1>2. Min({a, b}) \in {a, b} /\ \A y \in {a, b} : Min({a, b}) <= y
  BY <1>1 DEF Min
<1> QED BY <1>2

-----------------------------------------------------------------------------
(* The table that is exported.                                              *)

CsvTyped ==
    /\ now \in 0 .. MaxTime /\ l1 \in SUBSET Time /\ l2 \in SUBSET Time
    /\ device \in [head : Head, enabled : BOOLEAN, watermark : 0 .. MaxTime]
    /\ setting \in [dir : Folder \cup {NoFolder}, auto : BOOLEAN]
    /\ files \in [Folder -> File]
    /\ work \in [Thread -> Work]

Bounds == MaxTime \in Nat /\ Window \in Nat /\ Skew \in Nat

LEMMA MinusIsNumber ==
    ASSUME NEW a \in Nat, NEW b \in Nat
    PROVE  Minus(a, b) \in Nat
BY DEF Minus

LEMMA NewestIsMost ==
    ASSUME MaxTime \in Nat, NEW S \in SUBSET Time
    PROVE  /\ Newest(S) \in 0 .. MaxTime
           /\ \A i \in S : i <= Newest(S)
           /\ IF S = {} THEN Newest(S) = None ELSE Newest(S) \in S
           /\ Newest(S) = None <=> S = {}
<1>0. \A i \in S : i \in 1 .. MaxTime /\ i \in 0 .. MaxTime /\ i > 0
  BY DEF Time
<1>1. S \cup {None} \in SUBSET (0 .. MaxTime) /\ S \cup {None} # {}
  BY <1>0 DEF None
<1>2. Newest(S) \in S \cup {None} /\ \A i \in S \cup {None} : Newest(S) >= i
  BY <1>1, HasMost DEF Newest
<1>3. Newest(S) \in 0 .. MaxTime
  BY <1>1, <1>2
<1>4. \A i \in S : i <= Newest(S)
  BY <1>0, <1>2, <1>3
<1>5. S # {} => Newest(S) # None
  BY <1>0, <1>3, <1>4 DEF None
<1> QED BY <1>2, <1>3, <1>4, <1>5

LEMMA FollowsIsNumber ==
    ASSUME Bounds, now \in Nat, NEW S \in SUBSET Time
    PROVE  /\ Follows(S) \in Nat \ {0}
           /\ S = {} => Follows(S) = IF 1 >= Minus(now, Window) THEN 1 ELSE Minus(now, Window)
           /\ \A i \in S : i < Follows(S)
<1>1. CASE S = {}
  <2>1. Minus(now, Window) \in Nat
    BY DEF Minus, Bounds
  <2>2. Max({1, Minus(now, Window)}) = IF 1 >= Minus(now, Window) THEN 1 ELSE Minus(now, Window)
    BY <2>1, GreaterOfTwo
  <2> QED BY <1>1, <2>1, <2>2 DEF Follows
<1>2. CASE S # {}
  <2>1. Newest(S) \in 0 .. MaxTime /\ \A i \in S : i <= Newest(S)
    BY NewestIsMost DEF Bounds
  <2>2. \A i \in S : i \in Nat
    BY DEF Time, Bounds
  <2> QED BY <1>2, <2>1, <2>2 DEF Follows, Bounds
<1> QED BY <1>1, <1>2

LEMMA CapIsBelow ==
    ASSUME Bounds, NEW spine \in 0 .. MaxTime, l2 \in SUBSET Time
    PROVE  Cap(spine) \in 0 .. MaxTime /\ Cap(spine) <= spine
<1>1. Newest(l2) \in 0 .. MaxTime
  BY NewestIsMost DEF Bounds
<1>2. Minus(spine, Skew) \in 0 .. spine
  BY DEF Minus, Bounds
<1>3. Min({spine, Newest(l2)}) = IF spine <= Newest(l2) THEN spine ELSE Newest(l2)
  BY <1>1, LesserOfTwo DEF Bounds
<1> QED BY <1>1, <1>2, <1>3 DEF Cap, Bounds

LEMMA MergedSays ==
    ASSUME NEW times, NEW i \in Time
    PROVE  /\ Merged(times)[i] \in {"none", "half", "whole"}
           /\ Merged(times)[i] # "none" <=> i \in times /\ i \in l1 /\ i \notin Disowned
BY DEF Merged

LEMMA MergedIsTyped ==
    ASSUME NEW times
    PROVE  Merged(times) \in [Time -> {"none", "half", "whole", "twice"}]
BY DEF Merged

\* Rows come in at the end only, and the end moves on.
TableMoves ==
    /\ l1' \in SUBSET Time /\ l2' \in SUBSET Time
    /\ now' \in 0 .. MaxTime /\ now <= now'
    /\ Follows(l1) <= Follows(l1)'
    /\ \A i \in l1' : i \in l1 \/ i = Follows(l1)

LEMMA TheTableMoves ==
    ASSUME Bounds, CsvTyped,
           Tick \/ StoreFirst \/ StoreSecond \/ purge_expired \/ UNCHANGED <<now, l1, l2>>
    PROVE  TableMoves
<1>1. now \in 0 .. MaxTime /\ now \in Nat /\ l1 \in SUBSET Time /\ l2 \in SUBSET Time
  BY DEF CsvTyped, Bounds
<1>2. /\ Follows(l1) \in Nat \ {0}
      /\ l1 = {} => Follows(l1) = IF 1 >= Minus(now, Window) THEN 1 ELSE Minus(now, Window)
      /\ \A i \in l1 : i < Follows(l1)
  BY <1>1, FollowsIsNumber
<1>3. CASE UNCHANGED <<now, l1, l2>>
  <2>1. Follows(l1)' = Follows(l1)
    BY <1>3 DEF Follows, Newest
  <2> QED BY <1>1, <1>2, <1>3, <2>1 DEF TableMoves, Bounds
<1>4. CASE Tick
  <2>1. now' = now + 1 /\ now < MaxTime /\ l1' = l1 /\ l2' = l2
    BY <1>4 DEF Tick
  <2>2. now' \in 0 .. MaxTime /\ now' \in Nat
    BY <1>1, <2>1 DEF Bounds
  <2>3. Follows(l1) <= Follows(l1)'
    <3>1. CASE l1 = {}
      <4>1. Follows(l1)' = IF 1 >= Minus(now', Window) THEN 1 ELSE Minus(now', Window)
        <5>1. Minus(now', Window) \in Nat
          BY <2>2, MinusIsNumber DEF Bounds
        <5>2. Max({1, Minus(now', Window)}) = IF 1 >= Minus(now', Window) THEN 1 ELSE Minus(now', Window)
          BY <5>1, GreaterOfTwo
        <5> QED BY <2>1, <3>1, <5>2 DEF Follows
      <4>2. Minus(now, Window) <= Minus(now', Window) /\ Minus(now, Window) \in Nat /\ Minus(now', Window) \in Nat
        BY <1>1, <2>1, <2>2 DEF Minus, Bounds
      <4> QED BY <1>2, <3>1, <4>1, <4>2
    <3>2. CASE l1 # {}
      <4>1. Follows(l1)' = Follows(l1)
        BY <2>1, <3>2 DEF Follows, Newest
      <4> QED BY <1>2, <4>1
    <3> QED BY <3>1, <3>2
  <2> QED BY <1>1, <2>1, <2>2, <2>3 DEF TableMoves
<1>5. CASE StoreFirst
  <2>1. l1' = l1 \cup {Follows(l1)} /\ Follows(l1) <= now /\ now' = now /\ l2' = l2
    BY <1>5 DEF StoreFirst
  <2>2. Follows(l1) \in Time
    BY <1>1, <1>2, <2>1 DEF Time, Bounds
  <2>3. l1' \in SUBSET Time
    BY <1>1, <2>1, <2>2
  <2>4. Newest(l1') \in 0 .. MaxTime /\ Follows(l1) <= Newest(l1')
    <3>1. Follows(l1) \in l1'
      BY <2>1
    <3> QED BY <2>3, <3>1, NewestIsMost DEF Bounds
  <2>5. Follows(l1)' = Newest(l1') + 1
    BY <2>1 DEF Follows, Newest
  <2> QED BY <1>1, <1>2, <2>1, <2>3, <2>4, <2>5 DEF TableMoves, Bounds
<1>6. CASE StoreSecond
  <2>1. l2' = l2 \cup {Follows(l2)} /\ Follows(l2) <= now /\ now' = now /\ l1' = l1
    BY <1>6 DEF StoreSecond
  <2>2. Follows(l2) \in Nat \ {0}
    BY <1>1, FollowsIsNumber
  <2>3. Follows(l2) \in Time
    BY <1>1, <2>1, <2>2 DEF Time, Bounds
  <2>4. Follows(l1)' = Follows(l1)
    BY <2>1 DEF Follows, Newest
  <2> QED BY <1>1, <1>2, <2>1, <2>3, <2>4 DEF TableMoves, Bounds
<1>7. CASE purge_expired
  <2>1. /\ l1' = {t \in l1 : ~Expired(t)} /\ l2' = {t \in l2 : ~Expired(t)} /\ now' = now
    BY <1>7 DEF purge_expired
  <2>2. l1' \in SUBSET l1 /\ l2' \in SUBSET l2
    BY <2>1
  <2>3. Follows(l1) <= Follows(l1)'
    <3>1. CASE l1 = {}
      <4>1. Follows(l1)' = Follows(l1)
        BY <2>1, <2>2, <3>1 DEF Follows, Newest
      <4> QED BY <1>2, <4>1
    <3>2. CASE l1 # {}
      <4> DEFINE m == Newest(l1)
      <4>1. m \in l1 /\ \A i \in l1 : i <= m
        BY <1>1, <3>2, NewestIsMost DEF Bounds
      <4>2. Follows(l1) = m + 1 /\ m \in Nat
        <5>1. m \in 0 .. MaxTime
          BY <1>1, NewestIsMost DEF Bounds
        <5>2. Follows(l1) = m + 1
          BY <3>2 DEF Follows
        <5> HIDE DEF m
        <5> QED BY <5>1, <5>2 DEF Bounds
      <4> HIDE DEF m
      <4>3. /\ Follows(l1') \in Nat \ {0}
            /\ l1' = {} => Follows(l1') = IF 1 >= Minus(now, Window) THEN 1 ELSE Minus(now, Window)
            /\ \A i \in l1' : i < Follows(l1')
        BY <1>1, <2>2, FollowsIsNumber
      <4>4. Follows(l1)' = Follows(l1')
        BY <2>1 DEF Follows, Newest
      <4>5. CASE Expired(m)
        <5>1. m + Window < now
          BY <4>5 DEF Expired
        <5>2. \A i \in l1 : Expired(i)
          <6> TAKE i \in l1
          <6>1. i \in Nat /\ i <= m
            BY <1>1, <4>1 DEF Time, Bounds
          <6> QED BY <1>1, <4>2, <5>1, <6>1 DEF Expired, Bounds
        <5>3. l1' = {}
          BY <2>1, <5>2
        <5>4. m + 1 <= Minus(now, Window)
          BY <1>1, <4>2, <5>1 DEF Minus, Bounds
        <5>5. Minus(now, Window) \in Nat
          BY <1>1 DEF Minus, Bounds
        <5> QED BY <4>2, <4>3, <4>4, <5>3, <5>4, <5>5
      <4>6. CASE ~Expired(m)
        <5>1. m \in l1'
          BY <2>1, <4>1, <4>6
        <5> QED BY <4>2, <4>3, <4>4, <5>1
      <4> QED BY <4>5, <4>6
    <3> QED BY <3>1, <3>2
  <2> QED BY <1>1, <2>1, <2>2, <2>3 DEF TableMoves, Bounds
<1> QED BY <1>3, <1>4, <1>5, <1>6, <1>7

-----------------------------------------------------------------------------
(* The inductive invariant.                                                 *)

Busy(t) == work[t].pc \notin {"idle", "others"}

\* The meter's lock.
OneWrites == \A s, t \in Thread : Busy(s) /\ Busy(t) => s = t

\* The watermark, the cap of a call and the file go no further than the table.
FrontierAhead ==
    /\ device.watermark < Follows(l1)
    /\ \A t \in Thread : Busy(t) => work[t].cap < Follows(l1)

InOneFolder ==
    /\ setting.dir \in Folder
    /\ \A t \in Thread : Busy(t) => work[t].dir = setting.dir
    /\ \A d \in Folder : d # setting.dir => files[d] = Missing

\* What the file holds up to k, it holds for good.
CoveredTo(k) ==
    File_ # Missing =>
        \A i \in l1 \ Disowned : i <= k /\ ~Expired(i) => File_.rows[i] # "none"

NothingBeyond(k) == \A i \in Time : File_.rows[i] # "none" => i <= k

Settled ==
    (\A t \in Thread : work[t].pc # "commit") =>
        NothingBeyond(device.watermark) /\ CoveredTo(device.watermark)

\* A file that is appended to is there, unless it is the first.
MayAppend == File_ # Missing \/ device.watermark = None

RowsFit(rs, top) == \A i \in Time : rs[i] # "twice" /\ (rs[i] # "none" => i <= top)

WorkIsSound(my) ==
    /\ my.pc \in {"look", "empty"} /\ my.top = None /\ my.job = "trim" =>
          \A i \in l1 : i > device.watermark
    /\ my.pc = "empty" => my.top = None /\ my.job = "trim"
    /\ my.pc \in {"look", "max", "rows", "windowmax", "window", "empty"} => my.rows = NoRows
    /\ my.pc \in {"max", "rows", "append"} => MayAppend
    /\ my.pc \in {"rows", "append"} => device.watermark < my.top
    /\ my.pc \in {"rows", "append", "window", "replace", "commit"} => my.top <= my.cap
    /\ my.pc = "rows" => \A i \in l1 : device.watermark < i /\ i <= my.cap => i <= my.top
    /\ my.pc = "window" => \A i \in l1 : ~Expired(i) /\ i <= my.cap => i <= my.top
    /\ my.pc \in {"append", "replace"} => RowsFit(my.rows, my.top)
    /\ my.pc = "append" =>
          /\ \A i \in Time : my.rows[i] # "none" => device.watermark < i
          /\ \A i \in l1 \ Disowned : device.watermark < i /\ i <= my.top => my.rows[i] # "none"
    /\ my.pc = "replace" =>
          \A i \in l1 \ Disowned : i <= my.top /\ ~Expired(i) => my.rows[i] # "none"
    /\ my.pc = "commit" => NothingBeyond(my.top) /\ CoveredTo(my.top)

OnceEach == \A i \in Time : File_.rows[i] # "twice"

CsvSound ==
    /\ InOneFolder /\ FrontierAhead /\ OnceEach /\ Settled
    /\ \A t \in Thread : WorkIsSound(work[t])

CsvInv == CsvTyped /\ OneWrites /\ (~excused => CsvSound)

-----------------------------------------------------------------------------
(* The world around an export.                                              *)

LEMMA RowsOfFile ==
    ASSUME CsvTyped, InOneFolder
    PROVE  /\ File_ \in File /\ DOMAIN File_.rows = Time
           /\ \A i \in Time : File_.rows[i] \in {"none", "half", "whole", "twice"}
BY DEF CsvTyped, InOneFolder, File_, File

LEMMA NumbersOfWork ==
    ASSUME CsvTyped, NEW t \in Thread
    PROVE  /\ work[t] \in Work /\ work[t].cap \in 0 .. MaxTime /\ work[t].top \in 0 .. MaxTime
           /\ work[t].rows \in [Time -> {"none", "half", "whole", "twice"}]
           /\ work[t].dir \in Folder \cup {NoFolder} /\ work[t].head \in Head \cup {"missing"}
           /\ work[t].job \in {"none", "save", "export", "trim"}
           /\ work[t].pc \in {"idle", "look", "max", "rows", "append", "windowmax", "window",
                    "replace", "empty", "commit", "others"}
BY DEF CsvTyped, Work

LEMMA RestIsSound ==
    ASSUME NEW my, my.pc \in {"idle", "others"}
    PROVE  WorkIsSound(my)
BY DEF WorkIsSound

\* Nothing is exported; the table, the switches and the meter's row change.
LEMMA InvAfterTableMoves ==
    ASSUME Bounds, CsvInv, TableMoves, files' = files, work' = work,
           device' \in [head : Head, enabled : BOOLEAN, watermark : 0 .. MaxTime],
           device'.watermark = device.watermark,
           setting' \in [dir : Folder \cup {NoFolder}, auto : BOOLEAN],
           ~excused' => ~excused /\ setting'.dir = setting.dir
    PROVE  CsvInv'
<1>1. CsvTyped'
  BY DEF CsvInv, CsvTyped, TableMoves
<1>2. OneWrites'
  BY DEF CsvInv, OneWrites, Busy
<1>3. ASSUME ~excused' PROVE CsvSound'
  <2>1. /\ CsvTyped /\ InOneFolder /\ FrontierAhead /\ OnceEach /\ Settled
        /\ \A t \in Thread : WorkIsSound(work[t])
        /\ setting'.dir = setting.dir
    BY <1>3 DEF CsvInv, CsvSound
  <2>2. File_' = File_
    BY <2>1 DEF File_
  <2>3. /\ now \in Nat /\ now' \in Nat /\ now <= now' /\ Window \in Nat
        /\ Follows(l1) <= Follows(l1)' /\ Follows(l1) \in Nat /\ Follows(l1)' \in Nat
        /\ device.watermark \in Nat /\ \A t \in Thread : work[t].cap \in Nat /\ work[t].top \in Nat
        /\ \A i \in Time : i \in Nat
    <3>1. now \in 0 .. MaxTime /\ l1 \in SUBSET Time /\ l1' \in SUBSET Time /\ now' \in 0 .. MaxTime
          /\ device.watermark \in 0 .. MaxTime
      BY <2>1 DEF CsvTyped, TableMoves
    <3>2. Follows(l1) \in Nat
      BY <3>1, FollowsIsNumber DEF Bounds
    <3>3. Follows(l1)' \in Nat
      <4>0. now' \in Nat
        BY <3>1 DEF Bounds
      <4>1. Minus(now', Window) \in Nat
        BY <4>0, MinusIsNumber DEF Bounds
      <4>2. Max({1, Minus(now', Window)}) \in Nat
        BY <4>1, GreaterOfTwo
      <4>3. Newest(l1') \in Nat
        BY <3>1, NewestIsMost DEF Bounds
      <4> QED BY <4>2, <4>3 DEF Follows, Newest
    <3>4. \A t \in Thread : work[t].cap \in 0 .. MaxTime /\ work[t].top \in 0 .. MaxTime
      BY <2>1, NumbersOfWork
    <3> QED BY <3>1, <3>2, <3>3, <3>4 DEF TableMoves, Bounds, Time
  <2>4. \A i \in l1' : i \in l1 \/ (i > device.watermark /\ \A t \in Thread : Busy(t) => i > work[t].cap)
    BY <2>1, <2>3 DEF TableMoves, FrontierAhead
  <2>5. \A i \in Time : Expired(i) => Expired(i)'
    BY <2>3 DEF Expired
  <2>6. \A i \in l1' : i \in Time
    BY DEF TableMoves
  <2>7. InOneFolder'
    BY <2>1 DEF InOneFolder, Busy
  <2>8. FrontierAhead'
    BY <2>1, <2>3 DEF FrontierAhead, Busy
  <2>9. OnceEach'
    BY <2>1, <2>2 DEF OnceEach
  <2>10. \A k \in Nat : NothingBeyond(k) => NothingBeyond(k)'
    BY <2>2 DEF NothingBeyond
  <2>11. ASSUME NEW k \in Nat, CoveredTo(k), \A i \in l1' : i \in l1 \/ i > k PROVE CoveredTo(k)'
    <3> SUFFICES ASSUME File_ # Missing, NEW i \in l1', i \notin Disowned, i <= k, ~Expired(i)'
                 PROVE  File_.rows[i] # "none"
      BY <2>2 DEF CoveredTo
    <3>1. i \in l1 /\ ~Expired(i)
      BY <2>3, <2>5, <2>6, <2>11
    <3> QED BY <3>1, <2>11 DEF CoveredTo
  <2>12. Settled'
    BY <2>1, <2>3, <2>4, <2>10, <2>11 DEF Settled
  <2>13. ASSUME NEW t \in Thread PROVE WorkIsSound(work[t])'
    <3> DEFINE my == work[t]
    <3>1. WorkIsSound(my) /\ my.cap \in Nat /\ my.top \in Nat /\ work'[t] = my /\ my' = my
      BY <2>1, <2>3
    <3>2. my.pc \in {"look", "max", "rows", "append", "windowmax", "window", "replace", "empty", "commit"}
            => Busy(t)
      BY DEF Busy
    <3> HIDE DEF my
    <3>3. CASE my.pc \in {"idle", "others"}
      BY <3>1, <3>3 DEF WorkIsSound
    <3>4. ASSUME Busy(t) PROVE WorkIsSound(work[t])'
      <4>1. \A i \in l1' : i \in l1 \/ (i > device.watermark /\ i > my.cap)
        BY <2>4, <3>4 DEF my
      <4>2. my.top <= my.cap => \A i \in l1' : i \in l1 \/ i > my.top
        BY <2>3, <2>6, <3>1, <4>1
      <4>3. my.pc \in {"look", "empty"} /\ my.top = None /\ my.job = "trim" => \A i \in l1' : i > device'.watermark
        BY <2>3, <2>6, <3>1, <4>1 DEF WorkIsSound
      <4>4. my.pc = "rows" => \A i \in l1' : device'.watermark < i /\ i <= my.cap => i <= my.top
        BY <2>3, <2>6, <3>1, <4>1 DEF WorkIsSound
      <4>5. my.pc = "window" => \A i \in l1' : ~Expired(i)' /\ i <= my.cap => i <= my.top
        BY <2>3, <2>5, <2>6, <3>1, <4>1 DEF WorkIsSound
      <4>6. my.pc = "append" => \A i \in l1' \ Disowned : device'.watermark < i /\ i <= my.top => my.rows[i] # "none"
        BY <2>3, <2>6, <3>1, <4>2 DEF WorkIsSound
      <4>7. my.pc = "replace" => \A i \in l1' \ Disowned : i <= my.top /\ ~Expired(i)' => my.rows[i] # "none"
        BY <2>3, <2>5, <2>6, <3>1, <4>2 DEF WorkIsSound
      <4>8. my.pc = "commit" => NothingBeyond(my.top)' /\ CoveredTo(my.top)'
        <5>1. \A k \in Nat : k = my.top /\ my.pc = "commit" => NothingBeyond(k)' /\ CoveredTo(k)'
          <6> SUFFICES ASSUME NEW k \in Nat, k = my.top, my.pc = "commit" PROVE NothingBeyond(k)' /\ CoveredTo(k)'
            OBVIOUS
          <6>1. NothingBeyond(k) /\ CoveredTo(k) /\ my.top <= my.cap
            BY <3>1 DEF WorkIsSound
          <6>2. \A i \in l1' : i \in l1 \/ i > k
            BY <4>2, <6>1
          <6> QED BY <2>10, <2>11, <6>1, <6>2
        <5> QED BY <3>1, <5>1
      <4>9. MayAppend => MayAppend'
        BY <2>2 DEF MayAppend
      <4>10. NoRows' = NoRows
        BY DEF NoRows
      <4> QED BY <3>1, <4>3, <4>4, <4>5, <4>6, <4>7, <4>8, <4>9, <4>10 DEF WorkIsSound, my, RowsFit
    <3> QED BY <3>2, <3>3, <3>4 DEF Busy, my
  <2> QED BY <2>7, <2>8, <2>9, <2>12, <2>13 DEF CsvSound
<1> QED BY <1>1, <1>2, <1>3 DEF CsvInv

LEMMA InvAfterWorld ==
    ASSUME Bounds, CsvInv,
           \/ Tick \/ StoreFirst \/ StoreSecond \/ purge_expired \/ StoreRecords
           \/ \E head \in Head, enabled \in BOOLEAN : EditDevice(head, enabled)
           \/ UNCHANGED vars
    PROVE  CsvInv'
<1>1. CsvTyped
  BY DEF CsvInv
<1>2. TableMoves
  BY <1>1, TheTableMoves DEF StoreRecords, EditDevice, vars, world
<1>3. files' = files /\ work' = work /\ setting' = setting /\ excused' = excused
  BY DEF Tick, StoreFirst, StoreSecond, purge_expired, StoreRecords, EditDevice, vars, world
<1>4. device' \in [head : Head, enabled : BOOLEAN, watermark : 0 .. MaxTime] /\ device'.watermark = device.watermark
  <2>1. device \in [head : Head, enabled : BOOLEAN, watermark : 0 .. MaxTime]
    BY <1>1 DEF CsvTyped
  <2>2. ASSUME NEW head \in Head, NEW enabled \in BOOLEAN, EditDevice(head, enabled)
        PROVE  device' \in [head : Head, enabled : BOOLEAN, watermark : 0 .. MaxTime]
               /\ device'.watermark = device.watermark
    BY <2>1, <2>2 DEF EditDevice
  <2>3. CASE device' = device
    BY <2>1, <2>3
  <2> QED BY <2>2, <2>3 DEF Tick, StoreFirst, StoreSecond, purge_expired, StoreRecords, vars
<1>5. setting' \in [dir : Folder \cup {NoFolder}, auto : BOOLEAN]
  BY <1>1, <1>3 DEF CsvTyped
<1> QED BY <1>2, <1>3, <1>4, <1>5, InvAfterTableMoves

LEMMA InvAfterSettings ==
    ASSUME Bounds, CsvInv, NEW dir \in Folder \cup {NoFolder}, NEW auto \in BOOLEAN,
           put_export_settings(dir, auto)
    PROVE  CsvInv'
<1>1. CsvTyped /\ UNCHANGED <<now, l1, l2, device, files, work>>
      /\ setting' = [dir |-> dir, auto |-> auto] /\ excused' = (excused \/ dir # setting.dir)
  BY DEF CsvInv, put_export_settings
<1>2. TableMoves
  BY <1>1, TheTableMoves
<1>3. device' \in [head : Head, enabled : BOOLEAN, watermark : 0 .. MaxTime]
  BY <1>1 DEF CsvTyped
<1> QED BY <1>1, <1>2, <1>3, InvAfterTableMoves

\* A history that excuses: the rest is types and the lock.
LEMMA InvExcused ==
    ASSUME CsvTyped', OneWrites', excused'
    PROVE  CsvInv'
BY DEF CsvInv

LEMMA InvAfterClear ==
    ASSUME CsvInv, clear_readings
    PROVE  CsvInv'
<1>1. CsvTyped /\ OneWrites /\ excused' /\ l1' = {} /\ l2' = {} /\ UNCHANGED <<now, device, setting, files, work>>
  BY DEF CsvInv, clear_readings
<1> QED BY <1>1, InvExcused DEF CsvTyped, OneWrites, Busy

LEMMA MissingIsFile ==
    Missing \in File /\ \A i \in Time : Missing.rows[i] = "none"
BY DEF Missing, File

LEMMA InvAfterDelete ==
    ASSUME CsvInv, NEW dir \in Folder, DeleteFile(dir)
    PROVE  CsvInv'
<1>1. /\ CsvTyped /\ OneWrites /\ files' = [files EXCEPT ![dir] = Missing] /\ files[dir] # Missing
      /\ excused' = (excused \/ ~Unlocked) /\ UNCHANGED <<now, l1, l2, setting, device, work>>
  BY DEF CsvInv, DeleteFile, world
<1>2. files' \in [Folder -> File]
  BY <1>1, MissingIsFile DEF CsvTyped
<1>3. CsvTyped'
  BY <1>1, <1>2 DEF CsvTyped
<1>4. OneWrites'
  BY <1>1 DEF OneWrites, Busy
<1>5. ASSUME ~excused' PROVE CsvSound'
  <2>1. ~excused /\ Unlocked /\ CsvSound /\ (excused' => excused \/ ~Unlocked)
    BY <1>1, <1>5 DEF CsvInv
  <2>2. dir = setting.dir /\ setting.dir \in Folder
    BY <1>1, <2>1 DEF CsvSound, InOneFolder
  <2>3. File_' = Missing
    BY <1>1, <2>2 DEF File_, CsvTyped
  <2>4. \A t \in Thread : work'[t].pc \in {"idle", "others"}
    BY <1>1, <2>1 DEF Unlocked
  <2>5. \A t \in Thread : WorkIsSound(work[t])'
    BY <2>4 DEF WorkIsSound
  <2>6. InOneFolder' 
    <3>1. \A d \in Folder : d # setting.dir => files'[d] = Missing
      BY <1>1, <2>1 DEF CsvSound, InOneFolder, CsvTyped
    <3> QED BY <1>1, <2>2, <2>4, <3>1 DEF InOneFolder, Busy
  <2>7. FrontierAhead'
    <3>1. Follows(l1)' = Follows(l1)
      BY <1>1 DEF Follows, Newest
    <3> QED BY <1>1, <2>1, <2>4, <3>1 DEF CsvSound, FrontierAhead, Busy
  <2>8. OnceEach' /\ Settled'
    BY <2>3, MissingIsFile DEF OnceEach, Settled, NothingBeyond, CoveredTo, Missing
  <2> QED BY <2>5, <2>6, <2>7, <2>8 DEF CsvSound
<1> QED BY <1>3, <1>4, <1>5 DEF CsvInv

LEMMA IdleIsWork ==
    ASSUME MaxTime \in Nat
    PROVE  Idle \in Work /\ [Idle EXCEPT !.job = "export", !.pc = "others"] \in Work
                    /\ Idle.pc = "idle" /\ [Idle EXCEPT !.job = "export", !.pc = "others"].pc = "others"
<1>1. [t \in Time |-> "none"] \in [Time -> {"none", "half", "whole", "twice"}] /\ None \in 0 .. MaxTime
  BY DEF None
<1> QED BY <1>1 DEF Idle, Work

-----------------------------------------------------------------------------
(* The steps of a call.                                                     *)

\* Calls end, or are held, where they have written nothing uncommitted.
LEMMA InvAtRest ==
    ASSUME CsvInv, UNCHANGED <<now, l1, l2, setting, files, device>>,
           work' \in [Thread -> Work],
           \A t \in Thread : work'[t].pc \in {"idle", "others"} \/ work'[t] = work[t],
           ~excused' => ~excused /\ \A t \in Thread : work'[t] = work[t] \/ work[t].pc # "commit"
    PROVE  CsvInv'
<1>1. CsvTyped' /\ OneWrites'
  BY DEF CsvInv, CsvTyped, OneWrites, Busy
<1>2. ASSUME ~excused' PROVE CsvSound'
  <2>1. ~excused /\ (\A t \in Thread : work'[t] = work[t] \/ work[t].pc # "commit") /\ CsvSound
    BY <1>2 DEF CsvInv
  <2>2. File_' = File_ /\ Follows(l1)' = Follows(l1) /\ \A i \in Time : Expired(i)' <=> Expired(i)
    BY DEF File_, Follows, Newest, Expired
  <2>3. Settled'
    BY <2>1, <2>2 DEF CsvSound, Settled, NothingBeyond, CoveredTo, Expired
  <2>4. InOneFolder' /\ FrontierAhead' /\ OnceEach'
    BY <2>1, <2>2 DEF CsvSound, InOneFolder, FrontierAhead, OnceEach, Busy
  <2>5. ASSUME NEW t \in Thread PROVE WorkIsSound(work[t])'
    <3>1. CASE work'[t].pc \in {"idle", "others"}
      BY <3>1 DEF WorkIsSound
    <3>2. CASE work'[t] = work[t]
      <4>1. WorkIsSound(work[t])
        BY <2>1 DEF CsvSound
      <4>2. /\ NothingBeyond(work[t].top) => NothingBeyond(work[t].top)'
            /\ CoveredTo(work[t].top) => CoveredTo(work[t].top)'
        BY <2>2, <3>2 DEF NothingBeyond, CoveredTo, Expired
      <4>3. MayAppend' = MayAppend /\ NoRows' = NoRows
        BY <2>2 DEF MayAppend, NoRows
      <4>4. \A i \in l1 : Expired(i)' <=> Expired(i)
        BY DEF Expired
      <4> QED BY <3>2, <4>1, <4>2, <4>3, <4>4 DEF WorkIsSound, RowsFit
    <3> QED BY <3>1, <3>2
  <2> QED BY <2>3, <2>4, <2>5 DEF CsvSound
<1> QED BY <1>1, <1>2 DEF CsvInv

\* A call goes on and has not touched the file.
LEMMA InvAfterSearch ==
    ASSUME CsvInv, UNCHANGED <<now, l1, l2, setting, files, device, excused>>,
           NEW t \in Thread, NEW w \in Work, work' = [work EXCEPT ![t] = w],
           \A s \in Thread : s # t => ~Busy(s), work[t].pc # "commit",
           ~excused => w.dir = setting.dir /\ w.cap < Follows(l1) /\ WorkIsSound(w) /\ setting.dir \in Folder
    PROVE  CsvInv'
<1>0. CsvTyped /\ OneWrites /\ work'[t] = w /\ \A s \in Thread : s # t => work'[s] = work[s]
  BY DEF CsvInv, CsvTyped
<1>1. CsvTyped'
  BY <1>0 DEF CsvTyped
<1>2. OneWrites'
  BY <1>0 DEF OneWrites, Busy
<1>3. ASSUME ~excused' PROVE CsvSound'
  <2>1. ~excused /\ CsvSound /\ w.dir = setting.dir /\ w.cap < Follows(l1) /\ WorkIsSound(w)
    BY <1>3 DEF CsvInv
  <2>2. File_' = File_ /\ Follows(l1)' = Follows(l1) /\ \A i \in l1 : Expired(i)' <=> Expired(i)
    BY DEF File_, Follows, Newest, Expired
  <2>3. \A s \in Thread : work[s].pc # "commit"
    BY DEF Busy
  <2>4. Settled'
    BY <2>1, <2>2, <2>3 DEF CsvSound, Settled, NothingBeyond, CoveredTo
  <2>5. InOneFolder'
    BY <1>0, <2>1 DEF CsvSound, InOneFolder, Busy
  <2>6. FrontierAhead'
    BY <1>0, <2>1, <2>2 DEF CsvSound, FrontierAhead, Busy
  <2>7. OnceEach'
    BY <2>1, <2>2 DEF CsvSound, OnceEach
  <2>8. ASSUME NEW s \in Thread PROVE WorkIsSound(work[s])'
    <3>1. CASE s = t
      <4>1. NoRows' = NoRows
        BY DEF NoRows
      <4>2. MayAppend' = MayAppend
        BY <2>2 DEF MayAppend
      <4>3. NothingBeyond(w.top) => NothingBeyond(w.top)'
        BY <2>2 DEF NothingBeyond
      <4>4. CoveredTo(w.top) => CoveredTo(w.top)'
        BY <2>2 DEF CoveredTo
      <4>5. WorkIsSound(w)'
        BY <2>1, <2>2, <4>1, <4>2, <4>3, <4>4 DEF WorkIsSound, RowsFit
      <4> QED BY <1>0, <3>1, <4>5
    <3>2. CASE s # t
      <4>1. work'[s].pc \in {"idle", "others"}
        BY <1>0, <3>2 DEF Busy
      <4> QED BY <4>1 DEF WorkIsSound
    <3> QED BY <3>1, <3>2
  <2> QED BY <2>4, <2>5, <2>6, <2>7, <2>8 DEF CsvSound
<1> QED BY <1>1, <1>2, <1>3 DEF CsvInv

LEMMA InvAfterCrash ==
    ASSUME Bounds, CsvInv, Crash
    PROVE  CsvInv'
<1>1. /\ UNCHANGED <<now, l1, l2, setting, files, device>> /\ work' = [t \in Thread |-> Idle]
      /\ excused' = (excused \/ \E t \in Thread : work[t].pc = "commit")
  BY DEF Crash, world
<1>2. Idle \in Work /\ Idle.pc = "idle"
  BY IdleIsWork DEF Bounds
<1> QED BY <1>1, <1>2, InvAtRest

LEMMA LeaveRests ==
    ASSUME Bounds, CsvTyped, NEW t \in Thread, Leave(t)
    PROVE  /\ work' \in [Thread -> Work]
           /\ work'[t].pc \in {"idle", "others"}
           /\ \A s \in Thread : s # t => work'[s] = work[s]
<1>1. work \in [Thread -> Work]
  BY DEF CsvTyped
<1>2. PICK w \in {Idle, [Idle EXCEPT !.job = "export", !.pc = "others"]} : work' = [work EXCEPT ![t] = w]
  BY <1>1 DEF Leave
<1>3. w \in Work /\ w.pc \in {"idle", "others"}
  BY <1>2, IdleIsWork DEF Bounds
<1> QED BY <1>1, <1>2, <1>3

LEMMA InvAfterOthers ==
    ASSUME Bounds, CsvInv, ExportOthers
    PROVE  CsvInv'
<1>1. /\ UNCHANGED <<now, l1, l2, setting, files, device, excused>> /\ work' = [work EXCEPT ![scheduler] = Idle]
      /\ work[scheduler].pc = "others" /\ scheduler \in Thread /\ work \in [Thread -> Work]
      /\ \A t \in Thread : t # scheduler => work'[t] = work[t]
  BY DEF ExportOthers, world, CsvInv, CsvTyped, Thread
<1>2. Idle \in Work /\ Idle.pc = "idle"
  BY IdleIsWork DEF Bounds
<1> QED BY <1>1, <1>2, InvAtRest

LEMMA InvAfterEnter ==
    ASSUME Bounds, CsvInv, NEW t \in Thread, NEW job \in {"save", "export", "trim"}, Enter(t, job)
    PROVE  CsvInv'
<1>1. CsvTyped /\ l1 \in SUBSET Time /\ l2 \in SUBSET Time /\ now \in Nat /\ work[t] = Idle /\ Unlocked
      /\ setting.dir \in Folder \cup {NoFolder} /\ device.head \in Head
  BY DEF CsvInv, CsvTyped, Enter, Bounds
<1> DEFINE n == Newest(l1)
           c == Cap(n)
<1>2. n \in 0 .. MaxTime /\ (n = None <=> l1 = {}) /\ (l1 # {} => n \in l1)
  BY <1>1, NewestIsMost DEF Bounds
<1>3. c \in 0 .. MaxTime /\ c <= n
  <2> HIDE DEF n
  <2> QED BY <1>1, <1>2, CapIsBelow
<1>4. Follows(l1) \in Nat \ {0} /\ \A i \in l1 : i < Follows(l1)
  BY <1>1, FollowsIsNumber
<1>5. n < Follows(l1) /\ c < Follows(l1)
  <2> HIDE DEF c, n
  <2> QED BY <1>2, <1>3, <1>4 DEF None
<1> HIDE DEF c, n
<1>6. PICK pc \in {"others", "look"} :
         work' = [work EXCEPT ![t] = [Idle EXCEPT !.job = job, !.dir = setting.dir, !.head = device.head,
                                        !.cap = c, !.top = n, !.pc = pc]]
  BY DEF Enter, c, n
<1> DEFINE w == [Idle EXCEPT !.job = job, !.dir = setting.dir, !.head = device.head,
                             !.cap = c, !.top = n, !.pc = pc]
<1>7. /\ w \in Work /\ w.job = job /\ w.dir = setting.dir /\ w.cap = c /\ w.top = n /\ w.pc = pc
      /\ w.rows = NoRows
  <2>1. NoRows \in [Time -> {"none", "half", "whole", "twice"}]
    BY DEF NoRows
  <2> QED BY <1>1, <1>2, <1>3, <2>1 DEF Idle, Work, NoRows
<1> HIDE DEF w
<1>8. UNCHANGED <<now, l1, l2, setting, files, device, excused>>
  BY DEF Enter, world
<1>9. \A s \in Thread : s # t => ~Busy(s)
  BY <1>1 DEF Unlocked, Busy
<1>10. work[t].pc # "commit"
  BY <1>1 DEF Idle
<1>11. WorkIsSound(w)
  BY <1>2, <1>7 DEF WorkIsSound
<1>12. ~excused => setting.dir \in Folder
  BY DEF CsvInv, CsvSound, InOneFolder
<1> QED BY <1>5, <1>6, <1>7, <1>8, <1>9, <1>10, <1>11, <1>12, InvAfterSearch DEF w

\* What a busy thread may rely on.
LEMMA WorkingAlone ==
    ASSUME Bounds, CsvInv, NEW t \in Thread, Busy(t)
    PROVE  /\ \A s \in Thread : s # t => ~Busy(s)
           /\ CsvTyped /\ work[t] \in Work
           /\ ~excused => CsvSound /\ setting.dir \in Folder /\ work[t].dir = setting.dir
                          /\ work[t].cap < Follows(l1) /\ WorkIsSound(work[t])
<1>1. CsvTyped /\ OneWrites /\ (~excused => CsvSound)
  BY DEF CsvInv
<1>2. work[t] \in Work
  BY <1>1 DEF CsvTyped
<1> QED BY <1>1, <1>2 DEF OneWrites, CsvSound, InOneFolder, FrontierAhead

\* A step of a call that changes its place and what it carries only.
LEMMA InvAfterOwnStep ==
    ASSUME Bounds, CsvInv, UNCHANGED <<now, l1, l2, setting, files, device, excused>>,
           NEW t \in Thread, Busy(t), work[t].pc # "commit", NEW w \in Work,
           work' = [work EXCEPT ![t] = w], w.dir = work[t].dir, w.cap = work[t].cap,
           ~excused => WorkIsSound(w)
    PROVE  CsvInv'
<1>1. /\ \A s \in Thread : s # t => ~Busy(s)
      /\ ~excused => setting.dir \in Folder /\ work[t].dir = setting.dir /\ work[t].cap < Follows(l1)
  BY WorkingAlone
<1> QED BY <1>1, InvAfterSearch

LEMMA InvAfterLook ==
    ASSUME Bounds, CsvInv, NEW t \in Thread, Look(t)
    PROVE  CsvInv'
<1>1. work[t].pc = "look" /\ UNCHANGED <<now, l1, l2, setting, files, device, excused>> /\ Busy(t)
  BY DEF Look, world, Busy
<1>2. CsvTyped /\ work[t] \in Work /\ (~excused => WorkIsSound(work[t]) /\ work[t].dir = setting.dir)
  BY <1>1, WorkingAlone
<1>3. CASE Leave(t)
  <2>1. /\ work' \in [Thread -> Work] /\ work'[t].pc \in {"idle", "others"}
        /\ \A s \in Thread : s # t => work'[s] = work[s]
    BY <1>2, <1>3, LeaveRests
  <2>2. \A s \in Thread : work'[s] = work[s] \/ work[s].pc # "commit"
    BY <1>1, <2>1
  <2> QED BY <1>1, <2>1, <2>2, InvAtRest
<1>4. ASSUME ~Leave(t) PROVE CsvInv'
  <2>1. PICK pc \in {"empty", "windowmax", "max"} :
          /\ To(t, pc)
          /\ pc = "empty" => work[t].job = "trim" /\ work[t].top = None
          /\ pc = "max" => files[work[t].dir] # Missing \/ device.watermark = None
    BY <1>4 DEF Look
  <2> DEFINE w == [work[t] EXCEPT !.pc = pc]
  <2>2. /\ w \in Work /\ w.pc = pc /\ w.job = work[t].job /\ w.top = work[t].top /\ w.cap = work[t].cap
        /\ w.dir = work[t].dir /\ w.rows = work[t].rows
    BY <1>2 DEF Work
  <2>3. work' = [work EXCEPT ![t] = w]
    BY <2>1 DEF To
  <2> HIDE DEF w
  <2>4. ~excused => WorkIsSound(w)
    BY <1>1, <1>2, <2>1, <2>2 DEF WorkIsSound, MayAppend, File_
  <2> QED BY <1>1, <2>2, <2>3, <2>4, InvAfterOwnStep
<1> QED BY <1>3, <1>4

LEMMA PendingIs ==
    ASSUME CsvTyped, NEW t \in Thread
    PROVE  Pending(t) \in SUBSET Time /\ InWindow(t) \in SUBSET Time
BY DEF Pending, InWindow, CsvTyped

LEMMA InvAfterFindNewest ==
    ASSUME Bounds, CsvInv, NEW t \in Thread, FindNewest(t)
    PROVE  CsvInv'
<1>1. work[t].pc = "max" /\ UNCHANGED <<now, l1, l2, setting, files, device, excused>> /\ Busy(t)
  BY DEF FindNewest, world, Busy
<1>2. CsvTyped /\ work[t] \in Work /\ (~excused => WorkIsSound(work[t]))
  BY <1>1, WorkingAlone
<1> DEFINE top == Newest(Pending(t))
<1>3. top \in 0 .. MaxTime /\ (\A i \in Pending(t) : i <= top) /\ (top # None => top \in Pending(t))
  BY <1>2, PendingIs, NewestIsMost DEF Bounds
<1>4. IF top = None THEN Leave(t) ELSE work' = [work EXCEPT ![t].top = top, ![t].pc = "rows"]
  BY DEF FindNewest
<1> HIDE DEF top
<1>5. CASE top = None
  <2>1. /\ work' \in [Thread -> Work] /\ work'[t].pc \in {"idle", "others"}
        /\ \A s \in Thread : s # t => work'[s] = work[s]
    BY <1>2, <1>4, <1>5, LeaveRests
  <2>2. \A s \in Thread : work'[s] = work[s] \/ work[s].pc # "commit"
    BY <1>1, <2>1
  <2> QED BY <1>1, <2>1, <2>2, InvAtRest
<1>6. CASE top # None
  <2> DEFINE w == [work[t] EXCEPT !.top = top, !.pc = "rows"]
  <2>2. /\ w \in Work /\ w.pc = "rows" /\ w.top = top /\ w.cap = work[t].cap
        /\ w.dir = work[t].dir /\ w.rows = work[t].rows
    BY <1>2, <1>3 DEF Work
  <2>3. work' = [work EXCEPT ![t] = w]
    BY <1>2, <1>4, <1>6 DEF CsvTyped
  <2> HIDE DEF w
  <2>4. ~excused => WorkIsSound(w)
    <3>1. device.watermark < top /\ top <= work[t].cap
      BY <1>3, <1>6 DEF Pending
    <3>2. \A i \in l1 : device.watermark < i /\ i <= work[t].cap => i <= top
      <4> TAKE i \in l1
      <4>1. i \in Nat /\ device.watermark \in Nat
        BY <1>2 DEF CsvTyped, Bounds, Time
      <4>2. device.watermark < i /\ i <= work[t].cap => i \in Pending(t)
        BY <4>1 DEF Pending
      <4> QED BY <1>3, <4>2
    <3> QED BY <1>1, <1>2, <2>2, <3>1, <3>2 DEF WorkIsSound
  <2> QED BY <1>1, <2>2, <2>3, <2>4, InvAfterOwnStep
<1> QED BY <1>5, <1>6

LEMMA InvAfterFindRows ==
    ASSUME Bounds, CsvInv, NEW t \in Thread, FindRows(t)
    PROVE  CsvInv'
<1>1. work[t].pc = "rows" /\ UNCHANGED <<now, l1, l2, setting, files, device, excused>> /\ Busy(t)
  BY DEF FindRows, world, Busy
<1>2. /\ CsvTyped /\ work[t] \in Work /\ (~excused => WorkIsSound(work[t]) /\ CsvSound)
      /\ \A s \in Thread : s # t => ~Busy(s)
  BY <1>1, WorkingAlone
<1> DEFINE rs == Merged(Pending(t))
<1>3. PICK pc \in {"commit", "append"} :
        /\ work' = [work EXCEPT ![t].rows = rs, ![t].pc = pc]
        /\ pc = "commit" => rs = NoRows
  BY DEF FindRows
<1>4. /\ rs \in [Time -> {"none", "half", "whole", "twice"}]
      /\ \A i \in Time : /\ rs[i] # "twice"
                         /\ rs[i] # "none" <=> i \in Pending(t) /\ i \in l1 /\ i \notin Disowned
  BY MergedIsTyped, MergedSays
<1> HIDE DEF rs
<1> DEFINE w == [work[t] EXCEPT !.rows = rs, !.pc = pc]
<1>5. /\ w \in Work /\ w.pc = pc /\ w.top = work[t].top /\ w.cap = work[t].cap
      /\ w.dir = work[t].dir /\ w.rows = rs
  BY <1>2, <1>4 DEF Work
<1>6. work' = [work EXCEPT ![t] = w]
  BY <1>2, <1>3 DEF CsvTyped
<1> HIDE DEF w
<1>7. ASSUME ~excused PROVE WorkIsSound(w)
  <2> DEFINE my == work[t]
  <2>1. /\ MayAppend /\ device.watermark < my.top /\ my.top <= my.cap
        /\ \A i \in l1 : device.watermark < i /\ i <= my.cap => i <= my.top
    BY <1>1, <1>2, <1>7 DEF WorkIsSound
  <2>2. /\ device.watermark \in Nat /\ my.top \in Nat /\ my.cap \in Nat /\ \A i \in Time : i \in Nat
        /\ l1 \in SUBSET Time
    BY <1>2, NumbersOfWork DEF CsvTyped, Bounds, Time
  <2> HIDE DEF my
  <2>3. \A i \in l1 : i \in Pending(t) <=> device.watermark < i /\ i <= my.cap
    BY <2>2 DEF Pending, my
  <2>4. RowsFit(rs, my.top)
    BY <1>4, <2>1, <2>3 DEF RowsFit
  <2>5. \A i \in Time : rs[i] # "none" => device.watermark < i
    BY <1>4, <2>3
  <2>6. \A i \in l1 \ Disowned : device.watermark < i /\ i <= my.top => rs[i] # "none"
    <3> TAKE i \in l1 \ Disowned
    <3>1. i \in Time /\ i \in Nat /\ (i <= my.top => i <= my.cap)
      BY <2>1, <2>2
    <3> QED BY <1>4, <2>3, <3>1
  <2>7. pc = "commit" => NothingBeyond(my.top) /\ CoveredTo(my.top)
    <3> SUFFICES ASSUME pc = "commit" PROVE NothingBeyond(my.top) /\ CoveredTo(my.top)
      OBVIOUS
    <3>1. \A s \in Thread : work[s].pc # "commit"
      BY <1>1, <1>2 DEF Busy
    <3>2. NothingBeyond(device.watermark) /\ CoveredTo(device.watermark)
      BY <1>2, <1>7, <3>1 DEF CsvSound, Settled
    <3>3. \A i \in Time : rs[i] = "none"
      BY <1>3 DEF NoRows
    <3>4. \A i \in l1 \ Disowned : i <= my.top => i <= device.watermark
      BY <2>2, <2>6, <3>3
    <3>5. NothingBeyond(my.top)
      BY <2>1, <2>2, <3>2 DEF NothingBeyond
    <3>6. CoveredTo(my.top)
      BY <3>2, <3>4 DEF CoveredTo
    <3> QED BY <3>5, <3>6
  <2> QED BY <1>3, <1>5, <2>1, <2>4, <2>5, <2>6, <2>7 DEF WorkIsSound, my
<1> QED BY <1>1, <1>5, <1>6, <1>7, InvAfterOwnStep

LEMMA InvAfterFindWindowNewest ==
    ASSUME Bounds, CsvInv, NEW t \in Thread, FindWindowNewest(t)
    PROVE  CsvInv'
<1>1. work[t].pc = "windowmax" /\ UNCHANGED <<now, l1, l2, setting, files, device, excused>> /\ Busy(t)
  BY DEF FindWindowNewest, world, Busy
<1>2. CsvTyped /\ work[t] \in Work /\ (~excused => WorkIsSound(work[t]))
  BY <1>1, WorkingAlone
<1> DEFINE top == Newest(InWindow(t))
<1>3. /\ top \in 0 .. MaxTime /\ (\A i \in InWindow(t) : i <= top)
      /\ IF InWindow(t) = {} THEN top = None ELSE top \in InWindow(t)
  BY <1>2, PendingIs, NewestIsMost DEF Bounds
<1>4. PICK pc \in {"replace", "window"} : work' = [work EXCEPT ![t].top = top, ![t].pc = pc]
  BY DEF FindWindowNewest
<1> HIDE DEF top
<1> DEFINE w == [work[t] EXCEPT !.top = top, !.pc = pc]
<1>5. /\ w \in Work /\ w.pc = pc /\ w.top = top /\ w.cap = work[t].cap
      /\ w.dir = work[t].dir /\ w.rows = work[t].rows
  BY <1>2, <1>3 DEF Work
<1>6. work' = [work EXCEPT ![t] = w]
  BY <1>2, <1>4 DEF CsvTyped
<1> HIDE DEF w
<1>8. work' = [work EXCEPT ![t].top = top, ![t].pc = IF top = None THEN "replace" ELSE "window"]
  BY DEF FindWindowNewest, top
<1>9. pc = IF top = None THEN "replace" ELSE "window"
  <2>1. work'[t].pc = IF top = None THEN "replace" ELSE "window"
    BY <1>2, <1>8 DEF CsvTyped, Work
  <2>2. work'[t] = w
    BY <1>2, <1>6 DEF CsvTyped
  <2> QED BY <1>5, <2>1, <2>2
<1>7. ASSUME ~excused PROVE WorkIsSound(w)
  <2>1. work[t].rows = NoRows /\ work[t].cap \in 0 .. MaxTime /\ \A i \in Time : i \in Nat /\ i > 0
    BY <1>1, <1>2, <1>7 DEF WorkIsSound, Work, Time, Bounds
  <2>2. top <= work[t].cap
    BY <1>3, <2>1 DEF InWindow, None, Bounds
  <2>3. \A i \in l1 : ~Expired(i) /\ i <= work[t].cap => i <= top
    BY <1>3 DEF InWindow
  <2>4. RowsFit(NoRows, top)
    BY DEF RowsFit, NoRows
  <2>5. pc = "replace" => \A i \in l1 \ Disowned : i <= top /\ ~Expired(i) => NoRows[i] # "none"
    <3> SUFFICES ASSUME top = None, NEW i \in l1 PROVE ~(i <= top)
      BY <1>9
    <3>1. i \in Time
      BY <1>2 DEF CsvTyped
    <3> QED BY <2>1, <3>1 DEF None
  <2> QED BY <1>4, <1>5, <2>1, <2>2, <2>3, <2>4, <2>5 DEF WorkIsSound
<1> QED BY <1>1, <1>5, <1>6, <1>7, InvAfterOwnStep

LEMMA InvAfterFindWindow ==
    ASSUME Bounds, CsvInv, NEW t \in Thread, FindWindow(t)
    PROVE  CsvInv'
<1>1. work[t].pc = "window" /\ UNCHANGED <<now, l1, l2, setting, files, device, excused>> /\ Busy(t)
  BY DEF FindWindow, world, Busy
<1>2. CsvTyped /\ work[t] \in Work /\ (~excused => WorkIsSound(work[t]))
  BY <1>1, WorkingAlone
<1> DEFINE rs == Merged(InWindow(t))
<1>3. work' = [work EXCEPT ![t].rows = rs, ![t].pc = "replace"]
  BY DEF FindWindow
<1>4. /\ rs \in [Time -> {"none", "half", "whole", "twice"}]
      /\ \A i \in Time : /\ rs[i] # "twice"
                         /\ rs[i] # "none" <=> i \in InWindow(t) /\ i \in l1 /\ i \notin Disowned
  BY MergedIsTyped, MergedSays
<1> HIDE DEF rs
<1> DEFINE w == [work[t] EXCEPT !.rows = rs, !.pc = "replace"]
<1>5. /\ w \in Work /\ w.pc = "replace" /\ w.top = work[t].top /\ w.cap = work[t].cap
      /\ w.dir = work[t].dir /\ w.rows = rs
  BY <1>2, <1>4 DEF Work
<1>6. work' = [work EXCEPT ![t] = w]
  BY <1>2, <1>3 DEF CsvTyped
<1> HIDE DEF w
<1>7. ASSUME ~excused PROVE WorkIsSound(w)
  <2> DEFINE my == work[t]
  <2>1. /\ my.top <= my.cap
        /\ \A i \in l1 : ~Expired(i) /\ i <= my.cap => i <= my.top
    BY <1>1, <1>2, <1>7 DEF WorkIsSound
  <2>2. /\ my.top \in Nat /\ my.cap \in Nat /\ \A i \in Time : i \in Nat
        /\ l1 \in SUBSET Time
    BY <1>2, NumbersOfWork DEF CsvTyped, Bounds, Time
  <2> HIDE DEF my
  <2>3. \A i \in l1 : i \in InWindow(t) <=> ~Expired(i) /\ i <= my.cap
    BY DEF InWindow, my
  <2>4. RowsFit(rs, my.top)
    BY <1>4, <2>1, <2>3 DEF RowsFit
  <2>5. \A i \in l1 \ Disowned : i <= my.top /\ ~Expired(i) => rs[i] # "none"
    <3> TAKE i \in l1 \ Disowned
    <3>1. i \in Time /\ i \in Nat /\ (i <= my.top => i <= my.cap)
      BY <2>1, <2>2
    <3> QED BY <1>4, <2>3, <3>1
  <2> QED BY <1>5, <2>1, <2>4, <2>5 DEF WorkIsSound, my
<1> QED BY <1>1, <1>5, <1>6, <1>7, InvAfterOwnStep

-----------------------------------------------------------------------------
(* The file is written, the watermark committed.                            *)

LEMMA InvAfterWrite ==
    ASSUME Bounds, CsvInv, UNCHANGED <<now, l1, l2, setting, device>>,
           NEW t \in Thread, Busy(t), NEW F \in File, NEW k,
           files' = [files EXCEPT ![work[t].dir] = F],
           work' \in [Thread -> Work], \A s \in Thread : s # t => work'[s] = work[s],
           IF work'[t].pc = "commit"
           THEN work'[t].dir = work[t].dir /\ work'[t].cap = work[t].cap /\ k = work'[t].top
           ELSE work'[t].pc \in {"idle", "others"} /\ k = device.watermark,
           ~excused' =>
              /\ ~excused /\ RowsFit(F.rows, k) /\ (work'[t].pc = "commit" => k <= work[t].cap)
              /\ \A i \in l1 \ Disowned : i <= k /\ ~Expired(i) => F.rows[i] # "none"
    PROVE  CsvInv'
<1>0. CsvTyped /\ OneWrites /\ \A s \in Thread : s # t => ~Busy(s)
  BY WorkingAlone DEF CsvInv
<1>1. CsvTyped'
  BY <1>0 DEF CsvTyped
<1>2. OneWrites'
  BY <1>0 DEF OneWrites, Busy
<1>3. ASSUME ~excused' PROVE CsvSound'
  <2>1. /\ ~excused /\ CsvSound /\ RowsFit(F.rows, k) /\ (work'[t].pc = "commit" => k <= work[t].cap)
        /\ \A i \in l1 \ Disowned : i <= k /\ ~Expired(i) => F.rows[i] # "none"
    BY <1>3 DEF CsvInv
  <2>2. setting.dir \in Folder /\ work[t].dir = setting.dir
    BY <2>1, WorkingAlone
  <2>3. File_' = F /\ Follows(l1)' = Follows(l1) /\ \A i \in l1 : Expired(i)' <=> Expired(i)
    BY <1>0, <2>2 DEF File_, Follows, Newest, Expired, CsvTyped
  <2>4. \A s \in Thread : s # t => work'[s].pc \in {"idle", "others"}
    BY <1>0 DEF Busy
  <2>5. InOneFolder'
    <3>1. \A d \in Folder : d # setting.dir => files'[d] = Missing
      BY <1>0, <2>1, <2>2 DEF CsvSound, InOneFolder, CsvTyped
    <3> QED BY <2>2, <2>4, <3>1 DEF InOneFolder, Busy
  <2>6. FrontierAhead'
    BY <2>1, <2>3, <2>4 DEF CsvSound, FrontierAhead, Busy
  <2>7. OnceEach'
    BY <2>1, <2>3 DEF OnceEach, RowsFit
  <2>8. NothingBeyond(k)' /\ CoveredTo(k)'
    <3>1. ASSUME NEW n, n = k PROVE (\A i \in Time : F.rows[i] # "none" => i <= n)
                 /\ \A i \in l1 \ Disowned : i <= n /\ ~Expired(i) => F.rows[i] # "none"
      BY <2>1, <3>1 DEF RowsFit
    <3>2. k' = k
      OBVIOUS
    <3> QED BY <2>3, <3>1, <3>2 DEF NothingBeyond, CoveredTo
  <2>9. Settled'
    BY <2>4, <2>8 DEF Settled
  <2>10. ASSUME NEW s \in Thread PROVE WorkIsSound(work[s])'
    <3>1. CASE work'[s].pc \in {"idle", "others"}
      BY <3>1 DEF WorkIsSound
    <3>2. CASE s = t /\ work'[t].pc = "commit"
      BY <2>1, <2>8, <3>2 DEF WorkIsSound
    <3> QED BY <2>4, <3>1, <3>2
  <2> QED BY <2>5, <2>6, <2>7, <2>9, <2>10 DEF CsvSound
<1> QED BY <1>1, <1>2, <1>3 DEF CsvInv

LEMMA AddedIsTyped ==
    ASSUME NEW old \in [Time -> {"none", "half", "whole", "twice"}],
           NEW new \in [Time -> {"none", "half", "whole", "twice"}]
    PROVE  Added(old, new) \in [Time -> {"none", "half", "whole", "twice"}]
BY DEF Added

LEMMA InvAfterAppend ==
    ASSUME Bounds, CsvInv, NEW t \in Thread, append_rows(t)
    PROVE  CsvInv'
<1>1. work[t].pc = "append" /\ UNCHANGED <<now, l1, l2, setting, device, excused>> /\ Busy(t)
  BY DEF append_rows, world, Busy
<1>2. /\ CsvTyped /\ work[t] \in Work
      /\ ~excused => /\ WorkIsSound(work[t]) /\ CsvSound /\ setting.dir \in Folder
                     /\ work[t].dir = setting.dir
      /\ \A s \in Thread : s # t => ~Busy(s)
  BY <1>1, WorkingAlone
<1> DEFINE my == work[t]
           w  == [my EXCEPT !.pc = "commit"]
           F  == [head |-> my.head, rows |-> Added(files[my.dir].rows, my.rows)]
<1>3. w \in Work /\ w.pc = "commit" /\ w.dir = my.dir /\ w.cap = my.cap /\ w.top = my.top
  BY <1>2 DEF Work
<1>4. work' = [work EXCEPT ![t] = w]
  BY DEF append_rows, To
<1>5. /\ work' \in [Thread -> Work] /\ work'[t] = w /\ \A s \in Thread : s # t => work'[s] = work[s]
  BY <1>2, <1>3, <1>4 DEF CsvTyped
<1>6. PICK G \in File : /\ files' = [files EXCEPT ![my.dir] = G]
                        /\ my.dir \in Folder => G = F
  <2>1. files' = [files EXCEPT ![my.dir] = F]
    <3>1. files' = [files EXCEPT ![my.dir] = [head |-> my.head, rows |-> Added(@.rows, my.rows)]]
      BY DEF append_rows
    <3> QED BY <3>1
  <2>2. CASE my.dir \in Folder
    <3>1. files[my.dir] \in File /\ my.rows \in [Time -> {"none", "half", "whole", "twice"}]
          /\ my.head \in Head \cup {"missing"}
      BY <1>2, <2>2 DEF CsvTyped, Work
    <3>2. Added(files[my.dir].rows, my.rows) \in [Time -> {"none", "half", "whole", "twice"}]
      <4>1. files[my.dir].rows \in [Time -> {"none", "half", "whole", "twice"}]
        BY <3>1 DEF File
      <4> QED BY <3>1, <4>1, AddedIsTyped
    <3>3. F \in File
      BY <3>1, <3>2 DEF File
    <3> HIDE DEF F, my
    <3> QED BY <2>1, <3>3
  <2>3. CASE my.dir \notin Folder
    <3>1. files' = files /\ [files EXCEPT ![my.dir] = Missing] = files
      <4>1. DOMAIN files = Folder /\ files = [d \in Folder |-> files[d]]
        BY <1>2 DEF CsvTyped
      <4> HIDE DEF F, my
      <4> QED BY <2>1, <2>3, <4>1
    <3> QED BY <2>3, <3>1, MissingIsFile
  <2> QED BY <2>2, <2>3
<1>7. ASSUME ~excused
      PROVE  /\ RowsFit(G.rows, my.top) /\ my.top <= my.cap
             /\ \A i \in l1 \ Disowned : i <= my.top /\ ~Expired(i) => G.rows[i] # "none"
  <2>1. /\ MayAppend /\ device.watermark < my.top /\ my.top <= my.cap /\ RowsFit(my.rows, my.top)
        /\ \A i \in Time : my.rows[i] # "none" => device.watermark < i
        /\ \A i \in l1 \ Disowned : device.watermark < i /\ i <= my.top => my.rows[i] # "none"
    BY <1>1, <1>2, <1>7 DEF WorkIsSound
  <2>2. /\ device.watermark \in Nat /\ my.top \in Nat /\ \A i \in Time : i \in Nat /\ i > 0
        /\ l1 \in SUBSET Time
    BY <1>2, NumbersOfWork DEF CsvTyped, Bounds, Time
  <2>3. G.rows = Added(File_.rows, my.rows)
    BY <1>2, <1>6, <1>7 DEF File_
  <2>4. \A s \in Thread : work[s].pc # "commit"
    BY <1>1, <1>2 DEF Busy
  <2>5. /\ NothingBeyond(device.watermark) /\ CoveredTo(device.watermark)
        /\ \A i \in Time : File_.rows[i] # "twice"
    BY <1>2, <1>7, <2>4 DEF CsvSound, Settled, OnceEach
  <2> HIDE DEF my
  <2>6. ASSUME NEW i \in Time
        PROVE  /\ G.rows[i] = (IF my.rows[i] = "none" THEN File_.rows[i]
                               ELSE IF File_.rows[i] = "none" THEN my.rows[i] ELSE "twice")
               /\ G.rows[i] # "twice" /\ (G.rows[i] # "none" => i <= my.top)
    <3>1. G.rows[i] = (IF my.rows[i] = "none" THEN File_.rows[i]
                       ELSE IF File_.rows[i] = "none" THEN my.rows[i] ELSE "twice")
      BY <2>3 DEF Added
    <3>2. /\ File_.rows[i] # "none" => i <= device.watermark
          /\ my.rows[i] # "none" => device.watermark < i /\ i <= my.top
          /\ my.rows[i] # "twice" /\ File_.rows[i] # "twice"
      BY <2>1, <2>5 DEF NothingBeyond, RowsFit
    <3>3. i \in Nat
      BY <2>2
    <3>4. my.rows[i] # "none" => File_.rows[i] = "none"
      BY <2>2, <3>2, <3>3
    <3>5. G.rows[i] # "twice"
      BY <3>1, <3>2, <3>4
    <3>6. File_.rows[i] # "none" => i <= my.top
      BY <2>1, <2>2, <3>2, <3>3
    <3>7. G.rows[i] # "none" => i <= my.top
      BY <3>1, <3>2, <3>6
    <3> QED BY <3>1, <3>5, <3>7
  <2>7. ASSUME NEW i \in l1 \ Disowned, i <= my.top, ~Expired(i) PROVE G.rows[i] # "none"
    <3>1. i \in Time /\ i \in Nat
      BY <2>2
    <3>2. CASE device.watermark < i
      BY <2>1, <2>6, <2>7, <3>1, <3>2
    <3>3. CASE i <= device.watermark
      <4>1. device.watermark # None
        BY <2>2, <3>1, <3>3 DEF None
      <4>2. File_ # Missing
        BY <2>1, <4>1 DEF MayAppend
      <4>3. File_.rows[i] # "none"
        BY <2>5, <2>7, <3>3, <4>2 DEF CoveredTo
      <4> QED BY <2>6, <3>1, <4>3
    <3> QED BY <2>2, <3>1, <3>2, <3>3
  <2>8. RowsFit(G.rows, my.top)
    BY <2>6 DEF RowsFit
  <2> QED BY <2>1, <2>7, <2>8
<1> HIDE DEF w, F
<1>8. /\ work'[t].pc = "commit" /\ work'[t].dir = my.dir /\ work'[t].cap = my.cap /\ my.top = work'[t].top
  BY <1>1, <1>3, <1>5
<1>9. ~excused' =>
        /\ ~excused /\ RowsFit(G.rows, my.top) /\ (work'[t].pc = "commit" => my.top <= my.cap)
        /\ \A i \in l1 \ Disowned : i <= my.top /\ ~Expired(i) => G.rows[i] # "none"
  BY <1>1, <1>7
<1>10. files' = [files EXCEPT ![my.dir] = G]
  BY <1>6
<1> QED BY <1>1, <1>5, <1>8, <1>9, <1>10, InvAfterWrite

LEMMA InvAfterReplace ==
    ASSUME Bounds, CsvInv, NEW t \in Thread, replace_rows(t)
    PROVE  CsvInv'
<1>1. /\ work[t].pc \in {"replace", "empty"} /\ UNCHANGED <<now, l1, l2, setting, device>> /\ Busy(t)
      /\ excused' = (excused \/ Withdraws(t))
  BY DEF replace_rows, world, Busy
<1>2. /\ CsvTyped /\ work[t] \in Work /\ (~excused => WorkIsSound(work[t]))
      /\ \A s \in Thread : s # t => ~Busy(s)
  BY <1>1, WorkingAlone
<1> DEFINE my == work[t]
           F  == [head |-> my.head, rows |-> my.rows]
<1>3. F \in File /\ F.rows = my.rows
  BY <1>2 DEF File, Work
<1>4. files' = [files EXCEPT ![my.dir] = F]
  BY DEF replace_rows
<1>5. ASSUME ~excused'
      PROVE  /\ ~excused /\ RowsFit(my.rows, my.top)
             /\ my.pc = "replace" => my.top <= my.cap
             /\ \A i \in l1 \ Disowned : i <= my.top /\ ~Expired(i) => my.rows[i] # "none"
             /\ my.pc = "empty" \/ my.top = None => my.top = None /\ \A i \in l1 : i > device.watermark
  <2>1. ~excused /\ ~Withdraws(t) /\ WorkIsSound(my)
    BY <1>1, <1>2, <1>5
  <2>2. /\ device.watermark \in Nat /\ my.top \in Nat /\ \A i \in Time : i \in Nat /\ i > 0
        /\ l1 \in SUBSET Time
    BY <1>2, NumbersOfWork DEF CsvTyped, Bounds, Time
  <2>3. CASE my.pc = "replace"
    <3>1. /\ my.top <= my.cap /\ RowsFit(my.rows, my.top)
          /\ \A i \in l1 \ Disowned : i <= my.top /\ ~Expired(i) => my.rows[i] # "none"
      BY <2>1, <2>3 DEF WorkIsSound
    <3>2. my.top = None => \A i \in l1 : i > device.watermark
      BY <2>1, <2>2, <2>3 DEF Withdraws
    <3> QED BY <2>1, <2>3, <3>1, <3>2
  <2>4. CASE my.pc = "empty"
    <3>1. my.rows = NoRows /\ my.top = None /\ \A i \in l1 : i > device.watermark
      BY <2>1, <2>4 DEF WorkIsSound
    <3>2. RowsFit(my.rows, my.top)
      BY <3>1 DEF RowsFit, NoRows
    <3>3. \A i \in l1 : ~(i <= my.top)
      BY <2>2, <3>1 DEF None
    <3> QED BY <2>1, <2>4, <3>1, <3>2, <3>3
  <2> QED BY <1>1, <2>3, <2>4
<1>6. CASE my.pc = "empty" \/ my.top = None
  <2>1. Leave(t)
    BY <1>6 DEF replace_rows
  <2>2. /\ work' \in [Thread -> Work] /\ work'[t].pc \in {"idle", "others"} /\ work'[t].pc # "commit"
        /\ \A s \in Thread : s # t => work'[s] = work[s]
    BY <1>2, <2>1, LeaveRests
  <2>3. /\ device.watermark \in Nat /\ my.top \in Nat /\ \A i \in Time : i \in Nat /\ i > 0
        /\ l1 \in SUBSET Time
    BY <1>2, NumbersOfWork DEF CsvTyped, Bounds, Time
  <2>4. ASSUME ~excused'
        PROVE  /\ ~excused /\ RowsFit(F.rows, device.watermark)
               /\ \A i \in l1 \ Disowned : i <= device.watermark /\ ~Expired(i) => F.rows[i] # "none"
    <3>1. /\ ~excused /\ RowsFit(my.rows, my.top) /\ my.top = None
          /\ \A i \in l1 : i > device.watermark
      BY <1>5, <1>6, <2>4
    <3> HIDE DEF my
    <3>2. RowsFit(my.rows, device.watermark)
      BY <2>3, <3>1 DEF RowsFit, None
    <3>3. \A i \in l1 : ~(i <= device.watermark)
      BY <2>3, <3>1
    <3> QED BY <1>3, <3>1, <3>2, <3>3
  <2> HIDE DEF F
  <2> QED BY <1>1, <1>3, <1>4, <2>2, <2>4, InvAfterWrite
<1>7. CASE ~(my.pc = "empty" \/ my.top = None)
  <2> DEFINE w == [my EXCEPT !.pc = "commit"]
  <2>1. w \in Work /\ w.pc = "commit" /\ w.dir = my.dir /\ w.cap = my.cap /\ w.top = my.top
    BY <1>2 DEF Work
  <2>2. work' = [work EXCEPT ![t] = w]
    BY <1>7 DEF replace_rows, To
  <2> HIDE DEF w
  <2>3. /\ work' \in [Thread -> Work] /\ work'[t] = w /\ \A s \in Thread : s # t => work'[s] = work[s]
    BY <1>2, <2>1, <2>2 DEF CsvTyped
  <2>4. ASSUME ~excused'
        PROVE  /\ ~excused /\ RowsFit(F.rows, my.top) /\ my.top <= my.cap
               /\ \A i \in l1 \ Disowned : i <= my.top /\ ~Expired(i) => F.rows[i] # "none"
    BY <1>1, <1>3, <1>5, <1>7, <2>4
  <2>5. work'[t].pc = "commit" /\ work'[t].dir = my.dir /\ work'[t].cap = my.cap /\ my.top = work'[t].top
    BY <2>1, <2>3
  <2> HIDE DEF F
  <2> QED BY <1>1, <1>3, <1>4, <2>3, <2>4, <2>5, InvAfterWrite
<1> QED BY <1>6, <1>7

LEMMA InvAfterFailure ==
    ASSUME Bounds, CsvInv, NEW t \in Thread, WriteFails(t)
    PROVE  CsvInv'
<1>1. /\ work[t].pc \in {"append", "replace", "empty"} /\ UNCHANGED <<now, l1, l2, setting, device>>
      /\ Busy(t) /\ Leave(t)
  BY DEF WriteFails, world, Busy
<1>2. CsvTyped /\ work[t] \in Work
  BY <1>1, WorkingAlone
<1>3. /\ work' \in [Thread -> Work] /\ work'[t].pc \in {"idle", "others"}
      /\ \A s \in Thread : s # t => work'[s] = work[s]
  BY <1>1, <1>2, LeaveRests
<1>4. CASE UNCHANGED <<files, mishaps, excused>>
  <2>1. \A s \in Thread : work'[s] = work[s] \/ work[s].pc # "commit"
    BY <1>1, <1>3
  <2> QED BY <1>1, <1>3, <1>4, <2>1, InvAtRest
<1>5. CASE /\ Happens /\ work[t].pc = "append" /\ excused' = TRUE
           /\ \E last \in Time :
               files' = [files EXCEPT ![work[t].dir] =
                           [head |-> work[t].head,
                            rows |-> Added(@.rows, [i \in Time |-> IF i > last THEN "none"
                                                                   ELSE work[t].rows[i]])]]
  <2> DEFINE my == work[t]
  <2>1. PICK last \in Time :
          files' = [files EXCEPT ![my.dir] =
                      [head |-> my.head,
                       rows |-> Added(files[my.dir].rows, [i \in Time |-> IF i > last THEN "none" ELSE my.rows[i]])]]
    BY <1>5
  <2> DEFINE part == [i \in Time |-> IF i > last THEN "none" ELSE my.rows[i]]
             F == [head |-> my.head, rows |-> Added(files[my.dir].rows, part)]
  <2>2. my.rows \in [Time -> {"none", "half", "whole", "twice"}] /\ my.head \in Head \cup {"missing"}
    BY <1>2 DEF Work
  <2>3. part \in [Time -> {"none", "half", "whole", "twice"}]
    <3> HIDE DEF my
    <3> QED BY <2>2
  <2>4. files' = [files EXCEPT ![my.dir] = F]
    BY <2>1
  <2>5. my.dir \in Folder => F \in File
    <3> SUFFICES ASSUME my.dir \in Folder PROVE F \in File
      OBVIOUS
    <3> HIDE DEF part, my
    <3>1. files[my.dir].rows \in [Time -> {"none", "half", "whole", "twice"}]
      BY <1>2 DEF CsvTyped, File
    <3>2. Added(files[my.dir].rows, part) \in [Time -> {"none", "half", "whole", "twice"}]
      BY <2>3, <3>1, AddedIsTyped
    <3> QED BY <2>2, <3>2 DEF File
  <2> HIDE DEF F, my
  <2>6. files' \in [Folder -> File]
    BY <1>2, <2>4, <2>5 DEF CsvTyped
  <2>7. CsvTyped'
    BY <1>1, <1>2, <1>3, <2>6 DEF CsvTyped
  <2>8. OneWrites'
    BY <1>3 DEF CsvInv, OneWrites, Busy
  <2> QED BY <1>5, <2>7, <2>8, InvExcused
<1> QED BY <1>4, <1>5 DEF WriteFails

LEMMA InvAfterCommit ==
    ASSUME Bounds, CsvInv, NEW t \in Thread, CommitWatermark(t)
    PROVE  CsvInv'
<1>1. /\ work[t].pc = "commit" /\ UNCHANGED <<now, l1, l2, setting, files, excused>> /\ Busy(t) /\ Leave(t)
      /\ device' = [device EXCEPT !.watermark = work[t].top]
  BY DEF CommitWatermark, world, Busy
<1>2. /\ CsvTyped /\ work[t] \in Work
      /\ ~excused => WorkIsSound(work[t]) /\ CsvSound /\ work[t].cap < Follows(l1)
      /\ \A s \in Thread : s # t => ~Busy(s)
  BY <1>1, WorkingAlone
<1>3. /\ work' \in [Thread -> Work] /\ work'[t].pc \in {"idle", "others"}
      /\ \A s \in Thread : s # t => work'[s] = work[s]
  BY <1>1, <1>2, LeaveRests
<1>4. /\ device' \in [head : Head, enabled : BOOLEAN, watermark : 0 .. MaxTime]
      /\ device'.watermark = work[t].top
  BY <1>1, <1>2 DEF CsvTyped, Work
<1>5. CsvTyped' /\ OneWrites'
  BY <1>1, <1>2, <1>3, <1>4 DEF CsvInv, CsvTyped, OneWrites, Busy
<1>6. \A s \in Thread : work'[s].pc \in {"idle", "others"}
  BY <1>2, <1>3 DEF Busy
<1>7. ASSUME ~excused' PROVE CsvSound'
  <2>1. /\ CsvSound /\ work[t].top <= work[t].cap /\ work[t].cap < Follows(l1)
        /\ NothingBeyond(work[t].top) /\ CoveredTo(work[t].top)
    BY <1>1, <1>2, <1>7 DEF WorkIsSound
  <2>2. File_' = File_ /\ Follows(l1)' = Follows(l1) /\ \A i \in l1 : Expired(i)' <=> Expired(i)
    BY <1>1 DEF File_, Follows, Newest, Expired
  <2>3. work[t].top < Follows(l1)
    <3>1. Follows(l1) \in Nat /\ work[t].top \in Nat /\ work[t].cap \in Nat
      BY <1>2, FollowsIsNumber, NumbersOfWork DEF CsvTyped, Bounds
    <3> QED BY <2>1, <3>1
  <2>4. InOneFolder' /\ FrontierAhead' /\ OnceEach'
    BY <1>1, <1>4, <1>6, <2>1, <2>2, <2>3 DEF CsvSound, InOneFolder, FrontierAhead, OnceEach, Busy
  <2>5. Settled'
    BY <1>1, <1>4, <2>1, <2>2 DEF Settled, NothingBeyond, CoveredTo
  <2>6. \A s \in Thread : WorkIsSound(work[s])'
    BY <1>6 DEF WorkIsSound
  <2> QED BY <2>1, <2>4, <2>5, <2>6 DEF CsvSound
<1> QED BY <1>5, <1>7 DEF CsvInv

LEMMA InvAfterRaise ==
    ASSUME Bounds, CsvInv, NEW t \in Thread, Raises(t)
    PROVE  CsvInv'
<1>1. /\ UNCHANGED <<now, l1, l2, setting, files, device>> /\ Leave(t)
      /\ excused' = (excused \/ work[t].pc = "commit")
  BY DEF Raises, world
<1>2. /\ work' \in [Thread -> Work] /\ work'[t].pc \in {"idle", "others"}
      /\ \A s \in Thread : s # t => work'[s] = work[s]
  BY <1>1, LeaveRests DEF CsvInv
<1>3. \A s \in Thread : work'[s].pc \in {"idle", "others"} \/ work'[s] = work[s]
  BY <1>2
<1>4. ~excused' => ~excused /\ \A s \in Thread : work'[s] = work[s] \/ work[s].pc # "commit"
  BY <1>1, <1>2
<1> QED BY <1>1, <1>2, <1>3, <1>4, InvAtRest

-----------------------------------------------------------------------------
(* The invariant holds, and what it says of the file.                       *)

LEMMA InvAtFirst ==
    ASSUME Bounds, Head # {}, Init
    PROVE  CsvInv
<1>1. /\ now = 0 /\ l1 = {} /\ l2 = {} /\ files = [d \in Folder |-> Missing]
      /\ work = [t \in Thread |-> Idle]
      /\ device \in [head : {CHOOSE h \in Head : TRUE}, enabled : {TRUE}, watermark : {None}]
      /\ setting \in [dir : Folder, auto : {TRUE}]
  BY DEF Init
<1>2. None = 0 /\ None \in 0 .. MaxTime /\ MaxTime \in Nat /\ Idle \in Work /\ Idle.pc = "idle"
  BY IdleIsWork DEF None, Bounds
<1>3. device \in [head : Head, enabled : BOOLEAN, watermark : 0 .. MaxTime] /\ device.watermark = None
  <2>1. (CHOOSE h \in Head : TRUE) \in Head
    OBVIOUS
  <2> QED BY <1>1, <1>2, <2>1
<1>4. setting \in [dir : Folder \cup {NoFolder}, auto : BOOLEAN] /\ setting.dir \in Folder
  BY <1>1
<1>5. CsvTyped
  BY <1>1, <1>2, <1>3, <1>4, MissingIsFile DEF CsvTyped
<1>6. \A t \in Thread : work[t].pc = "idle" /\ ~Busy(t) /\ WorkIsSound(work[t])
  BY <1>1, <1>2 DEF Busy, WorkIsSound
<1>7. OneWrites
  BY <1>6 DEF OneWrites
<1>8. File_ = Missing /\ \A i \in Time : File_.rows[i] = "none"
  BY <1>1, <1>4, MissingIsFile DEF File_
<1>9. InOneFolder /\ OnceEach /\ Settled
  BY <1>1, <1>4, <1>6, <1>8 DEF InOneFolder, OnceEach, Settled, NothingBeyond, CoveredTo
<1>10. FrontierAhead
  <2>1. now \in Nat /\ l1 \in SUBSET Time
    BY <1>1
  <2>2. Follows(l1) \in Nat \ {0}
    BY <2>1, FollowsIsNumber
  <2> QED BY <1>2, <1>3, <1>6, <2>2 DEF FrontierAhead
<1> QED BY <1>5, <1>6, <1>7, <1>9, <1>10 DEF CsvInv, CsvSound

LEMMA InvAfterAnyStep ==
    ASSUME Bounds, CsvInv, [Next]_vars
    PROVE  CsvInv'
<1>1. CASE \/ Tick \/ StoreFirst \/ StoreSecond \/ purge_expired \/ StoreRecords
           \/ \E head \in Head, enabled \in BOOLEAN : EditDevice(head, enabled)
           \/ UNCHANGED vars
  BY <1>1, InvAfterWorld
<1>2. CASE ExportOthers
  BY <1>2, InvAfterOthers
<1>3. CASE clear_readings
  BY <1>3, InvAfterClear
<1>4. CASE Crash
  BY <1>4, InvAfterCrash
<1>5. ASSUME NEW dir \in Folder \cup {NoFolder}, NEW auto \in BOOLEAN, put_export_settings(dir, auto)
      PROVE  CsvInv'
  BY <1>5, InvAfterSettings
<1>6. ASSUME NEW dir \in Folder, DeleteFile(dir) PROVE CsvInv'
  BY <1>6, InvAfterDelete
<1>7. ASSUME NEW t \in Thread, Goes(t) PROVE CsvInv'
  <2>1. CASE Look(t)
    BY <2>1, InvAfterLook
  <2>2. CASE FindNewest(t)
    BY <2>2, InvAfterFindNewest
  <2>3. CASE FindRows(t)
    BY <2>3, InvAfterFindRows
  <2>4. CASE FindWindowNewest(t)
    BY <2>4, InvAfterFindWindowNewest
  <2>5. CASE FindWindow(t)
    BY <2>5, InvAfterFindWindow
  <2>6. CASE append_rows(t)
    BY <2>6, InvAfterAppend
  <2>7. CASE replace_rows(t)
    BY <2>7, InvAfterReplace
  <2>8. CASE WriteFails(t)
    BY <2>8, InvAfterFailure
  <2>9. CASE CommitWatermark(t)
    BY <2>9, InvAfterCommit
  <2> QED BY <1>7, <2>1, <2>2, <2>3, <2>4, <2>5, <2>6, <2>7, <2>8, <2>9 DEF Goes
<1>8. ASSUME NEW t \in Thread, Raises(t) PROVE CsvInv'
  BY <1>8, InvAfterRaise
<1>9. ASSUME NEW t \in Thread, NEW job \in {"save", "export", "trim"}, Enter(t, job) PROVE CsvInv'
  BY <1>9, InvAfterEnter
<1> QED BY <1>1, <1>2, <1>3, <1>4, <1>5, <1>6, <1>7, <1>8, <1>9 DEF Next

LEMMA CsvInvHolds ==
    ASSUME Bounds, Head # {}
    PROVE  Spec => []CsvInv
<1>1. Init => CsvInv
  BY InvAtFirst
<1>2. CsvInv /\ [Next]_vars => CsvInv'
  BY InvAfterAnyStep
<1> QED BY <1>1, <1>2, PTL DEF Spec

LEMMA TheFileIsSound ==
    ASSUME CsvInv
    PROVE  NoRowTwice /\ WatermarkIsCovered
<1>1. CASE excused
  BY <1>1 DEF NoRowTwice, WatermarkIsCovered
<1>2. CASE ~excused
  <2>1. CsvTyped /\ InOneFolder /\ OnceEach /\ Settled
    BY <1>2 DEF CsvInv, CsvSound
  <2>2. ASSUME NEW d \in Folder, NEW i \in Time PROVE files[d].rows[i] # "twice"
    <3>1. CASE d = setting.dir
      BY <2>1, <3>1 DEF OnceEach, File_
    <3>2. CASE d # setting.dir
      BY <2>1, <3>2, MissingIsFile DEF InOneFolder
    <3> QED BY <3>1, <3>2
  <2>3. Covered
    BY <2>1 DEF Covered, Settled, CoveredTo, File_
  <2> QED BY <2>2, <2>3 DEF NoRowTwice, WatermarkIsCovered
<1> QED BY <1>1, <1>2

(* No interval is in a file twice, whatever exports, trims and saves wrote *)
(* it, in whatever order and however the table changed between their       *)
(* selection and their write (export/csv_export.py).                       *)
THEOREM RowsGoInOnce == Spec => []NoRowTwice
<1>1. Bounds /\ Head # {}
  BY CsvExportAssumption DEF Bounds
<1>2. CsvInv => NoRowTwice
  BY TheFileIsSound
<1> QED BY <1>1, <1>2, CsvInvHolds, PTL

(* Every stored row up to the watermark is in the file, so that no append  *)
(* leaves one behind: until a write is cut short, its commit is lost, data *)
(* or folder are changed by an operator, or a rewrite withdraws rows.      *)
THEOREM WatermarkNeverPassesARow == Spec => []WatermarkIsCovered
<1>1. Bounds /\ Head # {}
  BY CsvExportAssumption DEF Bounds
<1>2. CsvInv => WatermarkIsCovered
  BY TheFileIsSound
<1> QED BY <1>1, <1>2, CsvInvHolds, PTL
=============================================================================
