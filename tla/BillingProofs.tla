---------------------------- MODULE BillingProofs ----------------------------
(***************************************************************************)
(* Proofs about the billing read, for a ring of any size, any number of    *)
(* closed periods, readers and deletions, and about the image capture: its *)
(* turns and what its pictures show, for any callers.                      *)
(* The bounds of the modules only say that a behaviour is finite; no proof *)
(* depends on how large they are.                                          *)
(***************************************************************************)
EXTENDS BillingDocuments, FiniteSetTheorems, FunctionTheorems, SequenceTheorems,
        WellFoundedInduction, TLAPS

-----------------------------------------------------------------------------
(* The Billing Sequence of a period does not depend on what the ring has    *)
(* dropped, nor on what is closed later.                                    *)

\* The periods up to n that share p's bill date and were closed after it.
Later(ds, n, p) == {q \in 1 .. n : q > p /\ ds[q] = ds[p]}

LEMMA LaterIsFinite ==
    ASSUME NEW ds, NEW n \in Nat, NEW p
    PROVE  IsFiniteSet(Later(ds, n, p)) /\ Cardinality(Later(ds, n, p)) \in Nat
<1>1. IsFiniteSet(1 .. n)
  BY FS_Interval
<1>2. Later(ds, n, p) \in SUBSET (1 .. n)
  BY DEF Later
<1>3. IsFiniteSet(Later(ds, n, p))
  BY <1>1, <1>2, FS_Subset
<1> QED BY <1>3, FS_CardinalityType

\* What the ring dropped was closed before p.
LEMMA SequenceCountsLater ==
    ASSUME NEW n \in Nat, NEW p \in Buffer(n)
    PROVE  Sequence(n, p) = Cardinality(Later(dates, n, p))
<1>1. {q \in Buffer(n) : q > p /\ dates[q] = dates[p]} = Later(dates, n, p)
  BY BillingAssumption DEF Buffer, Later
<1> QED BY <1>1 DEF Sequence

\* Of two periods of one bill date the older one has the larger number.
LEMMA NumbersDiffer ==
    ASSUME NEW ds, NEW n \in Nat, NEW o \in 1 .. n, NEW p \in 1 .. n,
           ds[o] = ds[p], o < p
    PROVE  Cardinality(Later(ds, n, o)) # Cardinality(Later(ds, n, p))
<1>1. Later(ds, n, p) \in SUBSET Later(ds, n, o)
  BY DEF Later
<1>2. p \in Later(ds, n, o) /\ p \notin Later(ds, n, p)
  BY DEF Later
<1>3. IsFiniteSet(Later(ds, n, o))
  BY LaterIsFinite
<1> QED BY <1>1, <1>2, <1>3, FS_Subset

-----------------------------------------------------------------------------
(* The largest of a set of numbers.                                         *)

LEMMA HasLeast ==
    ASSUME NEW T \in SUBSET Nat, T # {}
    PROVE  \E m \in T : \A y \in T : m <= y
<1>1. PICK x \in T : \A y \in T : ~(<<y, x>> \in OpToRel(<, Nat))
  BY NatLessThanWellFounded, WFMin
<1>2. \A y \in T : ~(y < x)
  BY <1>1 DEF OpToRel
<1>3. \A y \in T : x <= y
  BY <1>2
<1> QED BY <1>3

\* MAX() of a column of bounded numbers is one of them.
LEMMA HasMax ==
    ASSUME NEW M \in Nat, NEW T \in SUBSET (0 .. M), T # {}
    PROVE  Max(T) \in T /\ \A y \in T : Max(T) >= y
<1> DEFINE U == {m \in Nat : M - m \in T}
<1>1. U \in SUBSET Nat /\ U # {}
  <2> PICK t \in T : TRUE
    OBVIOUS
  <2>1. M - t \in Nat /\ M - (M - t) = t
    OBVIOUS
  <2> QED BY <2>1
<1>2. PICK m \in U : \A y \in U : m <= y
  <2> HIDE DEF U
  <2> QED BY <1>1, HasLeast
<1>3. M - m \in T /\ m \in Nat
  OBVIOUS
<1>4. \A y \in T : M - m >= y
  <2> TAKE y \in T
  <2>0. y \in 0 .. M
    OBVIOUS
  <2>1. M - y \in U
    BY <2>0
  <2>2. m <= M - y
    BY <1>2, <2>1
  <2> HIDE DEF U
  <2> QED BY <2>0, <2>2, <1>3
<1> QED BY <1>3, <1>4 DEF Max

-----------------------------------------------------------------------------
(* The inductive invariant.                                                 *)

\* A row has the key its period has in the meter's whole history.
Keyed(row, ds) ==
    /\ row.period \in 1 .. Len(ds)
    /\ row.bill_date = ds[row.period]
    /\ row.sequence = Cardinality(Later(ds, Len(ds), row.period))

LEMMA KeyFindsPeriod ==
    ASSUME NEW ds, Len(ds) \in Nat, NEW row, Keyed(row, ds), NEW p \in 1 .. Len(ds),
           row.bill_date = ds[p], row.sequence = Cardinality(Later(ds, Len(ds), p))
    PROVE  row.period = p
<1> DEFINE o == row.period
<1>1. o \in 1 .. Len(ds) /\ ds[o] = ds[p]
      /\ Cardinality(Later(ds, Len(ds), o)) = Cardinality(Later(ds, Len(ds), p))
  BY DEF Keyed
<1> HIDE DEF o
<1>2. ~(o < p) /\ ~(p < o)
  BY <1>1, NumbersDiffer
<1> QED BY <1>1, <1>2 DEF o

\* Periods of one bill date were closed one after the other.
Contiguous(ds) ==
    \A p, q \in 1 .. Len(ds) : ds[p] = ds[q] => \A m \in p .. q : ds[m] = ds[p]

\* With a period every older one in the ring is stored: a store looks entries up
\* from the newest, so what a deletion makes it miss is newer than what it inserts.
DownClosed(ds, rs) ==
    \A row \in rs : \A p \in 1 .. Len(ds) :
        p + Ring > Len(ds) /\ p < row.period => \E k \in rs : k.period = p

\* A store works on a buffer that was the meter's when it took the line: what was
\* closed since has other bill dates, and the slot has not moved past it.
StoreIsCurrent(r) ==
    reader[r].pc = "storing" =>
        /\ reader[r].through <= Len(dates)
        /\ reader[r].at <= reader[r].through
        /\ slot <= reader[r].through + 1
        /\ \A p \in 1 .. reader[r].through, q \in reader[r].through + 1 .. Len(dates) :
             dates[p] # dates[q]

IInv ==
    /\ TypeOK
    /\ \A row \in rows : Keyed(row, dates)
    /\ Contiguous(dates) /\ DownClosed(dates, rows)
    /\ slot <= Len(dates) + 1
    /\ \A r \in Reader : StoreIsCurrent(r)

LEMMA InitHolds ==
    ASSUME Init
    PROVE  IInv
<1>1. 1 \in Date /\ Len(<<1>>) = 1 /\ Len(<<1, 1>>) = 2 /\ Len(<<>>) = 0
  BY BillingAssumption DEF Date
<1>2. dates \in Seq(Date) /\ Len(dates) \in 0 .. 2
  <2>1. CASE dates = <<>>
    BY <2>1, <1>1
  <2>2. CASE dates = <<1>>
    BY <2>2, <1>1
  <2>3. CASE dates = <<1, 1>>
    BY <2>3, <1>1
  <2> QED BY <2>1, <2>2, <2>3 DEF Init
<1>3. slot \in {0, 1}
  BY DEF Init
<1>4. \A r \in Reader : reader[r] = Idle
  BY DEF Init
<1>5. reader \in [Reader -> Reading]
  BY BillingAssumption DEF Init, Idle, Reading
<1>6. TypeOK
  BY <1>2, <1>3, <1>4, <1>5, BillingAssumption DEF Init, TypeOK, Idle, Reader
<1>7. \A r \in Reader : StoreIsCurrent(r)
  BY <1>4 DEF StoreIsCurrent, Idle
<1>8. Contiguous(dates) /\ DownClosed(dates, rows)
  <2>1. \A p \in 1 .. Len(dates) : dates[p] = 1
    BY <1>1 DEF Init
  <2>2. Contiguous(dates)
    BY <1>2, <2>1 DEF Contiguous
  <2> QED BY <2>2 DEF Init, DownClosed
<1> QED BY <1>2, <1>3, <1>6, <1>7, <1>8 DEF IInv, Init

\* What the type invariant says of one reader.
LEMMA ReaderType ==
    ASSUME TypeOK, NEW r \in Reader
    PROVE  /\ reader[r].pc \in {"idle", "visit", "triggered", "reading", "storing"}
           /\ reader[r].through \in 0 .. MaxPeriods /\ reader[r].at \in 0 .. MaxPeriods
           /\ reader[r].open \in BOOLEAN
BY DEF TypeOK, Reading

\* A reader that leaves, takes the line or moves on where it is changes nothing
\* that the others' part of the invariant is about.
LEMMA ReaderMoves ==
    ASSUME IInv, NEW r \in Reader, NEW to \in Reading,
           reader' = [reader EXCEPT ![r] = to],
           UNCHANGED <<dates, profile, rows, slot, clears>>,
           to.pc = "storing" =>
               \/ to.through = Len(dates) /\ to.at <= to.through
               \/ /\ reader[r].pc = "storing" /\ to.through = reader[r].through
                  /\ to.at <= reader[r].at,
           line' \in {line, r, None}, line' # line => line \in {r, None},
           line' = r <=> to.pc \in {"visit", "reading", "storing"}
    PROVE  IInv'
<1>1. \A s \in Reader : reader'[s] = IF s = r THEN to ELSE reader[s]
  BY DEF IInv, TypeOK
<1>2. reader' \in [Reader -> Reading]
  BY DEF IInv, TypeOK
<1>3. line' \in Reader \cup {None}
  BY DEF IInv, TypeOK
<1>4. \A s \in Reader : line' = s <=> reader'[s].pc \in {"visit", "reading", "storing"}
  <2>1. None \notin Reader
    BY BillingAssumption DEF Reader
  <2> QED BY <1>1, <2>1 DEF IInv, TypeOK
<1>5. TypeOK'
  BY <1>2, <1>3, <1>4 DEF IInv, TypeOK
<1>6. \A s \in Reader : StoreIsCurrent(s)'
  <2>1. Len(dates) \in Nat
    BY DEF IInv, TypeOK
  <2> TAKE s \in Reader
  <2>2. CASE s # r
    BY <2>2, <1>1 DEF IInv, StoreIsCurrent
  <2>3. CASE s = r
    <3>1. StoreIsCurrent(r) /\ reader[r].at \in Nat /\ reader[r].through \in Nat
      BY ReaderType DEF IInv
    <3>2. to.at \in Nat /\ to.through \in Nat /\ slot \in Nat /\ slot <= Len(dates) + 1
      BY DEF Reading, IInv, TypeOK
    <3> QED BY <2>1, <2>3, <3>1, <3>2, <1>1 DEF StoreIsCurrent
  <2> QED BY <2>2, <2>3
<1> QED BY <1>5, <1>6 DEF IInv, Keyed

LEMMA IdleType ==
    /\ Idle \in Reading /\ Idle.pc = "idle"
    /\ \A pc \in {"reading", "visit"} :
         [Idle EXCEPT !.pc = pc] \in Reading /\ [Idle EXCEPT !.pc = pc].pc = pc
<1>1. Idle \in Reading /\ Idle.pc = "idle"
  BY BillingAssumption DEF Idle, Reading
<1> QED BY <1>1 DEF Reading

\* A period that closes has a bill date of its own, so no key changes.
LEMMA ClosesKeeps ==
    ASSUME IInv, Closes
    PROVE  IInv'
<1> PICK d \in Date, pair \in BOOLEAN :
           /\ \A p \in DOMAIN dates : dates[p] # d
           /\ dates' = dates \o IF pair THEN <<d, d>> ELSE <<d>>
           /\ Len(dates') <= MaxPeriods
           /\ UNCHANGED <<profile, rows, slot, line, reader, clears>>
  BY DEF Closes
<1> DEFINE new == IF pair THEN <<d, d>> ELSE <<d>>
<1>1. dates \in Seq(Date) /\ new \in Seq(Date) /\ Len(new) \in 1 .. 2
      /\ \A i \in 1 .. Len(new) : new[i] = d
  BY DEF IInv, TypeOK
<1>2. /\ dates' \in Seq(Date) /\ Len(dates') = Len(dates) + Len(new)
      /\ \A i \in 1 .. Len(dates) : dates'[i] = dates[i]
      /\ \A i \in Len(dates) + 1 .. Len(dates') : dates'[i] = d
      /\ \A i \in 1 .. Len(dates) : dates[i] # d
      /\ Len(dates) \in Nat
  <2>1. dates' = dates \o new /\ Len(dates) \in Nat /\ DOMAIN dates = 1 .. Len(dates)
    BY <1>1, LenProperties
  <2>2. /\ dates \o new \in Seq(Date) /\ Len(dates \o new) = Len(dates) + Len(new)
        /\ \A i \in 1 .. Len(dates) + Len(new) :
             (dates \o new)[i] = IF i <= Len(dates) THEN dates[i] ELSE new[i - Len(dates)]
    BY <1>1, ConcatProperties
  <2>3. ASSUME NEW i \in Len(dates) + 1 .. Len(dates) + Len(new)
        PROVE  (dates \o new)[i] = d
    <3>1. i - Len(dates) \in 1 .. Len(new) /\ ~(i <= Len(dates))
          /\ i \in 1 .. Len(dates) + Len(new)
      BY <1>1, <2>1
    <3> QED BY <3>1, <1>1, <2>2
  <2>4. \A i \in 1 .. Len(dates) : i \in 1 .. Len(dates) + Len(new) /\ i <= Len(dates)
    BY <1>1, <2>1
  <2> HIDE DEF new
  <2> QED BY <2>1, <2>2, <2>3, <2>4
<1> HIDE DEF new
<1>3. TypeOK'
  BY <1>1, <1>2 DEF IInv, TypeOK
<1>4. \A p \in 1 .. Len(dates) : Later(dates', Len(dates'), p) = Later(dates, Len(dates), p)
  BY <1>1, <1>2 DEF Later
<1>5. \A row \in rows' : Keyed(row, dates')
  <2> SUFFICES ASSUME NEW row \in rows PROVE Keyed(row, dates')
    OBVIOUS
  <2>1. Keyed(row, dates)
    BY DEF IInv
  <2>2. row.period \in 1 .. Len(dates')
    BY <1>1, <1>2, <2>1 DEF Keyed
  <2> QED BY <1>2, <1>4, <2>1, <2>2 DEF Keyed
<1>6. \A r \in Reader : StoreIsCurrent(r)'
  <2> TAKE r \in Reader
  <2>1. StoreIsCurrent(r) /\ reader[r].through \in Nat /\ reader' = reader
    BY ReaderType DEF IInv
  <2> QED BY <1>1, <1>2, <2>1 DEF StoreIsCurrent, IInv
<1>7. slot' <= Len(dates') + 1
  BY <1>1, <1>2 DEF IInv, TypeOK
<1>8. Contiguous(dates')
  <2> SUFFICES ASSUME NEW p \in 1 .. Len(dates'), NEW q \in 1 .. Len(dates'),
                      dates'[p] = dates'[q], NEW m \in p .. q
               PROVE  dates'[m] = dates'[p]
    BY DEF Contiguous
  <2>1. m \in 1 .. Len(dates')
    BY <1>1, <1>2
  <2>2. CASE p <= Len(dates)
    <3>1. q \in 1 .. Len(dates) /\ m \in 1 .. Len(dates) /\ p \in 1 .. Len(dates)
      BY <1>1, <1>2, <2>2
    <3> QED BY <1>2, <3>1 DEF IInv, Contiguous
  <2>3. CASE p > Len(dates)
    BY <1>1, <1>2, <2>1, <2>3
  <2> QED BY <1>1, <1>2, <2>2, <2>3
<1>9. DownClosed(dates', rows')
  <2> SUFFICES ASSUME NEW row \in rows, NEW p \in 1 .. Len(dates'),
                      p + Ring > Len(dates'), p < row.period
               PROVE  \E k \in rows : k.period = p
    BY DEF DownClosed
  <2>1. row.period \in 1 .. Len(dates)
    BY DEF IInv, Keyed
  <2>2. p \in 1 .. Len(dates) /\ p + Ring > Len(dates)
    BY <1>1, <1>2, <2>1, BillingAssumption
  <2> QED BY <2>2 DEF IInv, DownClosed
<1> QED BY <1>3, <1>5, <1>6, <1>7, <1>8, <1>9 DEF IInv

\* What is inserted has the keys of the meter's history.
LEMMA NewRowsKeyed ==
    ASSUME IInv, NEW r \in Reader, reader[r].pc = "storing",
           NEW p \in Buffer(reader[r].through)
    PROVE  /\ RowOf(reader[r].through, p) \in ClosedRow
           /\ Keyed(RowOf(reader[r].through, p), dates)
<1> DEFINE n == reader[r].through
<1>1. n \in 0 .. MaxPeriods /\ n <= Len(dates) /\ p \in 1 .. n /\ Len(dates) \in Nat
  BY ReaderType DEF IInv, TypeOK, StoreIsCurrent, Buffer
<1>2. p \in Period /\ p \in 1 .. Len(dates) /\ dates[p] \in Date
  BY <1>1, BillingAssumption, ElementOfSeq DEF Period, IInv, TypeOK
<1>3. Later(dates, n, p) = Later(dates, Len(dates), p)
  <2>1. \A q \in n + 1 .. Len(dates) : dates[p] # dates[q]
    BY <1>1 DEF IInv, StoreIsCurrent
  <2> HIDE DEF n
  <2> QED BY <1>1, <2>1 DEF Later
<1>4. Sequence(n, p) = Cardinality(Later(dates, Len(dates), p))
  BY <1>1, <1>3, SequenceCountsLater
<1>5. Sequence(n, p) \in Nat
  BY <1>1, <1>4, LaterIsFinite
<1> QED BY <1>2, <1>4, <1>5 DEF RowOf, ClosedRow, Keyed

\* After a commit everything the buffer held up to the last entry looked up is
\* stored, by this commit or before.
LEMMA CommitStores ==
    ASSUME IInv, NEW r \in Reader, Commit(r),
           NEW p \in Buffer(reader[r].through), p <= reader[r].at
    PROVE  \E k \in rows' : k.period = p
<1> DEFINE n == reader[r].through
<1>1. reader[r].pc = "storing" /\ n \in 0 .. MaxPeriods /\ n <= Len(dates)
      /\ p \in 1 .. Len(dates) /\ Len(dates) \in Nat
  BY ReaderType DEF Commit, IInv, TypeOK, StoreIsCurrent, Buffer
<1>2. CASE Stored(n, p)
  <2> PICK row \in rows : row.bill_date = dates[p] /\ row.sequence = Sequence(n, p)
    BY <1>2 DEF Stored
  <2>1. Sequence(n, p) = Cardinality(Later(dates, Len(dates), p))
    BY <1>1, NewRowsKeyed DEF RowOf, Keyed
  <2>2. row.period = p
    BY <1>1, <2>1, KeyFindsPeriod DEF IInv
  <2> QED BY <2>2 DEF Commit
<1>3. CASE ~Stored(n, p)
  <2>1. RowOf(n, p) \in rows'
    BY <1>3 DEF Commit
  <2> QED BY <2>1 DEF RowOf
<1> QED BY <1>2, <1>3

LEMMA CommitKeeps ==
    ASSUME IInv, NEW r \in Reader, Commit(r)
    PROVE  IInv' /\ (slot' # 0 => slot' >= slot)
<1>1. /\ reader[r].pc = "storing" /\ line = r
      /\ line' = None /\ reader' = [reader EXCEPT ![r] = Idle]
      /\ UNCHANGED <<dates, profile, clears>>
  BY DEF Commit, Leave, IInv, TypeOK
<1>2. \A row \in rows' : row \in ClosedRow /\ Keyed(row, dates)
  <2> TAKE row \in rows'
  <2>1. row \in rows \/ \E p \in Buffer(reader[r].through) : row = RowOf(reader[r].through, p)
    BY DEF Commit
  <2> QED BY <1>1, <2>1, NewRowsKeyed DEF IInv, TypeOK
<1>3. /\ slot' \in 0 .. MaxPeriods + 1 /\ slot' <= Len(dates) + 1
      /\ slot' # 0 => slot' >= slot
  <2>1. /\ reader[r].through \in 0 .. MaxPeriods /\ reader[r].through <= Len(dates)
        /\ slot <= reader[r].through + 1 /\ Len(dates) \in Nat
        /\ slot \in 0 .. MaxPeriods + 1 /\ slot <= Len(dates) + 1
    BY <1>1, ReaderType DEF IInv, StoreIsCurrent, TypeOK
  <2>2. slot' \in {slot, 0, reader[r].through + 1}
    BY DEF Commit, SlotAfter
  <2> QED BY <2>1, <2>2, BillingAssumption
<1>4. None \notin Reader /\ \A s \in Reader : reader'[s] = IF s = r THEN Idle ELSE reader[s]
  BY <1>1, BillingAssumption DEF IInv, TypeOK, Reader
<1>5. \A s \in Reader : reader'[s].pc \notin {"visit", "reading", "storing"}
  <2> TAKE s \in Reader
  <2>1. CASE s = r
    BY <2>1, <1>4, IdleType
  <2>2. CASE s # r
    BY <2>2, <1>1, <1>4 DEF IInv, TypeOK
  <2> QED BY <2>1, <2>2
<1>6. reader' \in [Reader -> Reading]
  BY <1>1, IdleType DEF IInv, TypeOK
<1>7. TypeOK'
  BY <1>1, <1>2, <1>3, <1>4, <1>5, <1>6 DEF IInv, TypeOK
<1>8. \A s \in Reader : StoreIsCurrent(s)'
  BY <1>5 DEF StoreIsCurrent
<1>9. DownClosed(dates, rows')
  <2> SUFFICES ASSUME NEW row \in rows', NEW p \in 1 .. Len(dates),
                      p + Ring > Len(dates), p < row.period
               PROVE  \E k \in rows' : k.period = p
    BY DEF DownClosed
  <2>1. CASE row \in rows
    BY <2>1 DEF IInv, DownClosed, Commit
  <2>2. ASSUME NEW q \in Buffer(reader[r].through), q <= reader[r].at,
               row = RowOf(reader[r].through, q)
        PROVE  \E k \in rows' : k.period = p
    <3>1. reader[r].through \in Nat /\ reader[r].at \in Nat
          /\ reader[r].through <= Len(dates) /\ Len(dates) \in Nat
      BY <1>1, ReaderType DEF IInv, TypeOK, StoreIsCurrent
    <3>2. row.period = q /\ q \in 1 .. reader[r].through
      BY <2>2 DEF RowOf, Buffer
    <3>3. p \in Buffer(reader[r].through) /\ p <= reader[r].at
      BY <2>2, <3>1, <3>2, BillingAssumption DEF Buffer
    <3> QED BY <3>3, CommitStores
  <2> QED BY <2>1, <2>2 DEF Commit
<1> QED BY <1>1, <1>2, <1>3, <1>7, <1>8, <1>9 DEF IInv

\* One step of the system, and what it does to the slot.
LEMMA NextKeeps ==
    ASSUME IInv, [Next]_vars
    PROVE  IInv' /\ (slot' # 0 => slot' >= slot)
<1>0. slot \in Nat /\ Len(dates) \in Nat /\ MaxPeriods \in Nat
  BY BillingAssumption DEF IInv, TypeOK
<1>1. ASSUME NEW r \in Reader, TakeLine(r)
      PROVE  IInv' /\ slot' = slot
  <2>1. [Idle EXCEPT !.pc = "reading"] \in Reading /\ [Idle EXCEPT !.pc = "reading"].pc = "reading"
    BY IdleType
  <2> QED BY <1>1, <2>1, ReaderMoves DEF TakeLine
<1>2. ASSUME NEW r \in Reader, ReadBuffer(r)
      PROVE  IInv' /\ slot' = slot
  <2> PICK open \in {profile, FALSE} :
        reader' = [reader EXCEPT ![r] = [pc |-> "storing", through |-> Len(dates),
                                         open |-> open, at |-> Len(dates)]]
    BY <1>2 DEF ReadBuffer
  <2> DEFINE to == [pc |-> "storing", through |-> Len(dates), open |-> open, at |-> Len(dates)]
  <2>1. to \in Reading
    <3>1. open \in BOOLEAN
      BY DEF IInv, TypeOK
    <3>2. Len(dates) \in 0 .. MaxPeriods
      BY <1>0 DEF IInv, TypeOK
    <3> QED BY <3>1, <3>2 DEF Reading
  <2>2. line = r
    BY <1>2 DEF ReadBuffer, IInv, TypeOK
  <2>3. line' = r /\ UNCHANGED <<dates, profile, rows, slot, clears>>
    BY <1>2, <2>2 DEF ReadBuffer
  <2>4. to.pc = "storing" /\ to.through = Len(dates) /\ to.at <= to.through
    BY <1>0
  <2>5. reader' = [reader EXCEPT ![r] = to]
    OBVIOUS
  <2> HIDE DEF to
  <2> QED BY <2>1, <2>2, <2>3, <2>4, <2>5, ReaderMoves
<1>3. ASSUME NEW r \in Reader, FindStored(r)
      PROVE  IInv' /\ slot' = slot
  <2> DEFINE to == [reader[r] EXCEPT !.at = @ - 1]
  <2>1. /\ reader[r].pc = "storing" /\ reader' = [reader EXCEPT ![r] = to]
        /\ reader[r].at \in 1 .. MaxPeriods /\ line = r
        /\ UNCHANGED <<dates, profile, rows, slot, line, clears>>
    BY <1>3, ReaderType DEF FindStored, Buffer, IInv, TypeOK
  <2>2. reader[r] \in Reading
    BY DEF IInv, TypeOK
  <2>3. /\ to \in Reading /\ to.pc = "storing" /\ to.through = reader[r].through
        /\ to.at <= reader[r].at
    BY <2>1, <2>2, <1>0 DEF Reading
  <2> HIDE DEF to
  <2> QED BY <2>1, <2>3, ReaderMoves
<1>4. ASSUME NEW r \in Reader, ReadFails(r)
      PROVE  IInv' /\ slot' = slot
  <2>1. line = r
    BY <1>4 DEF ReadFails, IInv, TypeOK
  <2>2. None \notin Reader
    BY BillingAssumption DEF Reader
  <2> QED BY <1>4, <2>1, <2>2, IdleType, ReaderMoves DEF ReadFails, Leave
<1>5. ASSUME NEW r \in Reader, SkipsTriggered(r)
      PROVE  IInv' /\ slot' = slot
  <2>1. line # r
    BY <1>5 DEF SkipsTriggered, IInv, TypeOK
  <2> QED BY <1>5, <2>1, IdleType, ReaderMoves DEF SkipsTriggered
<1>6. ASSUME NEW r \in Reader, Visit(r)
      PROVE  IInv' /\ slot' = slot
  <2>1. [Idle EXCEPT !.pc = "visit"] \in Reading /\ [Idle EXCEPT !.pc = "visit"].pc = "visit"
    BY IdleType
  <2> QED BY <1>6, <2>1, ReaderMoves DEF Visit
<1>7. ASSUME NEW r \in Reader, billing_change_check(r)
      PROVE  IInv' /\ slot' = slot
  <2> PICK pc \in {"triggered", "idle"} : reader' = [reader EXCEPT ![r].pc = pc]
    BY <1>7 DEF billing_change_check
  <2> DEFINE to == [reader[r] EXCEPT !.pc = pc]
  <2>1. reader[r] \in Reading /\ line = r /\ None \notin Reader
    BY <1>7, BillingAssumption DEF billing_change_check, IInv, TypeOK, Reader
  <2>2. to \in Reading /\ to.pc = pc
    BY <2>1 DEF Reading
  <2>3. reader' = [reader EXCEPT ![r] = to]
    BY DEF IInv, TypeOK
  <2>4. line' = None /\ UNCHANGED <<dates, profile, rows, slot, clears>>
    BY <1>7 DEF billing_change_check
  <2> HIDE DEF to
  <2> QED BY <2>1, <2>2, <2>3, <2>4, ReaderMoves
<1>8. ASSUME Closes
      PROVE  IInv' /\ slot' = slot
  BY <1>8, ClosesKeeps DEF Closes
<1>9. ASSUME clear_readings
      PROVE  IInv' /\ slot' = 0
  <2>1. /\ rows' = {} /\ slot' = 0 /\ clears' = clears + 1 /\ clears < MaxClears
        /\ UNCHANGED <<dates, profile, line, reader>>
    BY <1>9 DEF clear_readings
  <2>2. TypeOK'
    BY <2>1, BillingAssumption DEF IInv, TypeOK
  <2>3. \A r \in Reader : StoreIsCurrent(r)'
    <3> TAKE r \in Reader
    <3>1. StoreIsCurrent(r) /\ reader[r].through \in Nat
      BY ReaderType DEF IInv
    <3> QED BY <2>1, <3>1 DEF StoreIsCurrent
  <2> QED BY <1>0, <2>1, <2>2, <2>3 DEF IInv, DownClosed
<1>10. CASE UNCHANGED vars
  <2>1. \A r \in Reader : StoreIsCurrent(r) => StoreIsCurrent(r)'
    BY <1>10 DEF vars, StoreIsCurrent
  <2> QED BY <1>0, <1>10, <2>1 DEF vars, IInv, TypeOK, Keyed
<1> QED
  BY <1>0, <1>1, <1>2, <1>3, <1>4, <1>5, <1>6, <1>7, <1>8, <1>9, <1>10, CommitKeeps
  DEF Next, ReadStep, Reader

-----------------------------------------------------------------------------
(* The theorems.                                                            *)

LEMMA Invariance == Spec => []IInv
<1>1. Init => IInv
  BY InitHolds
<1>2. IInv /\ [Next]_vars => IInv'
  BY NextKeeps
<1> QED BY <1>1, <1>2, PTL DEF Spec

(* Readers, rows, slot and line keep their types; a reader is in a visit or *)
(* a read exactly while it holds the line.                                  *)
THEOREM TypeCorrect == Spec => []TypeOK
<1>1. IInv => TypeOK
  BY DEF IInv
<1> QED BY <1>1, Invariance, PTL

(* What ADR 0029 relies on, for every ring and every history of the meter:  *)
(* the Billing Sequence counted in whatever buffer it shows today finds the *)
(* row of the same period.                                                  *)
THEOREM KeysNamePeriods == Spec => []RowsAreMeterEntries
<1>1. IInv => RowsAreMeterEntries
  <2> SUFFICES ASSUME IInv, NEW row \in rows, NEW p \in Held, row.bill_date = dates[p],
                      row.sequence = Sequence(Len(dates), p)
               PROVE  row.period = p
    BY DEF RowsAreMeterEntries
  <2>1. Len(dates) \in Nat /\ p \in 1 .. Len(dates) /\ Keyed(row, dates)
    BY DEF IInv, TypeOK, Held, Buffer
  <2>2. row.sequence = Cardinality(Later(dates, Len(dates), p))
    BY <2>1, SequenceCountsLater DEF Held
  <2> QED BY <2>1, <2>2, KeyFindsPeriod
<1> QED BY <1>1, Invariance, PTL

(* Whatever reads overlap a rollover, the Open Period slot never goes back. *)
THEOREM SlotMovesForward == Spec => OpenSlotMovesForward
<1>1. IInv /\ [Next]_vars => [slot' # 0 => slot' >= slot]_vars
  BY NextKeeps
<1> QED BY <1>1, Invariance, PTL DEF Spec, OpenSlotMovesForward

(* The Billing Change Check sees what is missing, whatever was deleted, and *)
(* wherever the meter's clock was set, but for the newest of a pair.        *)
THEOREM CheckSeesMissing == Spec => []MissingIsNoticed
<1>1. IInv => MissingIsNoticed
  <2> SUFFICES ASSUME IInv, NEW p \in Held, ~Stored(Len(dates), p), ~Changed
               PROVE  dates[p] = dates[Len(dates)]
    BY DEF MissingIsNoticed
  <2> DEFINE n == Len(dates)
             column == {0} \cup {row.bill_date : row \in rows}
  <2>1. /\ n \in Nat /\ p \in 1 .. n /\ p + Ring > n /\ dates \in Seq(Date)
        /\ n \in 1 .. n /\ dates # <<>>
    BY DEF IInv, TypeOK, Held, Buffer
  <2>2. dates[n] = NewestStored /\ dates[n] # 0
    <3>1. dates[n] \in Date
      BY <2>1, ElementOfSeq
    <3>2. dates[n] = NewestStored
      BY <2>1 DEF Changed
    <3> QED BY <3>1, <3>2, BillingAssumption DEF Date
  <2>3. \A row \in rows : row.bill_date \in 0 .. MaxDate
    BY BillingAssumption DEF IInv, TypeOK, ClosedRow, Date
  <2>4. column \in SUBSET (0 .. MaxDate) /\ column # {} /\ MaxDate \in Nat
    BY <2>3, BillingAssumption
  <2>5. Max(column) \in column
    <3> HIDE DEF column
    <3> QED BY <2>4, HasMax
  <2>6. PICK row \in rows : row.bill_date = dates[n]
    BY <2>2, <2>5 DEF NewestStored
  <2>7. row.period \in 1 .. n /\ dates[row.period] = dates[n]
    BY <2>6 DEF IInv, Keyed
  <2>8. ~(p < row.period)
    <3> SUFFICES ASSUME p < row.period PROVE FALSE
      OBVIOUS
    <3>1. PICK k \in rows : k.period = p
      BY <2>1 DEF IInv, DownClosed
    <3>2. k.bill_date = dates[p] /\ k.sequence = Cardinality(Later(dates, n, p))
      BY <3>1 DEF IInv, Keyed
    <3>3. Stored(n, p)
      BY <2>1, <3>2, SequenceCountsLater DEF Stored, Held
    <3> QED BY <3>3
  <2>9. p \in row.period .. n
    BY <2>1, <2>7, <2>8
  <2> QED BY <2>1, <2>7, <2>9 DEF IInv, Contiguous
<1> QED BY <1>1, Invariance, PTL

-----------------------------------------------------------------------------
(* Captures take turns.                                                     *)

\* The steps between taking the turn and giving it back, and those of them at
\* which there may be a browser.
Turn      == {"mint", "trigger", "port", "connect", "drive", "match", "close", "end", "token"}
OnBrowser == {"port", "connect", "drive", "match", "close", "end"}

IsJob(j) == "pc" \in DOMAIN j

JobsAreWhole == job = [c \in Caller |-> job[c]] /\ \A c \in Caller : IsJob(job[c])

\* Who is at a step of the turn has it; without a mishap there is a browser or a
\* running task only while somebody's teardown of it is still to come.
TInv ==
    /\ JobsAreWhole
    /\ \A c \in Caller : lock = c <=> job[c].pc \in Turn
    /\ lock \in Caller \cup {S!Nobody} /\ mishaps \in Nat
    /\ mishaps = 0 => /\ ~stray
                      /\ \/ browser = "none" /\ task = "ready"
                         \/ \E c \in Caller : job[c].pc \in OnBrowser

LEMMA NobodyIsNoCaller == S!Nobody \notin Caller
BY DocumentsAssumption DEF S!Nobody

LEMMA TurnStart == S!Init => TInv
<1> SUFFICES ASSUME S!Init PROVE TInv
  OBVIOUS
<1>1. \A c \in Caller : job[c] = S!Idle
  BY DEF S!Init
<1>2. IsJob(S!Idle) /\ S!Idle.pc = "idle"
  BY DEF IsJob, S!Idle
<1>3. job = [c \in Caller |-> job[c]]
  BY DEF S!Init
<1>4. \A c \in Caller : lock # c
  BY NobodyIsNoCaller DEF S!Init
<1> QED BY <1>1, <1>2, <1>3, <1>4 DEF TInv, JobsAreWhole, Turn, S!Init

\* One caller moves to another step.
Moves(c, step) ==
    /\ JobsAreWhole' /\ job'[c].pc = step
    /\ \A x \in Caller \ {c} : job'[x].pc = job[x].pc

LEMMA JobReplaced ==
    ASSUME JobsAreWhole, NEW c \in Caller, NEW j, IsJob(j), job' = [job EXCEPT ![c] = j]
    PROVE  Moves(c, j.pc)
<1>1. job' = [x \in Caller |-> IF x = c THEN j ELSE job[x]]
  BY DEF JobsAreWhole
<1>2. job' = [x \in Caller |-> job'[x]] /\ job'[c] = j
  BY <1>1
<1>3. \A x \in Caller \ {c} : job'[x] = job[x]
  BY <1>1
<1>4. JobsAreWhole'
  BY <1>2, <1>3 DEF JobsAreWhole
<1> QED BY <1>2, <1>3, <1>4 DEF Moves

LEMMA GoMoves ==
    ASSUME JobsAreWhole, NEW c \in Caller, NEW step, S!Go(c, step)
    PROVE  Moves(c, step)
<1> DEFINE j == [job[c] EXCEPT !.pc = step]
<1>1. IsJob(j) /\ j.pc = step
  BY DEF JobsAreWhole, IsJob
<1>2. job' = [job EXCEPT ![c] = j]
  BY DEF S!Go
<1> HIDE DEF j
<1> QED BY <1>1, <1>2, JobReplaced

LEMMA EndsMoves ==
    ASSUME JobsAreWhole, NEW c \in Caller, S!Ends(c)
    PROVE  Moves(c, "idle")
<1>1. IsJob(S!Idle) /\ S!Idle.pc = "idle"
  BY DEF IsJob, S!Idle
<1> QED BY <1>1, JobReplaced DEF S!Ends

LEMMA DoneMoves ==
    ASSUME JobsAreWhole, NEW c \in Caller, NEW picture, S!Done(c, picture)
    PROVE  Moves(c, "close")
<1> DEFINE j == [S!Idle EXCEPT !.pc = "close", !.stem = job[c].stem, !.page = picture,
                             !.port = job[c].port, !.token = job[c].token]
<1>0. "pc" \in DOMAIN S!Idle
  BY DEF S!Idle
<1>1. IsJob(j) /\ j.pc = "close"
  BY <1>0 DEF IsJob
<1>2. job' = [job EXCEPT ![c] = j]
  BY DEF S!Done
<1> HIDE DEF j
<1> QED BY <1>1, <1>2, JobReplaced

LEMMA TurnKept ==
    ASSUME TInv, NEW c \in Caller, NEW step, Moves(c, step),
           \/ lock' = lock /\ (step \in Turn <=> job[c].pc \in Turn)
           \/ lock = S!Nobody /\ lock' = c /\ step \in Turn
           \/ lock = c /\ lock' = S!Nobody /\ step \notin Turn
    PROVE  /\ JobsAreWhole' /\ lock' \in Caller \cup {S!Nobody}
           /\ \A x \in Caller : lock' = x <=> job'[x].pc \in Turn
<1>1. JobsAreWhole' /\ lock' \in Caller \cup {S!Nobody}
  BY DEF Moves, TInv
<1>2. ASSUME NEW x \in Caller
      PROVE  lock' = x <=> job'[x].pc \in Turn
  <2>1. CASE x = c
    BY <2>1, NobodyIsNoCaller DEF Moves, TInv
  <2>2. CASE x # c
    BY <2>2, NobodyIsNoCaller DEF Moves, TInv
  <2> QED BY <2>1, <2>2
<1> QED BY <1>1, <1>2

\* Browser, task and token after a caller's step.
Tidy == mishaps = 0 => /\ ~stray
                       /\ \/ browser = "none" /\ task = "ready"
                          \/ \E c \in Caller : job[c].pc \in OnBrowser

LEMMA MishapCounts == ASSUME TInv PROVE S!Mishap => mishaps' \in Nat /\ mishaps' # 0
BY DEF TInv, S!Mishap

\* The step neither starts a browser nor leaves one: what there is, is torn down
\* by a caller still on it.
LEMMA QuietStepTidy ==
    ASSUME TInv, NEW c \in Caller, NEW step, Moves(c, step), mishaps' = mishaps,
           UNCHANGED <<browser, task, stray>>,
           job[c].pc \in OnBrowser => step \in OnBrowser
    PROVE  Tidy'
BY DEF Tidy, TInv, Moves

LEMMA MovesKeeps ==
    ASSUME TInv, NEW c \in Caller, NEW step, Moves(c, step), mishaps' \in Nat, Tidy',
           \/ lock' = lock /\ (step \in Turn <=> job[c].pc \in Turn)
           \/ lock = S!Nobody /\ lock' = c /\ step \in Turn
           \/ lock = c /\ lock' = S!Nobody /\ step \notin Turn
    PROVE  TInv'
BY TurnKept DEF TInv, Tidy

LEMMA BeginsKeeps ==
    ASSUME TInv, NEW c \in Caller, S!write_png_capture(c) \/ S!render_billing_png(c)
    PROVE  TInv'
<1>0. /\ UNCHANGED <<browser, task, stray>> /\ mishaps' = mishaps /\ mishaps \in Nat
      /\ JobsAreWhole
  BY DEF S!write_png_capture, S!render_billing_png, S!Calm, TInv
<1>1. CASE S!write_png_capture(c)
  <2>1. PICK r \in stored :
          job' = [job EXCEPT ![c] = [S!Idle EXCEPT !.pc = "wait", !.anchor = r.id, !.stem = r.period,
                                        !.wanted = S!Ids(S!png_source_rows(r))]]
    BY <1>1 DEF S!write_png_capture
  <2> DEFINE j == [S!Idle EXCEPT !.pc = "wait", !.anchor = r.id, !.stem = r.period,
                               !.wanted = S!Ids(S!png_source_rows(r))]
  <2>2. "pc" \in DOMAIN S!Idle /\ S!Idle.pc = "idle"
    BY DEF S!Idle
  <2>3. IsJob(j) /\ j.pc = "wait"
    BY <2>2 DEF IsJob
  <2> HIDE DEF j
  <2>4. Moves(c, "wait")
    BY <1>0, <2>1, <2>3, JobReplaced DEF j
  <2>5. job[c].pc = "idle" /\ lock' = lock
    BY <1>1, <2>2 DEF S!write_png_capture
  <2>6. Tidy'
    BY <1>0, <2>4, <2>5, QuietStepTidy DEF OnBrowser
  <2> QED BY <1>0, <2>4, <2>5, <2>6, MovesKeeps DEF Turn
<1>2. CASE S!render_billing_png(c)
  <2>1. job[c].pc = "wait"
    BY <1>2 DEF S!render_billing_png, S!At
  <2>2. CASE lock = S!Nobody /\ lock' = c /\ S!Go(c, "mint")
    <3>1. Moves(c, "mint")
      BY <1>0, <2>2, GoMoves
    <3>2. Tidy'
      BY <1>0, <2>1, <3>1, QuietStepTidy DEF OnBrowser
    <3> QED BY <1>0, <2>2, <3>1, <3>2, MovesKeeps DEF Turn
  <2>3. CASE lock' = lock /\ S!Ends(c)
    <3>1. Moves(c, "idle")
      BY <1>0, <2>3, EndsMoves
    <3>2. Tidy'
      BY <1>0, <2>1, <3>1, QuietStepTidy DEF OnBrowser
    <3> QED BY <1>0, <2>1, <2>3, <3>1, <3>2, MovesKeeps DEF Turn
  <2> QED BY <1>2, <2>2, <2>3 DEF S!render_billing_png
<1> QED BY <1>1, <1>2

LEMMA MintKeeps ==
    ASSUME TInv, NEW c \in Caller, S!_mint_capture_token(c) \/ S!MintFails(c)
    PROVE  TInv'
<1>0. /\ UNCHANGED <<browser, task, lock>> /\ job[c].pc = "mint" /\ JobsAreWhole
      /\ mishaps \in Nat
  BY DEF S!_mint_capture_token, S!MintFails, S!At, TInv
<1>1. CASE S!_mint_capture_token(c)
  <2>1. PICK classic \in BOOLEAN :
          job' = [job EXCEPT ![c].pc = "trigger", ![c].token = TRUE, ![c].classic = classic]
    BY <1>1 DEF S!_mint_capture_token
  <2>2. Moves(c, "trigger")
    <3>1. "pc" \in DOMAIN job[c]
      BY <1>0 DEF JobsAreWhole, IsJob
    <3>2. job' = [x \in Caller |-> job'[x]] /\ \A x \in Caller \ {c} : job'[x] = job[x]
      BY <1>0, <2>1 DEF JobsAreWhole
    <3>3. "pc" \in DOMAIN job'[c] /\ job'[c].pc = "trigger"
      BY <1>0, <2>1, <3>1 DEF JobsAreWhole
    <3> QED BY <1>0, <3>2, <3>3 DEF Moves, JobsAreWhole, IsJob
  <2>3. mishaps' = mishaps /\ stray' = stray
    BY <1>1 DEF S!_mint_capture_token, S!Calm
  <2>4. Tidy'
    BY <1>0, <2>2, <2>3, QuietStepTidy DEF OnBrowser
  <2> QED BY <1>0, <2>2, <2>3, <2>4, MovesKeeps DEF Turn
<1>2. CASE S!MintFails(c)
  <2>1. Moves(c, "end")
    BY <1>0, <1>2, GoMoves DEF S!MintFails
  <2>2. CASE UNCHANGED <<stray, mishaps>>
    <3>1. Tidy'
      BY <1>0, <2>1, <2>2, QuietStepTidy DEF OnBrowser
    <3> QED BY <1>0, <2>1, <2>2, <3>1, MovesKeeps DEF Turn
  <2>3. CASE S!Mishap
    <3>1. Tidy' /\ mishaps' \in Nat
      BY <2>3, MishapCounts DEF Tidy
    <3> QED BY <1>0, <2>1, <3>1, MovesKeeps DEF Turn
  <2> QED BY <1>2, <2>2, <2>3 DEF S!MintFails
<1> QED BY <1>1, <1>2

\* /end may fail, by a mishap; else the browser is this caller's to tear down.
LEMMA TriggerKeeps ==
    ASSUME TInv, NEW c \in Caller, S!_trigger_capture_browser(c)
    PROVE  TInv'
<1>0. UNCHANGED <<lock, stray>> /\ job[c].pc = "trigger" /\ JobsAreWhole /\ mishaps \in Nat
  BY DEF S!_trigger_capture_browser, S!At, TInv
<1>1. PICK ended \in BOOLEAN :
        LET running == task = "running" /\ ~ended IN
        /\ S!Go(c, IF running THEN "end" ELSE "port")
        /\ IF ended THEN S!Calm ELSE S!Mishap /\ UNCHANGED troubles
  BY DEF S!_trigger_capture_browser
<1>2. PICK step \in {"end", "port"} : S!Go(c, step)
  BY <1>1
<1>3. Moves(c, step)
  BY <1>0, <1>2, GoMoves
<1>4. mishaps' \in Nat /\ (mishaps' = mishaps \/ mishaps' # 0)
  BY <1>0, <1>1, MishapCounts DEF S!Calm
<1>5. Tidy'
  BY <1>0, <1>3, <1>4 DEF Tidy, TInv, Moves, OnBrowser
<1> QED BY <1>0, <1>3, <1>4, <1>5, MovesKeeps DEF Turn

\* Steps on the browser that go on to another one.
LEMMA BrowserStepKeeps ==
    ASSUME TInv, NEW c \in Caller, NEW step \in OnBrowser, Moves(c, step),
           job[c].pc \in OnBrowser, lock' = lock, stray' = stray, mishaps' = mishaps
    PROVE  TInv'
<1>1. Tidy'
  BY DEF Tidy, TInv, Moves
<1>2. mishaps' \in Nat /\ step \in Turn /\ job[c].pc \in Turn
  BY DEF TInv, OnBrowser, Turn
<1> QED BY <1>1, <1>2, MovesKeeps

LEMMA DriveKeeps ==
    ASSUME TInv, NEW c \in Caller,
           \/ S!_wait_for_devtools_port(c) \/ S!_connect_transport(c) \/ S!PageLoads(c)
           \/ S!_drive_capture(c) \/ S!Overrun(c)
           \/ S!_close_browser_over_cdp(c) \/ S!CloseFails(c)
    PROVE  TInv'
<1>0. JobsAreWhole
  BY DEF TInv
<1>1. /\ lock' = lock /\ stray' = stray /\ mishaps' = mishaps
      /\ job[c].pc \in {"port", "connect", "drive", "match", "close"}
  BY DEF S!_wait_for_devtools_port, S!_connect_transport, S!PageLoads, S!_drive_capture, S!Overrun,
         S!_close_browser_over_cdp, S!CloseFails, S!Calm, S!Trouble, S!At
<1>2. CASE S!_connect_transport(c) \/ S!_close_browser_over_cdp(c) \/ S!CloseFails(c)
  <2>1. Moves(c, "drive") \/ Moves(c, "end")
    BY <1>0, <1>2, GoMoves DEF S!_connect_transport, S!_close_browser_over_cdp, S!CloseFails
  <2> QED BY <1>1, <2>1, BrowserStepKeeps DEF OnBrowser
<1>3. CASE S!_drive_capture(c) \/ S!Overrun(c)
  <2>1. Moves(c, "close")
    <3>1. \E picture : S!Done(c, picture)
      BY <1>3 DEF S!_drive_capture, S!Overrun
    <3> QED BY <1>0, <3>1, DoneMoves
  <2> QED BY <1>1, <2>1, BrowserStepKeeps DEF OnBrowser
<1>4. ASSUME NEW step, step = "connect" \/ step = "match", NEW f, NEW v,
             f # "pc", job' = [job EXCEPT ![c].pc = step, ![c][f] = v]
      PROVE  TInv'
  <2>1. "pc" \in DOMAIN job[c]
    BY <1>0 DEF JobsAreWhole, IsJob
  <2>2. job' = [x \in Caller |-> job'[x]] /\ \A x \in Caller \ {c} : job'[x] = job[x]
    BY <1>0, <1>4 DEF JobsAreWhole
  <2>3. "pc" \in DOMAIN job'[c] /\ job'[c].pc = step
    BY <1>0, <1>4, <2>1 DEF JobsAreWhole
  <2>4. Moves(c, step)
    BY <1>0, <2>2, <2>3 DEF Moves, JobsAreWhole, IsJob
  <2> QED BY <1>1, <1>4, <2>4, BrowserStepKeeps DEF OnBrowser
<1>5. CASE S!_wait_for_devtools_port(c)
  <2>1. job' = [job EXCEPT ![c].pc = "connect", ![c].port = TRUE]
    BY <1>5 DEF S!_wait_for_devtools_port
  <2> QED BY <1>4, <2>1
<1>6. CASE S!PageLoads(c)
  <2> DEFINE v == IF job[c].classic THEN S!classic_capture_view(job[c])
                  ELSE S!list_billing_readings(job[c])
  <2>1. job' = [job EXCEPT ![c].pc = "match", ![c].page = v]
    BY <1>6 DEF S!PageLoads
  <2> HIDE DEF v
  <2> QED BY <1>4, <2>1
<1> QED BY <1>2, <1>3, <1>5, <1>6

LEMMA TeardownKeeps ==
    ASSUME TInv, NEW c \in Caller,
           S!_end_capture_task(c) \/ S!_delete_capture_token(c) \/ S!Write(c)
    PROVE  TInv'
<1>0. JobsAreWhole /\ mishaps \in Nat
  BY DEF TInv
<1>1. CASE S!_end_capture_task(c)
  <2>1. Moves(c, "token") /\ job[c].pc = "end" /\ UNCHANGED <<lock, stray>>
    BY <1>0, <1>1, GoMoves DEF S!_end_capture_task, S!At
  <2>2. CASE S!Gone /\ S!Calm
    <3>1. Tidy' /\ mishaps' \in Nat
      BY <1>0, <2>1, <2>2 DEF S!Gone, S!Calm, Tidy, TInv
    <3> QED BY <2>1, <3>1, MovesKeeps DEF Turn
  <2>3. CASE S!Mishap
    <3>1. Tidy' /\ mishaps' \in Nat
      BY <2>3, MishapCounts DEF Tidy
    <3> QED BY <2>1, <3>1, MovesKeeps DEF Turn
  <2> QED BY <1>1, <2>2, <2>3 DEF S!_end_capture_task
<1>2. CASE S!_delete_capture_token(c)
  <2>1. job[c].pc = "token" /\ lock = c /\ lock' = S!Nobody /\ UNCHANGED <<browser, task>>
    BY <1>2 DEF S!_delete_capture_token, S!At, S!Release, TInv, Turn
  <2>2. Moves(c, "idle") \/ Moves(c, "write")
    <3>1. CASE S!Ends(c)
      BY <1>0, <3>1, EndsMoves
    <3>2. CASE job' = [job EXCEPT ![c].pc = "write", ![c].token = FALSE]
      <4>1. "pc" \in DOMAIN job[c]
        BY <1>0 DEF JobsAreWhole, IsJob
      <4>2. job' = [x \in Caller |-> job'[x]] /\ \A x \in Caller \ {c} : job'[x] = job[x]
        BY <1>0, <3>2 DEF JobsAreWhole
      <4>3. "pc" \in DOMAIN job'[c] /\ job'[c].pc = "write"
        BY <1>0, <3>2, <4>1 DEF JobsAreWhole
      <4> QED BY <1>0, <4>2, <4>3 DEF Moves, JobsAreWhole, IsJob
    <3> QED BY <1>2, <3>1, <3>2 DEF S!_delete_capture_token, S!Release
  <2>3. Tidy' /\ mishaps' \in Nat
    <3>1. CASE stray' = stray /\ mishaps' = mishaps
      <4>1. \A x \in Caller : job[x].pc \notin OnBrowser
        BY <2>1 DEF TInv, Turn, OnBrowser
      <4> QED BY <1>0, <2>1, <3>1, <4>1 DEF Tidy, TInv
    <3>2. CASE S!Mishap
      BY <3>2, MishapCounts DEF Tidy
    <3> QED BY <1>2, <3>1, <3>2 DEF S!_delete_capture_token, S!Calm
  <2> QED BY <2>1, <2>2, <2>3, MovesKeeps DEF Turn
<1>3. CASE S!Write(c)
  <2>1. Moves(c, "idle") /\ job[c].pc = "write"
    BY <1>0, <1>3, EndsMoves DEF S!Write, S!At
  <2>2. UNCHANGED <<browser, task, stray, lock, mishaps>>
    BY <1>3 DEF S!Write, S!Calm
  <2>3. Tidy'
    BY <2>1, <2>2, QuietStepTidy DEF OnBrowser
  <2> QED BY <1>0, <2>1, <2>2, <2>3, MovesKeeps DEF Turn
<1> QED BY <1>1, <1>2, <1>3

\* The browser's own steps, a restart, and what changes the table.
LEMMA OthersKeep ==
    ASSUME TInv, S!EdgeStarts \/ S!EdgeDies \/ S!Restart \/ S!StoreBilling \/ S!clear_readings
                   \/ UNCHANGED S!vars
    PROVE  TInv'
<1>1. CASE S!EdgeStarts
  BY <1>1 DEF S!EdgeStarts, S!Calm, TInv, JobsAreWhole, IsJob
<1>2. CASE S!EdgeDies
  BY <1>2 DEF S!EdgeDies, S!Gone, S!Trouble, TInv, JobsAreWhole, IsJob
<1>3. CASE S!Restart
  <2>1. job' = [c \in Caller |-> S!Idle] /\ lock' = S!Nobody /\ mishaps' \in Nat /\ mishaps' # 0
    BY <1>3, MishapCounts DEF S!Restart
  <2>2. "pc" \in DOMAIN S!Idle /\ S!Idle.pc = "idle"
    BY DEF S!Idle
  <2>3. \A c \in Caller : job'[c] = S!Idle
    BY <2>1
  <2>4. JobsAreWhole'
    BY <2>1, <2>2, <2>3 DEF JobsAreWhole, IsJob
  <2>5. \A c \in Caller : lock' # c /\ job'[c].pc \notin Turn
    BY <2>1, <2>2, <2>3, NobodyIsNoCaller DEF Turn
  <2> QED BY <2>1, <2>4, <2>5 DEF TInv
<1>4. CASE S!StoreBilling \/ S!clear_readings \/ UNCHANGED S!vars
  <2>1. UNCHANGED <<lock, job, task, browser, stray>> /\ mishaps' \in {mishaps, mishaps + 1}
    BY <1>4 DEF S!StoreBilling, S!clear_readings, S!vars
  <2> QED BY <2>1 DEF TInv, JobsAreWhole, IsJob
<1> QED BY <1>1, <1>2, <1>3, <1>4

LEMMA TurnStep == TInv /\ [S!Next]_S!vars => TInv'
<1> SUFFICES ASSUME TInv, [S!Next]_S!vars PROVE TInv'
  OBVIOUS
<1>1. ASSUME NEW c \in Caller, S!Renders(c)
      PROVE  TInv'
  BY <1>1, MintKeeps, TriggerKeeps, DriveKeeps, TeardownKeeps DEF S!Renders
<1> QED BY <1>1, BeginsKeeps, OthersKeep DEF S!Next

LEMMA TurnLeavesNothing == TInv => NothingIsLeftBehind
<1> SUFFICES ASSUME TInv, lock = S!Nobody, mishaps = 0
             PROVE  browser = "none" /\ task = "ready" /\ ~stray
  BY DEF NothingIsLeftBehind, S!NothingIsLeftBehind
<1>1. \A c \in Caller : job[c].pc \notin OnBrowser
  BY NobodyIsNoCaller DEF TInv, Turn, OnBrowser
<1> QED BY <1>1 DEF TInv

-----------------------------------------------------------------------------
(* Places in a list of rows.                                               *)

Row == [id : 1 .. MaxId, period : S!Period]

LEMMA SameCount ==
    ASSUME NEW T
    PROVE  S!Cardinality(T) = Cardinality(T) /\ S!Max(T) = Max(T)
BY DEF Cardinality, S!Cardinality, Max, S!Max

LEMMA PeriodsAreFinite == IsFiniteSet(S!Period)
<1> DEFINE f == [p \in S!Period |-> 2 * p.at + p.seq]
           T == 0 .. 2 * MaxStamp + 1
<1>0. MaxStamp \in Nat
  BY DocumentsAssumption
<1>1. \A p \in S!Period : f[p] \in T /\ p.at \in Nat /\ p.seq \in 0 .. 1
                           /\ f[p] = 2 * p.at + p.seq
  BY <1>0 DEF S!Period
<1>2. \A p, q \in S!Period : f[p] = f[q] => p = q
  <2> SUFFICES ASSUME NEW p \in S!Period, NEW q \in S!Period, f[p] = f[q] PROVE p = q
    OBVIOUS
  <2>1. 2 * p.at + p.seq = 2 * q.at + q.seq /\ p.at \in Nat /\ q.at \in Nat
        /\ p.seq \in 0 .. 1 /\ q.seq \in 0 .. 1
    BY <1>1
  <2>2. p.at = q.at /\ p.seq = q.seq
    BY <2>1
  <2> QED BY <2>2 DEF S!Period
<1>3. f \in [S!Period -> T]
  BY <1>1
<1> HIDE DEF f
<1>4. f \in Injection(S!Period, T)
  BY <1>2, <1>3 DEF Injection, IsInjective
<1>5. IsFiniteSet(T)
  BY <1>0, FS_Interval
<1> QED BY <1>4, <1>5, FS_Injection

\* Rows, one to a period, are in an order: each has a place in the list of them.

\* Rows that differ in their periods.
OnePerPeriod(rs) == rs \in SUBSET Row /\ \A r, s \in rs : r.period = s.period => r = s

LEMMA NewerIsOrder ==
    ASSUME NEW p \in S!Period, NEW q \in S!Period
    PROVE  /\ ~S!Newer(p, p)
           /\ S!Newer(p, q) => ~S!Newer(q, p)
           /\ p = q \/ S!Newer(p, q) \/ S!Newer(q, p)
           /\ \A r \in S!Period : S!Newer(p, q) /\ S!Newer(q, r) => S!Newer(p, r)
BY DocumentsAssumption DEF S!Newer, S!Period

\* How many of them were closed before a row.
Older(rs, r) == {q \in rs : S!Newer(r.period, q.period)}
Rank(rs, r)  == Cardinality(Older(rs, r))

LEMMA RowsAreFinite ==
    ASSUME NEW rs, OnePerPeriod(rs)
    PROVE  IsFiniteSet(rs)
<1> DEFINE f == [r \in rs |-> r.period]
<1>1. f \in [rs -> S!Period]
  BY DEF OnePerPeriod, Row
<1>2. \A r, s \in rs : f[r] = f[s] => r = s
  BY DEF OnePerPeriod
<1> HIDE DEF f
<1>3. f \in Injection(rs, S!Period)
  BY <1>1, <1>2 DEF Injection, IsInjective
<1> QED BY <1>3, PeriodsAreFinite, FS_Injection

LEMMA RankType ==
    ASSUME NEW rs, OnePerPeriod(rs), NEW r \in rs
    PROVE  /\ IsFiniteSet(Older(rs, r)) /\ Rank(rs, r) \in Nat
           /\ Cardinality(rs) \in Nat /\ Rank(rs, r) \in 0 .. Cardinality(rs) - 1
<1>1. IsFiniteSet(rs)
  BY RowsAreFinite
<1>2. Older(rs, r) \in SUBSET rs /\ r \notin Older(rs, r)
  BY NewerIsOrder DEF Older, OnePerPeriod, Row
<1>3. IsFiniteSet(Older(rs, r)) /\ Cardinality(Older(rs, r)) <= Cardinality(rs)
      /\ Cardinality(Older(rs, r)) # Cardinality(rs)
  BY <1>1, <1>2, FS_Subset
<1>4. Cardinality(rs) \in Nat /\ Rank(rs, r) \in Nat
  BY <1>1, <1>3, FS_CardinalityType DEF Rank
<1> QED BY <1>3, <1>4 DEF Rank

LEMMA RankGrows ==
    ASSUME NEW rs, OnePerPeriod(rs), NEW r \in rs, NEW s \in rs
    PROVE  Rank(rs, s) < Rank(rs, r) <=> S!Newer(r.period, s.period)
<1>0. \A x \in rs : x.period \in S!Period
  BY DEF OnePerPeriod, Row
<1>1. ASSUME NEW x \in rs, NEW y \in rs, S!Newer(x.period, y.period)
      PROVE  Rank(rs, y) < Rank(rs, x)
  <2>1. Older(rs, y) \in SUBSET Older(rs, x)
    BY <1>0, <1>1, NewerIsOrder DEF Older
  <2>2. y \in Older(rs, x) /\ y \notin Older(rs, y)
    BY <1>0, <1>1, NewerIsOrder DEF Older
  <2>3. /\ Cardinality(Older(rs, y)) <= Cardinality(Older(rs, x))
        /\ Cardinality(Older(rs, y)) # Cardinality(Older(rs, x))
    BY <2>1, <2>2, RankType, FS_Subset
  <2> QED BY <2>3, RankType DEF Rank
<1>2. CASE r.period = s.period
  BY <1>0, <1>2, RankType, NewerIsOrder DEF OnePerPeriod
<1>3. CASE S!Newer(r.period, s.period)
  BY <1>1, <1>3
<1>4. CASE S!Newer(s.period, r.period)
  <2>1. Rank(rs, r) < Rank(rs, s) /\ ~S!Newer(r.period, s.period)
    BY <1>0, <1>1, <1>4, NewerIsOrder
  <2> QED BY <2>1, RankType
<1> QED BY <1>0, <1>2, <1>3, <1>4, NewerIsOrder

\* Every place in the list is somebody's.
LEMMA EveryRankTaken ==
    ASSUME NEW rs, OnePerPeriod(rs), NEW k \in 0 .. Cardinality(rs) - 1
    PROVE  \E r \in rs : Rank(rs, r) = k
<1> DEFINE f == [r \in rs |-> Rank(rs, r)]
           T == 0 .. Cardinality(rs) - 1
<1>0. IsFiniteSet(rs) /\ Cardinality(rs) \in Nat
  BY RowsAreFinite, FS_CardinalityType
<1>1. f \in [rs -> T]
  BY RankType
<1>2. \A r, s \in rs : f[r] = f[s] => r = s
  <2> SUFFICES ASSUME NEW r \in rs, NEW s \in rs, Rank(rs, r) = Rank(rs, s) PROVE r = s
    OBVIOUS
  <2>1. ~S!Newer(r.period, s.period) /\ ~S!Newer(s.period, r.period)
    BY RankGrows, RankType
  <2>2. r.period = s.period
    BY <2>1, NewerIsOrder DEF OnePerPeriod, Row
  <2> QED BY <2>2 DEF OnePerPeriod
<1>3. IsFiniteSet(T) /\ Cardinality(T) = Cardinality(rs)
  BY <1>0, FS_Interval
<1>4. \A r \in rs : f[r] = Rank(rs, r)
  OBVIOUS
<1> HIDE DEF f
<1>5. f \in Injection(rs, T)
  BY <1>1, <1>2 DEF Injection, IsInjective
<1>6. f \in Surjection(rs, T)
  BY <1>3, <1>5, FS_Injection
<1>7. \A t \in T : \E r \in rs : f[r] = t
  BY <1>6 DEF Surjection
<1> QED BY <1>4, <1>7

\* What a query takes is the newest of what it may take.
LEMMA NewestUpClosed ==
    ASSUME NEW P, P \in SUBSET S!Period, NEW limit \in Nat, NEW p \in S!NewestOf(P, limit),
           NEW m \in P, S!Newer(m, p)
    PROVE  m \in S!NewestOf(P, limit)
<1> DEFINE above(x) == {q \in P : S!Newer(q, x)}
<1>1. p \in P /\ S!Cardinality(above(p)) < limit
  BY DEF S!NewestOf
<1>2. above(m) \in SUBSET above(p) /\ above(p) \in SUBSET S!Period
  BY <1>1, NewerIsOrder
<1>3. IsFiniteSet(above(p))
  BY <1>2, PeriodsAreFinite, FS_Subset
<1>4. IsFiniteSet(above(m)) /\ Cardinality(above(m)) <= Cardinality(above(p))
  BY <1>2, <1>3, FS_Subset
<1>5. Cardinality(above(m)) \in Nat /\ Cardinality(above(p)) \in Nat
  BY <1>3, <1>4, FS_CardinalityType
<1>6. S!Cardinality(above(m)) = Cardinality(above(m))
      /\ S!Cardinality(above(p)) = Cardinality(above(p))
  BY SameCount
<1> HIDE DEF above
<1>7. S!Cardinality(above(m)) < limit
  BY <1>1, <1>4, <1>5, <1>6
<1> QED BY <1>7 DEF above, S!NewestOf

LEMMA NewestHasNewest ==
    ASSUME NEW P, P \in SUBSET S!Period, NEW limit \in Nat, S!NewestOf(P, limit) # {},
           NEW m \in P, \A q \in P : ~S!Newer(q, m)
    PROVE  m \in S!NewestOf(P, limit)
<1>1. PICK p \in P : S!Cardinality({q \in P : S!Newer(q, p)}) < limit
  BY DEF S!NewestOf
<1>2. {q \in P : S!Newer(q, p)} \in SUBSET S!Period
  OBVIOUS
<1>3. IsFiniteSet({q \in P : S!Newer(q, p)})
  BY <1>2, PeriodsAreFinite, FS_Subset
<1>4. Cardinality({q \in P : S!Newer(q, p)}) \in Nat
      /\ S!Cardinality({q \in P : S!Newer(q, p)}) = Cardinality({q \in P : S!Newer(q, p)})
  BY <1>3, FS_CardinalityType, SameCount
<1>5. 0 < limit
  BY <1>1, <1>4
<1>6. {q \in P : S!Newer(q, m)} = {} /\ S!Cardinality({}) = 0
  BY SameCount, FS_EmptySet
<1>7. S!Cardinality({q \in P : S!Newer(q, m)}) < limit
  BY <1>5, <1>6
<1> QED BY <1>7 DEF S!NewestOf

Page(rs, limit) == {r \in rs : r.period \in S!NewestOf({q.period : q \in rs}, limit)}

LEMMA ListIsOrdered ==
    ASSUME NEW rs, OnePerPeriod(rs), NEW limit \in Nat
    PROVE  LET list == S!Listed(rs, limit)
               page == Page(rs, limit)
           IN  /\ list \in Seq(rs) /\ Len(list) = Cardinality(page)
               /\ OnePerPeriod(page) /\ Len(list) \in Nat /\ DOMAIN list = 1 .. Len(list)
               /\ \A k \in 1 .. Len(list) : list[k] \in page /\ Rank(page, list[k]) = k - 1
<1> DEFINE page == Page(rs, limit)
           n == Cardinality(page)
           at(k) == CHOOSE r \in page : Rank(page, r) = k - 1
           list == [k \in 1 .. n |-> at(k)]
<1>1. OnePerPeriod(page) /\ page \in SUBSET rs
  BY DEF Page, OnePerPeriod
<1>2. n \in Nat
  BY <1>1, RowsAreFinite, FS_CardinalityType
<1>3. S!Listed(rs, limit) = list
  <2>1. S!Cardinality(page) = n
    BY SameCount
  <2>2. \A r : S!Cardinality(Older(page, r)) = Rank(page, r)
    BY SameCount DEF Rank
  <2>3. S!Listed(rs, limit) = [k \in 1 .. S!Cardinality(page) |->
                               CHOOSE r \in page : S!Cardinality(Older(page, r)) = k - 1]
    BY DEF S!Listed, Page, Older
  <2> HIDE DEF page, n
  <2> QED BY <2>1, <2>2, <2>3
<1>4. \A k \in 1 .. n : at(k) \in page /\ Rank(page, at(k)) = k - 1
  <2> TAKE k \in 1 .. n
  <2>1. k - 1 \in 0 .. n - 1
    BY <1>2
  <2>2. \E r \in page : Rank(page, r) = k - 1
    BY <1>1, <2>1, EveryRankTaken
  <2> HIDE DEF page, n
  <2> QED BY <2>2
<1>5. list \in [1 .. n -> rs] /\ \A k \in 1 .. n : list[k] = at(k)
  <2> HIDE DEF page, n, at
  <2> QED BY <1>1, <1>4
<1>6. list \in Seq(rs) /\ Len(list) = n /\ DOMAIN list = 1 .. n
  <2> HIDE DEF page, n, at, list
  <2> QED BY <1>2, <1>5
<1> HIDE DEF n, at, list
<1> QED BY <1>1, <1>2, <1>3, <1>4, <1>5, <1>6 DEF n

-----------------------------------------------------------------------------
(* What a picture shows, between two reads and over any of them.           *)

\* Where the rows selected are still to be asked for.
Early == {"wait", "mint", "trigger", "port", "connect", "drive", "match"}

\* The list ends in the period of the image; from row to row no period that the
\* meter holds is left out.
Shows(page, stem) ==
    /\ page[Len(page)].period = stem
    /\ \A k \in 1 .. Len(page) : page[k] \in stored
    /\ \A k \in 1 .. Len(page) - 1 :
         /\ S!Newer(page[k + 1].period, page[k].period)
         /\ ~\E p \in meter : S!Newer(p, page[k].period) /\ S!Newer(page[k + 1].period, p)

\* While anything is stored, what the meter holds is; nothing stored was closed
\* after all the meter holds.
Tables ==
    /\ meter \in SUBSET S!Period /\ stored \in SUBSET Row
    /\ \A r, s \in stored : r.id = s.id \/ r.period = s.period => r = s
    /\ stored # {} => \A p \in meter : \E r \in stored : r.period = p
    /\ \A r \in stored : \E p \in meter : r.period.at <= p.at

\* The rows up to one are listed without a gap, whatever the limit.
LEMMA WindowShows ==
    ASSUME Tables, NEW r \in stored, NEW limit \in Nat,
           S!Listed(S!png_window_filters(r), limit) # <<>>
    PROVE  Shows(S!Listed(S!png_window_filters(r), limit), r.period)
<1> DEFINE rs == S!png_window_filters(r)
           P  == {q.period : q \in rs}
           page == Page(rs, limit)
           list == S!Listed(rs, limit)
           n == Len(list)
<1>1. rs = {x \in stored : x = r \/ S!Newer(r.period, x.period)}
  BY DEF S!png_window_filters
<1>2. OnePerPeriod(rs) /\ rs \in SUBSET stored /\ r \in rs
  BY <1>1 DEF OnePerPeriod, Tables
<1>3. \A x \in stored : x.period \in S!Period
  BY DEF Tables, Row
<1>4. /\ list \in Seq(rs) /\ n = Cardinality(page) /\ OnePerPeriod(page)
      /\ \A k \in 1 .. n : list[k] \in page /\ Rank(page, list[k]) = k - 1
  BY <1>2, ListIsOrdered
<1>5. page \in SUBSET rs /\ P \in SUBSET S!Period
  BY <1>2, <1>3 DEF Page
<1>6. n \in Nat /\ n # 0
  <2> HIDE DEF list
  <2> QED BY <1>4 DEF list
<1>7. r \in page
  <2>1. list[1] \in page
    BY <1>4, <1>6
  <2>2. S!NewestOf(P, limit) # {}
    BY <2>1 DEF Page
  <2>3. \A q \in P : ~S!Newer(q, r.period)
    BY <1>1, <1>3, NewerIsOrder
  <2>4. r.period \in P
    BY <1>2
  <2>5. r.period \in S!NewestOf(P, limit)
    BY <1>5, <2>2, <2>3, <2>4, NewestHasNewest
  <2> QED BY <1>2, <2>5 DEF Page
<1> HIDE DEF list, page, rs
<1>8. list[n].period = r.period
  <2>1. list[n] \in page /\ Rank(page, list[n]) = n - 1
    BY <1>4, <1>6
  <2>2. Rank(page, r) \in 0 .. n - 1
    BY <1>4, <1>7, RankType
  <2>3. ~S!Newer(r.period, list[n].period)
    <3>1. ~(Rank(page, list[n]) < Rank(page, r))
      BY <1>6, <2>1, <2>2
    <3> QED BY <1>4, <1>7, <2>1, <3>1, RankGrows
  <2>4. list[n] = r \/ S!Newer(r.period, list[n].period)
    BY <1>1, <1>5, <2>1
  <2> QED BY <2>3, <2>4
<1>9. \A k \in 1 .. n : list[k] \in stored
  BY <1>2, <1>4, <1>5
<1>10. ASSUME NEW k \in 1 .. n - 1
       PROVE  /\ S!Newer(list[k + 1].period, list[k].period)
              /\ ~\E p \in meter : /\ S!Newer(p, list[k].period)
                                   /\ S!Newer(list[k + 1].period, p)
  <2>1. k \in 1 .. n /\ k + 1 \in 1 .. n
    BY <1>6
  <2>2. /\ list[k] \in page /\ list[k + 1] \in page
        /\ Rank(page, list[k]) = k - 1 /\ Rank(page, list[k + 1]) = k
    BY <1>4, <2>1
  <2>3. S!Newer(list[k + 1].period, list[k].period)
    BY <1>4, <2>1, <2>2, RankGrows
  <2>4. ASSUME NEW p \in meter, S!Newer(p, list[k].period), S!Newer(list[k + 1].period, p)
        PROVE  FALSE
    <3>1. PICK m \in stored : m.period = p
      BY <1>2 DEF Tables
    <3>2. list[k + 1] = r \/ S!Newer(r.period, list[k + 1].period)
      BY <1>1, <1>5, <2>2
    <3>3. /\ m.period \in S!Period /\ list[k + 1].period \in S!Period /\ r.period \in S!Period
      BY <1>2, <1>3, <1>5, <2>2
    <3>4. S!Newer(r.period, m.period)
      BY <2>4, <3>1, <3>2, <3>3, NewerIsOrder
    <3>5. m \in rs
      BY <1>1, <3>4
    <3>6. list[k].period \in S!NewestOf(P, limit) /\ m.period \in P
      BY <2>2, <3>5 DEF Page, page
    <3>7. m \in page
      <4>1. m.period \in S!NewestOf(P, limit)
        BY <1>5, <2>4, <3>1, <3>6, NewestUpClosed
      <4> QED BY <3>5, <4>1 DEF Page, page
    <3>8. Rank(page, list[k]) < Rank(page, m) /\ Rank(page, m) < Rank(page, list[k + 1])
      BY <1>4, <2>2, <2>4, <3>1, <3>7, RankGrows
    <3>9. Rank(page, m) \in Nat
      BY <1>4, <3>7, RankType
    <3> QED BY <2>1, <2>2, <3>8, <3>9
  <2> QED BY <2>3, <2>4
<1> QED BY <1>8, <1>9, <1>10 DEF Shows, list, rs

Steps == Early \cup {"idle", "close", "end", "token", "write"}

Capturing == [pc : Steps, anchor : 0 .. MaxId, wanted : Seq(1 .. MaxId),
              stem : [at : Nat, seq : 0 .. 1], classic : BOOLEAN, page : Seq(Row),
              port : BOOLEAN, token : BOOLEAN]

\* What a capture is sure of unless rows were deleted under it.
Truthful(j) ==
    /\ j.pc \in Early => \E r \in stored : r.id = j.anchor /\ r.period = j.stem
    /\ j.page # <<>> => Shows(j.page, j.stem)

PInv ==
    /\ Tables
    /\ job \in [Caller -> Capturing]
    /\ \A c \in Caller : job[c].pc = "write" => job[c].page # <<>>
    /\ \A c \in Caller \ deleted : Truthful(job[c])

LEMMA IdleShowsNothing ==
    S!Idle \in Capturing /\ S!Idle.pc = "idle" /\ Truthful(S!Idle)
<1>1. S!Idle \in Capturing
  <2>1. <<>> \in Seq(1 .. MaxId) /\ <<>> \in Seq(Row) /\ 0 \in 0 .. MaxId /\ "idle" \in Steps
    BY DocumentsAssumption DEF Steps
  <2> QED BY <2>1 DEF S!Idle, Capturing
<1> QED BY <1>1 DEF S!Idle, Truthful, Early

LEMMA PictureStart == S!Init => PInv
<1> SUFFICES ASSUME S!Init PROVE PInv
  OBVIOUS
<1>1. job \in [Caller -> Capturing] /\ \A c \in Caller : job[c] = S!Idle
  BY IdleShowsNothing DEF S!Init
<1>2. Tables
  BY DEF S!Init, Tables
<1> QED BY <1>1, <1>2, IdleShowsNothing DEF PInv

\* One capture moves, over tables that stay.
LEMMA CaptureMoves ==
    ASSUME PInv, UNCHANGED <<meter, stored>>, NEW c \in Caller, NEW j \in Capturing,
           job' = [job EXCEPT ![c] = j],
           deleted' = deleted \/ (deleted' = deleted \ {c} /\ j = S!Idle),
           c \notin deleted => Truthful(j),
           j.pc = "write" => j.page # <<>>
    PROVE  PInv'
<1>1. Tables' /\ (\A x : Truthful(x) => Truthful(x)')
  BY DEF PInv, Tables, Truthful, Shows
<1>2. job' \in [Caller -> Capturing] /\ \A x \in Caller : job'[x] = IF x = c THEN j ELSE job[x]
  BY DEF PInv
<1>3. Truthful(j) \/ c \in deleted'
  BY IdleShowsNothing
<1>4. \A x \in Caller \ deleted' : Truthful(job'[x])
  BY <1>2, <1>3, IdleShowsNothing DEF PInv
<1>5. \A x \in Caller \ deleted' : (Truthful(job[x]))'
  <2> TAKE x \in Caller \ deleted'
  <2>1. Truthful(job'[x])
    BY <1>4
  <2> QED BY <2>1 DEF Truthful, Shows
<1> QED BY <1>1, <1>2, <1>5 DEF PInv

LEMMA GoKeepsPicture ==
    ASSUME PInv, UNCHANGED <<meter, stored, deleted>>, NEW c \in Caller,
           NEW step \in Steps \ {"write"}, S!Go(c, step),
           step \in Early => job[c].pc \in Early
    PROVE  PInv'
<1> DEFINE j == [job[c] EXCEPT !.pc = step]
<1>1. job[c] \in Capturing
  BY DEF PInv
<1>2. j \in Capturing /\ j.pc = step /\ j.anchor = job[c].anchor /\ j.stem = job[c].stem
      /\ j.page = job[c].page
  BY <1>1 DEF Capturing
<1>3. job' = [job EXCEPT ![c] = j]
  BY DEF S!Go
<1> HIDE DEF j
<1>4. c \notin deleted => Truthful(j)
  BY <1>2 DEF PInv, Truthful
<1> QED BY <1>2, <1>3, <1>4, CaptureMoves

LEMMA EndsKeepsPicture ==
    ASSUME PInv, UNCHANGED <<meter, stored>>, NEW c \in Caller, S!Ends(c)
    PROVE  PInv'
BY IdleShowsNothing, CaptureMoves DEF S!Ends

LEMMA DoneKeepsPicture ==
    ASSUME PInv, UNCHANGED <<meter, stored, deleted>>, NEW c \in Caller,
           NEW picture \in {<<>>, job[c].page}, S!Done(c, picture)
    PROVE  PInv'
<1> DEFINE j == [S!Idle EXCEPT !.pc = "close", !.stem = job[c].stem, !.page = picture,
                             !.port = job[c].port, !.token = job[c].token]
<1>1. job[c] \in Capturing /\ picture \in Seq(Row) /\ "close" \in Steps
  <2>1. job[c] \in Capturing /\ <<>> \in Seq(Row)
    BY DEF PInv
  <2>2. job[c].page \in Seq(Row)
    BY <2>1 DEF Capturing
  <2> QED BY <2>1, <2>2 DEF Steps
<1>2. j \in Capturing /\ j.pc = "close" /\ j.stem = job[c].stem /\ j.page = picture
  BY <1>1, IdleShowsNothing DEF Capturing
<1>3. job' = [job EXCEPT ![c] = j]
  BY DEF S!Done
<1> HIDE DEF j
<1>4. c \notin deleted => Truthful(j)
  BY <1>2 DEF PInv, Truthful, Early
<1> QED BY <1>2, <1>3, <1>4, CaptureMoves

LEMMA BeginsKeepsPicture ==
    ASSUME PInv, NEW c \in Caller, S!write_png_capture(c)
    PROVE  PInv'
<1> PICK r \in stored :
        job' = [job EXCEPT ![c] = [S!Idle EXCEPT !.pc = "wait", !.anchor = r.id, !.stem = r.period,
                                      !.wanted = S!Ids(S!png_source_rows(r))]]
  BY DEF S!write_png_capture
<1> DEFINE list == S!Listed(S!png_window_filters(r), PNG_ROWS)
           j == [S!Idle EXCEPT !.pc = "wait", !.anchor = r.id, !.stem = r.period,
                                      !.wanted = S!Ids(S!png_source_rows(r))]
<1>1. OnePerPeriod(S!png_window_filters(r)) /\ PNG_ROWS \in Nat
  BY DocumentsAssumption DEF PInv, Tables, OnePerPeriod, S!png_window_filters
<1>2. list \in Seq(S!png_window_filters(r)) /\ DOMAIN list = 1 .. Len(list) /\ Len(list) \in Nat
  BY <1>1, ListIsOrdered
<1>3. \A n \in 1 .. Len(list) : list[n].id \in 1 .. MaxId
  <2> HIDE DEF list
  <2> TAKE n \in 1 .. Len(list)
  <2>1. list[n] \in S!png_window_filters(r)
    BY <1>2
  <2> QED BY <1>1, <2>1 DEF OnePerPeriod, Row
<1>4. S!Ids(S!png_source_rows(r)) \in Seq(1 .. MaxId)
  <2>1. S!Ids(S!png_source_rows(r)) = [n \in 1 .. Len(list) |-> list[n].id]
    BY <1>2 DEF S!Ids, S!png_source_rows
  <2> HIDE DEF list
  <2> QED BY <1>2, <1>3, <2>1
<1>5. r.id \in 0 .. MaxId /\ r.period \in [at : Nat, seq : 0 .. 1] /\ "wait" \in Steps
  BY DocumentsAssumption DEF PInv, Tables, Row, S!Period, Steps, Early
<1>6. j \in Capturing /\ j.pc = "wait" /\ j.anchor = r.id /\ j.stem = r.period /\ j.page = <<>>
  BY <1>4, <1>5, IdleShowsNothing DEF Capturing, S!Idle
<1> HIDE DEF j
<1>7. UNCHANGED <<meter, stored, deleted>>
  BY DEF S!write_png_capture
<1>8. Truthful(j)
  BY <1>6 DEF Truthful
<1> QED BY <1>6, <1>7, <1>8, CaptureMoves DEF j

\* The page asks for the window of the row that has the id selected, which is the
\* row selected as long as nothing was deleted.
LEMMA PageShows ==
    ASSUME PInv, NEW c \in Caller, S!PageLoads(c)
    PROVE  PInv'
<1> DEFINE page == IF job[c].classic THEN S!classic_capture_view(job[c])
                   ELSE S!list_billing_readings(job[c])
           j == [job[c] EXCEPT !.pc = "match", !.page = page]
<1>1. job[c] \in Capturing /\ job[c].pc = "drive" /\ UNCHANGED <<meter, stored, deleted>>
  BY DEF S!PageLoads, S!At, PInv
<1>2. job' = [job EXCEPT ![c] = j]
  <2>1. job' = [job EXCEPT ![c].pc = "match", ![c].page = page]
    BY DEF S!PageLoads
  <2> HIDE DEF page
  <2> QED BY <1>1, <2>1 DEF PInv, Capturing
<1>3. Len(job[c].wanted) \in Nat /\ PNG_ROWS \in Nat
  BY <1>1, DocumentsAssumption DEF Capturing
<1>4. \A rs \in SUBSET stored : OnePerPeriod(rs)
  BY DEF PInv, Tables, OnePerPeriod
<1>5. /\ S!Window(job[c]) \in SUBSET stored
      /\ {r \in S!Window(job[c]) : r.period.at <= job[c].stem.at} \in SUBSET stored
  BY DEF S!Window, S!png_window_filters
<1>6. \A rs \in SUBSET stored, limit \in Nat : S!Listed(rs, limit) \in Seq(Row)
  <2> TAKE rs \in SUBSET stored, limit \in Nat
  <2>1. S!Listed(rs, limit) \in Seq(rs)
    BY <1>4, ListIsOrdered
  <2>2. rs \in SUBSET Row
    BY DEF PInv, Tables
  <2> QED BY <2>1, <2>2
<1>7. page \in Seq(Row)
  BY <1>3, <1>5, <1>6 DEF S!classic_capture_view, S!list_billing_readings
<1>8. c \notin deleted /\ page # <<>> => Shows(page, job[c].stem)
  <2> SUFFICES ASSUME c \notin deleted, page # <<>> PROVE Shows(page, job[c].stem)
    OBVIOUS
  <2>1. PICK r \in stored : r.id = job[c].anchor /\ r.period = job[c].stem
    BY <1>1 DEF PInv, Truthful, Early
  <2>2. S!_capture_anchor(job[c]) = {r}
    BY <2>1 DEF PInv, Tables, S!_capture_anchor
  <2>3. S!Window(job[c]) = S!png_window_filters(r)
    BY <2>2 DEF S!Window
  <2>4. \A x \in S!Window(job[c]) : x.period.at <= job[c].stem.at
    BY <2>1, <2>3, DocumentsAssumption
    DEF S!png_window_filters, S!Newer, PInv, Tables, Row, S!Period
  <2>5. {x \in S!Window(job[c]) : x.period.at <= job[c].stem.at} = S!png_window_filters(r)
    BY <2>3, <2>4
  <2>6. PICK limit \in Nat : page = S!Listed(S!png_window_filters(r), limit)
    BY <1>3, <2>3, <2>5 DEF S!classic_capture_view, S!list_billing_readings
  <2> HIDE DEF page
  <2> QED BY <2>1, <2>6, WindowShows DEF PInv
<1> HIDE DEF page
<1>9. j \in Capturing /\ j.pc = "match" /\ j.anchor = job[c].anchor /\ j.stem = job[c].stem
      /\ j.page = page
  <2>1. "match" \in Steps
    BY DEF Steps, Early
  <2> QED BY <1>1, <1>7, <2>1 DEF Capturing
<1> HIDE DEF j
<1>10. c \notin deleted => Truthful(j)
  BY <1>1, <1>8, <1>9 DEF PInv, Truthful, Early
<1> QED BY <1>1, <1>2, <1>9, <1>10, CaptureMoves

LEMMA RendersKeepsPicture ==
    ASSUME PInv, NEW c \in Caller, S!Renders(c) \/ S!render_billing_png(c)
    PROVE  PInv'
<1>0. /\ UNCHANGED <<meter, stored>> /\ job[c] \in Capturing
      /\ S!Write(c) \/ S!_delete_capture_token(c) \/ S!render_billing_png(c)
         \/ UNCHANGED deleted
  BY DEF S!Renders, PInv, S!render_billing_png, S!Write, S!_delete_capture_token,
         S!_mint_capture_token, S!MintFails, S!_trigger_capture_browser,
         S!_wait_for_devtools_port, S!_connect_transport, S!PageLoads, S!_drive_capture,
         S!Overrun, S!_close_browser_over_cdp, S!CloseFails, S!_end_capture_task
<1>1. ASSUME NEW j \in Capturing, job' = [job EXCEPT ![c] = j], UNCHANGED deleted,
             j.pc \in Early => job[c].pc \in Early,
             j.pc = "write" => j.page # <<>>,
             j.anchor = job[c].anchor, j.stem = job[c].stem, j.page = job[c].page
      PROVE  PInv'
  <2>1. c \notin deleted => Truthful(j)
    BY <1>1 DEF PInv, Truthful
  <2> QED BY <1>0, <1>1, <2>1, CaptureMoves
<1>2. CASE S!render_billing_png(c)
  <2>1. CASE S!Go(c, "mint") /\ UNCHANGED deleted
    <3>1. job[c].pc \in Early /\ "mint" \in Steps \ {"write"}
      BY <1>2 DEF S!render_billing_png, S!At, Early, Steps
    <3> QED BY <1>0, <2>1, <3>1, GoKeepsPicture
  <2>2. CASE S!Ends(c)
    BY <1>0, <2>2, EndsKeepsPicture
  <2> QED BY <1>2, <2>1, <2>2 DEF S!render_billing_png
<1>3. CASE S!_mint_capture_token(c)
  <2> PICK classic \in BOOLEAN :
          job' = [job EXCEPT ![c].pc = "trigger", ![c].token = TRUE, ![c].classic = classic]
    BY <1>3 DEF S!_mint_capture_token
  <2> DEFINE j == [job[c] EXCEPT !.pc = "trigger", !.token = TRUE, !.classic = classic]
  <2>1. job' = [job EXCEPT ![c] = j]
    BY <1>0 DEF PInv, Capturing
  <2>2. j \in Capturing /\ j.pc = "trigger" /\ j.anchor = job[c].anchor
        /\ j.stem = job[c].stem /\ j.page = job[c].page
    <3>1. "trigger" \in Steps
      BY DEF Steps, Early
    <3> QED BY <1>0, <3>1 DEF Capturing
  <2>3. job[c].pc \in Early /\ UNCHANGED deleted
    BY <1>3 DEF S!_mint_capture_token, S!At, Early
  <2> HIDE DEF j
  <2> QED BY <1>1, <2>1, <2>2, <2>3
<1>4. CASE S!_wait_for_devtools_port(c)
  <2> DEFINE j == [job[c] EXCEPT !.pc = "connect", !.port = TRUE]
  <2>1. job' = [job EXCEPT ![c] = j]
    <3>1. job' = [job EXCEPT ![c].pc = "connect", ![c].port = TRUE]
      BY <1>4 DEF S!_wait_for_devtools_port
    <3> QED BY <1>0, <3>1 DEF PInv, Capturing
  <2>2. j \in Capturing /\ j.pc = "connect" /\ j.anchor = job[c].anchor
        /\ j.stem = job[c].stem /\ j.page = job[c].page
    <3>1. "connect" \in Steps
      BY DEF Steps, Early
    <3> QED BY <1>0, <3>1 DEF Capturing
  <2>3. job[c].pc \in Early /\ UNCHANGED deleted
    BY <1>4 DEF S!_wait_for_devtools_port, S!At, Early
  <2> HIDE DEF j
  <2> QED BY <1>1, <2>1, <2>2, <2>3
<1>5. CASE S!_drive_capture(c) \/ S!Overrun(c)
  <2>1. UNCHANGED deleted /\ \E picture \in {<<>>, job[c].page} : S!Done(c, picture)
    BY <1>5 DEF S!_drive_capture, S!Overrun
  <2> QED BY <1>0, <2>1, DoneKeepsPicture
<1>6. CASE S!_delete_capture_token(c)
  <2>1. CASE S!Ends(c)
    BY <1>0, <2>1, EndsKeepsPicture
  <2>2. CASE /\ job[c].page # <<>> /\ UNCHANGED deleted
             /\ job' = [job EXCEPT ![c].pc = "write", ![c].token = FALSE]
    <3> DEFINE j == [job[c] EXCEPT !.pc = "write", !.token = FALSE]
    <3>1. job' = [job EXCEPT ![c] = j]
      BY <1>0, <2>2 DEF PInv, Capturing
    <3>2. j \in Capturing /\ j.pc = "write" /\ j.anchor = job[c].anchor
          /\ j.stem = job[c].stem /\ j.page = job[c].page
      <4>1. "write" \in Steps
        BY DEF Steps
      <4> QED BY <1>0, <4>1 DEF Capturing
    <3>3. j.pc \notin Early
      BY <3>2 DEF Early
    <3> HIDE DEF j
    <3> QED BY <1>1, <2>2, <3>1, <3>2, <3>3
  <2> QED BY <1>6, <2>1, <2>2 DEF S!_delete_capture_token, S!Release
<1>7. CASE S!Write(c)
  BY <1>0, <1>7, EndsKeepsPicture DEF S!Write
<1>8. CASE S!PageLoads(c)
  BY <1>8, PageShows
<1>9. CASE \/ S!MintFails(c) \/ S!_trigger_capture_browser(c) \/ S!_connect_transport(c)
           \/ S!_close_browser_over_cdp(c) \/ S!CloseFails(c) \/ S!_end_capture_task(c)
  <2>1. UNCHANGED deleted
    BY <1>9 DEF S!MintFails, S!_trigger_capture_browser, S!_connect_transport,
                S!_close_browser_over_cdp, S!CloseFails, S!_end_capture_task
  <2>2. \E step \in {"end", "port", "drive", "token"} :
          S!Go(c, step) /\ (step \in {"port", "drive"} => job[c].pc \in {"trigger", "connect"})
    BY <1>9 DEF S!MintFails, S!_trigger_capture_browser, S!_connect_transport, S!At,
                S!_close_browser_over_cdp, S!CloseFails, S!_end_capture_task
  <2>3. PICK step \in {"end", "port", "drive", "token"} :
          S!Go(c, step) /\ (step \in {"port", "drive"} => job[c].pc \in {"trigger", "connect"})
    BY <2>2
  <2>4. step \in Steps \ {"write"} /\ (step \in Early => job[c].pc \in Early)
    BY <2>3 DEF Steps, Early
  <2> QED BY <1>0, <2>1, <2>3, <2>4, GoKeepsPicture
<1> QED BY <1>2, <1>3, <1>4, <1>5, <1>6, <1>7, <1>8, <1>9 DEF S!Renders

\* A read stores what closed after everything that is shown.
LEMMA StoreKeepsPicture ==
    ASSUME PInv, S!StoreBilling
    PROVE  PInv'
<1> DEFINE ats == {0} \cup {p.at : p \in meter}
           n   == 1 + S!Max(ats)
<1>a. PICK seqs \in {{}, {0}, {0, 1}} :
      LET held == S!NewestOf(meter \cup {[at |-> n, seq |-> s] : s \in seqs}, RING)
          new  == {p \in held : \A r \in stored : r.period # p}
      IN  /\ seqs # {} => n <= MaxStamp
          /\ new # {} /\ S!LastId + S!Cardinality(new) <= MaxId
          /\ meter' = held
          /\ stored' = stored \cup
               {[id |-> S!LastId + 1 + S!Cardinality({q \in new : S!Newer(q, p)}),
                 period |-> p] : p \in new}
  BY DEF S!StoreBilling
<1> DEFINE cand == meter \cup {[at |-> n, seq |-> s] : s \in seqs}
           held == S!NewestOf(cand, RING)
           new  == {p \in held : \A r \in stored : r.period # p}
           above(p) == {q \in new : S!Newer(q, p)}
           id(p) == S!LastId + 1 + Cardinality(above(p))
<1>0. UNCHANGED <<job, deleted>> /\ RING \in Nat /\ MaxStamp \in Nat /\ MaxId \in Nat
  BY DocumentsAssumption DEF S!StoreBilling
<1>1. /\ S!Max(ats) \in Nat /\ \A p \in meter : p.at <= S!Max(ats)
      /\ S!Max(ats) = 0 \/ \E p \in meter : p.at = S!Max(ats)
  <2>1. ats \in SUBSET (0 .. MaxStamp) /\ ats # {}
    BY <1>0 DEF PInv, Tables, S!Period
  <2>2. Max(ats) \in ats /\ \A y \in ats : Max(ats) >= y
    <3> HIDE DEF ats
    <3> QED BY <1>0, <2>1, HasMax
  <2>3. S!Max(ats) = Max(ats)
    BY SameCount
  <2>4. \A p \in meter : p.at \in ats
    OBVIOUS
  <2>5. S!Max(ats) = 0 \/ \E p \in meter : p.at = S!Max(ats)
    BY <2>2, <2>3
  <2>6. S!Max(ats) \in Nat /\ \A p \in meter : p.at <= S!Max(ats)
    <3> HIDE DEF ats
    <3>1. \A y \in ats : y \in Nat /\ y <= Max(ats)
      BY <1>0, <2>1, <2>2
    <3> QED BY <2>2, <2>3, <2>4, <3>1
  <2> QED BY <2>5, <2>6
<1>2. n \in Nat /\ n # 0 /\ \A p \in meter : p.at < n
  BY <1>0, <1>1 DEF PInv, Tables, S!Period
<1>3. /\ (seqs # {} => n <= MaxStamp) /\ new # {} /\ meter' = held
      /\ S!LastId + Cardinality(new) <= MaxId
      /\ stored' = stored \cup {[id |-> id(p), period |-> p] : p \in new}
  <2>1. \A T : S!Cardinality(T) = Cardinality(T)
    BY SameCount
  <2> HIDE DEF n
  <2> QED BY <1>a, <2>1
<1> HIDE DEF ats, n
<1>4. cand \in SUBSET S!Period /\ \A p \in cand \ meter : p.at = n
  BY <1>2, <1>3 DEF PInv, Tables, S!Period
<1> HIDE DEF cand
<1>5. held \in SUBSET cand /\ new \in SUBSET held
  BY DEF S!NewestOf
<1> HIDE DEF held
\* The newest of what there is is kept.
<1>6. \E top \in held : \A p \in cand : p.at <= top.at
  <2>1. \E x \in cand : \A q \in cand : ~S!Newer(q, x)
    <3> DEFINE T == {p.at : p \in cand}
    <3>1. T \in SUBSET (0 .. MaxStamp) /\ T # {}
      BY <1>0, <1>3, <1>4, <1>5 DEF S!Period
    <3>2. Max(T) \in T /\ \A y \in T : Max(T) >= y
      <4> HIDE DEF T
      <4> QED BY <1>0, <3>1, HasMax
    <3>3. PICK y \in cand : y.at = Max(T)
      BY <3>2
    <3>4. \A q \in cand : q.at <= y.at
      BY <1>4, <3>2, <3>3 DEF S!Period
    <3> HIDE DEF T
    <3>5. CASE \E z \in cand : z.at = y.at /\ z.seq = 0
      <4> PICK z \in cand : z.at = y.at /\ z.seq = 0
        BY <3>5
      <4>1. \A q \in cand : ~S!Newer(q, z)
        BY <1>4, <3>4 DEF S!Newer, S!Period
      <4> QED BY <4>1
    <3>6. CASE \A z \in cand : ~(z.at = y.at /\ z.seq = 0)
      <4>1. \A q \in cand : ~S!Newer(q, y)
        BY <1>4, <3>4, <3>6 DEF S!Newer, S!Period
      <4> QED BY <4>1
    <3> QED BY <3>5, <3>6
  <2>2. PICK x \in cand : \A q \in cand : ~S!Newer(q, x)
    BY <2>1
  <2>3. x \in held
    BY <1>0, <1>3, <1>4, <1>5, <2>2, NewestHasNewest DEF held
  <2>4. \A p \in cand : p.at <= x.at
    BY <1>4, <2>2 DEF S!Newer, S!Period
  <2> QED BY <2>3, <2>4
\* Every new row has an id of its own, after those given out.
<1>7. /\ S!LastId \in Nat /\ \A r \in stored : r.id <= S!LastId
  <2> DEFINE T == {0} \cup {r.id : r \in stored}
  <2>1. T \in SUBSET (0 .. MaxId) /\ T # {}
    BY <1>0 DEF PInv, Tables, Row
  <2>2. Max(T) \in T /\ \A y \in T : Max(T) >= y
    <3> HIDE DEF T
    <3> QED BY <1>0, <2>1, HasMax
  <2>3. S!LastId = Max(T)
    BY SameCount DEF S!LastId
  <2>4. \A r \in stored : r.id \in T
    OBVIOUS
  <2> HIDE DEF T
  <2>5. \A y \in T : y \in Nat /\ y <= Max(T)
    BY <1>0, <2>1, <2>2
  <2> QED BY <2>2, <2>3, <2>4, <2>5
<1>8. new \in SUBSET S!Period /\ IsFiniteSet(new) /\ Cardinality(new) \in Nat
  <2>1. new \in SUBSET S!Period
    BY <1>4, <1>5
  <2> HIDE DEF new
  <2> QED BY <2>1, PeriodsAreFinite, FS_Subset, FS_CardinalityType
<1> HIDE DEF new
<1>9. \A p \in new : /\ IsFiniteSet(above(p)) /\ Cardinality(above(p)) \in Nat
                     /\ Cardinality(above(p)) < Cardinality(new)
  <2> TAKE p \in new
  <2>1. above(p) \in SUBSET new /\ p \notin above(p)
    BY <1>8, NewerIsOrder
  <2>2. IsFiniteSet(above(p)) /\ Cardinality(above(p)) <= Cardinality(new)
        /\ Cardinality(above(p)) # Cardinality(new)
    <3> HIDE DEF above
    <3> QED BY <1>8, <2>1, FS_Subset
  <2> HIDE DEF above
  <2> QED BY <1>8, <2>2, FS_CardinalityType
<1>10. \A p, q \in new : S!Newer(p, q) => Cardinality(above(p)) < Cardinality(above(q))
  <2> SUFFICES ASSUME NEW p \in new, NEW q \in new, S!Newer(p, q)
               PROVE  Cardinality(above(p)) < Cardinality(above(q))
    OBVIOUS
  <2>1. above(p) \in SUBSET above(q) /\ p \in above(q) /\ p \notin above(p)
    BY <1>8, NewerIsOrder
  <2>2. Cardinality(above(p)) <= Cardinality(above(q))
        /\ Cardinality(above(p)) # Cardinality(above(q))
    <3> HIDE DEF above
    <3> QED BY <1>9, <2>1, FS_Subset
  <2> HIDE DEF above
  <2> QED BY <1>9, <2>2
<1>11. /\ \A p \in new : id(p) \in 1 .. MaxId /\ id(p) > S!LastId
       /\ \A p, q \in new : id(p) = id(q) => p = q
  <2>1. \A p \in new : id(p) \in 1 .. MaxId /\ id(p) > S!LastId
    <3> HIDE DEF above
    <3> QED BY <1>0, <1>3, <1>7, <1>8, <1>9
  <2>2. ASSUME NEW p \in new, NEW q \in new, id(p) = id(q)
        PROVE  p = q
    <3>1. Cardinality(above(p)) = Cardinality(above(q))
      <4> HIDE DEF above
      <4> QED BY <1>7, <1>9, <2>2
    <3>2. ~S!Newer(p, q) /\ ~S!Newer(q, p)
      <4> HIDE DEF above
      <4> QED BY <1>9, <1>10, <3>1
    <3> QED BY <1>8, <3>2, NewerIsOrder
  <2> QED BY <2>1, <2>2
<1> HIDE DEF id, above
<1>12. /\ stored \in SUBSET stored'
       /\ \A r \in stored' \ stored :
            r.period \in new /\ r = [id |-> id(r.period), period |-> r.period]
       /\ \A p \in new : [id |-> id(p), period |-> p] \in stored'
       /\ \A p \in new : \A r \in stored : r.period # p
  BY <1>3 DEF new
<1>13. Tables'
  <2>1. meter' \in SUBSET S!Period
    BY <1>3, <1>4, <1>5
  <2>2. stored' \in SUBSET Row
    BY <1>8, <1>11, <1>12 DEF PInv, Tables, Row
  <2>3. ASSUME NEW r \in stored', NEW s \in stored', r.id = s.id \/ r.period = s.period
        PROVE  r = s
    <3>1. CASE r \in stored /\ s \in stored
      BY <2>3, <3>1 DEF PInv, Tables
    <3>2. CASE r \in stored /\ s \notin stored
      BY <1>7, <1>11, <1>12, <2>2, <2>3, <3>2 DEF Row
    <3>3. CASE r \notin stored /\ s \in stored
      BY <1>7, <1>11, <1>12, <2>2, <2>3, <3>3 DEF Row
    <3>4. CASE r \notin stored /\ s \notin stored
      BY <1>11, <1>12, <2>3, <3>4
    <3> QED BY <3>1, <3>2, <3>3, <3>4
  <2>4. \A p \in meter' : \E r \in stored' : r.period = p
    <3> TAKE p \in meter'
    <3>1. CASE p \in new
      BY <1>12, <3>1
    <3>2. CASE p \notin new
      <4>1. \E r \in stored : r.period = p
        BY <1>3, <3>2 DEF new
      <4> QED BY <1>12, <4>1
    <3> QED BY <3>1, <3>2
  <2>5. \A r \in stored' : \E p \in meter' : r.period.at <= p.at
    <3> TAKE r \in stored'
    <3>1. PICK top \in held : \A p \in cand : p.at <= top.at
      BY <1>6
    <3>2. \E p \in cand : r.period.at <= p.at
      <4>1. CASE r \in stored
        <5>1. meter \in SUBSET cand
          BY DEF cand
        <5> QED BY <4>1, <5>1 DEF PInv, Tables
      <4>2. CASE r \notin stored
        <5>1. r.period \in new
          BY <1>12, <4>2
        <5>2. r.period.at <= r.period.at /\ r.period \in cand
          BY <1>5, <1>8, <5>1 DEF S!Period
        <5> QED BY <5>2
      <4> QED BY <4>1, <4>2
    <3>3. r.period \in S!Period /\ top \in S!Period
      BY <1>4, <1>5, <2>2 DEF Row
    <3>4. r.period.at <= top.at
      BY <1>4, <3>1, <3>2, <3>3 DEF S!Period
    <3> QED BY <1>3, <3>4
  <2> QED BY <2>1, <2>2, <2>3, <2>4, <2>5 DEF Tables
<1>14. ASSUME NEW c \in Caller \ deleted
       PROVE  Truthful(job[c])'
  <2>1. Truthful(job[c])
    BY DEF PInv
  <2>2. ASSUME Shows(job[c].page, job[c].stem), job[c].page # <<>>
        PROVE  Shows(job[c].page, job[c].stem)'
    <3> DEFINE page == job[c].page
    <3>0. Len(page) \in Nat
      BY DEF PInv, Capturing
    <3>1. ASSUME NEW k \in 1 .. Len(page) - 1, NEW p \in meter',
                 S!Newer(p, page[k].period), S!Newer(page[k + 1].period, p)
          PROVE  FALSE
      <4>1. page[k + 1] \in stored
        BY <2>2, <3>0 DEF Shows
      <4>2. page[k + 1].period \in S!Period
        BY <4>1 DEF PInv, Tables, Row
      <4>3. PICK m \in meter : page[k + 1].period.at <= m.at
        BY <4>1 DEF PInv, Tables
      <4>4. p \in S!Period /\ p.at <= page[k + 1].period.at
        BY <1>3, <1>4, <1>5, <3>1, <4>2 DEF S!Newer, S!Period
      <4>5. p \in meter
        BY <1>2, <1>3, <1>4, <1>5, <4>2, <4>3, <4>4 DEF PInv, Tables, S!Period
      <4> QED BY <2>2, <3>1, <4>5 DEF Shows
    <3>2. page' = page /\ job[c].stem' = job[c].stem
      BY <1>0
    <3>3. /\ page[Len(page)].period = job[c].stem
          /\ \A k \in 1 .. Len(page) : page[k] \in stored'
          /\ \A k \in 1 .. Len(page) - 1 : S!Newer(page[k + 1].period, page[k].period)
      BY <1>12, <2>2 DEF Shows
    <3> QED BY <1>0, <3>1, <3>3 DEF Shows
  <2> QED BY <1>0, <1>12, <2>1, <2>2 DEF Truthful
<1> QED BY <1>0, <1>13, <1>14 DEF PInv

LEMMA OthersKeepPicture ==
    ASSUME PInv, S!EdgeStarts \/ S!EdgeDies \/ S!Restart \/ S!clear_readings \/ UNCHANGED S!vars
    PROVE  PInv'
<1>1. CASE S!EdgeStarts \/ S!EdgeDies \/ UNCHANGED S!vars
  <2>1. UNCHANGED <<meter, stored, job, deleted>>
    BY <1>1 DEF S!EdgeStarts, S!EdgeDies, S!vars
  <2> QED BY <2>1 DEF PInv, Tables, Truthful, Shows
<1>2. CASE S!Restart
  <2>1. UNCHANGED <<meter, stored>> /\ job' = [c \in Caller |-> S!Idle]
    BY <1>2 DEF S!Restart
  <2>2. Tables' /\ \A c \in Caller : job'[c] = S!Idle
    BY <2>1 DEF PInv, Tables
  <2>3. \A c \in Caller : Truthful(job[c])'
    BY <2>2 DEF Truthful, S!Idle, Early
  <2> QED BY <2>1, <2>2, <2>3, IdleShowsNothing DEF PInv
<1>3. CASE S!clear_readings
  <2>1. UNCHANGED <<meter, job>> /\ stored' = {} /\ deleted' = {c \in Caller : job[c] # S!Idle}
    BY <1>3 DEF S!clear_readings
  <2>2. Tables'
    BY <2>1 DEF PInv, Tables
  <2>3. \A c \in Caller \ deleted' : Truthful(job[c])'
    BY <2>1 DEF Truthful, S!Idle, Early
  <2> QED BY <2>1, <2>2, <2>3 DEF PInv
<1> QED BY <1>1, <1>2, <1>3

LEMMA PictureStep == PInv /\ [S!Next]_S!vars => PInv'
BY BeginsKeepsPicture, RendersKeepsPicture, StoreKeepsPicture, OthersKeepPicture DEF S!Next

LEMMA PictureIsTrue ==
    ASSUME PInv
    PROVE  \A c \in Caller : S!At(c, "write") /\ c \notin deleted /\ pictures' # pictures =>
             LET shown == [k \in DOMAIN job[c].page |-> job[c].page[k].period]
                 n     == Len(shown)
             IN  job'[c] = S!Idle =>
                   /\ shown[n] = job[c].stem
                   /\ \A k \in 1 .. n - 1 :
                        /\ S!Newer(shown[k + 1], shown[k])
                        /\ ~\E p \in meter : S!Newer(p, shown[k]) /\ S!Newer(shown[k + 1], p)
<1> SUFFICES ASSUME NEW c \in Caller, job[c].pc = "write", c \notin deleted
             PROVE  LET shown == [k \in DOMAIN job[c].page |-> job[c].page[k].period]
                        n     == Len(shown)
                    IN  /\ shown[n] = job[c].stem
                        /\ \A k \in 1 .. n - 1 :
                             /\ S!Newer(shown[k + 1], shown[k])
                             /\ ~\E p \in meter : S!Newer(p, shown[k]) /\ S!Newer(shown[k + 1], p)
  BY DEF S!At
<1> DEFINE page  == job[c].page
           shown == [k \in DOMAIN page |-> page[k].period]
<1>1. page \in Seq(Row) /\ page # <<>> /\ Shows(page, job[c].stem)
  BY DEF PInv, Capturing, Truthful
<1>2. DOMAIN page = 1 .. Len(page) /\ Len(page) \in Nat /\ Len(page) # 0
  <2> HIDE DEF page
  <2> QED BY <1>1
<1>3. Len(shown) = Len(page) /\ \A k \in 1 .. Len(page) : shown[k] = page[k].period
  <2> HIDE DEF page
  <2>1. shown = [k \in 1 .. Len(page) |-> page[k].period]
    BY <1>2
  <2> QED BY <1>2, <2>1
<1> HIDE DEF page, shown
<1>4. /\ shown[Len(page)] = job[c].stem
      /\ \A k \in 1 .. Len(page) - 1 :
           /\ S!Newer(shown[k + 1], shown[k])
           /\ ~\E p \in meter : S!Newer(p, shown[k]) /\ S!Newer(shown[k + 1], p)
  BY <1>1, <1>2, <1>3 DEF Shows
<1> QED BY <1>3, <1>4 DEF page, shown

-----------------------------------------------------------------------------
(* Reading and picturing together.                                          *)

(* A behaviour of the two is one of the billing read, so what is proved of  *)
(* the billing read holds of it.                                            *)
THEOREM StillBilling == DocumentsSpec => Spec
<1>1. DocumentsInit => Init
  BY DEF DocumentsInit
<1>2. [DocumentsNext]_all_vars => [Next]_vars
  BY DEF DocumentsNext, Reads, Images, all_vars
<1> QED BY <1>1, <1>2, PTL DEF DocumentsSpec, Spec

(* Wherever a capture is cancelled or fails, and however many threads wait  *)
(* for their turn, when a turn is over there is no browser, running task or *)
(* token of it left; only a mishap of the teardown itself, or the death of  *)
(* the process, leaves one.                                                 *)
THEOREM TurnIsTidy == DocumentsSpec => []NothingIsLeftBehind
<1>1. DocumentsInit => TInv
  BY TurnStart DEF DocumentsInit
<1>2. TInv /\ [DocumentsNext]_all_vars => TInv'
  <2>1. [DocumentsNext]_all_vars => [S!Next]_S!vars
    BY DEF DocumentsNext, Reads, Images, all_vars, image_vars, S!vars
  <2> QED BY <2>1, TurnStep
<1> QED BY <1>1, <1>2, TurnLeavesNothing, PTL DEF DocumentsSpec

(* An image shows the period it is named for as its newest, then what the   *)
(* meter closed before it without a gap: for any ring, limit and number of  *)
(* callers, though the page asks for its rows long after they were selected *)
(* and reads store more in between.  Only rows deleted under the capture    *)
(* are excepted.                                                            *)
THEOREM PictureIsOfItsPeriods == DocumentsSpec => PictureShowsItsPeriods
<1>1. DocumentsInit => PInv
  BY PictureStart DEF DocumentsInit
<1>2. PInv /\ [DocumentsNext]_all_vars => PInv'
  <2>1. [DocumentsNext]_all_vars => [S!Next]_S!vars
    BY DEF DocumentsNext, Reads, Images, all_vars, image_vars, S!vars
  <2> QED BY <2>1, PictureStep
<1> QED BY <1>1, <1>2, PictureIsTrue, PTL
  DEF DocumentsSpec, PictureShowsItsPeriods, S!PictureShowsItsPeriods
=============================================================================
