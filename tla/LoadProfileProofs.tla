-------------------------- MODULE LoadProfileProofs --------------------------
(***************************************************************************)
(* Proofs about the load-profile walk, for any ring, window, chunk and     *)
(* number of loggers, and any walkers at once.                             *)
(*                                                                         *)
(* NoHoleBehindWatermark speaks of the newest row stored.  It is not       *)
(* inductive: the next chunk goes where a walk has come to, and begins at  *)
(* a watermark read before the line was taken, while the other walk and    *)
(* retention change the rows.  So the same is said of every stored row, of *)
(* each watermark read and of each place reached (NoHoles).                *)
(*                                                                         *)
(* NothingIsLost speaks of the one moment a row goes; KeepsUp says what    *)
(* each visit has to leave behind for the next one to be in time.          *)
(*                                                                         *)
(* And about the read of one chunk: the entries that a meter with a ring   *)
(* is asked for are counted back from its newest row, by the program's     *)
(* clock.  NothingHeldIsMissed is about what is returned; inductive it is  *)
(* with what each round trip found: how many rows there were then, and     *)
(* that as many were logged since as the count has grown by, or more       *)
(* (CountIsClose).                                                         *)
(***************************************************************************)
EXTENDS ProfileReads, FiniteSetTheorems, NaturalsInduction, WellFoundedInduction, TLAPS

-----------------------------------------------------------------------------
(* The least and the most of a set of ages.                                 *)

LEMMA HasLeast ==
    ASSUME NEW T \in SUBSET Nat, T # {}
    PROVE  Min(T) \in T /\ \A y \in T : Min(T) <= y
<1>1. PICK x \in T : \A y \in T : ~(<<y, x>> \in OpToRel(<, Nat))
  BY NatLessThanWellFounded, WFMin
<1>2. \A y \in T : ~(y < x)
  BY <1>1 DEF OpToRel
<1>3. \A y \in T : x <= y
  BY <1>2
<1> QED BY <1>3 DEF Min

LEMMA HasMost ==
    ASSUME NEW M \in Nat, NEW T \in SUBSET (0 .. M), T # {}
    PROVE  Max(T) \in T /\ \A y \in T : Max(T) >= y
<1> DEFINE U == {m \in Nat : M - m \in T}
<1>1. U \in SUBSET Nat /\ U # {}
  <2> PICK t \in T : TRUE
    OBVIOUS
  <2>1. M - t \in Nat /\ M - (M - t) = t
    OBVIOUS
  <2> QED BY <2>1
<1>2. PICK m \in U : \A y \in U : m <= y
  <2> HIDE DEF U
  <2> QED BY <1>1, HasLeast
<1>3. M - m \in T /\ m \in Nat
  OBVIOUS
<1>4. \A y \in T : M - m >= y
  <2> TAKE y \in T
  <2>0. y \in 0 .. M
    OBVIOUS
  <2>1. M - y \in U
    BY <2>0
  <2>2. m <= M - y
    BY <1>2, <2>1
  <2> HIDE DEF U
  <2> QED BY <2>0, <2>2, <1>3
<1> QED BY <1>3, <1>4 DEF Max

-----------------------------------------------------------------------------
(* The inductive invariant.                                                 *)

\* All that the meter holds of the window beyond an age is stored.
Solid(l, b) == \A a \in recorded : b < a /\ a <= Window => a \in stored[l]

NoHoles ==
    /\ \A l \in Logger : \A a \in stored[l] : Solid(l, a)
    /\ \A w \in Walker, l \in Logger : walk[w].mark[l] # None => Solid(l, walk[w].mark[l])
    /\ \A w \in Walker : walk[w].at # None => Solid(walk[w].logger, walk[w].at)

\* A walk has a place only on the line, and an idle one has nothing.
WalksAreKempt ==
    \A w \in Walker : /\ walk[w].pc = "idle" => walk[w] = Idle
                      /\ walk[w].pc # "walking" => walk[w].at = None

HInv == TypeOK /\ WalksAreKempt /\ NoHoles

USE DEF Logger, Age, MaxAge, Ancient

LEMMA IdleIsAWalk == Idle \in Walk
BY ProfileAssumption DEF Idle, Walk

LEMMA IdleHasNothing ==
    /\ Idle.pc = "idle" /\ Idle.at = None /\ Idle.logger = 0
    /\ \A l \in Logger : Idle.mark[l] = None
BY DEF Idle

LEMMA StartsWhole == Init => HInv
<1> SUFFICES ASSUME Init PROVE HInv
  OBVIOUS
<1>1. TypeOK
  <2>1. walk \in [Walker -> Walk]
    BY IdleIsAWalk DEF Init
  <2>2. recorded \in SUBSET (0 .. Ancient)
    BY ProfileAssumption DEF Init
  <2>3. \A w \in Walker : walk[w].pc = "idle" /\ walk[w].logger = 0 /\ line # w
    BY ProfileAssumption DEF Init, Idle, Walker
  <2> QED BY <2>1, <2>2, <2>3 DEF TypeOK, Init
<1>2. WalksAreKempt
  BY DEF Init, WalksAreKempt, Idle
<1>3. NoHoles
  BY DEF Init, NoHoles, Idle
<1> QED BY <1>1, <1>2, <1>3 DEF HInv

\* The fields of a walk.
LEMMA WalkFields ==
    ASSUME TypeOK, NEW w \in Walker
    PROVE  /\ walk[w].pc \in {"idle", "waiting", "walking"}
           /\ walk[w].mark \in [Logger -> Age \cup {None}]
           /\ walk[w].end \in {0, 1}
           /\ walk[w].logger \in 0 .. Loggers
           /\ walk[w].at \in Age \cup {None}
           /\ walk[w].clean \in BOOLEAN
           /\ walk[w] = [pc |-> walk[w].pc, mark |-> walk[w].mark, end |-> walk[w].end,
                         logger |-> walk[w].logger, at |-> walk[w].at, clean |-> walk[w].clean]
BY DEF TypeOK, Walk

\* A walk on the line is at a logger.
LEMMA WalkingLogger ==
    ASSUME TypeOK, NEW w \in Walker, walk[w].pc = "walking"
    PROVE  walk[w].logger \in Logger /\ line = w
BY WalkFields, ProfileAssumption DEF TypeOK

-----------------------------------------------------------------------------
(* Where a chunk starts.                                                    *)

\* The meter's oldest row, or the window: nothing of the window lies beyond.
LEMMA NothingBeyond ==
    ASSUME TypeOK, NEW l \in Logger, NEW end \in {0, 1}, NEW start \in BackfillStarts(end)
    PROVE  start \in Age /\ Solid(l, start)
<1>0. Window \in Nat \ {0} /\ recorded \in SUBSET (0 .. Window + 3)
  BY ProfileAssumption DEF TypeOK
<1>1. CASE start = Floor(end)
  BY <1>0, <1>1 DEF Floor, Solid
<1>2. CASE start # Floor(end)
  <2>1. recorded # {} /\ start = Max(recorded) /\ Max(recorded) < Floor(end)
    BY <1>2 DEF BackfillStarts, Hint
  <2> DEFINE M == Window + 3
  <2>2. M \in Nat /\ recorded \in SUBSET (0 .. M)
    BY <1>0
  <2> HIDE DEF M
  <2>3. start \in recorded /\ \A a \in recorded : start >= a
    BY <2>1, <2>2, HasMost
  <2> QED BY <1>0, <2>1, <2>3 DEF Floor, Solid
<1> QED BY <1>1, <1>2

LEMMA StartIsSolid ==
    ASSUME HInv, NEW w \in Walker, walk[w].pc = "walking", NEW start \in ChunkStarts(w)
    PROVE  start \in Age /\ Solid(walk[w].logger, start)
<1>0. walk[w].logger \in Logger
  BY WalkingLogger DEF HInv
<1>1. CASE walk[w].at # None
  BY <1>1, WalkFields DEF ChunkStarts, HInv, NoHoles
<1>2. CASE walk[w].at = None /\ walk[w].mark[walk[w].logger] # None
  <2>1. start = walk[w].mark[walk[w].logger]
    BY <1>2 DEF ChunkStarts
  <2>2. walk[w].mark[walk[w].logger] \in Age \cup {None}
    BY <1>0, WalkFields DEF HInv
  <2> QED BY <1>0, <1>2, <2>1, <2>2 DEF HInv, NoHoles
<1>3. CASE walk[w].at = None /\ walk[w].mark[walk[w].logger] = None
  BY <1>0, <1>3, WalkFields, NothingBeyond DEF ChunkStarts, HInv
<1> QED BY <1>1, <1>2, <1>3

\* The watermark is a stored row.
LEMMA WatermarkIsStored ==
    ASSUME TypeOK, NEW l \in Logger, Watermark(l) # None
    PROVE  Watermark(l) \in stored[l] /\ Watermark(l) \in Age
<1>1. stored[l] \in SUBSET Nat /\ stored[l] \in SUBSET Age /\ stored[l] # {}
  BY ProfileAssumption DEF TypeOK, Watermark
<1> QED BY <1>1, HasLeast DEF Watermark

-----------------------------------------------------------------------------
(* Each step keeps the invariant.                                           *)

\* What a change of one walk has to keep of it.
WalkIsWhole(w, v, ln) ==
    /\ v \in Walk
    /\ ln = w <=> v.pc = "walking"
    /\ v.pc = "walking" <=> v.logger > 0
    /\ v.pc = "idle" => v = Idle
    /\ v.pc # "walking" => v.at = None
    /\ \A l \in Logger : v.mark[l] # None => Solid(l, v.mark[l])
    /\ v.at # None => Solid(v.logger, v.at)

\* One walk moves; the rows stay.
LEMMA OneWalkMoves ==
    ASSUME HInv, NEW w \in Walker, NEW v, walk' = [walk EXCEPT ![w] = v],
           UNCHANGED <<recorded, stored>>, service' \in {"due", "kept", "neglected"},
           WalkIsWhole(w, v, line'), line' \in Walker \cup {None},
           \A x \in Walker \ {w} : line' = x <=> line = x
    PROVE  HInv'
<1>1. /\ walk \in [Walker -> Walk] /\ walk'[w] = v
      /\ \A x \in Walker \ {w} : walk'[x] = walk[x]
  BY DEF HInv, TypeOK
<1>2. walk' \in [Walker -> Walk]
  BY <1>1 DEF WalkIsWhole
<1>3. TypeOK'
  BY <1>1, <1>2 DEF HInv, TypeOK, WalkIsWhole
<1>4. WalksAreKempt'
  BY <1>1 DEF HInv, WalksAreKempt, WalkIsWhole, Idle
<1>5. NoHoles'
  BY <1>1 DEF HInv, NoHoles, WalkIsWhole, Solid
<1> QED BY <1>3, <1>4, <1>5 DEF HInv

LEMMA IdleIsWhole ==
    ASSUME HInv, NEW w \in Walker, NEW ln, ln # w
    PROVE  WalkIsWhole(w, Idle, ln)
BY IdleIsAWalk, ProfileAssumption DEF WalkIsWhole, Idle

LEMMA BeginKeeps ==
    ASSUME HInv, NEW w \in Walker, Begin(w)
    PROVE  HInv'
<1> DEFINE m == [l \in Logger |-> Watermark(l)]
           v == [Idle EXCEPT !.pc = "waiting", !.mark = m]
<1>1. walk' = [walk EXCEPT ![w] = v] /\ UNCHANGED <<recorded, stored, line, service>>
  BY DEF Begin
<1>2. \A l \in Logger : m[l] # None => m[l] \in Age /\ Solid(l, m[l])
  BY WatermarkIsStored DEF HInv, NoHoles
<1>3. m \in [Logger -> Age \cup {None}]
  BY <1>2
<1> HIDE DEF m
<1>4. v \in Walk /\ v.pc = "waiting" /\ v.mark = m /\ v.at = None /\ v.logger = 0
  BY <1>3, IdleIsAWalk, IdleHasNothing DEF Walk
<1>5. line # w
  BY DEF HInv, TypeOK, Begin
<1> HIDE DEF v
<1>6. WalkIsWhole(w, v, line')
  BY <1>1, <1>2, <1>4, <1>5 DEF WalkIsWhole
<1> QED BY <1>1, <1>6, OneWalkMoves DEF HInv, TypeOK

LEMMA GiveUpKeeps ==
    ASSUME HInv, NEW w \in Walker, GiveUp(w)
    PROVE  HInv'
<1>1. line' # w
  BY DEF HInv, TypeOK, GiveUp
<1> QED BY <1>1, IdleIsWhole, OneWalkMoves DEF GiveUp, HInv, TypeOK

LEMMA LeaveKeeps ==
    ASSUME HInv, NEW w \in Walker, walk[w].pc = "walking", NEW clean \in BOOLEAN,
           Leave(w, clean), UNCHANGED <<recorded, stored>>
    PROVE  HInv'
<1>1. line = w /\ line' = None /\ None # w /\ \A x \in Walker : x # None
  BY ProfileAssumption, WalkingLogger DEF HInv, Leave, Walker
<1>2. service' \in {"due", "kept", "neglected"}
  BY DEF Leave, HInv, TypeOK
<1> QED BY <1>1, <1>2, IdleIsWhole, OneWalkMoves DEF Leave

LEMMA TakeKeeps ==
    ASSUME HInv, NEW w \in Walker, Take(w)
    PROVE  HInv'
<1> DEFINE v == [pc |-> "walking", mark |-> walk[w].mark, end |-> walk[w].end, logger |-> 1,
                 at |-> walk[w].at, clean |-> walk[w].clean]
<1>1. walk' = [walk EXCEPT ![w] = v]
  BY WalkFields DEF Take, HInv, TypeOK
<1>2. v \in Walk
  <2>1. /\ walk[w].mark \in [Logger -> Age \cup {None}] /\ walk[w].end \in {0, 1}
        /\ walk[w].at \in Age \cup {None} /\ walk[w].clean \in BOOLEAN
    BY WalkFields DEF HInv
  <2>2. 1 \in 0 .. Loggers
    BY ProfileAssumption
  <2> QED BY <2>1, <2>2 DEF Walk
<1>3. walk[w].at = None
  BY DEF Take, HInv, WalksAreKempt
<1>4. WalkIsWhole(w, v, line')
  BY <1>2, <1>3, WalkFields DEF WalkIsWhole, Take, HInv, NoHoles
<1>5. /\ UNCHANGED <<recorded, stored, service>> /\ line = None /\ line' = w
      /\ \A x \in Walker \ {w} : line' # x /\ line # x
  BY ProfileAssumption DEF Take, Walker
<1> HIDE DEF v
<1> QED BY <1>1, <1>4, <1>5, OneWalkMoves DEF HInv, TypeOK

LEMMA NextLoggerKeeps ==
    ASSUME HInv, NEW w \in Walker, walk[w].pc = "walking", NEW clean \in BOOLEAN,
           NextLogger(w, clean), UNCHANGED <<recorded, stored>>
    PROVE  HInv'
<1>1. CASE walk[w].logger < Loggers
  <2> DEFINE v == [pc |-> "walking", mark |-> walk[w].mark, end |-> walk[w].end,
                   logger |-> walk[w].logger + 1, at |-> None, clean |-> clean]
  <2>1. walk' = [walk EXCEPT ![w] = v] /\ UNCHANGED <<line, service>>
    BY <1>1, WalkFields DEF NextLogger, HInv, TypeOK
  <2>2. walk[w].logger + 1 \in 0 .. Loggers /\ walk[w].logger + 1 > 0
    <3>1. walk[w].logger \in 0 .. Loggers /\ Loggers \in Nat
      BY WalkFields, ProfileAssumption DEF HInv
    <3> QED BY <1>1, <3>1
  <2>3. line = w
    BY WalkingLogger DEF HInv
  <2>5. v \in Walk
    <3>1. walk[w].mark \in [Logger -> Age \cup {None}] /\ walk[w].end \in {0, 1}
      BY WalkFields DEF HInv
    <3> QED BY <2>2, <3>1 DEF Walk
  <2>4. WalkIsWhole(w, v, line')
    BY <2>1, <2>2, <2>3, <2>5 DEF WalkIsWhole, HInv, NoHoles
  <2> HIDE DEF v
  <2> QED BY <2>1, <2>4, OneWalkMoves DEF HInv, TypeOK
<1>2. CASE ~(walk[w].logger < Loggers)
  BY <1>2, LeaveKeeps DEF NextLogger
<1> QED BY <1>1, <1>2

\* A chunk reaches down from where all above is stored.
LEMMA ReadChunkKeeps ==
    ASSUME HInv, NEW w \in Walker, ReadChunk(w)
    PROVE  HInv'
<1>1. PICK start \in ChunkStarts(w) :
         /\ start > walk[w].end
         /\ LET stop == IF start >= walk[w].end + Chunk THEN start - Chunk ELSE walk[w].end
            IN  /\ stored' = [stored EXCEPT ![walk[w].logger] =
                                @ \cup {a \in recorded : stop <= a /\ a <= start}]
                /\ walk' = [walk EXCEPT ![w].at = stop, ![w].clean = @ /\ ~HintFailed(w, start)]
  BY DEF ReadChunk
<1>2. PICK k \in Logger : k = walk[w].logger
  BY WalkingLogger DEF ReadChunk, HInv
<1>3. /\ start \in Age /\ Solid(k, start) /\ line = w /\ walk[w].pc = "walking"
      /\ UNCHANGED <<recorded, line, service>>
  BY <1>2, StartIsSolid, WalkingLogger DEF ReadChunk, HInv
<1>4. PICK stop \in Age :
         /\ stop <= start
         /\ stop = IF start >= walk[w].end + Chunk THEN start - Chunk ELSE walk[w].end
  <2>0. walk[w].end \in {0, 1}
    BY WalkFields DEF HInv
  <2>1. start \in Nat /\ walk[w].end \in Nat /\ Chunk \in Nat /\ Window \in Nat
    BY <1>3, <2>0, ProfileAssumption
  <2> QED BY <1>1, <1>3, <2>1
<1> DEFINE got == {a \in recorded : stop <= a /\ a <= start}
<1>5. stored' = [stored EXCEPT ![k] = @ \cup got] /\ stored \in [Logger -> SUBSET Age]
  BY <1>1, <1>2, <1>4 DEF HInv, TypeOK
<1>6. recorded \in SUBSET Nat /\ start \in Nat /\ stop \in Nat /\ Window \in Nat
  BY <1>3, ProfileAssumption DEF HInv, TypeOK
<1>7. \A a \in got : a \in Age /\ a \in recorded /\ a \in Nat /\ stop <= a
  BY <1>3, <1>6
<1>8. PICK ok \in BOOLEAN : ok = (walk[w].clean /\ ~HintFailed(w, start))
  BY WalkFields DEF HInv
<1>9. walk' = [walk EXCEPT ![w].at = stop, ![w].clean = ok] /\ walk \in [Walker -> Walk]
  BY <1>1, <1>4, <1>8 DEF HInv, TypeOK
<1> DEFINE v == walk'[w]
<1>10. v.at = stop /\ v.pc = "walking" /\ v.logger = k /\ v.mark = walk[w].mark /\ v \in Walk
  <2>1. walk[w] \in Walk
    BY <1>9
  <2> QED BY <1>2, <1>3, <1>9, <2>1 DEF Walk
<1>11. \A x \in Walker : walk'[x] = IF x = w THEN v ELSE walk[x]
  BY <1>9
<1>12. walk' \in [Walker -> Walk] /\ k > 0
  <2>1. walk' = [x \in Walker |-> walk'[x]]
    BY <1>9
  <2>2. \A x \in Walker : walk'[x] \in Walk
    BY <1>9, <1>10, <1>11
  <2> QED BY <2>1, <2>2, ProfileAssumption
<1> HIDE DEF v
<1>13. stored' \in [Logger -> SUBSET Age] /\ \A l \in Logger : stored[l] \in SUBSET stored'[l]
  <2> HIDE DEF got
  <2> QED BY <1>5, <1>7
<1>14. \A l \in Logger : \A b : Solid(l, b) => Solid(l, b)'
  BY <1>3, <1>13 DEF Solid
<1>15. \A b \in Nat : stop <= b => Solid(k, b)'
  <2> SUFFICES ASSUME NEW b \in Nat, stop <= b, NEW a \in recorded, b < a, a <= Window
               PROVE  a \in stored'[k]
    BY <1>3 DEF Solid
  <2>1. CASE a <= start
    <3>1. a \in got
      BY <1>6, <2>1
    <3> HIDE DEF got
    <3> QED BY <1>5, <3>1
  <2>2. CASE ~(a <= start)
    BY <1>3, <1>6, <1>13, <2>2 DEF Solid
  <2> QED BY <2>1, <2>2
<1>16. TypeOK'
  BY <1>3, <1>10, <1>11, <1>12, <1>13 DEF HInv, TypeOK
<1>17. WalksAreKempt'
  BY <1>10, <1>11 DEF HInv, WalksAreKempt, Idle
<1>18. NoHoles'
  <2>1. ASSUME NEW l \in Logger, NEW a \in stored'[l]
        PROVE  Solid(l, a)'
    <3>1. CASE a \in stored[l]
      BY <1>14, <3>1 DEF HInv, NoHoles
    <3>2. CASE a \notin stored[l]
      <4>1. l = k /\ a \in got
        <5> HIDE DEF got
        <5> QED BY <1>5, <3>2
      <4> QED BY <1>7, <1>15, <4>1
    <3> QED BY <3>1, <3>2
  <2>2. ASSUME NEW x \in Walker, NEW l \in Logger, walk'[x].mark[l] # None
        PROVE  Solid(l, walk[x].mark[l])'
    <3>1. walk'[x].mark = walk[x].mark
      BY <1>10, <1>11
    <3>2. Solid(l, walk[x].mark[l])
      BY <2>2, <3>1 DEF HInv, NoHoles
    <3> QED BY <1>3, <1>13, <3>1, <3>2 DEF Solid
  <2>3. ASSUME NEW x \in Walker, walk'[x].at # None
        PROVE  Solid(walk[x].logger, walk[x].at)'
    <3>1. CASE x = w
      <4>1. walk'[x].at = stop /\ walk'[x].logger = k
        <5>1. v.at = stop /\ v.logger = k
          BY <1>10
        <5>2. walk'[x] = v
          BY <1>11, <3>1
        <5> HIDE DEF v
        <5> QED BY <5>1, <5>2
      <4> QED BY <1>6, <1>15, <4>1 DEF Solid
    <3>2. CASE x # w
      <4>1. walk'[x] = walk[x]
        BY <1>11, <3>2
      <4>2. Solid(walk[x].logger, walk[x].at) /\ walk[x].logger \in Logger
        BY <2>3, <4>1, WalkFields, WalkingLogger DEF HInv, NoHoles, WalksAreKempt
      <4> QED BY <1>3, <1>13, <4>1, <4>2 DEF Solid
    <3> QED BY <3>1, <3>2
  <2> QED BY <2>1, <2>2, <2>3 DEF NoHoles
<1> QED BY <1>16, <1>17, <1>18 DEF HInv

\* Retention takes rows that lie beyond the window.
LEMMA PurgeKeeps ==
    ASSUME HInv, purge_expired
    PROVE  HInv'
<1>1. /\ stored' = [l \in Logger |-> {a \in stored[l] : a <= Window}]
      /\ UNCHANGED <<recorded, line, walk, service>> /\ stored \in [Logger -> SUBSET Age]
  BY DEF purge_expired, HInv, TypeOK
<1>2. TypeOK' /\ WalksAreKempt'
  BY <1>1 DEF HInv, TypeOK, WalksAreKempt, Idle
<1>3. \A l \in Logger : /\ stored'[l] \in SUBSET stored[l]
                        /\ \A a \in stored[l] : a <= Window => a \in stored'[l]
  BY <1>1
<1>4. NoHoles'
  <2>1. \A l \in Logger, a \in Age : Solid(l, a) => Solid(l, a)'
    BY <1>1, <1>3 DEF Solid
  <2>2. \A l \in Logger : \A a \in stored'[l] : Solid(l, a)'
    BY <1>1, <1>3, <2>1 DEF HInv, NoHoles
  <2>3. ASSUME NEW w \in Walker, NEW l \in Logger, walk[w].mark[l] # None
        PROVE  Solid(l, walk[w].mark[l])'
    <3>1. Solid(l, walk[w].mark[l])
      BY <2>3 DEF HInv, NoHoles
    <3> QED BY <1>1, <1>3, <3>1 DEF Solid
  <2>4. ASSUME NEW w \in Walker, walk[w].at # None
        PROVE  Solid(walk[w].logger, walk[w].at)'
    <3>1. Solid(walk[w].logger, walk[w].at) /\ walk[w].logger \in Logger
      BY <2>4, WalkFields, WalkingLogger DEF HInv, NoHoles, WalksAreKempt
    <3> QED BY <1>1, <1>3, <3>1 DEF Solid
  <2> QED BY <1>1, <2>2, <2>3, <2>4 DEF NoHoles
<1> QED BY <1>2, <1>4 DEF HInv

\* Nobody walks while the data is deleted: nothing has been begun.
LEMMA ClearKeeps ==
    ASSUME HInv, ~ClearMidway, clear_readings
    PROVE  HInv'
<1>1. /\ stored' = [l \in Logger |-> {}] /\ UNCHANGED <<recorded, line, walk>>
      /\ service' = "neglected" /\ \A w \in Walker : walk[w] = Idle
  BY DEF clear_readings, HInv, WalksAreKempt
<1>2. TypeOK' /\ WalksAreKempt'
  BY <1>1 DEF HInv, TypeOK, WalksAreKempt, Idle
<1>3. NoHoles'
  BY <1>1, IdleHasNothing DEF NoHoles
<1> QED BY <1>2, <1>3 DEF HInv

\* Everything grows older together; a new row is younger than all.
LEMMA TickKeeps ==
    ASSUME HInv, Tick
    PROVE  HInv'
<1>0. Window \in Nat /\ None \notin Nat /\ None \notin Walker
  BY ProfileAssumption DEF Walker
<1>1. /\ stored' = [l \in Logger |-> {a + 1 : a \in stored[l]}] /\ line' = line
      /\ stored \in [Logger -> SUBSET Age] /\ walk \in [Walker -> Walk]
      /\ \A l \in Logger : \A a \in stored[l] : a < MaxAge
  BY DEF Tick, HInv, TypeOK
<1>2. recorded \in SUBSET (0 .. Ancient)
  BY DEF HInv, TypeOK
<1>3. \A b \in recorded' : b = 0 \/ \E a \in recorded : b = Aged(a)
  <2>1. \/ recorded' = {Aged(a) : a \in recorded \ Overwritten} \cup {0}
        \/ recorded' = {Aged(a) : a \in recorded}
    BY DEF Tick
  <2> QED BY <2>1
<1>4. recorded' \in SUBSET (0 .. Ancient)
  BY <1>0, <1>2, <1>3 DEF Aged
\* In the window every row but the new one was there, an interval younger.
<1>5. \A b \in recorded' : b # 0 /\ b <= Window => b \in Nat /\ b - 1 \in recorded
  BY <1>0, <1>2, <1>3 DEF Aged
<1>6. \A l \in Logger : stored'[l] = {a + 1 : a \in stored[l]}
  BY <1>1
<1>7. \A l \in Logger, a \in Age : Solid(l, a) =>
          \A b \in recorded' : a + 1 < b /\ b <= Window => b \in stored'[l]
  <2> SUFFICES ASSUME NEW l \in Logger, NEW a \in Age, Solid(l, a), NEW b \in recorded',
                      a + 1 < b, b <= Window
               PROVE  b \in stored'[l]
    OBVIOUS
  <2>1. b \in Nat /\ b - 1 \in recorded /\ a < b - 1 /\ b - 1 <= Window
    BY <1>0, <1>5
  <2>2. b - 1 \in stored[l]
    BY <2>1 DEF Solid
  <2> QED BY <1>6, <2>1, <2>2
<1>8. stored' \in [Logger -> SUBSET Age]
  <2>1. \A l \in Logger : stored[l] \in SUBSET Age
    BY <1>1
  <2>2. \A a \in Age : a < MaxAge => a + 1 \in Age
    BY <1>0
  <2>3. \A l \in Logger : {a + 1 : a \in stored[l]} \in SUBSET Age
    BY <1>1, <2>1, <2>2
  <2> QED BY <1>1, <2>3
<1> DEFINE older(w) == [pc |-> walk[w].pc, mark |-> [l \in Logger |-> Older(walk[w].mark[l])],
                        end |-> 1, logger |-> walk[w].logger, at |-> Older(walk[w].at),
                        clean |-> walk[w].clean]
<1>9. \A w \in Walker : walk'[w] = IF walk[w].pc = "idle" THEN walk[w] ELSE older(w)
  <2> SUFFICES ASSUME NEW w \in Walker, walk[w].pc # "idle"
               PROVE  walk'[w] = older(w)
    BY DEF Tick
  <2>1. walk'[w] = [walk[w] EXCEPT !.mark = [l \in Logger |-> Older(@[l])],
                                   !.end = 1, !.at = Older(@)]
    BY DEF Tick
  <2>2. walk[w] = [pc |-> walk[w].pc, mark |-> walk[w].mark, end |-> walk[w].end,
                   logger |-> walk[w].logger, at |-> walk[w].at, clean |-> walk[w].clean]
    BY WalkFields DEF HInv
  <2> QED BY <2>1, <2>2
<1>10. \A w \in Walker, l \in Logger : Older(walk[w].mark[l]) \in Age \cup {None}
  <2> SUFFICES ASSUME NEW w \in Walker, NEW l \in Logger
               PROVE  Older(walk[w].mark[l]) \in Age \cup {None}
    OBVIOUS
  <2>1. walk[w].mark[l] \in Age \cup {None} /\ walk[w].mark[l] # MaxAge
    BY WalkFields DEF Tick, HInv
  <2> QED BY <1>0, <2>1 DEF Older
<1>11. \A w \in Walker : Older(walk[w].at) \in Age \cup {None}
  <2> SUFFICES ASSUME NEW w \in Walker
               PROVE  Older(walk[w].at) \in Age \cup {None}
    OBVIOUS
  <2>1. walk[w].at \in Age \cup {None} /\ walk[w].at # MaxAge
    BY WalkFields DEF Tick, HInv
  <2> QED BY <1>0, <2>1 DEF Older
<1>12. \A w \in Walker : older(w) \in Walk
  <2> SUFFICES ASSUME NEW w \in Walker PROVE older(w) \in Walk
    OBVIOUS
  <2>1. /\ walk[w].pc \in {"idle", "waiting", "walking"}
        /\ [l \in Logger |-> Older(walk[w].mark[l])] \in [Logger -> Age \cup {None}]
        /\ walk[w].logger \in 0 .. Loggers /\ Older(walk[w].at) \in Age \cup {None}
        /\ walk[w].clean \in BOOLEAN
    BY <1>10, <1>11, WalkFields DEF HInv
  <2> QED BY <2>1 DEF Walk
<1>13. walk' \in [Walker -> Walk]
  <2>1. \A w \in Walker : (IF walk[w].pc = "idle" THEN walk[w] ELSE older(w)) \in Walk
    BY <1>1, <1>12
  <2>2. walk' = [w \in Walker |-> walk'[w]]
    BY DEF Tick
  <2> HIDE DEF older
  <2>3. \A w \in Walker : walk'[w] \in Walk
    BY <1>9, <2>1
  <2> QED BY <2>2, <2>3
<1>14. \A w \in Walker : /\ older(w).pc = walk[w].pc /\ older(w).logger = walk[w].logger
                         /\ older(w).at = Older(walk[w].at)
                         /\ \A l \in Logger : older(w).mark[l] = Older(walk[w].mark[l])
  OBVIOUS
<1> HIDE DEF older
<1>15. \A w \in Walker : walk'[w].pc = walk[w].pc /\ walk'[w].logger = walk[w].logger
  BY <1>9, <1>14
<1>16. TypeOK'
  <2>1. service' \in {"due", "kept", "neglected"}
    BY DEF Tick
  <2> QED BY <1>1, <1>4, <1>8, <1>13, <1>15, <2>1 DEF HInv, TypeOK
<1>17. WalksAreKempt'
  BY <1>9, <1>14 DEF HInv, WalksAreKempt, Idle, Older
<1>18. NoHoles'
  <2>1. ASSUME NEW l \in Logger, NEW a \in stored'[l]
        PROVE  Solid(l, a)'
    <3>1. PICK b \in stored[l] : a = b + 1
      BY <1>6
    <3>2. b \in Age /\ Solid(l, b)
      BY <1>1 DEF HInv, NoHoles
    <3> QED BY <1>7, <3>1, <3>2 DEF Solid
  <2>2. ASSUME NEW w \in Walker, NEW l \in Logger, walk'[w].mark[l] # None
        PROVE  Solid(l, walk[w].mark[l])'
    <3>1. walk[w].pc # "idle"
      BY <1>9, <2>2, IdleHasNothing DEF HInv, WalksAreKempt
    <3>2. walk'[w].mark[l] = Older(walk[w].mark[l])
      BY <1>9, <1>14, <3>1
    <3>3. walk[w].mark[l] # None /\ walk'[w].mark[l] = walk[w].mark[l] + 1
      <4> DEFINE b == walk[w].mark[l]
                 c == walk'[w].mark[l]
      <4>1. c # None /\ c = IF b = None THEN None ELSE b + 1
        BY <2>2, <3>2 DEF Older
      <4> HIDE DEF b, c
      <4>2. b # None /\ c = b + 1
        BY <4>1
      <4> QED BY <4>2 DEF b, c
    <3>4. walk[w].mark \in [Logger -> Age \cup {None}]
      BY WalkFields DEF HInv
    <3>5. walk[w].mark[l] \in Age /\ Solid(l, walk[w].mark[l])
      BY <3>3, <3>4 DEF HInv, NoHoles
    <3> QED BY <1>7, <3>3, <3>5 DEF Solid
  <2>3. ASSUME NEW w \in Walker, walk'[w].at # None
        PROVE  Solid(walk[w].logger, walk[w].at)'
    <3>1. walk[w].pc # "idle"
      BY <1>9, <2>3, IdleHasNothing DEF HInv, WalksAreKempt
    <3>2. walk'[w].at = Older(walk[w].at) /\ walk'[w].logger = walk[w].logger
      BY <1>9, <1>14, <3>1
    <3>3. walk[w].at # None /\ walk'[w].at = walk[w].at + 1
      BY <2>3, <3>2 DEF Older
    <3>4. walk[w].at \in Age /\ walk[w].logger \in Logger
      BY <3>3, WalkFields, WalkingLogger DEF HInv, WalksAreKempt
    <3>5. Solid(walk[w].logger, walk[w].at)
      BY <3>3 DEF HInv, NoHoles
    <3> QED BY <1>7, <3>2, <3>3, <3>4, <3>5 DEF Solid
  <2> QED BY <2>1, <2>2, <2>3 DEF NoHoles
<1> QED BY <1>16, <1>17, <1>18 DEF HInv

LEMMA StepKeepsWhole == ~ClearMidway => (HInv /\ [Next]_vars => HInv')
<1> SUFFICES ASSUME ~ClearMidway, HInv, [Next]_vars PROVE HInv'
  OBVIOUS
<1>1. ASSUME NEW w \in Walker, ConnectFails(w) PROVE HInv'
  BY <1>1, LeaveKeeps DEF ConnectFails
<1>2. ASSUME NEW w \in Walker, ChunkFails(w) \/ WalkDone(w) \/ BudgetSpent(w) PROVE HInv'
  <2>1. walk[w].clean \in BOOLEAN
    BY WalkFields DEF HInv
  <2> QED BY <1>2, <2>1, NextLoggerKeeps DEF ChunkFails, WalkDone, BudgetSpent
<1>3. CASE UNCHANGED vars
  BY <1>3 DEF vars, HInv, TypeOK, WalksAreKempt, NoHoles, Solid, Idle
<1> QED
  BY <1>1, <1>2, <1>3, BeginKeeps, GiveUpKeeps, TakeKeeps, ReadChunkKeeps, ClearKeeps,
     PurgeKeeps, TickKeeps
  DEF Next

LEMMA WholeHasNoHole == HInv => NoHoleBehindWatermark
<1> SUFFICES ASSUME HInv, NEW l \in Logger, Watermark(l) # None
             PROVE  Solid(l, Watermark(l))
  BY DEF NoHoleBehindWatermark, Solid
<1> QED BY WatermarkIsStored DEF HInv, NoHoles

-----------------------------------------------------------------------------
(* The model's types, with data deleted between walks.                     *)
THEOREM TypeCorrect == ~ClearMidway => (Spec => []TypeOK)
<1> SUFFICES ASSUME ~ClearMidway PROVE Spec => []TypeOK
  OBVIOUS
<1>1. HInv /\ [Next]_vars => HInv'
  BY StepKeepsWhole
<1>2. HInv => TypeOK
  BY DEF HInv
<1> QED BY <1>1, <1>2, StartsWhole, PTL DEF Spec

(* The watermark never passes a row of the window that was not read,       *)
(* however Read now, the cycle and retention interleave, and wherever a    *)
(* walk ends: a failed chunk, a spent budget, a lost line.  That data is   *)
(* deleted between walks is needed (api/devices.py:1673): a walk under way *)
(* would make its next chunk the watermark.                                *)
THEOREM NoHole == ~ClearMidway => (Spec => []NoHoleBehindWatermark)
<1> SUFFICES ASSUME ~ClearMidway PROVE Spec => []NoHoleBehindWatermark
  OBVIOUS
<1>1. HInv /\ [Next]_vars => HInv'
  BY StepKeepsWhole
<1> QED BY <1>1, StartsWhole, WholeHasNoHole, PTL DEF Spec

-----------------------------------------------------------------------------
(* Nothing is overwritten unread: while every interval sees a visit that   *)
(* goes well, the walk keeps up with the ring.  NothingIsLost speaks of    *)
(* the moment a row goes.  What holds before is that the visit left no     *)
(* logger behind the ring's oldest row (Caught), that after one interval a *)
(* chunk still reaches it (InReach), and, of a visit that an interval      *)
(* passes in, that what it has read by then is enough for the next oldest  *)
(* row too (StaysCaught).                                                  *)

\* What it takes: a chunk spans the longest gap between two rows, the ring is more
\* than a few rows, and one cycle at a time walks.
CanKeepUp ==
    /\ MaxGap <= Chunk /\ Ring >= 3 /\ ~ClearMidway
    /\ \A v, w \in Background : v = w

\* The rows that another row leaves in the ring.
Leaves(rec) == IF Cardinality(rec) = Ring THEN rec \ {Max(rec)} ELSE rec

\* A logger is not behind the oldest row; or that row is not looked for, or new.
Caught(rec, rows) == Max(rec) > Window \/ Max(rec) <= 1 \/ \E a \in rows : a <= Max(rec)
InReach(rec, rows) == rows # {} => \E a \in rows : a <= Max(rec) + Chunk
StaysCaught(rec, rows) ==
    Max(Leaves(rec)) >= Window \/ Max(Leaves(rec)) = 0 \/ \E a \in rows : a <= Max(Leaves(rec))

\* The meter writes a row at least every MaxGap intervals.
Spaced(rec) ==
    \A n \in Nat : MaxGap <= n + 1 /\ n <= Max(rec) => \E b \in rec : b <= n /\ n < b + MaxGap

RingRows == recorded # {} /\ Spaced(recorded)

\* The ring's oldest rows go first, and while its oldest is new none has gone.
RowsOfRing ==
    \A l \in Logger : \A a \in stored[l] :
        /\ a <= Max(recorded) => a \in recorded
        /\ Max(recorded) <= 1 => a <= Max(recorded)

ServiceSound(sv, rec, rows) ==
    /\ sv = "kept" => Caught(rec, rows)
    /\ sv = "due" => InReach(rec, rows)

\* What a walk knows by the watermark it read.
MarkSound(m, end, sv, rec, rows) ==
    m # None =>
      /\ m <= Window /\ sv # "neglected" => m \in rows
      /\ sv = "due" => m <= Max(rec) + Chunk
      /\ sv = "kept" /\ end = 0 =>
           /\ Max(rec) > Window \/ m <= Max(rec)
           /\ m <= Max(rec) => m \in rec

\* What it leaves behind of a logger it has read a chunk of.
DoneSound(m, end, sv, rec, rows) ==
    /\ sv = "due" => Caught(rec, rows)
    /\ sv = "kept" /\ end = 0 => m = MaxAge \/ StaysCaught(rec, rows)

Done(v, l) == l < v.logger \/ (l = v.logger /\ v.at # None)

WalkSound(v, sv, rec, st) ==
    /\ v.end <= Max(rec)
    /\ \A l \in Logger :
         /\ MarkSound(v.mark[l], v.end, sv, rec, st[l])
         /\ Done(v, l) /\ v.clean => DoneSound(v.mark[l], v.end, sv, rec, st[l])

KeepsUp ==
    /\ RingRows /\ RowsOfRing
    /\ \A l \in Logger : ServiceSound(service, recorded, stored[l])
    /\ \A w \in Background : WalkSound(walk[w], service, recorded, stored)

\* The oldest row, and the oldest that stays.
LEMMA OldestRow ==
    ASSUME NEW rec \in SUBSET (0 .. Ancient), rec # {}
    PROVE  /\ Max(rec) \in rec /\ Max(rec) \in 0 .. Ancient /\ Max(rec) \in Nat
           /\ \A a \in rec : a <= Max(rec)
<1>1. Window + 3 \in Nat /\ rec \in SUBSET (0 .. Window + 3)
  BY ProfileAssumption
<1>2. Max(rec) \in rec /\ \A a \in rec : Max(rec) >= a
  BY <1>1, HasMost
<1> DEFINE o == Max(rec)
<1>3. o \in rec /\ \A a \in rec : o >= a
  BY <1>2
<1> HIDE DEF o
<1>4. o \in 0 .. Ancient /\ o \in Nat /\ \A a \in rec : a <= o
  BY <1>1, <1>3
<1> QED BY <1>3, <1>4 DEF o

LEMMA OldestLeft ==
    ASSUME CanKeepUp, NEW rec \in SUBSET (0 .. Ancient), rec # {}, Spaced(rec)
    PROVE  LET o == Max(rec)  r == Max(Leaves(rec)) IN
           /\ r \in Leaves(rec) /\ Leaves(rec) \in SUBSET rec /\ r \in Nat /\ r <= o
           /\ \A a \in Leaves(rec) : a <= r
           /\ \A a \in rec : a = o \/ a <= r
           /\ o <= r + MaxGap
           /\ Leaves(rec) = rec \/ (Leaves(rec) = rec \ {o} /\ r < o /\ o >= 2 /\ r >= 1)
           /\ Cardinality(rec) = Ring => o >= 2 /\ Leaves(rec) = rec \ {o}
<1> DEFINE o == Max(rec)
           L == Leaves(rec)
           r == Max(L)
<1>0. /\ o \in rec /\ o \in Nat /\ o <= Ancient /\ \A a \in rec : a <= o
      /\ rec \in SUBSET Nat /\ Window \in Nat /\ MaxGap \in Nat \ {0} /\ Ring \in Nat /\ Ring >= 3
  BY OldestRow, ProfileAssumption DEF CanKeepUp
<1>1. IsFiniteSet(rec) /\ Cardinality(rec) <= o + 1 /\ Cardinality(rec) \in Nat
  BY <1>0, FS_BoundedSetOfNaturals, FS_CardinalityType
<1>2. CASE Cardinality(rec) # Ring
  <2>1. L = rec /\ r = o
    BY <1>2 DEF Leaves
  <2>2. Cardinality(rec) # Ring
    BY <1>2
  <2> HIDE DEF r, o, L
  <2>3. /\ r \in L /\ L \in SUBSET rec /\ r \in Nat /\ r <= o
        /\ \A a \in L : a <= r
        /\ \A a \in rec : a = o \/ a <= r
        /\ o <= r + MaxGap
        /\ L = rec
    BY <1>0, <2>1
  <2> QED BY <2>2, <2>3 DEF r, o, L
<1>3. CASE Cardinality(rec) = Ring
  <2>1. L = rec \ {o}
    BY <1>3 DEF Leaves
  <2>2. IsFiniteSet(rec \ {o}) /\ Cardinality(rec \ {o}) = Ring - 1
    BY <1>0, <1>1, <1>3, FS_RemoveElement
  <2>3. IsFiniteSet(L) /\ Cardinality(L) >= 2 /\ o >= 2
    <3> HIDE DEF L, o
    <3> QED BY <1>0, <1>1, <1>3, <2>1, <2>2
  <2>4. L # {}
    <3> HIDE DEF L
    <3> QED BY <2>3, FS_EmptySet
  <2>5. L \in SUBSET (0 .. Ancient)
    <3> HIDE DEF L
    <3> QED BY <2>1
  <2> HIDE DEF L
  <2>6. r \in L /\ r \in Nat /\ \A a \in L : a <= r
    BY <2>4, <2>5, OldestRow
  <2> HIDE DEF r, o
  <2>7. r < o
    BY <1>0, <2>1, <2>6
  <2>8. r >= 1
    <3>1. L \in SUBSET Nat
      BY <1>0, <2>1
    <3>2. Cardinality(L) <= r + 1 /\ Cardinality(L) \in Nat
      BY <2>3, <2>6, <3>1, FS_BoundedSetOfNaturals, FS_CardinalityType
    <3> QED BY <2>3, <2>6, <3>2
  <2>9. o <= r + MaxGap
    <3>1. CASE MaxGap <= o
      <4> DEFINE n == o - 1
      <4>1. n \in Nat /\ MaxGap <= n + 1 /\ n <= Max(rec) /\ n < o
        BY <1>0, <2>3, <3>1 DEF o
      <4> HIDE DEF n
      <4>2. PICK b \in rec : b <= n /\ n < b + MaxGap
        BY <4>1 DEF Spaced
      <4>3. b \in L /\ b <= r /\ b \in Nat
        BY <1>0, <2>1, <2>6, <4>1, <4>2
      <4> QED BY <1>0, <2>6, <4>2, <4>3 DEF n
    <3>2. CASE ~(MaxGap <= o)
      BY <1>0, <2>6, <3>2
    <3> QED BY <3>1, <3>2
  <2>10. \A a \in rec : a = o \/ a <= r
    BY <2>1, <2>6
  <2> QED BY <1>0, <2>1, <2>3, <2>6, <2>7, <2>8, <2>9, <2>10 DEF o, r, L
<1> QED BY <1>2, <1>3

\* A chunk from what is in reach catches up with the oldest row.
LEMMA ChunkCatches ==
    ASSUME CanKeepUp, NEW rec \in SUBSET (0 .. Ancient), rec # {},
           NEW rows \in SUBSET Age, NEW more \in SUBSET Age, rows \in SUBSET more,
           NEW end \in {0, 1}, end <= Max(rec), NEW start \in Age, start > end,
           NEW stop \in Age, stop = IF start >= end + Chunk THEN start - Chunk ELSE end,
           {a \in rec : stop <= a /\ a <= start} \in SUBSET more,
           \/ start <= Max(rec) + Chunk /\ (start <= Window => start \in rows)
           \/ start = Max(rec)
           \/ start = end + Window /\ ~(end < Max(rec) /\ Max(rec) < end + Window)
    PROVE  Caught(rec, more)
<1> DEFINE o == Max(rec)
<1>0. /\ o \in rec /\ o \in Nat /\ \A a \in rec : a <= o
      /\ Window \in Nat \ {0} /\ Chunk \in Nat \ {0} /\ start \in Nat /\ end \in Nat /\ stop \in Nat
  BY OldestRow, ProfileAssumption
<1>1. ASSUME stop <= o, o <= start PROVE Caught(rec, more)
  BY <1>0, <1>1 DEF Caught
<1>2. CASE start <= o + Chunk /\ (start <= Window => start \in rows)
  <2>1. stop <= o
    <3> HIDE DEF o
    <3> QED BY <1>0, <1>2 DEF o
  <2>2. CASE o <= start
    BY <1>1, <2>1, <2>2
  <2>3. CASE ~(o <= start) /\ start <= Window
    BY <1>0, <1>2, <2>3 DEF Caught
  <2>4. CASE ~(o <= start) /\ ~(start <= Window)
    BY <1>0, <2>4 DEF Caught
  <2> QED BY <2>2, <2>3, <2>4
<1>3. CASE start = o
  <2>1. stop <= o
    <3> HIDE DEF o
    <3> QED BY <1>0, <1>3
  <2> QED BY <1>0, <1>1, <1>3, <2>1
<1>4. CASE start = end + Window /\ ~(end < o /\ o < end + Window)
  <2>1. CASE o <= end
    BY <1>0, <2>1 DEF Caught
  <2>2. CASE o > Window
    BY <2>2 DEF Caught
  <2>3. CASE ~(o <= end) /\ ~(o > Window)
    <3>1. start = o
      <4> HIDE DEF o
      <4> QED BY <1>0, <1>4, <2>3
    <3> QED BY <1>3, <3>1
  <2> QED BY <2>1, <2>2, <2>3
<1> QED BY <1>2, <1>3, <1>4

\* So it does with the next oldest, where it starts at a row of the ring.
LEMMA ChunkStaysAhead ==
    ASSUME CanKeepUp, NEW rec \in SUBSET (0 .. Ancient), rec # {}, Spaced(rec),
           NEW rows \in SUBSET Age, NEW more \in SUBSET Age, rows \in SUBSET more,
           NEW start \in Age, start > 0, start # MaxAge,
           NEW stop \in Age, stop = IF start >= Chunk THEN start - Chunk ELSE 0,
           {a \in rec : stop <= a /\ a <= start} \in SUBSET more,
           \/ /\ Max(rec) > Window \/ start <= Max(rec)
              /\ start <= Max(rec) => start \in rec
              /\ start <= Window => start \in rows
           \/ start = Max(rec)
           \/ start = Window /\ ~(0 < Max(rec) /\ Max(rec) < Window)
    PROVE  StaysCaught(rec, more)
<1> DEFINE o == Max(rec)
           r == Max(Leaves(rec))
<1>0. /\ o \in rec /\ o \in Nat /\ \A a \in rec : a <= o
      /\ Window \in Nat \ {0} /\ Chunk \in Nat \ {0} /\ MaxGap \in Nat /\ start \in Nat /\ stop \in Nat
      /\ MaxGap <= Chunk
  BY OldestRow, ProfileAssumption DEF CanKeepUp
<1>1. /\ r \in rec /\ r \in Nat /\ r <= o /\ o <= r + MaxGap
      /\ \A a \in rec : a = o \/ a <= r
      /\ r = o \/ (r < o /\ o >= 2)
  BY OldestLeft
<1>2. ASSUME stop <= r, r <= start PROVE StaysCaught(rec, more)
  BY <1>0, <1>1, <1>2 DEF StaysCaught
<1>3. ASSUME start = o PROVE StaysCaught(rec, more)
  <2>1. stop <= r /\ r <= start
    <3> HIDE DEF o, r
    <3> QED BY <1>0, <1>1, <1>3
  <2> QED BY <1>2, <2>1
<1>4. CASE /\ o > Window \/ start <= o
           /\ start <= o => start \in rec
           /\ start <= Window => start \in rows
  <2>1. start <= o
    <3> HIDE DEF o
    <3> QED BY <1>0, <1>4
  <2>2. CASE start = o
    BY <1>3, <2>2
  <2>3. CASE start # o
    <3>1. start <= r
      <4> HIDE DEF o, r
      <4> QED BY <1>1, <1>4, <2>1, <2>3
    <3>2. CASE start <= Window
      BY <1>0, <1>1, <1>4, <3>1, <3>2 DEF StaysCaught
    <3>3. CASE ~(start <= Window)
      BY <1>0, <1>1, <3>1, <3>3 DEF StaysCaught
    <3> QED BY <3>2, <3>3
  <2> QED BY <2>2, <2>3
<1>5. CASE start = Window /\ ~(0 < o /\ o < Window)
  <2>1. CASE r >= Window
    BY <2>1 DEF StaysCaught
  <2>2. CASE o = 0
    BY <1>0, <1>1, <2>2 DEF StaysCaught
  <2>3. CASE ~(r >= Window) /\ o # 0
    <3>1. stop <= r /\ r <= start
      <4> HIDE DEF o, r
      <4> QED BY <1>0, <1>1, <1>5, <2>3
    <3> QED BY <1>2, <3>1
  <2> QED BY <2>1, <2>2, <2>3
<1> QED BY <1>3, <1>4, <1>5

\* What is older by an interval is still in reach of a chunk.
LEMMA AgedInReach ==
    ASSUME CanKeepUp, NEW rec \in SUBSET (0 .. Ancient), rec # {}, Spaced(rec),
           NEW o2 \in Nat, NEW t \in {Max(rec), Max(Leaves(rec))}, o2 = Aged(t),
           NEW a \in Nat, a <= Max(rec), a < MaxAge
    PROVE  a + 1 <= o2 + Chunk
<1> DEFINE o == Max(rec)
           r == Max(Leaves(rec))
<1>0. /\ o \in Nat /\ o <= Ancient /\ Window \in Nat /\ Chunk \in Nat /\ MaxGap \in Nat /\ MaxGap <= Chunk
  BY OldestRow, ProfileAssumption DEF CanKeepUp
<1>1. r \in Nat /\ o <= r + MaxGap
  BY OldestLeft
<1>2. a <= t + Chunk /\ t \in Nat /\ t <= Ancient
  <2>1. r <= o
    BY OldestLeft
  <2> HIDE DEF o, r
  <2> QED BY <1>0, <1>1, <2>1 DEF o, r
<1> QED BY <1>0, <1>2 DEF Aged

-----------------------------------------------------------------------------
(* What a step does to the rows: some of the ring's come in, or retention  *)
(* takes those beyond the window.                                          *)
RowsMoved(rec, rows, more) ==
    \/ rows \subseteq more /\ more \subseteq rows \cup rec
    \/ more = {a \in rows : a <= Window}

LEMMA RowsChange ==
    ASSUME CanKeepUp, NEW rec \in SUBSET (0 .. Ancient), rec # {}, Spaced(rec),
           NEW rows \in SUBSET Age, NEW more \in SUBSET Age, RowsMoved(rec, rows, more)
    PROVE  /\ Caught(rec, rows) => Caught(rec, more)
           /\ InReach(rec, rows) => InReach(rec, more)
           /\ StaysCaught(rec, rows) => StaysCaught(rec, more)
<1> DEFINE o == Max(rec)
           r == Max(Leaves(rec))
<1>0. /\ o \in Nat /\ \A a \in rec : a <= o
      /\ r \in Nat /\ Window \in Nat /\ Chunk \in Nat /\ rec \in SUBSET Nat
      /\ rows \in SUBSET Nat /\ more \in SUBSET Nat
  BY OldestRow, OldestLeft, ProfileAssumption
<1>1. \A a \in rows : a <= Window => a \in more
  BY DEF RowsMoved
<1>2. ASSUME Caught(rec, rows) PROVE Caught(rec, more)
  <2> HIDE DEF o, r
  <2> QED BY <1>0, <1>1, <1>2 DEF Caught, o
<1>3. ASSUME StaysCaught(rec, rows) PROVE StaysCaught(rec, more)
  <2> HIDE DEF o, r
  <2> QED BY <1>0, <1>1, <1>3 DEF StaysCaught, r
<1>4. ASSUME InReach(rec, rows), NEW b \in more PROVE \E a \in more : a <= o + Chunk
  <2>1. CASE b \in rec
    <3> HIDE DEF o, r
    <3> QED BY <1>0, <2>1
  <2>2. CASE b \notin rec
    <3>1. b \in rows
      BY <2>2 DEF RowsMoved
    <3>2. PICK a \in rows : a <= o + Chunk
      BY <1>4, <3>1 DEF InReach
    <3> HIDE DEF o, r
    <3>3. CASE a \in more
      BY <3>2, <3>3
    <3>4. CASE a \notin more
      <4>1. b <= Window /\ a > Window
        BY <1>0, <1>1, <3>2, <3>4 DEF RowsMoved
      <4>2. b <= o + Chunk
        BY <1>0, <3>2, <4>1
      <4> QED BY <4>2
    <3> QED BY <3>3, <3>4
  <2> QED BY <2>1, <2>2
<1> QED BY <1>2, <1>3, <1>4 DEF InReach

LEMMA WalkStaysSound ==
    ASSUME CanKeepUp, NEW rec \in SUBSET (0 .. Ancient), rec # {}, Spaced(rec),
           NEW rows \in SUBSET Age, NEW more \in SUBSET Age, RowsMoved(rec, rows, more),
           NEW m, NEW end, NEW sv
    PROVE  /\ ServiceSound(sv, rec, rows) => ServiceSound(sv, rec, more)
           /\ MarkSound(m, end, sv, rec, rows) => MarkSound(m, end, sv, rec, more)
           /\ DoneSound(m, end, sv, rec, rows) => DoneSound(m, end, sv, rec, more)
<1>1. \A a \in rows : a <= Window => a \in more
  BY DEF RowsMoved
<1>2. /\ Caught(rec, rows) => Caught(rec, more)
      /\ InReach(rec, rows) => InReach(rec, more)
      /\ StaysCaught(rec, rows) => StaysCaught(rec, more)
  BY RowsChange
<1> QED BY <1>1, <1>2 DEF ServiceSound, MarkSound, DoneSound

LEMMA RingIsTyped ==
    ASSUME HInv, KeepsUp
    PROVE  /\ recorded \in SUBSET (0 .. Ancient) /\ recorded # {} /\ Spaced(recorded)
           /\ \A l \in Logger : stored[l] \in SUBSET Age
BY DEF HInv, TypeOK, KeepsUp, RingRows

LEMMA IdleIsSound ==
    ASSUME NEW rec \in SUBSET (0 .. Ancient), rec # {}, NEW sv, NEW st
    PROVE  WalkSound(Idle, sv, rec, st)
<1>1. Max(rec) \in Nat
  BY OldestRow
<1> QED BY <1>1 DEF WalkSound, MarkSound, Done, Idle

\* A step of one walk, or of retention: nothing goes from the ring.
LEMMA StepKeepsUp ==
    ASSUME CanKeepUp, HInv, KeepsUp, HInv', recorded' = recorded,
           \A l \in Logger : RowsMoved(recorded, stored[l], stored'[l]),
           NEW w, \A x \in Walker : x # w => walk'[x] = walk[x],
           \/ service' = service
           \/ /\ service' = "kept" /\ w \in Background
              /\ \A l \in Logger : Caught(recorded, stored'[l]),
           w \in Background => WalkSound(walk'[w], service', recorded, stored')
    PROVE  KeepsUp'
<1>0. /\ recorded \in SUBSET (0 .. Ancient) /\ recorded # {} /\ Spaced(recorded)
      /\ \A l \in Logger : stored[l] \in SUBSET Age /\ stored'[l] \in SUBSET Age
  BY RingIsTyped DEF HInv, TypeOK
<1>1. RingRows'
  BY DEF KeepsUp, RingRows, Spaced
<1>2. RowsOfRing'
  <2>1. \A a \in recorded : a <= Max(recorded)
    BY <1>0, OldestRow
  <2>2. \A l \in Logger : stored'[l] \in SUBSET (stored[l] \cup recorded)
    BY DEF RowsMoved
  <2> QED BY <2>1, <2>2 DEF KeepsUp, RowsOfRing
<1>3. ASSUME NEW l \in Logger PROVE ServiceSound(service', recorded, stored'[l])
  <2>1. CASE service' = service
    BY <1>0, <2>1, WalkStaysSound DEF KeepsUp
  <2>2. CASE service' # service
    BY <2>2 DEF ServiceSound
  <2> QED BY <2>1, <2>2
<1>4. ASSUME NEW x \in Background PROVE WalkSound(walk'[x], service', recorded, stored')
  <2>1. CASE x = w
    BY <2>1
  <2>2. CASE x # w
    <3>1. service' = service /\ walk'[x] = walk[x]
      BY <2>2 DEF CanKeepUp, Walker
    <3>2. WalkSound(walk[x], service, recorded, stored)
      BY DEF KeepsUp
    <3> DEFINE v == walk[x]
    <3> HIDE DEF v
    <3>3. \A l \in Logger : /\ MarkSound(v.mark[l], v.end, service, recorded, stored'[l])
                            /\ Done(v, l) /\ v.clean =>
                                 DoneSound(v.mark[l], v.end, service, recorded, stored'[l])
      BY <1>0, <3>2, WalkStaysSound DEF WalkSound, v
    <3> QED BY <3>1, <3>2, <3>3 DEF WalkSound, v
  <2> QED BY <2>1, <2>2
<1> QED BY <1>1, <1>2, <1>3, <1>4 DEF KeepsUp

LEMMA SameRows ==
    ASSUME UNCHANGED <<recorded, stored>>
    PROVE  \A l \in Logger : RowsMoved(recorded, stored[l], stored'[l])
BY DEF RowsMoved

LEMMA BackgroundWalks == Background \in SUBSET Walker
BY DEF Walker

\* The watermark it begins with.
LEMMA BeginKeepsUp ==
    ASSUME CanKeepUp, HInv, KeepsUp, HInv', NEW w \in Walker, Begin(w)
    PROVE  KeepsUp'
<1> DEFINE m == [l \in Logger |-> Watermark(l)]
           v == walk'[w]
<1>0. /\ recorded \in SUBSET (0 .. Ancient) /\ recorded # {}
      /\ \A l \in Logger : stored[l] \in SUBSET Age
  BY RingIsTyped
<1>1. /\ v = [Idle EXCEPT !.pc = "waiting", !.mark = m] /\ UNCHANGED <<recorded, stored, line, service>>
      /\ \A x \in Walker : x # w => walk'[x] = walk[x]
  BY DEF Begin, HInv, TypeOK
<1>2. v.mark = m /\ v.end = 0 /\ v.at = None /\ v.logger = 0
  <2> HIDE DEF m
  <2> QED BY <1>1 DEF Idle
<1> HIDE DEF v
<1>3. ASSUME NEW l \in Logger PROVE MarkSound(Watermark(l), 0, service, recorded, stored[l])
  <2> SUFFICES ASSUME Watermark(l) # None PROVE MarkSound(Watermark(l), 0, service, recorded, stored[l])
    BY DEF MarkSound
  <2> DEFINE k == Watermark(l)
             o == Max(recorded)
  <2>1. k \in stored[l] /\ k \in Age /\ stored[l] \in SUBSET Nat /\ stored[l] # {}
    BY <1>0, WatermarkIsStored, ProfileAssumption DEF HInv, Watermark
  <2>2. \A a \in stored[l] : k <= a
    BY <2>1, HasLeast DEF Watermark
  <2>3. /\ k <= o => k \in recorded
        /\ o <= 1 => k <= o
    BY <2>1 DEF KeepsUp, RowsOfRing
  <2>4. o \in Nat /\ Window \in Nat /\ Chunk \in Nat /\ k \in Nat
    BY <1>0, <2>1, OldestRow, ProfileAssumption
  <2>5. ServiceSound(service, recorded, stored[l])
    BY DEF KeepsUp
  <2> HIDE DEF k
  <2>6. ASSUME service = "due" PROVE k <= o + Chunk
    <3>1. PICK a \in stored[l] : a <= o + Chunk
      BY <2>1, <2>5, <2>6 DEF ServiceSound, InReach
    <3> HIDE DEF o
    <3> QED BY <2>1, <2>2, <2>4, <3>1
  <2>7. ASSUME service = "kept" PROVE o > Window \/ k <= o
    <3>1. o > Window \/ o <= 1 \/ \E a \in stored[l] : a <= o
      BY <2>5, <2>7 DEF ServiceSound, Caught
    <3> HIDE DEF o
    <3> QED BY <2>1, <2>2, <2>3, <2>4, <3>1
  <2> QED BY <2>1, <2>3, <2>6, <2>7 DEF MarkSound, k
<1>4. WalkSound(v, service, recorded, stored)
  <2>1. Max(recorded) >= 0
    BY <1>0, OldestRow
  <2> QED BY <1>2, <1>3, <2>1 DEF WalkSound, Done
<1> QED BY <1>1, <1>4, SameRows, StepKeepsUp DEF v

LEMMA ToIdleKeepsUp ==
    ASSUME CanKeepUp, HInv, KeepsUp, HInv', NEW w \in Walker, walk' = [walk EXCEPT ![w] = Idle],
           UNCHANGED <<recorded, stored, service>>
    PROVE  KeepsUp'
<1>1. walk'[w] = Idle /\ \A x \in Walker : x # w => walk'[x] = walk[x]
  BY DEF HInv, TypeOK
<1>2. WalkSound(walk'[w], service', recorded, stored')
  BY <1>1, IdleIsSound, RingIsTyped
<1> QED BY <1>1, <1>2, SameRows, StepKeepsUp

LEMMA TakeKeepsUp ==
    ASSUME CanKeepUp, HInv, KeepsUp, HInv', NEW w \in Walker, Take(w)
    PROVE  KeepsUp'
<1> DEFINE u == walk[w]
           v == walk'[w]
<1>1. /\ v.mark = u.mark /\ v.end = u.end /\ v.at = u.at /\ v.clean = u.clean /\ v.logger = 1
      /\ UNCHANGED <<recorded, stored, service>>
      /\ \A x \in Walker : x # w => walk'[x] = walk[x]
  BY DEF Take, HInv, TypeOK, Walk
<1>2. u.at = None
  BY DEF Take, HInv, WalksAreKempt
<1>3. \A l \in Logger : ~Done(v, l)
  BY <1>1, <1>2 DEF Done
<1>4. w \in Background => WalkSound(u, service, recorded, stored)
  BY DEF KeepsUp
<1> HIDE DEF u, v
<1>5. w \in Background => WalkSound(v, service, recorded, stored)
  BY <1>1, <1>3, <1>4 DEF WalkSound
<1> QED BY <1>1, <1>5, SameRows, StepKeepsUp DEF v

\* On to the next logger, or the end of the visit.
LEMMA NextLoggerKeepsUp ==
    ASSUME CanKeepUp, HInv, KeepsUp, HInv', NEW w \in Walker, walk[w].pc = "walking",
           UNCHANGED <<recorded, stored>>, NEW clean \in BOOLEAN, NextLogger(w, clean),
           clean /\ w \in Background =>
               \A l \in Logger : l <= walk[w].logger =>
                   DoneSound(walk[w].mark[l], walk[w].end, service, recorded, stored[l])
    PROVE  KeepsUp'
<1>0. /\ recorded \in SUBSET (0 .. Ancient) /\ recorded # {}
      /\ walk[w].logger \in Logger /\ Loggers \in Nat
  BY RingIsTyped, WalkingLogger, ProfileAssumption DEF HInv
<1>1. CASE walk[w].logger < Loggers
  <2> DEFINE u == walk[w]
             v == walk'[w]
  <2>1. /\ v.mark = u.mark /\ v.end = u.end /\ v.at = None /\ v.clean = clean /\ v.logger = u.logger + 1
        /\ service' = service
        /\ \A x \in Walker : x # w => walk'[x] = walk[x]
    BY <1>1 DEF NextLogger, HInv, TypeOK, Walk
  <2>2. w \in Background => WalkSound(u, service, recorded, stored)
    BY DEF KeepsUp
  <2>3. \A l \in Logger : Done(v, l) => l <= u.logger
    BY <1>0, <2>1 DEF Done
  <2> HIDE DEF v
  <2>4. w \in Background => WalkSound(v, service, recorded, stored)
    BY <2>1, <2>2, <2>3 DEF WalkSound
  <2> QED BY <2>1, <2>4, SameRows, StepKeepsUp DEF v
<1>2. CASE ~(walk[w].logger < Loggers)
  <2>1. /\ walk' = [walk EXCEPT ![w] = Idle]
        /\ service' = IF service = "due" /\ clean /\ w \in Background THEN "kept" ELSE service
    BY <1>2 DEF NextLogger, Leave
  <2>2. CASE ~(service = "due" /\ clean /\ w \in Background)
    BY <2>1, <2>2, ToIdleKeepsUp
  <2>3. CASE service = "due" /\ clean /\ w \in Background
    <3>1. \A l \in Logger : Caught(recorded, stored[l])
      BY <1>0, <1>2, <2>3 DEF DoneSound
    <3>2. walk'[w] = Idle /\ \A x \in Walker : x # w => walk'[x] = walk[x]
      BY <2>1 DEF HInv, TypeOK
    <3>3. WalkSound(walk'[w], service', recorded, stored')
      BY <1>0, <3>2, IdleIsSound
    <3> QED BY <2>1, <2>3, <3>1, <3>2, <3>3, SameRows, StepKeepsUp
  <2> QED BY <2>2, <2>3
<1> QED BY <1>1, <1>2

\* What a walk that goes on cleanly has done.
LEMMA LoggersDone ==
    ASSUME CanKeepUp, HInv, KeepsUp, NEW w \in Background, walk[w].clean,
           walk[w].at # None \/ Done(walk[w], walk[w].logger)
             \/ DoneSound(walk[w].mark[walk[w].logger], walk[w].end, service, recorded,
                          stored[walk[w].logger]),
           NEW l \in Logger, l <= walk[w].logger
    PROVE  DoneSound(walk[w].mark[l], walk[w].end, service, recorded, stored[l])
<1> DEFINE u == walk[w]
<1>1. WalkSound(u, service, recorded, stored) /\ u.logger \in Nat /\ l \in Nat
  <2>1. u.logger \in 0 .. Loggers /\ Loggers \in Nat
    BY WalkFields, BackgroundWalks, ProfileAssumption DEF HInv
  <2> QED BY <2>1 DEF KeepsUp
<1> HIDE DEF u
<1>2. Done(u, l) \/ (l = u.logger /\ DoneSound(u.mark[l], u.end, service, recorded, stored[l]))
  BY <1>1 DEF Done, u
<1> QED BY <1>1, <1>2 DEF WalkSound, u

LEMMA WalkDoneKeepsUp ==
    ASSUME CanKeepUp, HInv, KeepsUp, HInv', NEW w \in Walker, WalkDone(w)
    PROVE  KeepsUp'
<1> DEFINE u == walk[w]
           k == u.logger
           o == Max(recorded)
<1>0. /\ recorded \in SUBSET (0 .. Ancient) /\ recorded # {} /\ Spaced(recorded)
      /\ k \in Logger /\ u.end \in {0, 1} /\ u.clean \in BOOLEAN /\ o \in Nat
      /\ Window \in Nat \ {0} /\ u.pc = "walking"
  BY RingIsTyped, WalkingLogger, WalkFields, OldestRow, ProfileAssumption DEF HInv, WalkDone
<1>1. ASSUME w \in Background, u.at = None
      PROVE  DoneSound(u.mark[k], u.end, service, recorded, stored[k])
  <2>0. WalkSound(u, service, recorded, stored)
    BY <1>1 DEF KeepsUp
  <2> DEFINE m == u.mark[k]
  <2>1. m # None /\ m <= u.end
    <3>1. PICK start \in ChunkStarts(w) : start <= u.end
      BY DEF WalkDone
    <3>2. CASE m # None
      BY <1>1, <3>1, <3>2 DEF ChunkStarts
    <3>3. CASE m = None
      <4>1. start \in BackfillStarts(u.end) /\ start \in Nat
        <5>1. start \in BackfillStarts(u.end)
          BY <1>1, <3>1, <3>3 DEF ChunkStarts
        <5>2. start \in Age
          BY <1>0, <5>1, NothingBeyond DEF HInv
        <5> QED BY <5>1, <5>2, ProfileAssumption
      <4>2. start = u.end + Window \/ start > u.end
        <5> HIDE DEF u
        <5> QED BY <1>0, <4>1 DEF BackfillStarts, Hint, Floor
      <4> QED
        <5> HIDE DEF u
        <5> QED BY <1>0, <3>1, <4>1, <4>2
    <3> QED BY <3>2, <3>3
  <2>2. u.end <= o /\ MarkSound(m, u.end, service, recorded, stored[k])
    BY <1>0, <2>0 DEF WalkSound
  <2>3. m \in Nat
    <3>1. u.mark \in [Logger -> Age \cup {None}]
      BY WalkFields DEF HInv
    <3>2. m \in Age
      BY <1>0, <2>1, <3>1
    <3> QED BY <3>2, ProfileAssumption
  <2> HIDE DEF u, k, m
  <2>4. service # "neglected" => m \in stored[k]
    BY <1>0, <2>1, <2>2, <2>3 DEF MarkSound
  <2>5. m <= o
    <3> HIDE DEF o
    <3> QED BY <1>0, <2>1, <2>2, <2>3
  <2>6. service = "due" => Caught(recorded, stored[k])
    BY <2>4, <2>5 DEF Caught
  <2>7. ASSUME service = "kept", u.end = 0 PROVE StaysCaught(recorded, stored[k])
    <3>1. m = 0 /\ Max(Leaves(recorded)) \in Nat
      BY <1>0, <2>1, <2>3, <2>7, OldestLeft
    <3> QED BY <2>4, <2>7, <3>1 DEF StaysCaught
  <2> QED BY <2>6, <2>7 DEF DoneSound, m
<1>2. u.clean /\ w \in Background => \A l \in Logger : l <= k =>
          DoneSound(u.mark[l], u.end, service, recorded, stored[l])
  BY <1>1, LoggersDone
<1> QED BY <1>0, <1>2, NextLoggerKeepsUp DEF WalkDone

LEMMA BudgetSpentKeepsUp ==
    ASSUME CanKeepUp, HInv, KeepsUp, HInv', NEW w \in Walker, BudgetSpent(w)
    PROVE  KeepsUp'
<1>1. walk[w].pc = "walking" /\ walk[w].at # None /\ walk[w].clean \in BOOLEAN
  BY WalkFields DEF BudgetSpent, HInv
<1>2. walk[w].clean /\ w \in Background => \A l \in Logger : l <= walk[w].logger =>
          DoneSound(walk[w].mark[l], walk[w].end, service, recorded, stored[l])
  BY <1>1, LoggersDone
<1> QED BY <1>1, <1>2, NextLoggerKeepsUp DEF BudgetSpent

LEMMA ChunkFailsKeepsUp ==
    ASSUME CanKeepUp, HInv, KeepsUp, HInv', NEW w \in Walker, ChunkFails(w)
    PROVE  KeepsUp'
BY NextLoggerKeepsUp DEF ChunkFails

LEMMA ConnectFailsKeepsUp ==
    ASSUME CanKeepUp, HInv, KeepsUp, HInv', NEW w \in Walker, ConnectFails(w)
    PROVE  KeepsUp'
BY ToIdleKeepsUp DEF ConnectFails, Leave

-----------------------------------------------------------------------------
\* The first chunk does what the visit is for.
LEMMA FirstChunk ==
    ASSUME CanKeepUp, HInv, KeepsUp, NEW w \in Background, walk[w].pc = "walking",
           walk[w].at = None, NEW start \in ChunkStarts(w), start > walk[w].end,
           ~HintFailed(w, start), NEW stop \in Age,
           stop = IF start >= walk[w].end + Chunk THEN start - Chunk ELSE walk[w].end,
           NEW more \in SUBSET Age, stored[walk[w].logger] \in SUBSET more,
           {a \in recorded : stop <= a /\ a <= start} \in SUBSET more
    PROVE  DoneSound(walk[w].mark[walk[w].logger], walk[w].end, service, recorded, more)
<1> DEFINE u == walk[w]
           m == u.mark[u.logger]
           o == Max(recorded)
           end == u.end
           rows == stored[u.logger]
<1>0. /\ recorded \in SUBSET (0 .. Ancient) /\ recorded # {} /\ Spaced(recorded)
      /\ rows \in SUBSET Age /\ end \in {0, 1} /\ start \in Age /\ u.logger \in Logger
      /\ start > end /\ w \in Walker /\ rows \in SUBSET more
      /\ stop = IF start >= end + Chunk THEN start - Chunk ELSE end
      /\ {a \in recorded : stop <= a /\ a <= start} \in SUBSET more
  BY RingIsTyped, WalkingLogger, WalkFields, StartIsSolid, BackgroundWalks DEF HInv
<1>1. end <= o /\ MarkSound(m, end, service, recorded, rows)
  BY <1>0 DEF KeepsUp, WalkSound
<1>2. CASE m # None
  <2>1. start = m
    BY <1>2 DEF ChunkStarts
  <2>2. ASSUME service = "due" PROVE Caught(recorded, more)
    <3>1. start <= o + Chunk /\ (start <= Window => start \in rows)
      BY <1>1, <1>2, <2>1, <2>2 DEF MarkSound
    <3> HIDE DEF u, m, o, end, rows
    <3> QED BY <1>0, <1>1, <3>1, ChunkCatches DEF o
  <2>3. ASSUME service = "kept", end = 0, m # MaxAge PROVE StaysCaught(recorded, more)
    <3>1. /\ o > Window \/ start <= o
          /\ start <= o => start \in recorded
          /\ start <= Window => start \in rows
      BY <1>1, <1>2, <2>1, <2>3 DEF MarkSound
    <3>2. stop = IF start >= Chunk THEN start - Chunk ELSE 0
      BY <2>3, ProfileAssumption
    <3>3. start > 0 /\ start # MaxAge
      BY <1>0, <2>1, <2>3
    <3> HIDE DEF u, m, o, end, rows
    <3> QED BY <1>0, <3>1, <3>2, <3>3, ChunkStaysAhead DEF o
  <2> QED BY <2>2, <2>3 DEF DoneSound
<1>3. CASE m = None
  <2>1. start = Hint(end)
    BY <1>3 DEF HintFailed
  <2>2. \/ start = o /\ o < end + Window
        \/ start = end + Window /\ ~(end < o /\ o < end + Window)
    BY <1>0, <2>1 DEF Hint, Floor
  <2>3. ASSUME service = "due" PROVE Caught(recorded, more)
    <3> HIDE DEF u, m, o, end, rows
    <3> QED BY <1>0, <1>1, <2>2, ChunkCatches DEF o
  <2>4. ASSUME service = "kept", end = 0 PROVE StaysCaught(recorded, more)
    <3>1. stop = IF start >= Chunk THEN start - Chunk ELSE 0
      BY <2>4, ProfileAssumption
    <3>2. \/ start = o
          \/ start = Window /\ ~(0 < o /\ o < Window)
      BY <2>2, <2>4, ProfileAssumption
    <3>3. start > 0 /\ start # MaxAge
      <4>1. o \in Nat /\ Window \in Nat
        BY <1>0, OldestRow, ProfileAssumption
      <4> HIDE DEF o
      <4> QED BY <1>0, <2>2, <2>4, <4>1
    <3> HIDE DEF u, m, o, end, rows
    <3> QED BY <1>0, <3>1, <3>2, <3>3, ChunkStaysAhead DEF o
  <2> QED BY <2>3, <2>4 DEF DoneSound
<1> QED BY <1>2, <1>3

LEMMA ReadChunkKeepsUp ==
    ASSUME CanKeepUp, HInv, KeepsUp, HInv', NEW w \in Walker, ReadChunk(w)
    PROVE  KeepsUp'
<1> DEFINE u == walk[w]
           v == walk'[w]
<1>1. PICK start \in ChunkStarts(w) :
         /\ start > walk[w].end
         /\ LET stop == IF start >= walk[w].end + Chunk THEN start - Chunk ELSE walk[w].end
            IN  /\ stored' = [stored EXCEPT ![walk[w].logger] =
                                @ \cup {a \in recorded : stop <= a /\ a <= start}]
                /\ walk' = [walk EXCEPT ![w].at = stop, ![w].clean = @ /\ ~HintFailed(w, start)]
  BY DEF ReadChunk
<1>2. PICK k \in Logger : k = u.logger
  BY WalkingLogger DEF ReadChunk, HInv
<1>3. /\ start \in Age /\ u.pc = "walking" /\ u.end \in {0, 1} /\ u.clean \in BOOLEAN
      /\ UNCHANGED <<recorded, line, service>>
  BY StartIsSolid, WalkFields DEF ReadChunk, HInv
<1> DEFINE stop == IF start >= u.end + Chunk THEN start - Chunk ELSE u.end
           got == {a \in recorded : stop <= a /\ a <= start}
<1>4. stop \in Age /\ stop \in Nat
  <2>1. start \in Nat /\ u.end \in Nat /\ Chunk \in Nat /\ Window \in Nat
    BY <1>3, ProfileAssumption
  <2> HIDE DEF u
  <2> QED BY <1>1, <1>3, <2>1 DEF u
<1>5. stored' = [stored EXCEPT ![k] = @ \cup got]
  BY <1>1, <1>2
<1>6. \A l \in Logger : stored'[l] = IF l = k THEN stored[l] \cup got ELSE stored[l]
  BY <1>5 DEF HInv, TypeOK
<1>7. \A l \in Logger : RowsMoved(recorded, stored[l], stored'[l])
  <2>1. got \in SUBSET recorded
    OBVIOUS
  <2> HIDE DEF got
  <2> QED BY <1>6, <2>1 DEF RowsMoved
<1>8. PICK ok \in BOOLEAN : ok = (u.clean /\ ~HintFailed(w, start))
  BY <1>3
<1>9. /\ v.at = stop /\ v.clean = ok /\ v.mark = u.mark /\ v.end = u.end /\ v.logger = k
      /\ \A x \in Walker : x # w => walk'[x] = walk[x]
  <2>1. walk' = [walk EXCEPT ![w].at = stop, ![w].clean = ok] /\ walk \in [Walker -> Walk]
    BY <1>1, <1>8 DEF HInv, TypeOK
  <2> HIDE DEF stop
  <2> QED BY <1>2, <2>1 DEF Walk
<1>10. ASSUME w \in Background PROVE WalkSound(v, service, recorded, stored')
  <2>1. /\ recorded \in SUBSET (0 .. Ancient) /\ recorded # {} /\ Spaced(recorded)
        /\ \A l \in Logger : stored[l] \in SUBSET Age /\ stored'[l] \in SUBSET Age
    BY RingIsTyped DEF HInv, TypeOK
  <2>2. WalkSound(u, service, recorded, stored)
    BY <1>10 DEF KeepsUp
  <2>3. ASSUME NEW l \in Logger PROVE MarkSound(u.mark[l], u.end, service, recorded, stored'[l])
    <3>1. MarkSound(u.mark[l], u.end, service, recorded, stored[l])
      BY <2>2 DEF WalkSound
    <3> HIDE DEF u
    <3> QED BY <1>7, <2>1, <3>1, WalkStaysSound
  <2>4. ASSUME NEW l \in Logger, Done(v, l), v.clean
        PROVE  DoneSound(u.mark[l], u.end, service, recorded, stored'[l])
    <3>1. u.clean /\ ~HintFailed(w, start)
      BY <1>8, <1>9, <2>4
    <3>2. CASE Done(u, l)
      <4>1. DoneSound(u.mark[l], u.end, service, recorded, stored[l])
        BY <2>2, <3>1, <3>2 DEF WalkSound
      <4> HIDE DEF u
      <4> QED BY <1>7, <2>1, <4>1, WalkStaysSound
    <3>3. CASE ~Done(u, l)
      <4>1. l = k /\ u.at = None
        BY <1>2, <1>9, <2>4, <3>3 DEF Done
      <4>2. got \in SUBSET stored'[k] /\ stored[k] \in SUBSET stored'[k]
        <5> HIDE DEF got
        <5> QED BY <1>6
      <4>3. start > u.end
        BY <1>1
      <4>4. DoneSound(walk[w].mark[walk[w].logger], walk[w].end, service, recorded, stored'[k])
        BY <1>2, <1>3, <1>4, <1>10, <2>1, <3>1, <4>1, <4>2, <4>3, FirstChunk
      <4> QED BY <1>2, <4>1, <4>4
    <3> QED BY <3>2, <3>3
  <2>5. u.end <= Max(recorded)
    BY <2>2 DEF WalkSound
  <2> HIDE DEF u, v
  <2> QED BY <1>9, <2>3, <2>4, <2>5 DEF WalkSound
<1> HIDE DEF v
<1> QED BY <1>3, <1>7, <1>9, <1>10, StepKeepsUp DEF v

LEMMA PurgeKeepsUp ==
    ASSUME CanKeepUp, HInv, KeepsUp, HInv', purge_expired
    PROVE  KeepsUp'
<1>1. /\ stored' = [l \in Logger |-> {a \in stored[l] : a <= Window}]
      /\ UNCHANGED <<recorded, line, walk, service>>
  BY DEF purge_expired
<1>2. \A l \in Logger : RowsMoved(recorded, stored[l], stored'[l])
  BY <1>1 DEF RowsMoved
<1>3. None \notin Background /\ \A x \in Walker : x # None => walk'[x] = walk[x]
  BY <1>1, ProfileAssumption
<1> QED BY <1>1, <1>2, <1>3, StepKeepsUp

LEMMA ClearKeepsUp ==
    ASSUME CanKeepUp, HInv, KeepsUp, HInv', clear_readings
    PROVE  KeepsUp'
<1>1. /\ \A w \in Walker : walk'[w] = Idle
      /\ stored' = [l \in Logger |-> {}] /\ service' = "neglected" /\ recorded' = recorded
  BY DEF clear_readings, CanKeepUp, HInv, WalksAreKempt
<1>2. RingRows' /\ RowsOfRing'
  BY <1>1 DEF KeepsUp, RingRows, RowsOfRing, Spaced
<1>3. \A l \in Logger : ServiceSound(service', recorded', stored'[l])
  BY <1>1 DEF ServiceSound
<1>4. \A w \in Background : WalkSound(walk'[w], service', recorded', stored')
  BY <1>1, RingIsTyped, IdleIsSound, BackgroundWalks
<1> QED BY <1>2, <1>3, <1>4 DEF KeepsUp

-----------------------------------------------------------------------------
(* An interval passes.                                                     *)

\* What stays of the ring, and how it is then.
LEMMA RingTicks ==
    ASSUME CanKeepUp, HInv, KeepsUp, Tick
    PROVE  \E T \in {recorded, Leaves(recorded)} :
             /\ T # {} /\ T \in SUBSET (0 .. Ancient)
             /\ \/ recorded' = {Aged(a) : a \in T} \cup {0}
                \/ recorded' = {Aged(a) : a \in T} /\ T = recorded /\ \E a \in recorded' : a < MaxGap
<1>0. /\ recorded \in SUBSET (0 .. Ancient) /\ recorded # {} /\ Spaced(recorded)
  BY RingIsTyped
<1>1. Leaves(recorded) # {} /\ Leaves(recorded) \in SUBSET recorded
  BY <1>0, OldestLeft
<1>2. Leaves(recorded) = recorded \ Overwritten
  BY DEF Leaves, Overwritten
<1>3. CASE recorded' = {Aged(a) : a \in recorded \ Overwritten} \cup {0}
  BY <1>0, <1>1, <1>2, <1>3
<1>4. CASE recorded' = {Aged(a) : a \in recorded} /\ \E a \in recorded' : a < MaxGap
  BY <1>0, <1>4
<1> QED BY <1>3, <1>4 DEF Tick

LEMMA AgedRing ==
    ASSUME NEW T \in SUBSET (0 .. Ancient), T # {}, NEW new,
           new = {Aged(a) : a \in T} \cup {0} \/ new = {Aged(a) : a \in T}
    PROVE  /\ new \in SUBSET (0 .. Ancient) /\ new # {}
           /\ Max(new) = Aged(Max(T)) /\ Max(new) >= 1
           /\ Max(new) \in Nat /\ Max(new) <= Ancient
<1> DEFINE t == Max(T)
           m == Max(new)
<1>1. t \in T /\ t \in Nat /\ t <= Ancient /\ (\A a \in T : a <= t) /\ Window \in Nat
  BY OldestRow, ProfileAssumption
<1>2. new \in SUBSET (0 .. Ancient) /\ new # {}
  BY <1>1 DEF Aged
<1>3. m \in new /\ m \in Nat /\ \A a \in new : a <= m
  BY <1>2, OldestRow
<1>4. Aged(t) \in new /\ (\A a \in new : a <= Aged(t)) /\ Aged(t) >= 1 /\ Aged(t) \in Nat
      /\ Aged(t) <= Ancient
  <2> HIDE DEF t
  <2> QED BY <1>1 DEF Aged
<1>5. m = Aged(t)
  <2> HIDE DEF t, m
  <2>1. m <= Aged(t) /\ Aged(t) <= m
    BY <1>3, <1>4
  <2> QED BY <1>3, <1>4, <2>1
<1> QED BY <1>2, <1>3, <1>4, <1>5

LEMMA TickKeepsUp ==
    ASSUME CanKeepUp, HInv, KeepsUp, HInv', Tick
    PROVE  KeepsUp'
<1> DEFINE o == Max(recorded)
           r == Max(Leaves(recorded))
           o2 == Max(recorded')
<1>0. /\ recorded \in SUBSET (0 .. Ancient) /\ recorded # {} /\ Spaced(recorded)
      /\ \A l \in Logger : stored[l] \in SUBSET Age /\ \A a \in stored[l] : a < MaxAge /\ a \in Nat
      /\ Window \in Nat \ {0} /\ Chunk \in Nat \ {0} /\ MaxGap \in Nat \ {0} /\ None \notin Nat
      /\ o \in Nat /\ o <= Ancient /\ \A a \in recorded : a <= o
  <2>1. \A l \in Logger : stored[l] \in SUBSET Age /\ \A a \in stored[l] : a < MaxAge
    BY RingIsTyped DEF Tick
  <2>2. Age \in SUBSET Nat /\ Window \in Nat \ {0} /\ Chunk \in Nat \ {0} /\ MaxGap \in Nat \ {0}
    BY ProfileAssumption
  <2>3. recorded \in SUBSET (0 .. Ancient) /\ recorded # {} /\ Spaced(recorded)
    BY RingIsTyped
  <2>4. o \in Nat /\ o <= Ancient /\ \A a \in recorded : a <= o
    BY <2>3, OldestRow
  <2> QED BY <2>1, <2>2, <2>3, <2>4, ProfileAssumption
<1>1. /\ r \in Leaves(recorded) /\ r \in Nat /\ r <= o
      /\ \A a \in recorded : a = o \/ a <= r
      /\ Leaves(recorded) = recorded \/ (Leaves(recorded) = recorded \ {o} /\ r < o /\ r >= 1)
  BY <1>0, OldestLeft
<1>2. PICK T \in {recorded, Leaves(recorded)} :
         /\ T # {} /\ T \in SUBSET (0 .. Ancient)
         /\ \/ recorded' = {Aged(a) : a \in T} \cup {0}
            \/ recorded' = {Aged(a) : a \in T} /\ T = recorded /\ \E a \in recorded' : a < MaxGap
  BY RingTicks
<1> DEFINE t == Max(T)
<1>3. /\ recorded' \in SUBSET (0 .. Ancient) /\ recorded' # {}
      /\ o2 = Aged(t) /\ o2 >= 1 /\ o2 \in Nat /\ o2 <= Ancient
  BY <1>2, AgedRing
<1>4. /\ t \in {o, r} /\ t \in Nat /\ r <= t /\ t <= o
      /\ \A a \in recorded : a <= t => a \in T
      /\ t = 0 => o = 0
      /\ r = 0 => t = 0
  <2>1. CASE T = recorded
    <3>1. t = o
      BY <2>1
    <3>2. r = 0 => o = 0
      <4>1. ASSUME r = 0 PROVE r = o
        <5>1. Leaves(recorded) = recorded
          <6> HIDE DEF o, r
          <6> QED BY <1>1, <4>1
        <5> QED BY <5>1
      <4> QED BY <4>1
    <3> HIDE DEF o, r, t
    <3> QED BY <1>0, <1>1, <2>1, <3>1, <3>2
  <2>2. CASE T # recorded
    <3>1. T = Leaves(recorded) /\ t = r
      BY <1>2, <2>2
    <3> HIDE DEF o, r, t
    <3> QED BY <1>0, <1>1, <2>2, <3>1
  <2> QED BY <2>1, <2>2
<1>5. /\ stored' = [l \in Logger |-> {a + 1 : a \in stored[l]}]
      /\ service' = IF service = "kept" THEN "due" ELSE "neglected"
  BY DEF Tick
<1>6. \A a \in Nat : a <= o /\ a < MaxAge => a + 1 <= o2 + Chunk
  <2> SUFFICES ASSUME NEW a \in Nat, a <= o, a < MaxAge PROVE a + 1 <= o2 + Chunk
    OBVIOUS
  <2> HIDE DEF o2, t
  <2> QED BY <1>0, <1>3, <1>4, AgedInReach
<1>7. o2 <= t + 1 /\ (o2 = t + 1 \/ o2 > Window)
  <2> HIDE DEF o2, t
  <2> QED BY <1>0, <1>3, <1>4 DEF Aged
<1>8. \A a \in T : a < Ancient => a + 1 \in recorded'
  <2> HIDE DEF t
  <2>1. \A a \in T : Aged(a) \in recorded'
    BY <1>2
  <2>2. \A a \in T : a < Ancient => a # Ancient
    BY <1>0, <1>2
  <2> QED BY <2>1, <2>2 DEF Aged
<1>9. RingRows'
  <2> SUFFICES ASSUME NEW n \in Nat, MaxGap <= n + 1, n <= o2
               PROVE  \E b \in recorded' : b <= n /\ n < b + MaxGap
    BY <1>3 DEF RingRows, Spaced
  <2>1. CASE MaxGap <= n
    <3> DEFINE k == n - 1
    <3>1. k \in Nat /\ MaxGap <= k + 1 /\ k <= t /\ k <= o
      <4> HIDE DEF o, t, o2
      <4> QED BY <1>0, <1>3, <1>4, <1>7, <2>1
    <3> HIDE DEF k
    <3>2. PICK b \in recorded : b <= k /\ k < b + MaxGap
      BY <1>0, <3>1 DEF Spaced
    <3>3. b \in T /\ b \in Nat /\ b <= t
      <4> HIDE DEF t
      <4> QED BY <1>0, <1>4, <3>1, <3>2
    <3>4. b < Ancient
      <4> HIDE DEF t, o, o2
      <4> QED BY <1>0, <1>3, <3>1, <3>2, <3>3 DEF k
    <3>5. b + 1 \in recorded'
      BY <1>8, <3>3, <3>4
    <3>6. b + 1 <= n /\ n < b + 1 + MaxGap
      BY <1>0, <3>2, <3>3 DEF k
    <3> QED BY <3>5, <3>6
  <2>2. CASE ~(MaxGap <= n)
    <3>1. \E a \in recorded' : a < MaxGap
      BY <1>0, <1>2
    <3>2. n = MaxGap - 1 /\ recorded' \in SUBSET Nat
      BY <1>0, <1>3, <2>2
    <3> QED BY <1>0, <3>1, <3>2
  <2> QED BY <2>1, <2>2
<1>10. RowsOfRing'
  <2> SUFFICES ASSUME NEW l \in Logger, NEW a \in stored[l]
               PROVE  /\ a + 1 <= o2 => a + 1 \in recorded'
                      /\ o2 <= 1 => a + 1 <= o2
    BY <1>5 DEF RowsOfRing
  <2>1. /\ a \in Nat /\ a < MaxAge
        /\ a <= o => a \in recorded
        /\ o <= 1 => a <= o
    BY <1>0 DEF KeepsUp, RowsOfRing
  <2>2. ASSUME a + 1 <= o2 PROVE a + 1 \in recorded'
    <3>1. a <= t /\ a <= o /\ a < Ancient
      <4> HIDE DEF o, t, o2
      <4> QED BY <1>0, <1>3, <1>4, <1>7, <2>1, <2>2
    <3>2. a \in T
      BY <1>4, <2>1, <3>1
    <3> QED BY <1>8, <3>1, <3>2
  <2>3. ASSUME o2 <= 1 PROVE a + 1 <= o2
    <3>1. o = 0 /\ o2 = 1
      <4> HIDE DEF o, t, o2
      <4> QED BY <1>0, <1>3, <1>4, <1>7, <2>3
    <3> HIDE DEF o, o2
    <3> QED BY <2>1, <3>1
  <2> QED BY <2>2, <2>3
<1>11. ASSUME NEW l \in Logger PROVE ServiceSound(service', recorded', stored'[l])
  <2> SUFFICES ASSUME service = "kept", NEW b \in stored[l]
               PROVE  \E a \in stored'[l] : a <= o2 + Chunk
    BY <1>5 DEF ServiceSound, InReach
  <2>1. Caught(recorded, stored[l])
    BY DEF KeepsUp, ServiceSound
  <2>2. ASSUME NEW a \in stored[l], a <= o PROVE \E c \in stored'[l] : c <= o2 + Chunk
    <3>1. a + 1 \in stored'[l] /\ a + 1 <= o2 + Chunk
      BY <1>0, <1>5, <1>6, <2>2
    <3> QED BY <3>1
  <2>3. b <= o \/ \E a \in stored[l] : a <= o
    <3>1. b < MaxAge /\ b \in Nat /\ (o <= 1 => b <= o)
      BY <1>0 DEF KeepsUp, RowsOfRing
    <3>2. o > Window \/ o <= 1 \/ \E a \in stored[l] : a <= o
      BY <2>1 DEF Caught
    <3> HIDE DEF o
    <3> QED BY <1>0, <3>1, <3>2
  <2> QED BY <2>2, <2>3
<1>12. ASSUME NEW w \in Background PROVE WalkSound(walk'[w], service', recorded', stored')
  <2> DEFINE u == walk[w]
             v == walk'[w]
  <2>0. w \in Walker
    BY BackgroundWalks
  <2>1. CASE u.pc = "idle"
    <3>1. v = Idle
      BY <2>0, <2>1 DEF Tick, HInv, WalksAreKempt
    <3> QED BY <1>3, <3>1, IdleIsSound
  <2>2. CASE u.pc # "idle"
    <3>1. /\ v.mark = [l \in Logger |-> Older(u.mark[l])] /\ v.end = 1 /\ v.at = Older(u.at)
          /\ v.logger = u.logger /\ v.clean = u.clean
      <4>1. v = [u EXCEPT !.mark = [l \in Logger |-> Older(@[l])], !.end = 1, !.at = Older(@)]
        BY <2>0, <2>2 DEF Tick
      <4>2. u \in Walk
        BY <2>0 DEF HInv, TypeOK
      <4> HIDE DEF u, v
      <4> QED BY <4>1, <4>2 DEF Walk
    <3>2. WalkSound(u, service, recorded, stored) /\ u.end = 0
      BY <2>0 DEF KeepsUp, Tick
    <3>3. u.at = None \/ u.at \in Nat
      <4>1. u.at \in Age \cup {None}
        BY <2>0, WalkFields DEF HInv
      <4> QED BY <4>1, ProfileAssumption
    <3>4. ASSUME NEW l \in Logger, u.mark[l] # None PROVE u.mark[l] \in Nat /\ u.mark[l] < MaxAge
      <4>1. u.mark \in [Logger -> Age \cup {None}] /\ MaxAge # u.mark[l]
        BY <2>0, WalkFields DEF HInv, Tick
      <4>2. u.mark[l] \in Age /\ u.mark[l] # MaxAge
        BY <3>4, <4>1
      <4> QED BY <4>2, ProfileAssumption
    <3> HIDE DEF u, v
    <3>5. ASSUME NEW l \in Logger PROVE MarkSound(v.mark[l], 1, service', recorded', stored'[l])
      <4> SUFFICES ASSUME v.mark[l] # None, service = "kept"
                   PROVE  /\ v.mark[l] <= Window => v.mark[l] \in stored'[l]
                          /\ v.mark[l] <= o2 + Chunk
        BY <1>5 DEF MarkSound
      <4> DEFINE m == u.mark[l]
      <4>1. m # None /\ m \in Nat /\ m < MaxAge /\ v.mark[l] = m + 1
        BY <3>1, <3>4 DEF Older
      <4>2. MarkSound(m, 0, service, recorded, stored[l])
        BY <3>2 DEF WalkSound
      <4>3. m <= Window => m \in stored[l]
        BY <4>1, <4>2 DEF MarkSound
      <4>4. o > Window \/ m <= o
        BY <4>1, <4>2 DEF MarkSound
      <4>5. m <= o
        <5> HIDE DEF o, m
        <5> QED BY <1>0, <4>1, <4>4
      <4>6. m + 1 <= o2 + Chunk
        BY <1>6, <4>1, <4>5
      <4>7. m + 1 <= Window => m + 1 \in stored'[l]
        <5> HIDE DEF m
        <5> QED BY <1>0, <1>5, <4>1, <4>3
      <4> HIDE DEF m
      <4> QED BY <4>1, <4>6, <4>7
    <3>6. ASSUME NEW l \in Logger, Done(v, l), v.clean
          PROVE  DoneSound(v.mark[l], 1, service', recorded', stored'[l])
      <4> SUFFICES ASSUME service = "kept" PROVE Caught(recorded', stored'[l])
        BY <1>5 DEF DoneSound
      <4>1. Done(u, l) /\ u.clean
        BY <3>1, <3>3, <3>6 DEF Done, Older
      <4>2. DoneSound(u.mark[l], 0, service, recorded, stored[l])
        BY <3>2, <4>1 DEF WalkSound
      <4>3. u.mark[l] # MaxAge
        BY <1>0, <3>4
      <4>4. r >= Window \/ r = 0 \/ \E a \in stored[l] : a <= r
        BY <4>2, <4>3 DEF DoneSound, StaysCaught
      <4>5. CASE r >= Window \/ r = 0
        <5>1. o2 > Window \/ o2 <= 1
          <6> HIDE DEF o, r, t, o2
          <6> QED BY <1>0, <1>1, <1>3, <1>4, <1>7, <4>5
        <5> QED BY <5>1 DEF Caught
      <4>6. ASSUME NEW a \in stored[l], a <= r PROVE Caught(recorded', stored'[l])
        <5>1. a + 1 \in stored'[l] /\ a \in Nat
          BY <1>0, <1>5, <4>6
        <5>2. a + 1 <= o2 \/ o2 > Window
          <6> HIDE DEF o, r, t, o2
          <6> QED BY <1>0, <1>1, <1>3, <1>4, <1>7, <4>6, <5>1
        <5> QED BY <5>1, <5>2 DEF Caught
      <4> QED BY <4>4, <4>5, <4>6
    <3>7. v.end = 1 /\ 1 <= o2
      BY <1>3, <3>1
    <3> QED BY <3>5, <3>6, <3>7 DEF WalkSound, v
  <2> QED BY <2>1, <2>2
<1> QED BY <1>9, <1>10, <1>11, <1>12 DEF KeepsUp

-----------------------------------------------------------------------------
LEMMA StartsKeepingUp ==
    ASSUME CanKeepUp, Init
    PROVE  KeepsUp
<1>1. PICK rows \in 1 .. Ring : recorded = (0 .. rows - 1) \cap (0 .. Ancient)
  BY ProfileAssumption DEF Init
<1>2. /\ recorded \in SUBSET (0 .. Ancient) /\ 0 \in recorded
      /\ rows \in Nat /\ Window \in Nat /\ MaxGap \in Nat \ {0}
  BY <1>1, ProfileAssumption
<1> DEFINE o == Max(recorded)
<1>3. o \in recorded /\ o \in Nat
  BY <1>2, OldestRow
<1>4. RingRows
  <2> SUFFICES ASSUME NEW n \in Nat, n <= o PROVE n \in recorded /\ n < n + MaxGap
    BY <1>2 DEF RingRows, Spaced
  <2> HIDE DEF o
  <2> QED BY <1>1, <1>2, <1>3
<1>5. RowsOfRing /\ \A l \in Logger : ServiceSound(service, recorded, stored[l])
  BY DEF Init, RowsOfRing, ServiceSound, InReach
<1>6. \A w \in Background : WalkSound(walk[w], service, recorded, stored)
  BY <1>2, IdleIsSound, BackgroundWalks DEF Init
<1> QED BY <1>4, <1>5, <1>6 DEF KeepsUp

LEMMA NextKeepsUp ==
    ASSUME CanKeepUp, HInv, KeepsUp, HInv', [Next]_vars
    PROVE  KeepsUp'
<1>1. ASSUME NEW w \in Walker,
             \/ Begin(w) \/ GiveUp(w) \/ Take(w) \/ ConnectFails(w)
             \/ ReadChunk(w) \/ ChunkFails(w) \/ WalkDone(w) \/ BudgetSpent(w)
      PROVE  KeepsUp'
  BY <1>1, BeginKeepsUp, ToIdleKeepsUp, TakeKeepsUp, ConnectFailsKeepsUp, ReadChunkKeepsUp,
     ChunkFailsKeepsUp, WalkDoneKeepsUp, BudgetSpentKeepsUp DEF GiveUp
<1>2. CASE clear_readings \/ purge_expired \/ Tick
  BY <1>2, ClearKeepsUp, PurgeKeepsUp, TickKeepsUp
<1>3. CASE UNCHANGED vars
  <2>1. \A x \in Walker : x # None => walk'[x] = walk[x]
    BY <1>3 DEF vars
  <2>2. None \notin Background
    BY ProfileAssumption
  <2> QED BY <1>3, <2>1, <2>2, SameRows, StepKeepsUp DEF vars
<1> QED BY <1>1, <1>2, <1>3 DEF Next

\* The row that goes is the oldest, and the newest of a logger is not older.
LEMMA WhatGoesIsStored ==
    ASSUME CanKeepUp, HInv, KeepsUp, service = "kept", NEW l \in Logger,
           NEW a \in Overwritten, a <= Window
    PROVE  a \in stored[l]
<1>0. /\ recorded \in SUBSET (0 .. Ancient) /\ recorded # {} /\ Spaced(recorded)
      /\ stored[l] \in SUBSET Nat /\ Window \in Nat
  BY RingIsTyped, ProfileAssumption
<1>1. a = Max(recorded) /\ Cardinality(recorded) = Ring
  BY DEF Overwritten
<1>2. a \in recorded /\ a \in Nat /\ a >= 2
  BY <1>0, <1>1, OldestRow, OldestLeft
<1>3. Caught(recorded, stored[l])
  BY DEF KeepsUp, ServiceSound
<1>4. PICK b \in stored[l] : b <= a
  BY <1>0, <1>1, <1>2, <1>3 DEF Caught
<1>5. Solid(l, b)
  BY DEF HInv, NoHoles
<1> QED BY <1>0, <1>2, <1>4, <1>5 DEF Solid

(* No row is overwritten in the meter before every logger has it stored,   *)
(* as long as each interval sees one visit of the cycle that goes well: a  *)
(* chunk of each logger, wherever the budget ends it.  For a chunk that    *)
(* spans the longest gap between two rows, a ring of three rows or more,   *)
(* and data that nobody clears under a walk.                               *)
THEOREM NothingIsOverwrittenUnread == CanKeepUp => (Spec => NothingIsLost)
<1> SUFFICES ASSUME CanKeepUp PROVE Spec => NothingIsLost
  OBVIOUS
<1>1. Init => HInv /\ KeepsUp
  BY StartsWhole, StartsKeepingUp
<1>2. HInv /\ KeepsUp /\ [Next]_vars => (HInv /\ KeepsUp)'
  BY StepKeepsWhole, NextKeepsUp DEF CanKeepUp
<1>3. HInv /\ KeepsUp =>
        [Tick /\ 0 \in recorded' /\ service = "kept" =>
            \A l \in Logger : {a \in Overwritten : a <= Window} \subseteq stored[l]]_vars
  BY WhatGoesIsStored
<1> QED BY <1>1, <1>2, <1>3, PTL DEF Spec, NothingIsLost

-----------------------------------------------------------------------------
(* The read of one chunk (drivers/smw110.py, _dlms_profile.py).            *)

HIDE DEF Logger, Age, MaxAge, Ancient

\* The driver's module measures sets as the theorems here do.
LEMMA SameMeasures ==
    ASSUME NEW S
    PROVE  V!Cardinality(S) = Cardinality(S) /\ V!Max(S) = Max(S) /\ V!Min(S) = Min(S)
BY DEF Cardinality, V!Cardinality, Max, V!Max, Min, V!Min

LEMMA PartsMeasured ==
    ASSUME NEW S, IsFiniteSet(S), NEW T \in SUBSET S
    PROVE  /\ IsFiniteSet(T) /\ V!Cardinality(T) \in Nat /\ V!Cardinality(S) \in Nat
           /\ V!Cardinality(T) <= V!Cardinality(S)
           /\ V!Cardinality(T) = V!Cardinality(S) => T = S
<1>1. /\ IsFiniteSet(T) /\ Cardinality(T) <= Cardinality(S)
      /\ Cardinality(S) = Cardinality(T) => T = S
  BY FS_Subset
<1>2. Cardinality(S) \in Nat /\ Cardinality(T) \in Nat
  BY <1>1, FS_CardinalityType
<1>3. V!Cardinality(S) = Cardinality(S) /\ V!Cardinality(T) = Cardinality(T)
  BY SameMeasures
<1> QED BY <1>1, <1>2, <1>3

LEMMA OneMore ==
    ASSUME NEW S, IsFiniteSet(S), NEW x, x \notin S
    PROVE  IsFiniteSet(S \cup {x}) /\ V!Cardinality(S \cup {x}) = V!Cardinality(S) + 1
<1>1. IsFiniteSet(S \cup {x}) /\ Cardinality(S \cup {x}) = Cardinality(S) + 1
  BY FS_AddElement
<1>2. V!Cardinality(S) = Cardinality(S) /\ V!Cardinality(S \cup {x}) = Cardinality(S \cup {x})
  BY SameMeasures
<1> QED BY <1>1, <1>2

-----------------------------------------------------------------------------
(* A ring of rows: of the rows logged up to k it holds the newest.          *)

Since(L, t) == {u \in L : u >= t}
Kept(L)     == {t \in L : V!Cardinality(Since(L, t)) <= Capacity}
Up(L, t)    == {u \in Kept(L) : u <= t}

LEMMA RowsAreFinite ==
    ASSUME NEW k \in Nat, NEW L \in SUBSET (1 .. k), NEW S \in SUBSET L
    PROVE  IsFiniteSet(S) /\ V!Cardinality(S) \in Nat
<1>1. IsFiniteSet(1 .. k)
  BY FS_Interval, SameMeasures
<1>2. IsFiniteSet(S)
  BY <1>1, PartsMeasured
<1> QED BY <1>2, FS_CardinalityType, SameMeasures

LEMMA CountApart ==
    ASSUME NEW A, NEW B, IsFiniteSet(A), IsFiniteSet(B), A \cap B = {}
    PROVE  V!Cardinality(A \cup B) = V!Cardinality(A) + V!Cardinality(B)
<1>1. V!Cardinality(A) \in Nat /\ V!Cardinality(B) \in Nat
  BY FS_CardinalityType, SameMeasures
<1>2. V!Cardinality(A \cap B) = 0
  BY FS_EmptySet, SameMeasures
<1>3. V!Cardinality(A \cup B) = V!Cardinality(A) + V!Cardinality(B) - V!Cardinality(A \cap B)
  BY FS_Union, SameMeasures
<1> QED BY <1>1, <1>2, <1>3

LEMMA RingIsNewest ==
    ASSUME NEW k \in Nat, NEW L \in SUBSET (1 .. k), Capacity \in Nat,
           NEW t \in Kept(L), NEW u \in L, u >= t
    PROVE  u \in Kept(L)
<1>0. t \in L /\ \A x \in L : x \in Nat
  BY DEF Kept
<1>1. Since(L, u) \in SUBSET Since(L, t) /\ Since(L, t) \in SUBSET L /\ Since(L, u) \in SUBSET L
  <2>1. t \in Nat /\ u \in Nat
    BY <1>0
  <2>2. \A x \in L : x >= u => x >= t
    BY <1>0, <2>1
  <2> QED BY <2>2 DEF Since
<1>2. IsFiniteSet(Since(L, t)) /\ V!Cardinality(Since(L, t)) \in Nat /\ V!Cardinality(Since(L, u)) \in Nat
  BY <1>1, RowsAreFinite
<1>3. V!Cardinality(Since(L, u)) <= V!Cardinality(Since(L, t))
  BY <1>1, <1>2, PartsMeasured
<1> QED BY <1>2, <1>3 DEF Kept

\* A row that is logged takes the place of one at most, of the oldest.
LEMMA RingTurns ==
    ASSUME NEW k \in Nat, NEW L \in SUBSET (1 .. k), Capacity \in Nat \ {0},
           NEW M, M = L \cup {k + 1}
    PROVE  /\ Kept(M) \subseteq Kept(L) \cup {k + 1}
           /\ V!Cardinality(Kept(L)) <= V!Cardinality(Kept(M))
           /\ V!Cardinality(Kept(M)) <= V!Cardinality(Kept(L)) + 1
<1>0. M \in SUBSET (1 .. k + 1) /\ k + 1 \in Nat /\ Kept(L) \in SUBSET L /\ Kept(M) \in SUBSET M
  BY DEF Kept
<1>a. \A x \in L : x \in Nat /\ x <= k
  OBVIOUS
<1>1. ASSUME NEW t \in L
      PROVE  Since(M, t) = Since(L, t) \cup {k + 1} /\ k + 1 \notin Since(L, t)
             /\ IsFiniteSet(Since(L, t)) /\ V!Cardinality(Since(L, t)) \in Nat
  <2>1. Since(L, t) \in SUBSET L
    BY DEF Since
  <2>2. IsFiniteSet(Since(L, t)) /\ V!Cardinality(Since(L, t)) \in Nat
    BY <2>1, RowsAreFinite
  <2>3. Since(M, t) = Since(L, t) \cup {k + 1} /\ k + 1 \notin Since(L, t)
    BY <1>a DEF Since
  <2> QED BY <2>2, <2>3
<1>2. \A t \in L : V!Cardinality(Since(M, t)) = V!Cardinality(Since(L, t)) + 1
  <2> TAKE t \in L
  <2>1. Since(M, t) = Since(L, t) \cup {k + 1} /\ k + 1 \notin Since(L, t) /\ IsFiniteSet(Since(L, t))
    BY <1>1
  <2> QED BY <2>1, OneMore
<1>3. Since(M, k + 1) = {k + 1}
  <2>1. \A x \in L : ~(x >= k + 1)
    BY <1>a
  <2>2. k + 1 >= k + 1
    OBVIOUS
  <2> QED BY <2>1, <2>2 DEF Since
<1>4. k + 1 \in Kept(M)
  <2>1. V!Cardinality(Since(M, k + 1)) = 1
    BY <1>3, FS_Singleton, SameMeasures
  <2> QED BY <2>1 DEF Kept
<1>5. Kept(M) \subseteq Kept(L) \cup {k + 1}
  <2> SUFFICES ASSUME NEW t \in Kept(M), t # k + 1 PROVE t \in Kept(L)
    OBVIOUS
  <2>1. t \in L /\ V!Cardinality(Since(M, t)) <= Capacity
    BY DEF Kept
  <2>2. V!Cardinality(Since(L, t)) \in Nat /\ V!Cardinality(Since(M, t)) = V!Cardinality(Since(L, t)) + 1
    BY <1>1, <1>2, <2>1
  <2> QED BY <2>1, <2>2 DEF Kept
<1>6. IsFiniteSet(Kept(L)) /\ V!Cardinality(Kept(L)) \in Nat
  BY <1>0, RowsAreFinite
<1>7. IsFiniteSet(Kept(M)) /\ V!Cardinality(Kept(M)) \in Nat
  BY <1>0, RowsAreFinite
<1>8. k + 1 \notin Kept(L)
  BY <1>0
<1>9. V!Cardinality(Kept(L) \cup {k + 1}) = V!Cardinality(Kept(L)) + 1 /\ IsFiniteSet(Kept(L) \cup {k + 1})
  BY <1>6, <1>8, OneMore
<1>10. V!Cardinality(Kept(M)) <= V!Cardinality(Kept(L)) + 1
  <2>1. Kept(M) \in SUBSET (Kept(L) \cup {k + 1})
    BY <1>5
  <2>2. V!Cardinality(Kept(M)) <= V!Cardinality(Kept(L) \cup {k + 1})
    BY <1>9, <2>1, PartsMeasured
  <2> QED BY <1>9, <2>2
<1>11. \A t \in Kept(L) \ Kept(M) : t \in L /\ V!Cardinality(Since(L, t)) = Capacity
  <2> TAKE t \in Kept(L) \ Kept(M)
  <2>1. t \in L /\ t \in M /\ V!Cardinality(Since(L, t)) <= Capacity
    BY DEF Kept
  <2>2. V!Cardinality(Since(L, t)) \in Nat /\ V!Cardinality(Since(M, t)) = V!Cardinality(Since(L, t)) + 1
    BY <1>1, <1>2, <2>1
  <2>3. ~(V!Cardinality(Since(M, t)) <= Capacity)
    BY <2>1 DEF Kept
  <2> QED BY <2>1, <2>2, <2>3
<1>12. ASSUME NEW s \in Kept(L) \ Kept(M), NEW t \in Kept(L) \ Kept(M), s < t
       PROVE  FALSE
  <2>1. Since(L, t) \in SUBSET Since(L, s) /\ s \in Since(L, s) /\ s \notin Since(L, t)
    <3>1. s \in L /\ t \in L /\ s \in Nat /\ t \in Nat
      BY <1>a, <1>11
    <3>2. \A x \in L : x >= t => x >= s
      BY <1>a, <3>1, <1>12
    <3>3. s >= s /\ ~(s >= t)
      BY <3>1, <1>12
    <3> QED BY <3>1, <3>2, <3>3 DEF Since
  <2>2. V!Cardinality(Since(L, t)) = V!Cardinality(Since(L, s)) /\ IsFiniteSet(Since(L, s))
    BY <1>1, <1>11
  <2> QED BY <2>1, <2>2, PartsMeasured
<1>13. V!Cardinality(Kept(L)) <= V!Cardinality(Kept(M))
  <2>1. CASE Kept(L) \subseteq Kept(M)
    BY <2>1, <1>7, PartsMeasured
  <2>2. CASE ~(Kept(L) \subseteq Kept(M))
    <3>1. PICK x \in Kept(L) : x \notin Kept(M)
      BY <2>2
    <3>2. \A t \in Kept(L) \ Kept(M) : t = x
      <4> TAKE t \in Kept(L) \ Kept(M)
      <4>1. t \in Nat /\ x \in Nat
        BY <1>0, <1>a
      <4> QED BY <3>1, <4>1, <1>12
    <3>3. (Kept(L) \ {x}) \cup {k + 1} \subseteq Kept(M)
      BY <3>2, <1>4
    <3>4. V!Cardinality(Kept(L) \ {x}) = V!Cardinality(Kept(L)) - 1 /\ IsFiniteSet(Kept(L) \ {x})
      BY <1>6, <3>1, FS_RemoveElement, SameMeasures
    <3>5. V!Cardinality((Kept(L) \ {x}) \cup {k + 1}) = V!Cardinality(Kept(L) \ {x}) + 1
      <4>1. k + 1 \notin Kept(L) \ {x}
        BY <1>8
      <4> QED BY <3>4, <4>1, OneMore
    <3>6. (Kept(L) \ {x}) \cup {k + 1} \in SUBSET Kept(M)
      BY <3>3
    <3>7. V!Cardinality((Kept(L) \ {x}) \cup {k + 1}) <= V!Cardinality(Kept(M))
      BY <3>6, <1>7, PartsMeasured
    <3> QED BY <3>4, <3>5, <3>7, <1>6, <1>7
  <2> QED BY <2>1, <2>2
<1> QED BY <1>5, <1>10, <1>13

\* The entry of a row, counted from the newest.
LEMMA EntryFromTheEnd ==
    ASSUME NEW k \in Nat, NEW L \in SUBSET (1 .. k), Capacity \in Nat, NEW t \in Kept(L)
    PROVE  V!Cardinality(Kept(L)) = V!Cardinality(Up(L, t)) + V!Cardinality(L \cap (t + 1 .. k))
<1>0. Kept(L) \in SUBSET L /\ Up(L, t) \in SUBSET L /\ L \cap (t + 1 .. k) \in SUBSET L /\ t \in 1 .. k
  BY DEF Kept, Up
<1>1. IsFiniteSet(Up(L, t)) /\ IsFiniteSet(L \cap (t + 1 .. k))
      /\ V!Cardinality(Up(L, t)) \in Nat /\ V!Cardinality(L \cap (t + 1 .. k)) \in Nat
  BY <1>0, RowsAreFinite
<1>2. L \cap (t + 1 .. k) \subseteq Kept(L)
  <2> SUFFICES ASSUME NEW u \in L \cap (t + 1 .. k) PROVE u \in Kept(L)
    OBVIOUS
  <2>1. u \in L /\ u >= t
    BY <1>0
  <2> QED BY <2>1, RingIsNewest
<1>a. \A x \in L : x \in Nat /\ x <= k
  OBVIOUS
<1>3. Kept(L) = Up(L, t) \cup (L \cap (t + 1 .. k))
  <2>1. \A x \in L : ~(x <= t) => x \in t + 1 .. k
    BY <1>0, <1>a
  <2> QED BY <1>0, <1>2, <2>1 DEF Up
<1>4. Up(L, t) \cap (L \cap (t + 1 .. k)) = {}
  <2>1. \A x \in L : x <= t => x \notin t + 1 .. k
    BY <1>0, <1>a
  <2> QED BY <1>0, <2>1 DEF Up
<1> QED BY <1>1, <1>3, <1>4, CountApart

LEMMA IntervalCount ==
    ASSUME NEW k \in Nat, NEW j \in 0 .. k
    PROVE  IsFiniteSet(j + 1 .. k) /\ V!Cardinality(j + 1 .. k) = k - j
<1>1. j + 1 \in Int /\ k \in Int
  OBVIOUS
<1>2. IsFiniteSet(j + 1 .. k) /\ V!Cardinality(j + 1 .. k) = IF j + 1 > k THEN 0 ELSE k - (j + 1) + 1
  BY <1>1, FS_Interval, SameMeasures
<1> QED BY <1>2

\* An interval is logged or dark.
LEMMA LoggedOrDark ==
    ASSUME NEW k \in Nat, NEW d \in SUBSET (1 .. k), NEW j \in 0 .. k
    PROVE  V!Cardinality(((1 .. k) \ d) \cap (j + 1 .. k)) + V!Cardinality(d \cap (j + 1 .. k)) = k - j
<1> DEFINE A == ((1 .. k) \ d) \cap (j + 1 .. k)
           B == d \cap (j + 1 .. k)
<1>1. A \in SUBSET (1 .. k) /\ B \in SUBSET (1 .. k)
  OBVIOUS
<1>2. IsFiniteSet(A) /\ IsFiniteSet(B) /\ V!Cardinality(A) \in Nat /\ V!Cardinality(B) \in Nat
  BY <1>1, RowsAreFinite
<1>3. A \cup B = j + 1 .. k /\ A \cap B = {}
  OBVIOUS
<1>4. V!Cardinality(j + 1 .. k) = k - j
  BY IntervalCount
<1>6. V!Cardinality(A \cup B) = V!Cardinality(A) + V!Cardinality(B)
  BY <1>2, <1>3, CountApart
<1> QED BY <1>3, <1>4, <1>6

Count(S, a, b) == V!Cardinality(S \cap (a + 1 .. b))

LEMMA CountInTwo ==
    ASSUME NEW d, NEW a \in Nat, NEW b \in Nat, NEW c \in Nat, a <= b, b <= c
    PROVE  /\ Count(d, a, c) = Count(d, a, b) + Count(d, b, c)
           /\ Count(d, a, b) \in 0 .. b - a
           /\ Count(d, b, c) \in 0 .. c - b
<1> DEFINE A == d \cap (a + 1 .. b)
           B == d \cap (b + 1 .. c)
<1>1. A \in SUBSET (1 .. c) /\ B \in SUBSET (1 .. c)
  OBVIOUS
<1>2. IsFiniteSet(A) /\ IsFiniteSet(B) /\ V!Cardinality(A) \in Nat /\ V!Cardinality(B) \in Nat
  BY <1>1, RowsAreFinite
<1>3. A \cup B = d \cap (a + 1 .. c) /\ A \cap B = {}
  OBVIOUS
<1>4. V!Cardinality(a + 1 .. b) = b - a /\ IsFiniteSet(a + 1 .. b)
  <2>1. b \in Nat /\ a \in 0 .. b
    OBVIOUS
  <2> QED BY <2>1, IntervalCount
<1>5. V!Cardinality(b + 1 .. c) = c - b /\ IsFiniteSet(b + 1 .. c)
  <2>1. c \in Nat /\ b \in 0 .. c
    OBVIOUS
  <2> QED BY <2>1, IntervalCount
<1>6. V!Cardinality(A) <= b - a /\ V!Cardinality(B) <= c - b
  <2>1. A \in SUBSET (a + 1 .. b) /\ B \in SUBSET (b + 1 .. c)
    OBVIOUS
  <2> HIDE DEF A, B
  <2>2. V!Cardinality(A) <= V!Cardinality(a + 1 .. b) /\ V!Cardinality(B) <= V!Cardinality(b + 1 .. c)
    BY <1>4, <1>5, <2>1, PartsMeasured
  <2> QED BY <1>4, <1>5, <2>2
<1>7. V!Cardinality(A \cup B) = V!Cardinality(A) + V!Cardinality(B)
  BY <1>2, <1>3, CountApart
<1>8. V!Cardinality(A) \in 0 .. b - a /\ V!Cardinality(B) \in 0 .. c - b
  BY <1>2, <1>6
<1> QED BY <1>3, <1>7, <1>8 DEF Count

-----------------------------------------------------------------------------
(* The entries that cover a window.                                         *)

LEMMA GreaterOfTwo ==
    ASSUME NEW a \in Int, NEW b \in Int
    PROVE  V!Max({a, b}) = IF a >= b THEN a ELSE b
<1>1. (IF a >= b THEN a ELSE b) \in {a, b} /\ \A y \in {a, b} : (IF a >= b THEN a ELSE b) >= y
  OBVIOUS
<1>2. V!Max({a, b}) \in {a, b} /\ \A y \in {a, b} : V!Max({a, b}) >= y
  BY <1>1 DEF V!Max
<1> QED BY <1>2

LEMMA LesserOfTwo ==
    ASSUME NEW a \in Int, NEW b \in Int
    PROVE  V!Min({a, b}) = IF a <= b THEN a ELSE b
<1>1. (IF a <= b THEN a ELSE b) \in {a, b} /\ \A y \in {a, b} : (IF a <= b THEN a ELSE b) <= y
  OBVIOUS
<1>2. V!Min({a, b}) \in {a, b} /\ \A y \in {a, b} : V!Min({a, b}) <= y
  BY <1>1 DEF V!Min
<1> QED BY <1>2

LEMMA WindowIsNumbers ==
    ASSUME NEW n \in Nat, NEW clock \in Nat, NEW from \in Nat, NEW to \in Nat, from <= to
    PROVE  LET w == V!_entry_window(n, clock, from, to) IN
           /\ w.first \in Nat \ {0} /\ w.count \in Nat
           /\ w.first = IF n < V!Minus(clock, to) + (to - from) + 2 \/ n - (V!Minus(clock, to) + (to - from) + 2) < 1
                        THEN 1 ELSE n - (V!Minus(clock, to) + (to - from) + 2)
           /\ w.count = IF V!Minus(n + 1, w.first) <= to - from + 4 THEN V!Minus(n + 1, w.first) ELSE to - from + 4
<1> DEFINE o == V!Minus(clock, to)
           q == V!Minus(n, o + (to - from) + 2)
           f == V!Max({1, q})
           m == V!Minus(n + 1, f)
           c == V!Min({m, to - from + 4})
<1>1. o \in Nat
  BY DEF V!Minus
<1>2. q \in Nat /\ q = IF n < o + (to - from) + 2 THEN 0 ELSE n - (o + (to - from) + 2)
  <2> HIDE DEF o
  <2> QED BY <1>1 DEF V!Minus
<1>3. f \in Nat \ {0} /\ f = IF 1 >= q THEN 1 ELSE q
  <2> HIDE DEF q
  <2> QED BY <1>2, GreaterOfTwo
<1>4. m \in Nat
  <2> HIDE DEF f
  <2> QED BY <1>3 DEF V!Minus
<1>5. c \in Nat /\ c = IF m <= to - from + 4 THEN m ELSE to - from + 4
  <2> HIDE DEF m
  <2>1. to - from + 4 \in Nat
    OBVIOUS
  <2> QED BY <1>4, <2>1, LesserOfTwo
<1>6. V!_entry_window(n, clock, from, to) = [first |-> f, count |-> c]
  BY DEF V!_entry_window
<1> HIDE DEF o, f, c, q, m
<1>7. f = IF n < o + (to - from) + 2 \/ n - (o + (to - from) + 2) < 1
          THEN 1 ELSE n - (o + (to - from) + 2)
  BY <1>1, <1>2, <1>3
<1> QED BY <1>3, <1>5, <1>6, <1>7 DEF o, m

\* A row as far from the newest as the margins allow is among them.
LEMMA WindowCovers ==
    ASSUME NEW n \in Nat, NEW clock \in Nat, NEW from \in Nat, NEW to \in Nat, from <= to, to <= clock,
           NEW e \in Nat, e >= 1, e <= n, n + from <= e + clock + 2, e + clock <= n + to + 1
    PROVE  LET w == V!_entry_window(n, clock, from, to) IN e \in w.first .. w.first + w.count - 1
<1> DEFINE w == V!_entry_window(n, clock, from, to)
<1>1. V!Minus(clock, to) = clock - to
  BY DEF V!Minus
<1>a. /\ w.first \in Nat \ {0} /\ w.count \in Nat
      /\ w.first = IF n < V!Minus(clock, to) + (to - from) + 2 \/ n - (V!Minus(clock, to) + (to - from) + 2) < 1
                   THEN 1 ELSE n - (V!Minus(clock, to) + (to - from) + 2)
      /\ w.count = IF V!Minus(n + 1, w.first) <= to - from + 4 THEN V!Minus(n + 1, w.first) ELSE to - from + 4
  BY WindowIsNumbers
<1> HIDE DEF w
<1>2. /\ w.first \in Nat \ {0} /\ w.count \in Nat
      /\ w.first = IF n < clock - to + (to - from) + 2 \/ n - (clock - to + (to - from) + 2) < 1
                   THEN 1 ELSE n - (clock - to + (to - from) + 2)
      /\ w.count = IF V!Minus(n + 1, w.first) <= to - from + 4 THEN V!Minus(n + 1, w.first) ELSE to - from + 4
  BY <1>1, <1>a
<1>3. w.first <= e
  BY <1>2
<1>4. V!Minus(n + 1, w.first) = n + 1 - w.first
  BY <1>2, <1>3 DEF V!Minus
<1>5. e <= w.first + w.count - 1
  BY <1>2, <1>3, <1>4
<1>6. w.first + w.count - 1 \in Int
  BY <1>2
<1> QED BY <1>2, <1>3, <1>5, <1>6 DEF w

LEMMA WindowIsNotEmpty ==
    ASSUME NEW n \in Nat, NEW clock \in Nat, NEW from \in Nat, NEW to \in Nat, from <= to, n # 0
    PROVE  ~V!Empty(n, V!_entry_window(n, clock, from, to))
<1> DEFINE w == V!_entry_window(n, clock, from, to)
<1>1. V!Minus(clock, to) \in Nat
  BY DEF V!Minus
<1>2. /\ w.first \in Nat \ {0} /\ w.count \in Nat
      /\ w.first = IF n < V!Minus(clock, to) + (to - from) + 2 \/ n - (V!Minus(clock, to) + (to - from) + 2) < 1
                   THEN 1 ELSE n - (V!Minus(clock, to) + (to - from) + 2)
      /\ w.count = IF V!Minus(n + 1, w.first) <= to - from + 4 THEN V!Minus(n + 1, w.first) ELSE to - from + 4
  BY WindowIsNumbers
<1> HIDE DEF w
<1>3. w.first <= n
  BY <1>1, <1>2
<1>4. V!Minus(n + 1, w.first) = n + 1 - w.first
  BY <1>2, <1>3 DEF V!Minus
<1>5. w.count # 0
  BY <1>2, <1>3, <1>4
<1> QED BY <1>5 DEF V!Empty, w

-----------------------------------------------------------------------------
(* The inductive invariant.                                                 *)

VisitShape ==
    [task : V!Task, pc : {"idle", "connect", "ready", "entries", "clock", "rows", "done"},
     tries : Nat, from : Nat, to : Nat, n : Nat, at : Nat, clock : Nat, first : Nat, count : Nat,
     asked : SUBSET Nat, rows : SUBSET Nat, bills : SUBSET [period : Nat, is_open : BOOLEAN],
     running : Nat, start : Nat, value : {"none", "scaled", "null", "raw"},
     scaler : {"unread", "resolved", "refused"}]

VisitTyped ==
    now \in Nat \ {0} /\ dark \in SUBSET (1 .. now) /\ closed \in Nat /\ visit \in VisitShape

Reading(pcs) == visit.task = "read_load_profile" /\ visit.pc \in pcs

WindowIsPast ==
    Reading({"entries", "clock", "rows", "done"}) =>
        /\ 1 <= visit.from /\ visit.from <= visit.to /\ visit.to <= now
        /\ visit.asked \subseteq visit.from .. visit.to

\* What the ring holds has grown by what was logged since, or by less.
CountIsClose ==
    Reading({"clock", "rows"}) =>
        /\ visit.to <= visit.at /\ visit.at <= now
        /\ visit.n <= V!Cardinality(V!Held)
        /\ V!Cardinality(V!Held) <= visit.n + V!Cardinality(V!Logged \cap (visit.at + 1 .. now))

ClockIsBetween ==
    Reading({"rows", "done"}) /\ model = "smw110" =>
        visit.to <= visit.at /\ visit.at <= visit.clock /\ visit.clock <= now

EntriesAreComputed ==
    Reading({"rows"}) /\ model = "smw110" =>
        LET w == V!_entry_window(visit.n, visit.clock, visit.from, visit.to) IN
        visit.first = w.first /\ visit.count = w.count

ReadInv ==
    VisitTyped /\ WindowIsPast /\ CountIsClose /\ ClockIsBetween /\ EntriesAreComputed
    /\ V!NothingHeldIsMissed

LEMMA HeldIsKept == V!Held = Kept(V!Logged) /\ \A t : V!Entry(t) = V!Cardinality(Up(V!Logged, t))
<1>1. V!Held = Kept(V!Logged)
  BY DEF V!Held, Kept, Since
<1> QED BY <1>1 DEF V!Entry, Up

\* A row that the meter held when it counted, held still: its entry now is among those
\* it counted, and the program's count of the rows after it is off by what came since.
LEMMA EntryOfARow ==
    ASSUME VisitTyped, WindowIsPast, CountIsClose, Reading({"clock", "rows"}),
           NEW t \in visit.asked \cap V!Held, Capacity \in Nat \ {0}
    PROVE  /\ V!Entry(t) \in Nat /\ V!Entry(t) >= 1 /\ V!Entry(t) <= visit.n
           /\ visit.n + visit.from <= V!Entry(t) + now
           /\ V!Entry(t) + visit.at <= visit.n + visit.to
                                     + V!Cardinality(dark \cap (visit.to + 1 .. visit.at))
<1> DEFINE L == V!Logged
<1>1. now \in Nat /\ L \in SUBSET (1 .. now) /\ dark \in SUBSET (1 .. now) /\ L = (1 .. now) \ dark
  BY DEF V!Logged, VisitTyped
<1>2. /\ visit.from \in Nat /\ visit.to \in Nat /\ visit.at \in Nat /\ visit.n \in Nat
      /\ visit.from <= t /\ t <= visit.to /\ visit.to <= visit.at /\ visit.at <= now
      /\ t \in Nat
  <2>1. visit.from \in Nat /\ visit.to \in Nat /\ visit.at \in Nat /\ visit.n \in Nat
    BY DEF VisitTyped, VisitShape
  <2> QED BY <2>1 DEF WindowIsPast, CountIsClose, Reading
<1>3. t \in Kept(L) /\ V!Entry(t) = V!Cardinality(Up(L, t)) /\ V!Held = Kept(L)
  BY HeldIsKept
<1> HIDE DEF L
<1>4. Kept(L) \in SUBSET L /\ Up(L, t) \in SUBSET L
  BY DEF Kept, Up
<1>5. IsFiniteSet(Up(L, t)) /\ V!Entry(t) \in Nat /\ V!Cardinality(V!Held) \in Nat
  BY <1>1, <1>3, <1>4, RowsAreFinite
<1>6. V!Entry(t) >= 1
  <2>1. t \in Up(L, t)
    BY <1>2, <1>3 DEF Up
  <2>2. V!Entry(t) # 0
    BY <1>3, <1>5, <2>1, FS_EmptySet, SameMeasures
  <2> QED BY <1>5, <2>2
<1>7. V!Cardinality(V!Held) = V!Entry(t) + V!Cardinality(L \cap (t + 1 .. now))
  BY <1>1, <1>3, EntryFromTheEnd
<1> DEFINE l(a) == V!Cardinality(L \cap (a + 1 .. now))
           d(a, b) == Count(dark, a, b)
<1>8. l(t) + d(t, now) = now - t /\ l(visit.at) + d(visit.at, now) = now - visit.at
  <2>1. t \in 0 .. now /\ visit.at \in 0 .. now
    BY <1>1, <1>2
  <2> QED BY <1>1, <2>1, LoggedOrDark DEF Count
<1>9. d(t, now) = d(t, visit.to) + d(visit.to, now) /\ d(t, visit.to) \in 0 .. visit.to - t
      /\ d(visit.to, now) \in 0 .. now - visit.to
  <2>1. t <= visit.to /\ visit.to <= now
    BY <1>1, <1>2
  <2> QED BY <1>1, <1>2, <2>1, CountInTwo
<1>10. d(visit.to, now) = d(visit.to, visit.at) + d(visit.at, now)
       /\ d(visit.to, visit.at) \in 0 .. visit.at - visit.to /\ d(visit.at, now) \in 0 .. now - visit.at
  <2>1. /\ visit.to \in Nat /\ visit.at \in Nat /\ now \in Nat
        /\ visit.to <= visit.at /\ visit.at <= now
    BY <1>1, <1>2
  <2>2. /\ Count(dark, visit.to, now) = Count(dark, visit.to, visit.at) + Count(dark, visit.at, now)
        /\ Count(dark, visit.to, visit.at) \in 0 .. visit.at - visit.to
        /\ Count(dark, visit.at, now) \in 0 .. now - visit.at
    BY <2>1, CountInTwo, Zenon
  <2> QED BY <2>2
<1>11. l(t) \in Nat /\ l(visit.at) \in Nat
  <2>1. L \cap (t + 1 .. now) \in SUBSET L /\ L \cap (visit.at + 1 .. now) \in SUBSET L
    OBVIOUS
  <2> QED BY <1>1, <2>1, RowsAreFinite
<1>12. visit.n <= V!Entry(t) + l(t) /\ V!Entry(t) + l(t) <= visit.n + l(visit.at)
  BY <1>7 DEF CountIsClose, L
<1> HIDE DEF l, d
<1>13. visit.n + visit.from <= V!Entry(t) + now
  BY <1>1, <1>2, <1>5, <1>8, <1>9, <1>10, <1>11, <1>12
<1>14. V!Entry(t) + visit.at <= visit.n + visit.to + d(visit.to, visit.at)
  BY <1>1, <1>2, <1>5, <1>8, <1>9, <1>10, <1>11, <1>12
<1>15. V!Entry(t) <= visit.n
  BY <1>1, <1>2, <1>5, <1>10, <1>14
<1> QED BY <1>5, <1>6, <1>13, <1>14, <1>15 DEF d, Count

-----------------------------------------------------------------------------
(* What an interval changes.                                                *)

LEMMA RingAfterTick ==
    ASSUME VisitTyped, V!Tick, Capacity \in Nat \ {0}
    PROVE  /\ now' = now + 1 /\ now' \in Nat \ {0} /\ dark' \in SUBSET (1 .. now')
           /\ \A t \in 1 .. now : t \in dark' <=> t \in dark
           /\ V!Held' \subseteq V!Held \cup {now + 1}
           /\ V!Cardinality(V!Held) <= V!Cardinality(V!Held')
           /\ \A a \in 0 .. now :
                V!Cardinality(V!Held') + V!Cardinality(V!Logged \cap (a + 1 .. now))
                  <= V!Cardinality(V!Held) + V!Cardinality((V!Logged \cap (a + 1 .. now))')
<1>1. now \in Nat \ {0} /\ now' = now + 1 /\ dark \in SUBSET (1 .. now) /\ (dark' = dark \/ dark' = dark \cup {now + 1})
  BY DEF V!Tick, VisitTyped
<1>2. now' \in Nat \ {0} /\ dark' \in SUBSET (1 .. now') /\ \A t \in 1 .. now : t \in dark' <=> t \in dark
  <2>1. now' \in Nat \ {0} /\ \A t \in 1 .. now : t # now + 1 /\ t \in 1 .. now + 1
    BY <1>1
  <2>2. now + 1 \in 1 .. now + 1
    BY <1>1
  <2>3. dark' \in SUBSET (1 .. now + 1)
    BY <1>1, <2>1, <2>2
  <2>4. \A t \in 1 .. now : t \in dark' <=> t \in dark
    BY <1>1, <2>1
  <2> QED BY <1>1, <2>1, <2>3, <2>4
<1>3. V!Held = Kept(V!Logged) /\ V!Held' = Kept(V!Logged')
  BY DEF V!Held, Kept, Since
<1>4. V!Logged \in SUBSET (1 .. now)
  BY DEF V!Logged
<1>5. V!Held \in SUBSET V!Logged /\ IsFiniteSet(V!Held) /\ V!Cardinality(V!Held) \in Nat
  <2>1. V!Held \in SUBSET V!Logged
    BY DEF V!Held
  <2> QED BY <1>1, <1>4, <2>1, RowsAreFinite
<1>6. CASE dark' = dark \cup {now + 1}
  <2>1. V!Logged' = V!Logged
    BY <1>1, <1>6 DEF V!Logged
  <2>2. V!Held' = V!Held
    BY <1>3, <2>1
  <2>3. \A a \in 0 .. now : (V!Logged \cap (a + 1 .. now))' = V!Logged \cap (a + 1 .. now)
    <3> TAKE a \in 0 .. now
    <3>1. \A x \in V!Logged : x \in a + 1 .. now + 1 <=> x \in a + 1 .. now
      BY <1>1, <1>4
    <3> QED BY <1>1, <2>1, <3>1
  <2>4. \A a \in 0 .. now : V!Cardinality(V!Logged \cap (a + 1 .. now)) \in Nat
    <3> TAKE a \in 0 .. now
    <3>1. V!Logged \cap (a + 1 .. now) \in SUBSET V!Logged
      OBVIOUS
    <3> QED BY <1>1, <1>4, <3>1, RowsAreFinite
  <2> QED BY <1>1, <1>2, <1>5, <2>2, <2>3, <2>4
<1>7. CASE dark' = dark
  <2>1. V!Logged' = V!Logged \cup {now + 1}
    BY <1>1, <1>7 DEF V!Logged
  <2>2. /\ V!Held' \subseteq V!Held \cup {now + 1}
        /\ V!Cardinality(V!Held) <= V!Cardinality(V!Held')
        /\ V!Cardinality(V!Held') <= V!Cardinality(V!Held) + 1
    BY <1>1, <1>3, <1>4, <2>1, RingTurns
  <2>3. V!Cardinality(V!Held') \in Nat
    <3>1. V!Held' \in SUBSET V!Logged' /\ V!Logged' \in SUBSET (1 .. now')
      BY DEF V!Held, V!Logged
    <3> QED BY <1>2, <3>1, RowsAreFinite
  <2>4. \A a \in 0 .. now :
          /\ V!Cardinality((V!Logged \cap (a + 1 .. now))') = V!Cardinality(V!Logged \cap (a + 1 .. now)) + 1
          /\ V!Cardinality(V!Logged \cap (a + 1 .. now)) \in Nat
    <3> TAKE a \in 0 .. now
    <3>1. V!Logged \cap (a + 1 .. now) \in SUBSET V!Logged
      OBVIOUS
    <3>2. IsFiniteSet(V!Logged \cap (a + 1 .. now)) /\ V!Cardinality(V!Logged \cap (a + 1 .. now)) \in Nat
      BY <1>1, <1>4, <3>1, RowsAreFinite
    <3>3. (V!Logged \cap (a + 1 .. now))' = (V!Logged \cap (a + 1 .. now)) \cup {now + 1}
      <4>1. \A x \in V!Logged : x \in a + 1 .. now + 1 <=> x \in a + 1 .. now
        BY <1>1, <1>4
      <4>2. now + 1 \in a + 1 .. now + 1
        BY <1>1
      <4> QED BY <1>1, <2>1, <4>1, <4>2
    <3>4. now + 1 \notin V!Logged \cap (a + 1 .. now)
      BY <1>1, <1>4
    <3> QED BY <3>2, <3>3, <3>4, OneMore
  <2> QED BY <1>1, <1>2, <1>5, <2>2, <2>3, <2>4
<1> QED BY <1>1, <1>6, <1>7

LEMMA InvAfterTick ==
    ASSUME ReadInv, V!Tick, Capacity \in Nat \ {0}
    PROVE  ReadInv'
<1>1. /\ now \in Nat \ {0} /\ dark \in SUBSET (1 .. now) /\ closed \in Nat /\ visit \in VisitShape
      /\ closed' = closed /\ visit' = visit /\ model' = model
  BY DEF ReadInv, VisitTyped, V!Tick
<1>2. /\ now' = now + 1 /\ now' \in Nat \ {0} /\ dark' \in SUBSET (1 .. now')
      /\ \A t \in 1 .. now : t \in dark' <=> t \in dark
      /\ V!Held' \subseteq V!Held \cup {now + 1}
      /\ V!Cardinality(V!Held) <= V!Cardinality(V!Held')
      /\ \A a \in 0 .. now :
           V!Cardinality(V!Held') + V!Cardinality(V!Logged \cap (a + 1 .. now))
             <= V!Cardinality(V!Held) + V!Cardinality((V!Logged \cap (a + 1 .. now))')
  BY RingAfterTick DEF ReadInv
<1>3. VisitTyped'
  BY <1>1, <1>2 DEF VisitTyped
<1>4. /\ visit.from \in Nat /\ visit.to \in Nat /\ visit.at \in Nat /\ visit.n \in Nat /\ visit.clock \in Nat
  BY <1>1 DEF VisitShape
<1>a. \A pcs : Reading(pcs)' <=> Reading(pcs)
  BY <1>1 DEF Reading
<1>5. WindowIsPast'
  BY <1>1, <1>2, <1>4 DEF ReadInv, WindowIsPast, Reading
<1>6. CountIsClose'
  <2> SUFFICES ASSUME Reading({"clock", "rows"})
               PROVE  /\ visit.to <= visit.at /\ visit.at <= now'
                      /\ visit.n <= V!Cardinality(V!Held')
                      /\ V!Cardinality(V!Held') <= visit.n + V!Cardinality((V!Logged \cap (visit.at + 1 .. now))')
    BY <1>1 DEF CountIsClose, Reading
  <2>1. /\ visit.to <= visit.at /\ visit.at <= now
        /\ visit.n <= V!Cardinality(V!Held)
        /\ V!Cardinality(V!Held) <= visit.n + V!Cardinality(V!Logged \cap (visit.at + 1 .. now))
    BY DEF ReadInv, CountIsClose
  <2>2. visit.at \in 0 .. now
    BY <1>1, <1>4, <2>1
  <2>3. V!Cardinality(V!Held') + V!Cardinality(V!Logged \cap (visit.at + 1 .. now))
             <= V!Cardinality(V!Held) + V!Cardinality((V!Logged \cap (visit.at + 1 .. now))')
    BY <1>1, <1>2, <2>2
  <2>4. V!Cardinality(V!Held) \in Nat /\ V!Cardinality(V!Logged \cap (visit.at + 1 .. now)) \in Nat
    <3>1. V!Held \in SUBSET V!Logged /\ V!Logged \in SUBSET (1 .. now) /\ V!Logged \cap (visit.at + 1 .. now) \in SUBSET V!Logged
      BY DEF V!Held, V!Logged
    <3> QED BY <1>1, <3>1, RowsAreFinite
  <2>5. V!Cardinality(V!Held') \in Nat /\ V!Cardinality((V!Logged \cap (visit.at + 1 .. now))') \in Nat
    <3>1. V!Held' \in SUBSET V!Logged' /\ V!Logged' \in SUBSET (1 .. now')
          /\ (V!Logged \cap (visit.at + 1 .. now))' \in SUBSET V!Logged'
      BY DEF V!Held, V!Logged
    <3> QED BY <1>2, <3>1, RowsAreFinite
  <2> QED BY <1>1, <1>2, <1>4, <2>1, <2>3, <2>4, <2>5
<1>7. ClockIsBetween'
  BY <1>1, <1>2, <1>4 DEF ReadInv, ClockIsBetween, Reading
<1>8. EntriesAreComputed'
  BY <1>1 DEF ReadInv, EntriesAreComputed, Reading
<1>9. V!NothingHeldIsMissed'
  <2> SUFFICES ASSUME Reading({"done"}), model = "smw110" => V!Overstated' <= 1 /\ now' - visit.at <= 2
               PROVE  visit.asked \cap V!Held' \subseteq visit.rows
    BY <1>1 DEF V!NothingHeldIsMissed, Reading
  <2>1. visit.asked \subseteq visit.from .. visit.to /\ 1 <= visit.from /\ visit.to <= now
    BY DEF ReadInv, WindowIsPast, Reading
  <2>2. visit.asked \cap V!Held' \subseteq visit.asked \cap V!Held
    <3>1. now + 1 \notin visit.asked
      BY <1>1, <1>4, <2>1
    <3> QED BY <1>2, <3>1
  <2>3. ASSUME model = "smw110" PROVE V!Overstated <= 1 /\ now - visit.at <= 2
    <3>1. visit.clock <= now
      BY <2>3 DEF ReadInv, ClockIsBetween, Reading
    <3>2. dark' \cap (visit.to + 1 .. visit.clock) = dark \cap (visit.to + 1 .. visit.clock)
      <4>1. \A x \in visit.to + 1 .. visit.clock : x \in 1 .. now
        BY <1>1, <1>4, <3>1
      <4> QED BY <1>2, <4>1
    <3>3. V!Overstated' = V!Overstated
      BY <1>1, <3>2 DEF V!Overstated
    <3> QED BY <1>1, <1>2, <1>4, <2>3, <3>3
  <2>4. visit.asked \cap V!Held \subseteq visit.rows
    BY <2>3 DEF ReadInv, V!NothingHeldIsMissed, Reading
  <2> QED BY <2>2, <2>4
<1> QED BY <1>3, <1>5, <1>6, <1>7, <1>8, <1>9 DEF ReadInv

-----------------------------------------------------------------------------
(* What the driver's steps change.                                          *)

LEMMA IdleIsShaped == V!Idle \in VisitShape
BY DEF V!Idle, VisitShape, V!Task

\* A step after which no load-profile read is under way.
LEMMA InvAfterOther ==
    ASSUME ReadInv, UNCHANGED <<model, now, dark, closed>>, visit' \in VisitShape,
           visit'.task # "read_load_profile" \/ visit'.pc \in {"idle", "connect", "ready"}
    PROVE  ReadInv'
<1>1. \A pcs : Reading(pcs)' <=> visit'.task = "read_load_profile" /\ visit'.pc \in pcs
  BY DEF Reading
<1>2. VisitTyped'
  BY DEF ReadInv, VisitTyped
<1>3. WindowIsPast'
  BY DEF WindowIsPast, Reading
<1>4. CountIsClose'
  BY DEF CountIsClose, Reading
<1>5. ClockIsBetween'
  BY DEF ClockIsBetween, Reading
<1>6. EntriesAreComputed'
  BY DEF EntriesAreComputed, Reading
<1>7. V!NothingHeldIsMissed'
  BY DEF V!NothingHeldIsMissed
<1> QED BY <1>2, <1>3, <1>4, <1>5, <1>6, <1>7 DEF ReadInv

LEMMA HeldIsNumbers ==
    ASSUME VisitTyped
    PROVE  /\ V!Held \in SUBSET (1 .. now) /\ V!Logged \in SUBSET (1 .. now)
           /\ IsFiniteSet(V!Held) /\ V!Cardinality(V!Held) \in Nat
<1>1. V!Held \in SUBSET V!Logged /\ V!Logged \in SUBSET (1 .. now) /\ now \in Nat
  BY DEF V!Held, V!Logged, VisitTyped
<1> QED BY <1>1, RowsAreFinite

LEMMA InvAfterStart ==
    ASSUME ReadInv, NEW task \in V!Task, V!Start(task), MaxWindow \in Nat
    PROVE  ReadInv'
<1>1. /\ now \in Nat \ {0} /\ dark \in SUBSET (1 .. now) /\ closed \in Nat /\ visit \in VisitShape
      /\ UNCHANGED <<model, now, dark, closed>>
  BY DEF ReadInv, VisitTyped, V!Start, V!Visit
<1>2. V!Fresh(task) \in VisitShape /\ V!Fresh(task).task = task
      /\ (task = "read_load_profile" => V!Fresh(task).pc = "entries")
  <2>1. visit.scaler \in {"unread", "resolved", "refused"}
    BY <1>1 DEF VisitShape
  <2>2. \E pc \in {"rows", "entries"} :
           /\ V!Fresh(task) = [V!Idle EXCEPT !.pc = pc, !.task = task, !.scaler = visit.scaler]
           /\ task = "read_load_profile" => pc = "entries"
    BY DEF V!Fresh, V!Register
  <2> QED BY <2>1, <2>2, IdleIsShaped DEF VisitShape
<1>3. CASE task # "read_load_profile"
  <2>1. visit' = V!Fresh(task)
    BY <1>3 DEF V!Start, V!Visit
  <2> QED BY <1>1, <1>2, <1>3, <2>1, InvAfterOther
<1>4. CASE task = "read_load_profile"
  <2>1. PICK to \in 1 .. now : \E from \in V!Max({1, to - MaxWindow}) .. to :
           visit' = [V!Fresh(task) EXCEPT !.from = from, !.to = to, !.asked = V!Held \cap (from .. to)]
    BY <1>4 DEF V!Start, V!Visit
  <2>2. PICK from \in V!Max({1, to - MaxWindow}) .. to :
           visit' = [V!Fresh(task) EXCEPT !.from = from, !.to = to, !.asked = V!Held \cap (from .. to)]
    BY <2>1
  <2>3. V!Max({1, to - MaxWindow}) \in Nat /\ V!Max({1, to - MaxWindow}) >= 1
    <3>1. to - MaxWindow \in Int /\ 1 \in Int
      BY <1>1
    <3> QED BY <1>1, <3>1, GreaterOfTwo
  <2>4. from \in Nat /\ 1 <= from /\ from <= to /\ to \in Nat /\ to <= now
    BY <1>1, <2>3
  <2>5. V!Held \cap (from .. to) \in SUBSET Nat
    BY <2>4
  <2>6. /\ visit' \in VisitShape /\ visit'.from = from /\ visit'.to = to /\ visit'.asked = V!Held \cap (from .. to)
        /\ visit'.task = task /\ visit'.pc = "entries"
    BY <1>2, <1>4, <2>2, <2>4, <2>5 DEF VisitShape
  <2>7. WindowIsPast'
    BY <1>1, <2>4, <2>6 DEF WindowIsPast
  <2>8. CountIsClose' /\ ClockIsBetween' /\ EntriesAreComputed' /\ V!NothingHeldIsMissed'
    BY <2>6 DEF CountIsClose, ClockIsBetween, EntriesAreComputed, V!NothingHeldIsMissed, Reading
  <2>9. VisitTyped'
    BY <1>1, <2>6 DEF VisitTyped
  <2> QED BY <2>7, <2>8, <2>9 DEF ReadInv
<1> QED BY <1>3, <1>4

LEMMA InvAfterEntries ==
    ASSUME ReadInv, V!ReadEntries
    PROVE  ReadInv'
<1>1. /\ now \in Nat \ {0} /\ dark \in SUBSET (1 .. now) /\ closed \in Nat /\ visit \in VisitShape
      /\ UNCHANGED <<model, now, dark, closed>> /\ visit.pc = "entries"
  BY DEF ReadInv, VisitTyped, V!ReadEntries, V!Visit
<1>2. V!Cardinality(V!Bills) \in Nat
  <2>1. V!Bills \in SUBSET (1 .. closed + 1) /\ closed + 1 \in Nat
    BY <1>1 DEF V!Bills
  <2> QED BY <2>1, RowsAreFinite
<1>3. V!Cardinality(V!Held) \in Nat
  BY HeldIsNumbers DEF ReadInv
<1>4. CASE visit.task # "read_load_profile"
  <2>1. \E e \in Nat, pc \in {"done", "rows"} : visit' = [visit EXCEPT !.n = e, !.at = now, !.pc = pc]
    BY <1>1, <1>2, <1>3, <1>4 DEF V!ReadEntries, V!Visit, VisitShape
  <2>2. visit' \in VisitShape /\ visit'.task = visit.task
    BY <1>1, <2>1 DEF VisitShape
  <2> QED BY <1>1, <1>4, <2>2, InvAfterOther
<1>5. CASE visit.task = "read_load_profile"
  <2>1. PICK pc \in {"clock", "rows"} :
           /\ visit' = [visit EXCEPT !.n = V!Cardinality(V!Held), !.at = now, !.pc = pc]
           /\ model = "smw110" => pc = "clock"
    BY <1>1, <1>5 DEF V!ReadEntries, V!Visit, VisitShape
  <2>2. /\ visit' \in VisitShape /\ visit'.task = visit.task /\ visit'.pc = pc /\ visit'.from = visit.from
        /\ visit'.to = visit.to /\ visit'.asked = visit.asked /\ visit'.n = V!Cardinality(V!Held) /\ visit'.at = now
    BY <1>1, <1>3, <2>1 DEF VisitShape
  <2>3. V!Held' = V!Held /\ V!Logged' = V!Logged
    BY <1>1 DEF V!Held, V!Logged
  <2>4. WindowIsPast' 
    BY <1>1, <1>5, <2>2 DEF ReadInv, WindowIsPast, Reading
  <2>5. CountIsClose'
    <3>1. V!Cardinality(V!Logged \cap (now + 1 .. now)) \in Nat
      <4>1. V!Logged \cap (now + 1 .. now) \in SUBSET V!Logged /\ V!Logged \in SUBSET (1 .. now)
        BY DEF V!Logged
      <4> QED BY <1>1, <4>1, RowsAreFinite
    <3>2. visit.to <= now
      BY <1>1, <1>5 DEF ReadInv, WindowIsPast, Reading
    <3> QED BY <1>1, <1>3, <2>2, <2>3, <3>1, <3>2 DEF CountIsClose, Reading
  <2>6. ClockIsBetween' /\ EntriesAreComputed' /\ V!NothingHeldIsMissed'
    BY <1>1, <2>1, <2>2 DEF ClockIsBetween, EntriesAreComputed, V!NothingHeldIsMissed, Reading
  <2>7. VisitTyped'
    BY <1>1, <2>2 DEF VisitTyped
  <2> QED BY <2>4, <2>5, <2>6, <2>7 DEF ReadInv
<1> QED BY <1>4, <1>5

LEMMA InvAfterWindow ==
    ASSUME ReadInv, V!ComputeWindow, Capacity \in Nat \ {0}
    PROVE  ReadInv'
<1> DEFINE w == V!_entry_window(visit.n, now, visit.from, visit.to)
<1>1. /\ now \in Nat \ {0} /\ dark \in SUBSET (1 .. now) /\ closed \in Nat /\ visit \in VisitShape
      /\ UNCHANGED <<model, now, dark, closed>> /\ visit.pc = "clock" /\ visit.task = "read_load_profile"
      /\ visit.n \in Nat /\ visit.from \in Nat /\ visit.to \in Nat /\ visit.at \in Nat
  BY DEF ReadInv, VisitTyped, V!ComputeWindow, V!Visit, VisitShape
<1>2. visit.from <= visit.to
  BY <1>1 DEF ReadInv, WindowIsPast, Reading
<1>3. w.first \in Nat /\ w.count \in Nat
  BY <1>1, <1>2, WindowIsNumbers
<1>4. PICK pc \in {"done", "rows"} :
         /\ visit' = [visit EXCEPT !.clock = now, !.first = w.first, !.count = w.count, !.pc = pc]
         /\ pc = "done" => V!Empty(visit.n, w)
  <2> HIDE DEF w
  <2>1. visit' = [visit EXCEPT !.clock = now, !.first = w.first, !.count = w.count,
                           !.pc = IF V!Empty(visit.n, w) THEN "done" ELSE "rows"]
    BY DEF V!ComputeWindow, V!Visit, w
  <2> QED BY <2>1
<1> HIDE DEF w
<1>5. /\ visit' \in VisitShape /\ visit'.task = visit.task /\ visit'.pc = pc /\ visit'.from = visit.from
      /\ visit'.to = visit.to /\ visit'.asked = visit.asked /\ visit'.n = visit.n /\ visit'.at = visit.at
      /\ visit'.clock = now /\ visit'.first = w.first /\ visit'.count = w.count /\ visit'.rows = visit.rows
  BY <1>1, <1>3, <1>4 DEF VisitShape
<1>6. V!Held' = V!Held /\ V!Logged' = V!Logged
  BY <1>1 DEF V!Held, V!Logged
<1>7. VisitTyped'
  BY <1>1, <1>5 DEF VisitTyped
<1>8. WindowIsPast'
  BY <1>1, <1>5 DEF ReadInv, WindowIsPast, Reading
<1>9. visit.to <= visit.at /\ visit.at <= now
  BY <1>1 DEF ReadInv, CountIsClose, Reading
<1>10. CountIsClose'
  BY <1>1, <1>5, <1>6 DEF ReadInv, CountIsClose, Reading
<1>11. ClockIsBetween'
  BY <1>1, <1>5, <1>9 DEF ClockIsBetween
<1>12. EntriesAreComputed'
  BY <1>1, <1>5 DEF EntriesAreComputed, w
<1>13. V!NothingHeldIsMissed'
  <2>1. ASSUME pc = "done", NEW t \in visit.asked \cap V!Held PROVE FALSE
    <3>1. Reading({"clock", "rows"})
      BY <1>1 DEF Reading
    <3>2. V!Entry(t) \in Nat /\ V!Entry(t) >= 1 /\ V!Entry(t) <= visit.n
      BY <3>1, EntryOfARow DEF ReadInv
    <3>3. visit.n # 0
      BY <1>1, <3>2
    <3>4. ~V!Empty(visit.n, w)
      BY <1>1, <1>2, <3>3, WindowIsNotEmpty DEF w
    <3> QED BY <1>4, <2>1, <3>4
  <2> QED BY <1>5, <1>6, <2>1 DEF V!NothingHeldIsMissed
<1> QED BY <1>7, <1>8, <1>10, <1>11, <1>12, <1>13 DEF ReadInv

\* The margins: two rows more on the older side, one interval fewer on the newer.
LEMMA AllOfThemArrive ==
    ASSUME ReadInv, Reading({"rows"}), Capacity \in Nat \ {0},
           model = "smw110" => V!Overstated <= 1 /\ now - visit.at <= 2
    PROVE  visit.asked \cap V!Held \subseteq V!RowsArrived
<1> SUFFICES ASSUME NEW t \in visit.asked \cap V!Held PROVE t \in V!RowsArrived
  OBVIOUS
<1>1. t \in V!InWindow
  BY DEF ReadInv, WindowIsPast, Reading, V!InWindow
<1>2. CASE model # "smw110"
  BY <1>1, <1>2 DEF V!RowsArrived
<1>3. CASE model = "smw110"
  <2> DEFINE w == V!_entry_window(visit.n, visit.clock, visit.from, visit.to)
             dk == Count(dark, visit.to, visit.at)
             dc == Count(dark, visit.to, visit.clock)
  <2>1. /\ now \in Nat /\ visit.n \in Nat /\ visit.from \in Nat /\ visit.to \in Nat /\ visit.at \in Nat
        /\ visit.clock \in Nat
    BY DEF ReadInv, VisitTyped, VisitShape
  <2>2. visit.from <= visit.to
    BY DEF ReadInv, WindowIsPast, Reading
  <2>3. visit.to <= visit.at /\ visit.at <= visit.clock /\ visit.clock <= now
    BY <1>3 DEF ReadInv, ClockIsBetween, Reading
  <2>4. /\ V!Entry(t) \in Nat /\ V!Entry(t) >= 1 /\ V!Entry(t) <= visit.n
        /\ visit.n + visit.from <= V!Entry(t) + now
        /\ V!Entry(t) + visit.at <= visit.n + visit.to + dk
    <3>1. Reading({"clock", "rows"})
      BY DEF Reading
    <3> QED BY <3>1, EntryOfARow DEF ReadInv, Count
  <2>5. dk <= dc /\ dk \in Nat /\ dc \in Nat
    <3>1. dc = dk + Count(dark, visit.at, visit.clock) /\ dk \in 0 .. visit.at - visit.to
          /\ Count(dark, visit.at, visit.clock) \in 0 .. visit.clock - visit.at
      <4>1. /\ visit.to \in Nat /\ visit.at \in Nat /\ visit.clock \in Nat
            /\ visit.to <= visit.at /\ visit.at <= visit.clock
        BY <2>1, <2>3
      <4> QED BY <4>1, CountInTwo
    <3> QED BY <2>1, <3>1
  <2>6. dc + (visit.clock - visit.at) <= 1 /\ now - visit.at <= 2
    BY <1>3 DEF V!Overstated, Count
  <2> HIDE DEF dk, dc
  <2>7. visit.n + visit.from <= V!Entry(t) + visit.clock + 2
    BY <2>1, <2>3, <2>4, <2>6
  <2>8. V!Entry(t) + visit.clock <= visit.n + visit.to + 1
    BY <2>1, <2>3, <2>4, <2>5, <2>6
  <2>9. visit.to <= visit.clock
    BY <2>1, <2>3
  <2>10. V!Entry(t) \in w.first .. w.first + w.count - 1
    BY <2>1, <2>2, <2>4, <2>7, <2>8, <2>9, WindowCovers
  <2>11. visit.first = w.first /\ visit.count = w.count
    BY <1>3 DEF ReadInv, EntriesAreComputed, Reading
  <2> HIDE DEF w
  <2> QED BY <1>1, <1>3, <2>10, <2>11 DEF V!RowsArrived, V!EntriesAsked
<1> QED BY <1>2, <1>3

LEMMA InvAfterRows ==
    ASSUME ReadInv, V!read_load_profile, Capacity \in Nat \ {0}
    PROVE  ReadInv'
<1>1. /\ now \in Nat \ {0} /\ dark \in SUBSET (1 .. now) /\ closed \in Nat /\ visit \in VisitShape
      /\ UNCHANGED <<model, now, dark, closed>> /\ visit.pc = "rows" /\ visit.task = "read_load_profile"
  BY DEF ReadInv, VisitTyped, V!read_load_profile, V!Visit
<1>2. PICK scaler \in {"unread", "resolved", "refused"} :
         visit' = [visit EXCEPT !.pc = "done", !.rows = V!RowsArrived, !.scaler = scaler,
                                !.value = V!ValueOf(scaler)]
  <2>1. V!Resolved \subseteq {"unread", "resolved", "refused"}
    BY <1>1 DEF V!Resolved, VisitShape
  <2> QED BY <2>1 DEF V!read_load_profile, V!Visit
<1>3. V!RowsArrived \in SUBSET Nat
  <2>1. V!Held \in SUBSET (1 .. now)
    BY HeldIsNumbers DEF ReadInv
  <2>2. V!RowsArrived \in SUBSET V!Held
    BY DEF V!RowsArrived, V!EntriesAsked
  <2>3. 1 .. now \in SUBSET Nat
    BY <1>1
  <2> QED BY <2>1, <2>2, <2>3
<1>4. /\ visit' \in VisitShape /\ visit'.task = visit.task /\ visit'.pc = "done" /\ visit'.from = visit.from
      /\ visit'.to = visit.to /\ visit'.asked = visit.asked /\ visit'.n = visit.n /\ visit'.at = visit.at
      /\ visit'.clock = visit.clock /\ visit'.rows = V!RowsArrived
  BY <1>1, <1>2, <1>3 DEF VisitShape, V!ValueOf
<1>5. V!Held' = V!Held
  BY <1>1 DEF V!Held, V!Logged
<1>6. VisitTyped'
  BY <1>1, <1>4 DEF VisitTyped
<1>7. WindowIsPast'
  BY <1>1, <1>4 DEF ReadInv, WindowIsPast, Reading
<1>8. CountIsClose' /\ EntriesAreComputed'
  BY <1>4 DEF CountIsClose, EntriesAreComputed, Reading
<1>9. ClockIsBetween'
  BY <1>1, <1>4 DEF ReadInv, ClockIsBetween, Reading
<1>10. V!NothingHeldIsMissed'
  <2> SUFFICES ASSUME model = "smw110" => V!Overstated' <= 1 /\ now - visit.at <= 2
               PROVE  visit.asked \cap V!Held \subseteq V!RowsArrived
    BY <1>1, <1>4, <1>5 DEF V!NothingHeldIsMissed
  <2>1. V!Overstated' = V!Overstated
    BY <1>1, <1>4 DEF V!Overstated
  <2>2. Reading({"rows"})
    BY <1>1 DEF Reading
  <2> QED BY <2>1, <2>2, AllOfThemArrive
<1> QED BY <1>6, <1>7, <1>8, <1>9, <1>10 DEF ReadInv

LEMMA BillsAreNumbers ==
    ASSUME VisitTyped
    PROVE  V!Bills \in SUBSET (1 .. closed + 1) /\ closed + 1 \in Nat
BY DEF VisitTyped, V!Bills

LEMMA ArrivedIsTyped ==
    ASSUME VisitTyped, NEW e, NEW byReason, NEW mute, NEW skipped
    PROVE  V!Arrived(e, byReason, mute, skipped) \in SUBSET [period : 1 .. closed + 1, is_open : BOOLEAN]
<1> SUFFICES ASSUME NEW p \in V!Bills
             PROVE  [period |-> p, is_open |-> V!_classify_open(p, byReason, mute)]
                      \in [period : 1 .. closed + 1, is_open : BOOLEAN]
  BY DEF V!Arrived
<1>1. V!_classify_open(p, byReason, mute) \in BOOLEAN
  BY DEF V!_classify_open
<1>2. p \in 1 .. closed + 1
  BY BillsAreNumbers
<1> QED BY <1>1, <1>2

\* What the other reads return.
LEMMA InvAfterOtherReads ==
    ASSUME ReadInv,
           V!load_profile_oldest_reading \/ V!NoAnswer \/ V!read_billing \/ V!billing_newest_closed_bill_date
           \/ V!read_register \/ V!read_energy_registers
    PROVE  ReadInv'
<1>1. /\ now \in Nat \ {0} /\ closed \in Nat /\ visit \in VisitShape
      /\ UNCHANGED <<model, now, dark, closed>>
  BY DEF ReadInv, VisitTyped, V!Visit, V!load_profile_oldest_reading, V!NoAnswer, V!read_billing,
         V!billing_newest_closed_bill_date, V!read_register, V!read_energy_registers
<1>2. visit.task # "read_load_profile"
  BY DEF V!load_profile_oldest_reading, V!NoAnswer, V!read_billing, V!Register,
         V!billing_newest_closed_bill_date, V!read_register, V!read_energy_registers
<1> SUFFICES visit' \in VisitShape /\ visit'.task = visit.task
  BY <1>1, <1>2, InvAfterOther
<1>3. CASE V!load_profile_oldest_reading
  <2>1. V!Held \in SUBSET Nat /\ V!Held # {} /\ visit.n \in Nat
    <3>1. 1 .. now \in SUBSET Nat
      BY <1>1
    <3> QED BY <1>1, <1>3, <3>1, HeldIsNumbers DEF ReadInv, V!load_profile_oldest_reading, VisitShape
  <2>2. V!Min(V!Held) \in Nat
    BY <2>1, HasLeast, SameMeasures
  <2>3. V!_estimate_oldest_reading(visit.n, now) \in Nat
    BY <1>1, <2>1 DEF V!_estimate_oldest_reading, V!Minus
  <2>4. PICK s \in Nat : visit' = [visit EXCEPT !.pc = "done", !.clock = now, !.start = s]
    BY <1>3, <2>2, <2>3 DEF V!load_profile_oldest_reading, V!Visit
  <2> QED BY <1>1, <2>4 DEF VisitShape
<1>4. CASE V!NoAnswer
  BY <1>1, <1>4 DEF V!NoAnswer, V!Visit, VisitShape
<1>5. CASE V!read_billing
  <2>1. PICK byReason \in V!ByReason, mute, skipped \in SUBSET V!Bills, scaler \in {"resolved", "refused"} :
        V!Visit([visit EXCEPT !.pc = "done", !.bills = V!Arrived(visit.n, byReason, mute, skipped),
                            !.running = IF byReason /\ closed + 1 \in mute THEN 0 ELSE closed + 1,
                            !.value = V!ValueOf(scaler)])
    BY <1>5, Zenon DEF V!read_billing
  <2>2. V!Arrived(visit.n, byReason, mute, skipped) \in SUBSET [period : Nat, is_open : BOOLEAN]
    <3>1. V!Arrived(visit.n, byReason, mute, skipped) \in SUBSET [period : 1 .. closed + 1, is_open : BOOLEAN]
      BY ArrivedIsTyped DEF ReadInv
    <3>2. 1 .. closed + 1 \in SUBSET Nat
      BY <1>1
    <3> QED BY <3>1, <3>2
  <2>a. (IF byReason /\ closed + 1 \in mute THEN 0 ELSE closed + 1) \in Nat
    BY <1>1
  <2>3. PICK r \in Nat : visit' = [visit EXCEPT !.pc = "done", !.bills = V!Arrived(visit.n, byReason, mute, skipped),
                            !.running = r, !.value = V!ValueOf(scaler)]
    BY <2>1, <2>a, Zenon DEF V!Visit
  <2> QED BY <1>1, <2>2, <2>3 DEF VisitShape, V!ValueOf
<1>6. CASE V!billing_newest_closed_bill_date
  <2>1. PICK byReason \in V!ByReason, mute \in SUBSET V!Bills, skipped \in SUBSET V!Bills :
        LET old == {b.period : b \in {c \in V!Arrived(2, byReason, mute, skipped) : ~c.is_open}} IN
        visit' = [visit EXCEPT !.pc = "done", !.start = V!Max({0} \cup old),
                            !.running = IF byReason /\ closed + 1 \in mute THEN 0 ELSE closed + 1]
    BY <1>6 DEF V!billing_newest_closed_bill_date, V!Visit
  <2> DEFINE old == {b.period : b \in {c \in V!Arrived(2, byReason, mute, skipped) : ~c.is_open}}
  <2>2. V!Arrived(2, byReason, mute, skipped) \in SUBSET [period : 1 .. closed + 1, is_open : BOOLEAN]
    BY ArrivedIsTyped DEF ReadInv
  <2>3. old \in SUBSET (1 .. closed + 1)
    BY <2>2
  <2> HIDE DEF old
  <2>4. V!Max({0} \cup old) \in Nat
    <3>0. 1 .. closed + 1 \in SUBSET (0 .. closed + 1) /\ 0 \in 0 .. closed + 1 /\ closed + 1 \in Nat
      BY <1>1
    <3>1. {0} \cup old \in SUBSET (0 .. closed + 1) /\ {0} \cup old # {}
      BY <2>3, <3>0
    <3>2. V!Max({0} \cup old) \in {0} \cup old
      BY <3>0, <3>1, HasMost, SameMeasures
    <3> QED BY <3>0, <3>1, <3>2
  <2>a. (IF byReason /\ closed + 1 \in mute THEN 0 ELSE closed + 1) \in Nat
    BY <1>1
  <2>5. PICK r \in Nat : visit' = [visit EXCEPT !.pc = "done", !.start = V!Max({0} \cup old), !.running = r]
    BY <2>1, <2>a, Zenon DEF old
  <2> QED BY <1>1, <2>4, <2>5 DEF VisitShape
<1>7. CASE V!read_register
  BY <1>1, <1>7 DEF V!read_register, V!Visit, VisitShape
<1>8. CASE V!read_energy_registers
  <2>1. PICK v \in {"null", "scaled", "raw"} : visit' = [visit EXCEPT !.pc = "done", !.value = v]
    BY <1>8 DEF V!read_energy_registers, V!Visit
  <2> QED BY <1>1, <2>1 DEF VisitShape
<1> QED BY <1>3, <1>4, <1>5, <1>6, <1>7, <1>8

\* Connecting, disconnecting, failing.
LEMMA InvAfterConnection ==
    ASSUME ReadInv,
           (\E task \in V!Task : V!Begin(task)) \/ V!Associate \/ V!Aborted \/ V!ConnectFails \/ V!disconnect \/ V!ReadFails
    PROVE  ReadInv'
<1>1. visit \in VisitShape /\ UNCHANGED <<model, now, dark, closed>>
  BY DEF ReadInv, VisitTyped, V!Visit, V!Begin, V!Associate, V!Aborted, V!ConnectFails, V!disconnect, V!ReadFails
<1> SUFFICES visit' \in VisitShape /\ visit'.pc \in {"idle", "connect", "ready"}
  BY <1>1, InvAfterOther
<1>2. ASSUME NEW task \in V!Task, V!Begin(task) PROVE visit' \in VisitShape /\ visit'.pc \in {"idle", "connect", "ready"}
  BY <1>2, IdleIsShaped DEF V!Begin, V!Visit, VisitShape
<1>3. CASE V!Associate
  BY <1>1, <1>3 DEF V!Associate, V!Visit, VisitShape
<1>4. CASE V!Aborted
  BY <1>1, <1>4 DEF V!Aborted, V!Visit, VisitShape
<1>5. CASE V!ConnectFails \/ V!disconnect \/ V!ReadFails
  <2>1. visit' = V!Idle
    BY <1>5 DEF V!ConnectFails, V!disconnect, V!ReadFails, V!Visit
  <2>2. V!Idle.pc = "idle"
    BY DEF V!Idle
  <2> QED BY <2>1, <2>2, IdleIsShaped
<1> QED BY <1>2, <1>3, <1>4, <1>5

LEMMA ReadInvHolds ==
    ASSUME Capacity \in Nat \ {0}, MaxWindow \in Nat
    PROVE  V!Spec => []ReadInv
<1>1. V!Init => ReadInv
  <2> SUFFICES ASSUME V!Init PROVE ReadInv
    OBVIOUS
  <2>1. visit = V!Idle /\ now = 1 /\ dark = {} /\ closed = 1 /\ V!Idle.pc = "idle" /\ V!Idle.task = "probe_meter"
    BY DEF V!Init, V!Idle
  <2>2. VisitTyped
    BY <2>1, IdleIsShaped DEF VisitTyped
  <2> QED BY <2>1, <2>2 DEF ReadInv, WindowIsPast, CountIsClose, ClockIsBetween, EntriesAreComputed,
                            V!NothingHeldIsMissed, Reading
<1>2. ReadInv /\ [V!Next]_V!vars => ReadInv'
  <2> SUFFICES ASSUME ReadInv, [V!Next]_V!vars PROVE ReadInv'
    OBVIOUS
  <2>1. CASE V!Tick
    BY <2>1, InvAfterTick
  <2>2. CASE V!ClosePeriod \/ UNCHANGED V!vars
    <3>1. /\ model' = model /\ now' = now /\ dark' = dark /\ visit' = visit
          /\ closed' = closed \/ closed' = closed + 1
      BY <2>2 DEF V!ClosePeriod, V!vars
    <3>2. V!Held' = V!Held /\ V!Logged' = V!Logged
      BY <3>1 DEF V!Held, V!Logged
    <3> QED BY <3>1, <3>2 DEF ReadInv, VisitTyped, WindowIsPast, CountIsClose, ClockIsBetween,
                     EntriesAreComputed, V!NothingHeldIsMissed, Reading, V!Overstated
  <2>3. CASE \E task \in V!Task : V!Start(task)
    BY <2>3, InvAfterStart
  <2>4. CASE V!ReadEntries
    BY <2>4, InvAfterEntries
  <2>5. CASE V!ComputeWindow
    BY <2>5, InvAfterWindow
  <2>6. CASE V!read_load_profile
    BY <2>6, InvAfterRows
  <2>7. CASE V!load_profile_oldest_reading \/ V!NoAnswer \/ V!read_billing \/ V!billing_newest_closed_bill_date
             \/ V!read_register \/ V!read_energy_registers
    BY <2>7, InvAfterOtherReads
  <2>8. CASE (\E task \in V!Task : V!Begin(task)) \/ V!Associate \/ V!Aborted \/ V!ConnectFails \/ V!disconnect \/ V!ReadFails
    BY <2>8, InvAfterConnection
  <2> QED BY <2>1, <2>2, <2>3, <2>4, <2>5, <2>6, <2>7, <2>8 DEF V!Next, V!Meter, V!Driver
<1> QED BY <1>1, <1>2, PTL DEF V!Spec

(* Walks and visits together: a behaviour of the two is one of the walk,   *)
(* so what is proved of the walk holds of it.                              *)
THEOREM StillLoadProfile == ReadsSpec => Spec
<1>1. ReadsInit => Init
  BY DEF ReadsInit
<1>2. [ReadsNext]_all_vars => [Next]_vars
  BY DEF ReadsNext, Walks, Visits, all_vars
<1> QED BY <1>1, <1>2, PTL DEF ReadsSpec, Spec

(* A row of the window that the meter held when the read began, and holds  *)
(* still, is returned: for any ring, any window, and whatever the meter    *)
(* logs, drops or has no supply for between two round trips, within the    *)
(* margins that _entry_window has.                                         *)
THEOREM NothingIsMissed == ReadsSpec => []NothingHeldIsMissed
<1>1. Capacity \in Nat \ {0} /\ MaxWindow \in Nat
  BY ReadsAssumption
<1>2. V!Spec => []ReadInv
  BY <1>1, ReadInvHolds
<1>3. ReadInv => NothingHeldIsMissed
  BY DEF ReadInv, NothingHeldIsMissed
<1>4. ReadsInit => V!Init
  BY DEF ReadsInit
<1>5. [ReadsNext]_all_vars => [V!Next]_V!vars
  BY DEF ReadsNext, Walks, Visits, all_vars, visit_vars, V!vars
<1> QED BY <1>2, <1>3, <1>4, <1>5, PTL DEF ReadsSpec, V!Spec
=============================================================================
