------------------------- MODULE PressureEngineProofs -------------------------
(***************************************************************************)
(* The stages of a pressure run keep apart, for any number of workers and  *)
(* stages, any lengths of the windows and any choice of stages with an     *)
(* Enter.                                                                  *)
(*                                                                         *)
(* The argument goes through the parked counter: it is the number of       *)
(* workers parked since the current stage was entered, so once it closes   *)
(* allParked every worker waits for the next stage (or has left), and none *)
(* can draw before that stage is entered.                                  *)
(***************************************************************************)
EXTENDS PressureEngine, FiniteSetTheorems, WellFoundedInduction, TLAPS

\* Stages are entered one after another, and control waits for the next one.
InOrder ==
  /\ resumed = entered
  /\ control \in {"sleep", "wait", "enter", "begin"} => stage = entered + 1
  /\ entered = 0 => \A w \in Workers : pc[w] = "new"
  /\ \A w \in Workers : pc[w] \in {"loop", "admit", "call"} => waits[w] < resumed
  /\ \A w \in Workers : waits[w] <= resumed /\ (pc[w] = "new" => waits[w] = 0)

\* What control waited for, and what it read, has been.
ClockOrder ==
  /\ offset <= now /\ released <= now
  /\ control \in {"wait", "enter", "begin"} => windowStart(stage) <= now
  /\ control = "begin" => windowStart(stage) <= offset

\* The workers parked since the current stage was entered, also when they left after that.
ParkedNow == {w \in Workers : pc[w] \in {"parked", "exit"} /\ waits[w] = resumed}

\* An Enter is started, and can only fail, when nobody is between two stages.
Quiet ==
  /\ control = "enter" /\ stage \in HasEnter => allParked \/ entered = 0
  /\ stageErr => control \in {"over", "returned"} /\ ctxDone /\ (allParked \/ entered = 0)

DrawnBefore == \A w \in Workers : pc[w] = "call" => drawn[w].stage \in 1..entered

IInv == /\ TypeOK /\ InOrder /\ ClockOrder /\ ParkedCounts /\ Quiet
        /\ WindowsSound /\ DrawnBefore /\ DrawnInWindow

-----------------------------------------------------------------------------
(***************************************************************************)
(* A non-empty set of numbers has a least one.                             *)
(***************************************************************************)
LEMMA LeastOf ==
  ASSUME NEW S \in SUBSET Nat, S # {}
  PROVE  \E m \in S : \A j \in S : m <= j
<1>1. PICK m \in S : \A j \in S : ~(<<j, m>> \in OpToRel(<, Nat))
  BY WFMin, NatLessThanWellFounded
<1>2. ASSUME NEW j \in S, ~(m <= j) PROVE FALSE
  <2>1. <<j, m>> \in Nat \X Nat /\ j < m
    BY <1>2
  <2> QED BY <1>1, <2>1 DEF OpToRel
<1> QED BY <1>2

LEMMA StagesAreNumbers ==
  /\ Last \in Nat /\ Last >= 1 /\ Stages = 1..Last
  /\ \A i \in Stages : Duration[i] \in Nat /\ Duration[i] > 0
BY StageAssumption DEF Last, Stages

(***************************************************************************)
(* The recursive definition of the ends defines them: there are functions  *)
(* that obey it up to any stage, for otherwise there would be a first      *)
(* stage without one.                                                      *)
(***************************************************************************)
EndsUpTo(g, n) == g = [i \in 0..n |-> IF i = 0 THEN 0 ELSE g[i - 1] + Duration[i]]

LEMMA EndsDefined == EndsUpTo(ends, Last)
<1> DEFINE Without == {n \in 0..Last : ~\E g : EndsUpTo(g, n)}
<1>0. Last \in Nat /\ Without \in SUBSET Nat
  BY StagesAreNumbers
<1>1. Without = {}
  <2> SUFFICES ASSUME Without # {} PROVE FALSE
    OBVIOUS
  <2>1. PICK m \in Without : \A j \in Without : m <= j
    <3> HIDE DEF Without
    <3> QED BY <1>0, LeastOf
  <2>2. m # 0
    <3>1. EndsUpTo([i \in 0..0 |-> 0], 0)
      BY DEF EndsUpTo
    <3> QED BY <3>1
  <2>3. m \in Nat /\ m - 1 \in 0..Last /\ m - 1 \notin Without
    BY <2>1, <2>2, StagesAreNumbers
  <2>4. PICK g : EndsUpTo(g, m - 1)
    BY <2>3
  <2> DEFINE h == [i \in 0..m |-> IF i = 0 THEN 0 ELSE g[i - 1] + Duration[i]]
  <2>5. \A i \in 0..(m - 1) : h[i] = g[i]
    BY <2>3, <2>4 DEF EndsUpTo
  <2>6. \A i \in 0..m : i # 0 => h[i] = h[i - 1] + Duration[i]
    BY <2>3, <2>5
  <2>7. h[0] = 0
    BY <2>3
  <2> HIDE DEF h
  <2>8. h = [i \in 0..m |-> IF i = 0 THEN 0 ELSE h[i - 1] + Duration[i]]
    BY <2>3, <2>6, <2>7 DEF h
  <2>9. EndsUpTo(h, m)
    BY <2>8 DEF EndsUpTo
  <2> QED BY <2>1, <2>9
<1>2. \E g : EndsUpTo(g, Last)
  BY <1>0, <1>1
<1>3. ends = CHOOSE g : EndsUpTo(g, Last)
  BY DEF ends, EndsUpTo
<1> QED BY <1>2, <1>3

(***************************************************************************)
(* Windows lie one after another, each with a length.                      *)
(***************************************************************************)
LEMMA WindowsInOrder ==
  /\ \A i \in 0..Last : ends[i] \in Nat
  /\ \A i \in Stages : /\ windowStart(i) = ends[i - 1] /\ windowStart(i) \in Nat
                       /\ windowStart(i) < ends[i]
  /\ End \in Nat
<1>1. /\ ends[0] = 0
      /\ \A i \in Stages : ends[i] = ends[i - 1] + Duration[i] /\ i - 1 \in 0..Last
  BY EndsDefined, StagesAreNumbers DEF EndsUpTo
<1> DEFINE Odd == {n \in 0..Last : ends[n] \notin Nat}
<1>2. Odd = {}
  <2> SUFFICES ASSUME Odd # {} PROVE FALSE
    OBVIOUS
  <2>0. Odd \in SUBSET Nat
    BY StagesAreNumbers
  <2>1. PICK m \in Odd : \A j \in Odd : m <= j
    <3> HIDE DEF Odd
    <3> QED BY <2>0, LeastOf
  <2>2. m \in Stages /\ m - 1 \in 0..Last /\ m - 1 \notin Odd
    BY <1>1, <2>1, StagesAreNumbers
  <2>3. ends[m - 1] \in Nat
    BY <2>2
  <2>4. ends[m] = ends[m - 1] + Duration[m] /\ Duration[m] \in Nat
    BY <1>1, <2>2, StagesAreNumbers
  <2>5. ends[m] \in Nat
    <3> HIDE DEF Odd
    <3> QED BY <2>3, <2>4
  <2> QED BY <2>1, <2>5
<1>3. \A i \in 0..Last : ends[i] \in Nat
  BY <1>2
<1>4. \A i \in Stages : windowStart(i) = ends[i - 1] /\ windowStart(i) \in Nat
                        /\ windowStart(i) < ends[i]
  <2> SUFFICES ASSUME NEW i \in Stages
               PROVE  windowStart(i) = ends[i - 1] /\ windowStart(i) \in Nat
                        /\ windowStart(i) < ends[i]
    OBVIOUS
  <2>1. i - 1 \in 0..Last /\ i \in 0..Last
    BY StagesAreNumbers
  <2>2. windowStart(i) = ends[i - 1]
    BY StagesAreNumbers DEF windowStart
  <2>3. ends[i] = ends[i - 1] + Duration[i] /\ Duration[i] \in Nat \ {0}
    BY <1>1, StagesAreNumbers
  <2>4. ends[i - 1] \in Nat /\ ends[i] \in Nat
    BY <1>3, <2>1
  <2> QED BY <2>2, <2>3, <2>4
<1> QED BY <1>3, <1>4, StagesAreNumbers DEF End

LEMMA TimeIsNatural == Time \subseteq Nat /\ 0 \in Time /\ \A t \in Time : 0..t \subseteq Time
BY WindowsInOrder, StageAssumption DEF Time

-----------------------------------------------------------------------------
(***************************************************************************)
(* The counted workers: all of them when the count says so, and their      *)
(* number is what Park adds to.                                            *)
(***************************************************************************)
LEMMA ParkedNowFinite ==
  /\ IsFiniteSet(Workers) /\ Cardinality(Workers) \in Nat /\ Cardinality(Workers) > 0
  /\ IsFiniteSet(ParkedNow) /\ Cardinality(ParkedNow) \in Nat
  /\ Cardinality(ParkedNow) <= Cardinality(Workers)
  /\ Cardinality(ParkedNow) = Cardinality(Workers) => ParkedNow = Workers
<1>1. ParkedNow \subseteq Workers /\ IsFiniteSet(Workers)
  BY StageAssumption DEF ParkedNow
<1>2. /\ IsFiniteSet(ParkedNow) /\ Cardinality(ParkedNow) <= Cardinality(Workers)
      /\ Cardinality(ParkedNow) = Cardinality(Workers) => ParkedNow = Workers
  BY <1>1, FS_Subset
<1> QED BY <1>1, <1>2, FS_CardinalityType, FS_EmptySet, StageAssumption

LEMMA AllParkedMeansAll ==
  ASSUME IInv, allParked
  PROVE  \A w \in Workers : pc[w] \in {"parked", "exit"} /\ waits[w] = resumed
<1>1. Cardinality(ParkedNow) = Cardinality(Workers)
  BY DEF IInv, ParkedCounts, ParkedNow
<1> QED BY <1>1, ParkedNowFinite DEF ParkedNow

(***************************************************************************)
(* While control enters a stage that has an Enter nobody is in a call.     *)
(***************************************************************************)
LEMMA InvariantImplies == IInv => TypeOK /\ StagesKeepApart
<1> SUFFICES ASSUME IInv PROVE TypeOK /\ StagesKeepApart
  OBVIOUS
<1>1. allParked \/ entered = 0 => \A w \in Workers : pc[w] # "call"
  BY AllParkedMeansAll DEF IInv, InOrder
<1>2. QuietEnter /\ NoCallAfterFailedEnter
  BY <1>1 DEF IInv, Quiet, QuietEnter, NoCallAfterFailedEnter
<1> QED BY <1>2 DEF IInv, StagesKeepApart

-----------------------------------------------------------------------------
LEMMA InitEstablishes == Init => IInv
<1> SUFFICES ASSUME Init PROVE IInv
  OBVIOUS
<1> USE DEF Init
<1>1. TypeOK
  <2>1. 1 \in Stages /\ 0 \in 0..Last /\ 0 \in Time /\ 0 \in 0..Cardinality(Workers)
    BY StagesAreNumbers, TimeIsNatural, ParkedNowFinite
  <2> QED BY <2>1 DEF TypeOK
<1>2. ParkedNow = {}
  BY DEF ParkedNow
<1>3. ParkedCounts
  BY <1>2, FS_EmptySet DEF ParkedCounts, ParkedNow
<1>4. InOrder /\ ClockOrder
  BY WindowsInOrder, EndsDefined, StagesAreNumbers DEF InOrder, ClockOrder, windowStart, EndsUpTo
<1>5. Quiet /\ WindowsSound /\ DrawnBefore /\ DrawnInWindow
  BY DEF Quiet, WindowsSound, DrawnBefore, DrawnInWindow
<1> QED BY <1>1, <1>3, <1>4, <1>5 DEF IInv

(***************************************************************************)
(* Time passes and the context ends.                                       *)
(***************************************************************************)
LEMMA PassKeeps == IInv /\ Pass => IInv'
<1> SUFFICES ASSUME IInv, Pass PROVE IInv'
  OBVIOUS
<1>1. now' = now + 1 /\ now' \in Time /\ now \in Nat
  BY TimeIsNatural, WindowsInOrder, StageAssumption DEF Pass, IInv, TypeOK, Time
<1>2. UNCHANGED <<ctxDone, controlVars, stagesVars, workerVars>>
  BY DEF Pass
<1> USE <1>1, <1>2 DEF controlVars, stagesVars, workerVars
<1>3. TypeOK' /\ InOrder' /\ Quiet' /\ ParkedCounts'
  BY DEF IInv, TypeOK, InOrder, Quiet, ParkedCounts
<1>4. ClockOrder'
  <2>1. control \in {"wait", "enter", "begin"} => windowStart(stage) \in Nat
    BY WindowsInOrder DEF IInv, TypeOK
  <2>2. windowStart(stage)' = windowStart(stage)
    BY DEF windowStart
  <2> QED BY <2>1, <2>2, TimeIsNatural DEF IInv, TypeOK, ClockOrder
<1>5. WindowsSound'
  <2>1. \A i \in 1..entered : starts[i] <= now + 1
    <3> SUFFICES ASSUME NEW i \in 1..entered PROVE starts[i] <= now + 1
      OBVIOUS
    <3>0. entered \in 0..Last /\ starts \in [Stages -> Time]
      BY DEF IInv, TypeOK
    <3>1. i \in Stages
      BY <3>0, StagesAreNumbers
    <3>3. starts[i] \in Nat /\ now \in Nat
      BY <1>1, <3>0, <3>1, TimeIsNatural
    <3>2. starts[i] <= now
      BY DEF IInv, WindowsSound
    <3> QED BY <1>1, <3>2, <3>3
  <2> QED BY <2>1 DEF IInv, WindowsSound, windowStart
<1>6. DrawnBefore' /\ DrawnInWindow'
  BY DEF IInv, DrawnBefore, DrawnInWindow
<1> QED BY <1>3, <1>4, <1>5, <1>6 DEF IInv

LEMMA ContextKeeps == IInv /\ (Expire \/ Cancel) => IInv'
<1> SUFFICES ASSUME IInv, Expire \/ Cancel PROVE IInv'
  OBVIOUS
<1>1. ctxDone' = TRUE /\ UNCHANGED <<now, controlVars, stagesVars, workerVars>>
  BY DEF Expire, Cancel
<1> USE <1>1 DEF controlVars, stagesVars, workerVars
<1>2. TypeOK' /\ InOrder' /\ Quiet' /\ ParkedCounts'
  BY DEF IInv, TypeOK, InOrder, Quiet, ParkedCounts
<1>3. ClockOrder' /\ WindowsSound'
  BY DEF IInv, ClockOrder, WindowsSound, windowStart
<1>4. DrawnBefore' /\ DrawnInWindow'
  BY DEF IInv, DrawnBefore, DrawnInWindow
<1> QED BY <1>2, <1>3, <1>4 DEF IInv

(***************************************************************************)
(* The steps of control that leave the stages alone.                       *)
(***************************************************************************)
LEMMA ControlKeeps ==
  IInv /\ (Sleep \/ waitParked \/ Enter \/ EnterFails \/ Return) => IInv'
<1> SUFFICES ASSUME IInv, Sleep \/ waitParked \/ Enter \/ EnterFails \/ Return PROVE IInv'
  OBVIOUS
<1>1. UNCHANGED <<now, stage, stagesVars, workerVars>>
  BY DEF Sleep, waitParked, Enter, EnterFails, Return
<1> USE <1>1 DEF stagesVars, workerVars
<1>2. TypeOK'
  BY DEF Sleep, waitParked, Enter, EnterFails, Return, IInv, TypeOK, AfterSleep
<1>3. InOrder'
  BY DEF Sleep, waitParked, Enter, EnterFails, Return, IInv, InOrder, AfterSleep
<1>4. ClockOrder'
  <2>1. windowStart(stage)' = windowStart(stage) /\ now \in Nat
    BY TimeIsNatural DEF windowStart, IInv, TypeOK
  <2>2. now >= windowStart(stage) => windowStart(stage) <= now
    BY <2>1, WindowsInOrder DEF IInv, TypeOK
  <2> QED BY <2>1, <2>2
          DEF Sleep, waitParked, Enter, EnterFails, Return, IInv, ClockOrder, AfterSleep
<1>5. Quiet'
  BY DEF Sleep, waitParked, Enter, EnterFails, Return, IInv, Quiet, AfterSleep
<1>6. ParkedCounts' /\ WindowsSound' /\ DrawnBefore' /\ DrawnInWindow'
  BY DEF IInv, ParkedCounts, WindowsSound, DrawnBefore, DrawnInWindow, windowStart
<1> QED BY <1>2, <1>3, <1>4, <1>5, <1>6 DEF IInv

(***************************************************************************)
(* A stage is entered: its Start lies in its window and is not ahead of    *)
(* the clock, and nobody has parked for the one after it.                  *)
(***************************************************************************)
LEMMA StartInWindow ==
  ASSUME IInv, control = "begin"
  PROVE  /\ Start(stage) \in Nat /\ Start(stage) <= now
         /\ windowStart(stage) <= Start(stage) /\ Start(stage) <= ends[stage]
<1>1. /\ windowStart(stage) \in Nat /\ ends[stage] \in Nat
      /\ windowStart(stage) < ends[stage]
  BY WindowsInOrder, StagesAreNumbers DEF IInv, TypeOK
<1>2. now \in Nat /\ offset \in Nat /\ released \in Nat
  BY TimeIsNatural DEF IInv, TypeOK
<1>3. /\ offset <= now /\ released <= now
      /\ windowStart(stage) <= now /\ windowStart(stage) <= offset
  BY DEF IInv, ClockOrder
<1> QED BY <1>1, <1>2, <1>3 DEF Start

LEMMA beginKeeps == IInv /\ begin => IInv'
<1> SUFFICES ASSUME IInv, begin PROVE IInv'
  OBVIOUS
<1>1. /\ control = "begin" /\ starts' = [starts EXCEPT ![stage] = Start(stage)]
      /\ entered' = stage /\ released' = offset /\ parked' = 0 /\ allParked' = FALSE
      /\ resumed' = resumed + 1
      /\ UNCHANGED <<now, ctxDone, offset, stageErr, pc, waits, drawn>>
  BY DEF begin, Unparked, workerVars
<1>2. \/ stage < Last /\ stage' = stage + 1 /\ control' = "sleep"
      \/ stage = Last /\ stage' = stage /\ control' = "over"
  BY DEF begin
<1>3. stage \in 1..Last /\ stage = entered + 1 /\ resumed = entered /\ resumed' = stage
      /\ entered \in Nat
  BY <1>1, StagesAreNumbers DEF IInv, InOrder, TypeOK
<1>4. Start(stage) \in Time
  <2>1. now \in Time
    BY DEF IInv, TypeOK
  <2>2. Start(stage) \in 0..now
    BY <1>1, <2>1, StartInWindow, TimeIsNatural
  <2> QED BY <2>1, <2>2, TimeIsNatural
<1>5. TypeOK'
  <2>1. stage' \in Stages /\ control' \in {"sleep", "over"} /\ resumed' \in 0..Last
        /\ entered' \in 0..Last
    BY <1>1, <1>2, <1>3, StagesAreNumbers
  <2>2. starts' \in [Stages -> Time] /\ parked' \in 0..Cardinality(Workers)
    BY <1>1, <1>4, ParkedNowFinite DEF IInv, TypeOK
  <2> QED BY <1>1, <2>1, <2>2 DEF IInv, TypeOK
<1>6. InOrder'
  <2>1. \A w \in Workers : /\ waits[w] <= resumed /\ waits[w] \in Nat
                           /\ pc[w] = "new" => waits[w] = 0
    BY DEF IInv, InOrder, TypeOK
  <2>2. entered' # 0 /\ resumed' = entered' /\ resumed' = resumed + 1
    BY <1>1, <1>3
  <2>3. \A w \in Workers : waits'[w] <= resumed' /\ waits'[w] < resumed'
    <3>1. waits' = waits /\ resumed \in Nat
      BY <1>1, <1>3
    <3> SUFFICES ASSUME NEW w \in Workers PROVE waits[w] <= resumed + 1 /\ waits[w] < resumed + 1
      BY <2>2, <3>1
    <3>2. waits[w] \in Nat /\ waits[w] <= resumed
      BY <2>1
    <3> QED BY <3>1, <3>2
  <2>4. control' \in {"sleep", "wait", "enter", "begin"} => stage' = entered' + 1
    BY <1>1, <1>2
  <2>5. pc' = pc /\ waits' = waits
    BY <1>1
  <2>6. entered' = 0 => \A w \in Workers : pc'[w] = "new"
    BY <2>2
  <2>7. \A w \in Workers : pc'[w] = "new" => waits'[w] = 0
    BY <2>1, <2>5
  <2> QED BY <2>2, <2>3, <2>4, <2>6, <2>7 DEF InOrder
<1>7. ClockOrder'
  BY <1>1, <1>2 DEF IInv, ClockOrder
<1>8. ParkedCounts'
  <2>1. \A w \in Workers : waits'[w] # resumed'
    BY <1>1, <1>3 DEF IInv, InOrder, TypeOK
  <2>2. ParkedNow' = {}
    BY <2>1 DEF ParkedNow
  <2> QED BY <1>1, <2>2, FS_EmptySet DEF ParkedCounts, ParkedNow
<1>9. Quiet'
  BY <1>1, <1>2 DEF IInv, Quiet
<1>10. \A i \in 1..entered' : starts'[i] = IF i = stage THEN Start(stage) ELSE starts[i]
  BY <1>1, <1>3, StagesAreNumbers DEF IInv, TypeOK
<1>11. WindowsSound'
  <2> SUFFICES ASSUME NEW i \in 1..entered'
               PROVE  /\ windowStart(i) <= starts'[i] /\ starts'[i] <= ends[i]
                      /\ starts'[i] <= now
    BY <1>1 DEF WindowsSound, windowStart
  <2>1. i # stage => i \in 1..entered
    BY <1>1, <1>3
  <2> QED BY <1>1, <1>10, <2>1, StartInWindow DEF IInv, WindowsSound
<1>12. DrawnBefore' /\ DrawnInWindow'
  <2> SUFFICES ASSUME NEW w \in Workers, pc'[w] = "call"
               PROVE  /\ drawn'[w].stage \in 1..entered'
                      /\ starts'[drawn'[w].stage] <= drawn'[w].offset
                      /\ drawn'[w].offset < ends[drawn'[w].stage]
    BY DEF DrawnBefore, DrawnInWindow
  <2>1. drawn[w].stage \in 1..entered
    BY <1>1 DEF IInv, DrawnBefore
  <2>2. drawn[w].stage \in 1..entered' /\ drawn[w].stage # stage
    BY <1>1, <1>3, <2>1
  <2> QED BY <1>1, <1>10, <2>2 DEF IInv, DrawnInWindow
<1> QED BY <1>5, <1>6, <1>7, <1>8, <1>9, <1>11, <1>12 DEF IInv

-----------------------------------------------------------------------------
(***************************************************************************)
(* A worker's step that does not count: it keeps the parked workers of the *)
(* current stage as they are.                                              *)
(***************************************************************************)
LEMMA UncountedStepKeeps ==
  ASSUME IInv, NEW w \in Workers, NEW where \in {"loop", "admit", "call", "exit"},
         pc' = [pc EXCEPT ![w] = where],
         UNCHANGED <<now, ctxDone, controlVars, stagesVars, waits>>,
         entered > 0,
         where # "exit" => waits[w] < resumed,
         pc[w] = "parked" /\ waits[w] = resumed => where = "exit",
         where = "exit" => waits[w] < resumed \/ pc[w] = "parked",
         pc[w] # "exit",
         drawn' \in [Workers -> [stage : 0..Last, offset : Time]],
         \A v \in Workers \ {w} : drawn'[v] = drawn[v],
         where = "call" => /\ drawn'[w].stage \in 1..entered
                           /\ starts[drawn'[w].stage] <= drawn'[w].offset
                           /\ drawn'[w].offset < ends[drawn'[w].stage]
  PROVE  IInv'
<1> USE DEF controlVars, stagesVars
<1>1. TypeOK'
  BY DEF IInv, TypeOK
<1>2. InOrder'
  BY DEF IInv, InOrder, TypeOK
<1>3. ClockOrder' /\ Quiet' /\ WindowsSound'
  BY DEF IInv, ClockOrder, Quiet, WindowsSound, windowStart
<1>4. ParkedCounts'
  <2>1. \A v \in Workers : pc'[v] \in {"parked", "exit"} /\ waits[v] = resumed
                           <=> pc[v] \in {"parked", "exit"} /\ waits[v] = resumed
    BY DEF IInv, TypeOK, InOrder
  <2>2. ParkedNow' = ParkedNow
    BY <2>1 DEF ParkedNow
  <2> QED BY <2>2 DEF IInv, ParkedCounts, ParkedNow
<1>5. DrawnBefore' /\ DrawnInWindow'
  BY DEF IInv, TypeOK, DrawnBefore, DrawnInWindow
<1> QED BY <1>1, <1>2, <1>3, <1>4, <1>5 DEF IInv

(***************************************************************************)
(* A worker parks: it was not counted before, and is from now on.          *)
(***************************************************************************)
LEMMA ParkKeeps == ASSUME IInv, NEW w \in Workers, Park(w) PROVE IInv'
<1>1. /\ pc' = [pc EXCEPT ![w] = "parked"] /\ waits' = [waits EXCEPT ![w] = resumed]
      /\ parked' = parked + 1 /\ allParked' = (parked' = Cardinality(Workers))
      /\ UNCHANGED <<now, ctxDone, control, stage, offset, stageErr, entered, starts,
                     released, resumed, drawn>>
      /\ pc[w] = "admit"
  BY DEF Park, Goto, controlVars
<1>2. entered > 0 /\ resumed = entered /\ waits[w] < resumed /\ resumed \in 0..Last
  BY <1>1, StagesAreNumbers DEF IInv, InOrder, TypeOK
<1>3. ParkedNow' = ParkedNow \cup {w} /\ w \notin ParkedNow
  BY <1>1 DEF ParkedNow, IInv, TypeOK
<1>4. Cardinality(ParkedNow') = Cardinality(ParkedNow) + 1 /\ parked = Cardinality(ParkedNow)
  BY <1>3, ParkedNowFinite, FS_AddElement DEF IInv, ParkedCounts, ParkedNow
<1>5. parked' = Cardinality(ParkedNow') /\ parked' \in 0..Cardinality(Workers)
  <2>1. ParkedNow' \subseteq Workers
    BY <1>3 DEF ParkedNow
  <2>2. Cardinality(ParkedNow') <= Cardinality(Workers)
    BY <2>1, ParkedNowFinite, FS_Subset
  <2> QED BY <1>1, <1>4, <2>2, ParkedNowFinite
<1>6. TypeOK'
  BY <1>1, <1>2, <1>5 DEF IInv, TypeOK
<1>7. InOrder'
  BY <1>1, <1>2 DEF IInv, InOrder, TypeOK
<1>8. ClockOrder' /\ WindowsSound'
  BY <1>1 DEF IInv, ClockOrder, WindowsSound, windowStart
<1>9. ParkedCounts'
  BY <1>1, <1>5 DEF ParkedCounts, ParkedNow
<1>10. Quiet'
  <2>1. ~allParked
    BY <1>1, AllParkedMeansAll
  <2> QED BY <1>1, <1>2, <2>1 DEF IInv, Quiet, TypeOK
<1>11. DrawnBefore' /\ DrawnInWindow'
  BY <1>1 DEF IInv, TypeOK, DrawnBefore, DrawnInWindow
<1> QED BY <1>6, <1>7, <1>8, <1>9, <1>10, <1>11 DEF IInv

(***************************************************************************)
(* A worker is admitted: the stage is entered and its window is open.      *)
(***************************************************************************)
LEMMA AdmitKeeps == ASSUME IInv, NEW w \in Workers, Admit(w) PROVE IInv'
<1>1. /\ pc[w] = "admit" /\ now < ends[entered] /\ pc' = [pc EXCEPT ![w] = "call"]
      /\ drawn' = [drawn EXCEPT ![w] = [stage |-> entered, offset |-> now]]
      /\ UNCHANGED <<now, ctxDone, controlVars, stagesVars, waits>>
  BY DEF Admit, Goto
<1>2. entered > 0 /\ waits[w] < resumed /\ entered \in 1..entered /\ entered \in 0..Last
  BY <1>1, StagesAreNumbers DEF IInv, InOrder, TypeOK
<1>3. starts[entered] <= now
  BY <1>2 DEF IInv, WindowsSound
<1>4. /\ drawn' \in [Workers -> [stage : 0..Last, offset : Time]]
      /\ drawn'[w] = [stage |-> entered, offset |-> now]
      /\ \A v \in Workers \ {w} : drawn'[v] = drawn[v]
  BY <1>1, <1>2 DEF IInv, TypeOK
<1> QED BY <1>1, <1>2, <1>3, <1>4, UncountedStepKeeps

LEMMA WorkKeeps == ASSUME IInv, NEW w \in Workers, Work(w) PROVE IInv'
<1>1. drawn \in [Workers -> [stage : 0..Last, offset : Time]] /\ entered \in Nat
      /\ waits[w] \in Nat /\ resumed = entered /\ waits[w] <= resumed
  BY StagesAreNumbers DEF IInv, TypeOK, InOrder
<1>2. CASE StartWorker(w)
  <2>1. pc[w] = "new" /\ waits[w] = 0
    BY <1>2 DEF StartWorker, IInv, InOrder
  <2> QED BY <1>1, <1>2, <2>1, UncountedStepKeeps DEF StartWorker, Goto
<1>3. CASE Loop(w)
  <2>1. waits[w] < resumed /\ entered > 0
    BY <1>1, <1>3 DEF Loop, IInv, InOrder
  <2> QED BY <1>1, <1>3, <2>1, UncountedStepKeeps DEF Loop, Goto
<1>4. CASE NoMoreStages(w)
  <2>1. waits[w] < resumed /\ entered > 0
    BY <1>1, <1>4 DEF NoMoreStages, IInv, InOrder
  <2> QED BY <1>1, <1>4, <2>1, UncountedStepKeeps DEF NoMoreStages, Goto
<1>5. CASE Wake(w)
  <2>1. entered > 0
    BY <1>1, <1>5 DEF Wake, IInv, InOrder
  <2>2. CASE ctxDone
    BY <1>1, <1>5, <2>1, <2>2, UncountedStepKeeps DEF Wake, Goto
  <2>3. CASE ~ctxDone
    <3>1. waits[w] < resumed /\ pc[w] = "parked" /\ pc' = [pc EXCEPT ![w] = "admit"]
      BY <1>1, <1>5, <2>3 DEF Wake, Goto
    <3>2. UNCHANGED <<now, ctxDone, controlVars, stagesVars, waits>> /\ drawn' = drawn
      BY <1>5 DEF Wake
    <3>3. waits[w] # resumed
      BY <1>1, <3>1
    <3> QED BY <1>1, <2>1, <3>1, <3>2, <3>3, UncountedStepKeeps
  <2> QED BY <2>2, <2>3
<1>6. CASE CallReturns(w)
  <2>1. waits[w] < resumed /\ entered > 0
    BY <1>1, <1>6 DEF CallReturns, IInv, InOrder
  <2> QED BY <1>1, <1>6, <2>1, UncountedStepKeeps DEF CallReturns, Goto
<1> QED BY <1>2, <1>3, <1>4, <1>5, <1>6, AdmitKeeps, ParkKeeps DEF Work

LEMMA StepKeeps == IInv /\ [Next]_vars => IInv'
<1> SUFFICES ASSUME IInv, [Next]_vars PROVE IInv'
  OBVIOUS
<1>1. CASE UNCHANGED vars
  <2> USE <1>1 DEF vars
  <2>1. TypeOK' /\ InOrder' /\ ParkedCounts' /\ Quiet'
    BY DEF IInv, TypeOK, InOrder, ParkedCounts, Quiet
  <2>2. ClockOrder' /\ WindowsSound'
    BY DEF IInv, ClockOrder, WindowsSound, windowStart
  <2>3. DrawnBefore' /\ DrawnInWindow'
    BY DEF IInv, DrawnBefore, DrawnInWindow
  <2> QED BY <2>1, <2>2, <2>3 DEF IInv
<1>2. ASSUME NEW w \in Workers, Work(w) PROVE IInv'
  BY <1>2, WorkKeeps
<1> QED BY <1>1, <1>2, PassKeeps, ContextKeeps, ControlKeeps, beginKeeps
        DEF Next, Terminated

(***************************************************************************)
(* Whatever the numbers of workers and stages and the lengths of the       *)
(* windows: no call is in flight while an Enter runs or after one failed,  *)
(* every call was drawn in the window of the stage that records it, and    *)
(* the windows are sound (Stage, admit, begin, enterStage).                *)
(***************************************************************************)
THEOREM StagesAreApart == Spec => []StagesKeepApart
BY InitEstablishes, StepKeeps, InvariantImplies, PTL DEF Spec

(***************************************************************************)
(* The state of a staged run keeps its types: the parked counter never     *)
(* exceeds the number of workers, and no stage after the last is entered.  *)
(***************************************************************************)
THEOREM PressureTypeCorrect == Spec => []TypeOK
BY InitEstablishes, StepKeeps, InvariantImplies, PTL DEF Spec

(***************************************************************************)
(* The count that closes allParked is exact: every worker parked since the *)
(* current stage was entered is counted, and counted once (admit, begin).  *)
(***************************************************************************)
THEOREM ParkedCountIsExact == Spec => []ParkedCounts
<1>1. IInv => ParkedCounts
  BY DEF IInv
<1> QED BY <1>1, InitEstablishes, StepKeeps, PTL DEF Spec

=============================================================================
