------------------------------ MODULE ToolProofs ------------------------------
(***************************************************************************)
(* What is proved of the algorithms of the tools: the pairing of columns   *)
(* by tools/align_register_webs.py, first, then the folds of               *)
(* tools/post_allocation_peephole.py, then the searches of                 *)
(* tools/inverse_coloring.py and tools/source_rank_solver.py.              *)
(*                                                                         *)
(* maximum_weight_assignment pairs best, whatever the scores.  First, the  *)
(* potentials stay feasible: a round moves them by the least minimum, and  *)
(* the invariant says of which rows the minima are bounds.  Then, what is  *)
(* matched stays tight: the columns reached form a tree of tight edges, of *)
(* which an augmentation follows one path to column 0.                     *)
(***************************************************************************)
EXTENDS MaximumAssignment, PostAllocationPeephole, RegisterSearch, ColoringModelProofs

Typed ==
  /\ row \in 0..rowCount
  /\ potentialsRows \in [0..rowCount -> Int]
  /\ potentialsColumns \in [0..ColumnCount -> Int]
  /\ matching \in [0..ColumnCount -> 0..rowCount]
  /\ predecessor \in [0..ColumnCount -> 0..ColumnCount]
  /\ minimum \in [Columns -> Int]
  /\ used \subseteq 0..ColumnCount
  /\ current \in 0..ColumnCount
  /\ phase \in {"row", "scan", "augment"}

(* Whatever a search has reached is matched, and the minimum of a column   *)
(* it has not reached is a lower bound of its costs from all it has.       *)
MinimaAreBounds ==
  phase = "scan" =>
    /\ \A k \in used \cup {current} : matching[k] \in Rows
    /\ \A j \in Columns \ used :
         /\ used # {} => minimum[j] >= 0
         /\ \A k \in used : minimum[j] <= Reduced(matching[k], j)

IInv == Input /\ Typed /\ DualFeasible /\ MinimaAreBounds
--------------------------------------------------------------------------------
LEMMA PaddedIsInteger ==
    ASSUME Input, NEW i \in Rows, NEW j \in Columns
    PROVE  Padded(i, j) \in Int /\ Padded(i, j) <= One
  BY ScoresAreIntegers DEF Input, Rows, Columns, ColumnCount, Padded

LEMMA ReducedIsInteger ==
    ASSUME Input, Typed, NEW i \in Rows, NEW j \in Columns
    PROVE  Reduced(i, j) \in Int
  <1>1. Padded(i, j) \in Int
    BY PaddedIsInteger
  <1>2. potentialsRows[i] \in Int /\ potentialsColumns[j] \in Int
    BY DEF Typed, Input, Rows, Columns, ColumnCount
  <1>3. One \in Int
    BY ScoresAreIntegers
  <1> QED
    BY <1>1, <1>2, <1>3, SMTT(30) DEF Reduced

LEMMA InitIsInductive == Input /\ AssignmentInit => IInv
  <1> SUFFICES ASSUME Input, AssignmentInit PROVE IInv
    OBVIOUS
  <1>1. ColumnCount \in Nat
    BY DEF Input, ColumnCount
  <1>2. Typed
    BY <1>1 DEF Input, AssignmentInit, Typed, Columns
  <1>3. DualFeasible
    <2> SUFFICES ASSUME NEW i \in Rows, NEW j \in Columns PROVE Reduced(i, j) >= 0
      BY DEF DualFeasible
    <2>1. Padded(i, j) \in Int /\ Padded(i, j) <= One
      BY PaddedIsInteger
    <2>2. potentialsRows[i] = 0 /\ potentialsColumns[j] = 0
      BY <1>1 DEF AssignmentInit, Input, Rows, Columns
    <2> QED
      BY <2>1, <2>2, ScoresAreIntegers DEF Reduced
  <1>4. MinimaAreBounds
    BY DEF AssignmentInit, MinimaAreBounds
  <1> QED
    BY <1>2, <1>3, <1>4 DEF IInv

(* What the two actions that leave the potentials alone have in common.    *)
LEMMA PotentialsKept ==
    ASSUME DualFeasible, UNCHANGED <<inputVars, potentialsRows, potentialsColumns>>
    PROVE  DualFeasible'
  BY DEF DualFeasible, Reduced, Padded, Rows, Columns, ColumnCount, inputVars

LEMMA StartRowStep == IInv /\ StartRow => IInv'
  <1> SUFFICES ASSUME IInv, StartRow PROVE IInv'
    OBVIOUS
  <1> USE DEF IInv
  <1>1. Input'
    BY DEF StartRow, Input, inputVars, Rows
  <1>2. row + 1 \in Rows /\ ColumnCount \in Nat
    BY DEF StartRow, Input, Typed, Rows, ColumnCount
  <1>3. Typed'
    <2>1. rowCount' = rowCount /\ ColumnCount' = ColumnCount /\ Columns' = Columns
      BY DEF StartRow, inputVars, Columns, ColumnCount
    <2>2. row' \in 0..rowCount /\ row + 1 \in 0..rowCount
      BY <1>2 DEF StartRow, Rows
    <2>3. matching' \in [0..ColumnCount -> 0..rowCount]
      BY <1>2, <2>2 DEF StartRow, Typed
    <2>4. used' \subseteq 0..ColumnCount /\ current' \in 0..ColumnCount /\ phase' = "scan"
      BY <1>2 DEF StartRow
    <2>5. UNCHANGED <<potentialsRows, potentialsColumns, minimum, predecessor>>
      BY DEF StartRow
    <2> QED
      BY <2>1, <2>2, <2>3, <2>4, <2>5 DEF Typed
  <1>4. DualFeasible'
    BY PotentialsKept DEF StartRow
  <1>5. MinimaAreBounds'
    <2>1. matching'[0] = row + 1
      BY <1>2 DEF StartRow, Typed
    <2> QED
      BY <1>2, <2>1 DEF StartRow, MinimaAreBounds, inputVars, Rows, Columns, ColumnCount
  <1> QED
    BY <1>1, <1>3, <1>4, <1>5

LEMMA AugmentStep == IInv /\ Augment => IInv'
  <1> SUFFICES ASSUME IInv, Augment PROVE IInv'
    OBVIOUS
  <1> USE DEF IInv
  <1>1. Input'
    BY DEF Augment, Input, inputVars, Rows
  <1>2. Typed'
    BY DEF Augment, Typed, Input, inputVars, Rows, Columns, ColumnCount
  <1>3. DualFeasible'
    BY PotentialsKept DEF Augment
  <1>4. MinimaAreBounds'
    BY DEF Augment, MinimaAreBounds
  <1> QED
    BY <1>1, <1>2, <1>3, <1>4

(* One round of a search.  least is what the minima are before delta, the  *)
(* least of them, is taken off.                                            *)
LEMMA ScanStep == IInv /\ Scan => IInv'
  <1> SUFFICES ASSUME IInv, Scan PROVE IInv'
    OBVIOUS
  <1> USE DEF IInv
  <1> DEFINE open == Columns \ used'
             least == [j \in Columns |->
                         IF j \in open /\ Cheaper(j) THEN Reduced(matching[current], j)
                         ELSE minimum[j]]
             reached == {matching[k] : k \in used'}
  <1>1. Input'
    BY DEF Scan, Input, inputVars, Rows
  <1>2. /\ ColumnCount \in Nat /\ Columns \subseteq 0..ColumnCount
        /\ Rows \subseteq 0..rowCount
    BY DEF Input, Rows, Columns, ColumnCount
  <1>3. used' = used \cup {current} /\ phase = "scan"
    BY DEF Scan
  <1>4. PICK next \in open :
          /\ \A j \in open : least[next] < least[j] \/ (least[next] = least[j] /\ next <= j)
          /\ potentialsRows' = [i \in 0..rowCount |->
               IF \E j \in used' : matching[j] = i THEN potentialsRows[i] + least[next]
               ELSE potentialsRows[i]]
          /\ potentialsColumns' = [j \in 0..ColumnCount |->
               IF j \in used' THEN potentialsColumns[j] - least[next] ELSE potentialsColumns[j]]
          /\ minimum' = [j \in Columns |->
               IF j \in open THEN least[j] - least[next] ELSE least[j]]
          /\ current' = next
          /\ phase' = IF matching[next] = 0 THEN "augment" ELSE "scan"
    BY DEF Scan
  <1> DEFINE delta == least[next]
  <1>5. \A k \in used' : matching[k] \in Rows
    BY <1>3 DEF MinimaAreBounds
  <1>6. \A i \in Rows, j \in Columns : Reduced(i, j) \in Int
    BY ReducedIsInteger
  <1>7. \A j \in Columns : least[j] \in Int
    <2> TAKE j \in Columns
    <2>1. Reduced(matching[current], j) \in Int
      BY <1>3, <1>5, <1>6
    <2>2. minimum[j] \in Int
      BY DEF Typed
    <2> QED
      BY <2>1, <2>2
  <1>8. \A j \in open : least[j] >= 0 /\ least[j] >= delta /\ delta \in Int /\ delta >= 0
    <2>1. ASSUME NEW j \in open PROVE least[j] >= 0
      <3>1. CASE Cheaper(j)
        BY <3>1, <1>3, <1>5 DEF DualFeasible
      <3>2. CASE ~Cheaper(j)
        BY <3>2, <1>3 DEF Cheaper, MinimaAreBounds
      <3> QED
        BY <3>1, <3>2
    <2>2. next \in Columns
      OBVIOUS
    <2> QED
      BY <1>4, <1>7, <2>1, <2>2
  <1>9. \A j \in open, k \in used' : least[j] <= Reduced(matching[k], j)
    <2> TAKE j \in open, k \in used'
    <2>1. Reduced(matching[k], j) \in Int /\ Reduced(matching[current], j) \in Int
          /\ minimum[j] \in Int
      BY <1>3, <1>5, <1>6 DEF Typed
    <2>2. CASE k = current
      BY <2>1, <2>2 DEF Cheaper
    <2>3. CASE k \in used
      <3>1. minimum[j] <= Reduced(matching[k], j)
        BY <1>3, <2>3 DEF MinimaAreBounds
      <3> QED
        BY <2>1, <2>3, <3>1 DEF Cheaper
    <2> QED
      BY <1>3, <2>2, <2>3
  <1>10. \A i \in Rows, j \in Columns :
           Reduced(i, j)' = Reduced(i, j) - (IF i \in reached THEN delta ELSE 0)
                                          + (IF j \in used' THEN delta ELSE 0)
    <2> TAKE i \in Rows, j \in Columns
    <2>1. Padded(i, j)' = Padded(i, j)
      BY DEF Scan, Padded, inputVars
    <2>2. Padded(i, j) \in Int /\ One \in Int /\ delta \in Int
      BY PaddedIsInteger, ScoresAreIntegers, <1>7
    <2>3. potentialsRows[i] \in Int /\ potentialsColumns[j] \in Int
      BY <1>2 DEF Typed
    <2>4. potentialsRows'[i] = potentialsRows[i] + (IF i \in reached THEN delta ELSE 0)
      BY <1>2, <1>4, <2>2, <2>3
    <2>5. potentialsColumns'[j] = potentialsColumns[j] - (IF j \in used' THEN delta ELSE 0)
      BY <1>2, <1>4, <2>2, <2>3
    <2>6. Reduced(i, j)' = One - Padded(i, j) - potentialsRows'[i] - potentialsColumns'[j]
      BY <2>1 DEF Reduced
    <2> QED
      BY <2>2, <2>3, <2>4, <2>5, <2>6 DEF Reduced
  <1>11. Rows' = Rows /\ Columns' = Columns /\ ColumnCount' = ColumnCount
    BY DEF Scan, inputVars, Rows, Columns, ColumnCount
  <1>12. \A j \in open : minimum'[j] = least[j] - delta
    BY <1>4
  <1>13. Typed'
    <2>1. \A j \in Columns : least[j] - delta \in Int
      BY <1>7
    <2>2. minimum' \in [Columns -> Int]
      BY <1>4, <1>7, <2>1
    <2>3. potentialsRows' \in [0..rowCount -> Int] /\ potentialsColumns' \in [0..ColumnCount -> Int]
      BY <1>4, <1>7 DEF Typed
    <2>4. predecessor' \in [0..ColumnCount -> 0..ColumnCount] /\ used' \subseteq 0..ColumnCount
      BY <1>3 DEF Scan, Typed
    <2>5. row' = row /\ matching' = matching /\ rowCount' = rowCount
      BY DEF Scan, inputVars
    <2>6. current' \in 0..ColumnCount /\ phase' \in {"row", "scan", "augment"}
      BY <1>2, <1>4
    <2> QED
      BY <1>11, <2>2, <2>3, <2>4, <2>5, <2>6 DEF Typed
  <1>14. DualFeasible'
    <2> SUFFICES ASSUME NEW i \in Rows, NEW j \in Columns PROVE Reduced(i, j)' >= 0
      BY <1>11 DEF DualFeasible
    <2>1. Reduced(i, j) \in Int /\ Reduced(i, j) >= 0 /\ delta \in Int /\ delta >= 0
      BY <1>6, <1>8 DEF DualFeasible
    <2>2. i \in reached /\ j \notin used' => Reduced(i, j) >= delta
      <3> SUFFICES ASSUME i \in reached, j \in open PROVE Reduced(i, j) >= delta
        OBVIOUS
      <3>1. least[j] <= Reduced(i, j) /\ least[j] >= delta /\ least[j] \in Int
        BY <1>7, <1>8, <1>9
      <3> QED
        BY <2>1, <3>1
    <2>3. Reduced(i, j)' = Reduced(i, j) - (IF i \in reached THEN delta ELSE 0)
                                         + (IF j \in used' THEN delta ELSE 0)
      BY <1>10
    <2> QED
      BY <2>1, <2>2, <2>3
  <1>15. MinimaAreBounds'
    <2> SUFFICES ASSUME phase' = "scan"
                 PROVE  /\ \A k \in used' \cup {current'} : matching'[k] \in Rows
                        /\ \A j \in open :
                             /\ minimum'[j] >= 0
                             /\ \A k \in used' : minimum'[j] <= Reduced(matching[k], j)'
      BY <1>11 DEF MinimaAreBounds, Scan
    <2>1. matching' = matching
      BY DEF Scan
    <2>2. matching[next] \in Rows
      BY <1>2, <1>4 DEF Typed, Rows, Input
    <2>3. ASSUME NEW j \in open
          PROVE  minimum'[j] >= 0 /\ \A k \in used' : minimum'[j] <= Reduced(matching[k], j)'
      <3>1. least[j] \in Int /\ delta \in Int /\ least[j] >= delta
        BY <1>7, <1>8
      <3>2. ASSUME NEW k \in used' PROVE minimum'[j] <= Reduced(matching[k], j)'
        <4>1. matching[k] \in Rows /\ matching[k] \in reached
          BY <1>5
        <4>2. Reduced(matching[k], j)' = Reduced(matching[k], j) - delta
          BY <1>10, <2>1, <3>1, <1>6, <4>1
        <4> QED
          BY <1>6, <1>9, <1>12, <3>1, <4>1, <4>2
      <3> QED
        BY <1>12, <3>1, <3>2
    <2> QED
      BY <1>4, <1>5, <2>1, <2>2, <2>3
  <1> QED
    BY <1>1, <1>13, <1>14, <1>15

LEMMA Inductive == AssignmentSpec => []IInv
  <1>1. IInv /\ [AssignmentNext]_assignmentVars => IInv'
    <2> SUFFICES ASSUME IInv, [AssignmentNext]_assignmentVars PROVE IInv'
      OBVIOUS
    <2>1. CASE StartRow
      BY <2>1, StartRowStep
    <2>2. CASE Scan
      BY <2>2, ScanStep
    <2>3. CASE Augment
      BY <2>3, AugmentStep
    <2>4. CASE UNCHANGED assignmentVars
      BY <2>4 DEF IInv, Input, Typed, DualFeasible, MinimaAreBounds, Reduced, Padded,
                  Rows, Columns, ColumnCount, assignmentVars, inputVars, searchVars
    <2> QED
      BY <2>1, <2>2, <2>3, <2>4 DEF AssignmentNext
  <1> QED
    BY <1>1, InitIsInductive, PTL DEF AssignmentSpec

--------------------------------------------------------------------------------
Places == 0..ColumnCount

(* A row has one column, but for the one that an augmentation has copied   *)
(* its row out of, and column 0 once it is over.                           *)
OneToOne ==
  \A j, k \in Places :
    matching[j] = matching[k] /\ matching[j] # 0 /\ j # k =>
      \/ phase = "row" /\ 0 \in {j, k}
      \/ phase = "augment" /\ current \in {j, k}

RowsArePlaced ==
  /\ \A j \in Places : matching[j] <= row
  /\ \A i \in 1..row : \E j \in Places :
       matching[j] = i /\ (phase = "row" => j # 0) /\ (phase = "augment" => j # current)

Tight(j) == Reduced(matching[j], j) = 0

PartnersAreTight ==
  \A j \in Columns :
    /\ potentialsColumns[j] <= 0
    /\ IF matching[j] = 0 THEN potentialsColumns[j] = 0 ELSE Tight(j)

(* Minima are the cost of the step from the predecessor.                   *)
MinimaAreCosts ==
  phase = "scan" /\ used # {} =>
    \A j \in Columns \ used :
      predecessor[j] \in used /\ minimum[j] = Reduced(matching[predecessor[j]], j)

(* rank counts the rounds before a column was reached.                     *)
IsTree(rank) ==
  /\ \A j \in (used \cup {current}) \ {0} :
       /\ predecessor[j] \in used
       /\ rank[predecessor[j]] < rank[j]
       /\ rank[j] <= rank[current] => Reduced(matching[predecessor[j]], j) = 0
  /\ \A j \in used : matching[j] \in Rows
  /\ phase = "scan" => \A j \in used : rank[j] < rank[current]
  /\ phase = "augment" => current # 0

TreeIsTight == phase # "row" => \E rank \in [Places -> Nat] : IsTree(rank)

Paired == OneToOne /\ RowsArePlaced /\ PartnersAreTight /\ MinimaAreCosts /\ TreeIsTight
--------------------------------------------------------------------------------
LEMMA InitIsPaired == Input /\ AssignmentInit => Paired
  <1> SUFFICES ASSUME Input, AssignmentInit PROVE Paired
    OBVIOUS
  <1>1. ColumnCount \in Nat
    BY DEF Input, ColumnCount
  <1>2. \A j \in Places : matching[j] = 0 /\ potentialsColumns[j] = 0
    BY <1>1 DEF AssignmentInit, Places
  <1>3. OneToOne /\ RowsArePlaced
    <2>1. OneToOne
      BY <1>2 DEF OneToOne
    <2>2. row = 0 /\ \A i \in 1..row : FALSE
      BY DEF AssignmentInit
    <2> QED
      BY <1>2, <2>1, <2>2 DEF RowsArePlaced
  <1>4. PartnersAreTight
    BY <1>1, <1>2 DEF PartnersAreTight, Places, Columns
  <1>5. MinimaAreCosts /\ TreeIsTight
    BY DEF MinimaAreCosts, TreeIsTight, AssignmentInit
  <1> QED
    BY <1>3, <1>4, <1>5 DEF Paired

LEMMA StartRowPairs == IInv /\ Paired /\ StartRow => Paired'
  <1> SUFFICES ASSUME IInv, Paired, StartRow PROVE Paired'
    OBVIOUS
  <1> USE DEF IInv, Paired
  <1>1. /\ rowCount \in Nat /\ ColumnCount \in Nat /\ row \in Nat
        /\ Places' = Places /\ Columns' = Columns /\ Rows' = Rows
        /\ 0 \in Places /\ 0 \notin Columns /\ Columns \subseteq Places
    BY DEF StartRow, inputVars, Input, Typed, Places, Columns, Rows, ColumnCount
  <1>2. matching' = [matching EXCEPT ![0] = row + 1] /\ row' = row + 1
        /\ phase = "row" /\ phase' = "scan" /\ used' = {} /\ current' = 0
    BY DEF StartRow
  <1>3. /\ matching'[0] = row + 1
        /\ \A j \in Places : matching[j] \in Nat /\ matching[j] <= row
        /\ \A j \in Places \ {0} : matching'[j] = matching[j]
    <2>1. matching \in [Places -> 0..rowCount]
      BY DEF Typed, Places
    <2>2. \A j \in Places : matching[j] \in Nat /\ matching[j] <= row
      BY <1>1, <2>1 DEF RowsArePlaced
    <2> QED
      BY <1>1, <1>2, <2>1, <2>2
  <1>4. OneToOne'
    <2> SUFFICES ASSUME NEW j \in Places, NEW k \in Places,
                        matching'[j] = matching'[k], matching'[j] # 0, j # k
                 PROVE  FALSE
      BY <1>1 DEF OneToOne
    <2>1. CASE j # 0 /\ k # 0
      BY <1>2, <1>3, <2>1 DEF OneToOne
    <2>2. CASE j = 0 \/ k = 0
      BY <1>1, <1>3, <2>2
    <2> QED
      BY <2>1, <2>2
  <1>5. RowsArePlaced'
    <2>1. \A j \in Places : matching'[j] <= row + 1
      BY <1>1, <1>3
    <2>2. ASSUME NEW i \in 1..(row + 1) PROVE \E j \in Places : matching'[j] = i
      <3>1. CASE i = row + 1
        BY <1>1, <1>3, <3>1
      <3>2. CASE i \in 1..row
        BY <1>2, <1>3, <3>2 DEF RowsArePlaced
      <3> QED
        BY <1>1, <3>1, <3>2
    <2> QED
      BY <1>1, <1>2, <2>1, <2>2 DEF RowsArePlaced
  <1>6. PartnersAreTight'
    <2>1. UNCHANGED <<inputVars, potentialsRows, potentialsColumns>>
      BY DEF StartRow
    <2>2. \A j \in Columns : matching'[j] = matching[j]
      BY <1>1, <1>3
    <2> QED
      BY <1>1, <2>1, <2>2 DEF PartnersAreTight, Tight, Reduced, Padded, inputVars
  <1>7. MinimaAreCosts'
    BY <1>2 DEF MinimaAreCosts
  <1>8. TreeIsTight'
    <2> DEFINE rank == [j \in Places |-> 0]
    <2>1. rank \in [Places -> Nat] /\ IsTree(rank)'
      BY <1>2 DEF IsTree
    <2> QED
      BY <1>1, <2>1 DEF TreeIsTight
  <1> QED
    BY <1>4, <1>5, <1>6, <1>7, <1>8

(* One step back: the column takes the row of its predecessor.             *)
LEMMA AugmentPairs == IInv /\ Paired /\ Augment => Paired'
  <1> SUFFICES ASSUME IInv, Paired, Augment PROVE Paired'
    OBVIOUS
  <1> USE DEF IInv, Paired
  <1> DEFINE p == predecessor[current]
  <1>1. /\ phase = "augment" /\ current' = p /\ phase' = IF p = 0 THEN "row" ELSE "augment"
        /\ matching' = [matching EXCEPT ![current] = matching[p]]
        /\ UNCHANGED <<inputVars, row, potentialsRows, potentialsColumns, predecessor, used>>
    BY DEF Augment
  <1>2. /\ ColumnCount \in Nat /\ Places' = Places /\ Columns' = Columns /\ Rows' = Rows
        /\ Columns = Places \ {0}
    BY <1>1 DEF inputVars, Input, Places, Columns, Rows, ColumnCount
  <1>3. current \in Places /\ p \in Places /\ used \subseteq Places
    BY DEF Typed, Places
  <1>4. PICK rank \in [Places -> Nat] : IsTree(rank)
    BY <1>1 DEF TreeIsTight
  <1>5. current # 0 /\ p \in used /\ rank[p] < rank[current] /\ Reduced(matching[p], current) = 0
        /\ matching[p] \in Rows
    BY <1>1, <1>3, <1>4 DEF IsTree
  <1>6. p # current
    BY <1>3, <1>5
  <1>7. /\ matching'[current] = matching[p]
        /\ \A j \in Places \ {current} : matching'[j] = matching[j]
    BY <1>1, <1>3 DEF Typed, Places
  <1>8. matching[p] # 0
    BY <1>5 DEF Rows
  <1>9. OneToOne'
    <2> SUFFICES ASSUME NEW j \in Places, NEW k \in Places,
                        matching'[j] = matching'[k], matching'[j] # 0, j # k
                 PROVE  p \in {j, k}
      BY <1>1, <1>2 DEF OneToOne
    <2>1. CASE j = current
      BY <1>1, <1>3, <1>6, <1>7, <1>8, <2>1 DEF OneToOne
    <2>2. CASE k = current
      BY <1>1, <1>3, <1>6, <1>7, <1>8, <2>2 DEF OneToOne
    <2>3. CASE j # current /\ k # current
      BY <1>1, <1>7, <2>3 DEF OneToOne
    <2> QED
      BY <2>1, <2>2, <2>3
  <1>10. RowsArePlaced'
    <2>1. \A j \in Places : matching'[j] <= row
      BY <1>3, <1>7 DEF RowsArePlaced
    <2>2. ASSUME NEW i \in 1..row PROVE \E j \in Places : matching'[j] = i /\ j # p
      <3>1. PICK j \in Places : matching[j] = i /\ j # current
        BY <1>1 DEF RowsArePlaced
      <3>2. CASE j = p
        BY <1>3, <1>6, <1>7, <3>1, <3>2
      <3>3. CASE j # p
        BY <1>7, <3>1, <3>3
      <3> QED
        BY <3>2, <3>3
    <2> QED
      BY <1>1, <1>2, <2>1, <2>2 DEF RowsArePlaced
  <1>11. ASSUME NEW j \in Places, NEW k \in Places, NEW i, matching'[k] = i, Reduced(i, j) = 0
         PROVE  Reduced(matching[k], j)' = 0
    BY <1>1, <1>11 DEF Reduced, Padded, inputVars
  <1>12. PartnersAreTight'
    <2> SUFFICES ASSUME NEW j \in Columns
                 PROVE  /\ potentialsColumns[j] <= 0
                        /\ IF matching'[j] = 0 THEN potentialsColumns[j] = 0
                           ELSE Reduced(matching[j], j)' = 0
      BY <1>1, <1>2 DEF PartnersAreTight, Tight
    <2>1. CASE j = current
      <3>1. matching'[j] = matching[p] /\ Reduced(matching[p], j) = 0
        BY <1>5, <1>7, <2>1
      <3> QED
        BY <1>2, <1>8, <1>11, <3>1 DEF PartnersAreTight
    <2>2. CASE j # current
      BY <1>2, <1>7, <1>11, <2>2 DEF PartnersAreTight, Tight
    <2> QED
      BY <2>1, <2>2
  <1>13. MinimaAreCosts'
    BY <1>1 DEF MinimaAreCosts
  <1>14. TreeIsTight'
    <2> SUFFICES ASSUME p # 0 PROVE IsTree(rank)'
      BY <1>1, <1>2 DEF TreeIsTight
    <2>1. \A j \in used : matching'[j] \in Rows
      BY <1>3, <1>4, <1>5, <1>7 DEF IsTree
    <2>2. ASSUME NEW j \in used, j # 0
          PROVE  /\ predecessor[j] \in used
                 /\ rank[predecessor[j]] < rank[j]
                 /\ rank[j] <= rank[p] => Reduced(matching[predecessor[j]], j)' = 0
      <3>1. predecessor[j] \in used /\ rank[predecessor[j]] < rank[j]
        BY <1>4, <2>2 DEF IsTree
      <3>2. ASSUME rank[j] <= rank[p] PROVE Reduced(matching[predecessor[j]], j)' = 0
        <4>1. rank[j] \in Nat /\ rank[p] \in Nat /\ rank[current] \in Nat
              /\ rank[predecessor[j]] \in Nat
          BY <1>3, <3>1
        <4>2. rank[j] <= rank[current] /\ predecessor[j] # current
          BY <1>5, <3>1, <3>2, <4>1
        <4>3. Reduced(matching[predecessor[j]], j) = 0
          BY <1>4, <2>2, <4>2 DEF IsTree
        <4>4. matching'[predecessor[j]] = matching[predecessor[j]]
          BY <1>3, <1>7, <3>1, <4>2
        <4> QED
          BY <1>1, <4>3, <4>4 DEF Reduced, Padded, inputVars
      <3> QED
        BY <3>1, <3>2
    <2> QED
      BY <1>1, <1>2, <1>5, <2>1, <2>2 DEF IsTree
  <1> QED
    BY <1>9, <1>10, <1>12, <1>13, <1>14

(* A round: the pairs and the edges of the tree lie within what the        *)
(* potentials move by together, and the column that is next is reached     *)
(* over a tight edge.                                                      *)
LEMMA ScanPairs == IInv /\ Paired /\ Scan => Paired'
  <1> SUFFICES ASSUME IInv, Paired, Scan PROVE Paired'
    OBVIOUS
  <1> USE DEF IInv, Paired
  <1> DEFINE open == Columns \ used'
             least == [j \in Columns |->
                         IF j \in open /\ Cheaper(j) THEN Reduced(matching[current], j)
                         ELSE minimum[j]]
             reached == {matching[k] : k \in used'}
  <1>1. PICK next \in open :
          /\ \A j \in open : least[next] < least[j] \/ (least[next] = least[j] /\ next <= j)
          /\ potentialsRows' = [i \in 0..rowCount |->
               IF \E j \in used' : matching[j] = i THEN potentialsRows[i] + least[next]
               ELSE potentialsRows[i]]
          /\ potentialsColumns' = [j \in 0..ColumnCount |->
               IF j \in used' THEN potentialsColumns[j] - least[next] ELSE potentialsColumns[j]]
          /\ minimum' = [j \in Columns |->
               IF j \in open THEN least[j] - least[next] ELSE least[j]]
          /\ current' = next
          /\ phase' = IF matching[next] = 0 THEN "augment" ELSE "scan"
    BY DEF Scan
  <1> DEFINE delta == least[next]
  <1>2. /\ used' = used \cup {current} /\ phase = "scan"
        /\ UNCHANGED <<inputVars, row, matching>>
        /\ predecessor' = [j \in 0..ColumnCount |->
             IF j \in open /\ Cheaper(j) THEN current ELSE predecessor[j]]
    BY DEF Scan
  <1>3. /\ ColumnCount \in Nat /\ Places' = Places /\ Columns' = Columns /\ Rows' = Rows
        /\ Columns = Places \ {0} /\ Rows \subseteq 0..rowCount /\ used' \subseteq Places
        /\ next \in Columns /\ next \notin used' /\ current \in Places
    <2>1. rowCount \in Nat /\ ColumnCount \in Nat /\ Columns = Places \ {0}
      BY DEF Input, Places, Columns, ColumnCount
    <2>2. Places' = Places /\ Columns' = Columns /\ Rows' = Rows
      BY <1>2 DEF inputVars, Places, Columns, Rows, ColumnCount
    <2>3. used' \subseteq Places /\ current \in Places
      BY <1>2 DEF Typed, Places
    <2> QED
      BY <2>1, <2>2, <2>3 DEF Rows
  <1>4. PICK rank \in [Places -> Nat] : IsTree(rank)
    BY <1>2 DEF TreeIsTight
  <1>5. \A k \in used' : matching[k] \in Rows
    BY <1>2 DEF MinimaAreBounds
  <1>6. \A i \in Rows, j \in Columns : Reduced(i, j) \in Int
    BY ReducedIsInteger
  <1>7. \A j \in open :
          /\ predecessor'[j] \in used'
          /\ least[j] = Reduced(matching[predecessor'[j]], j) /\ least[j] \in Int
    <2> SUFFICES ASSUME NEW j \in open
                 PROVE  /\ predecessor'[j] \in used'
                        /\ least[j] = Reduced(matching[predecessor'[j]], j) /\ least[j] \in Int
      OBVIOUS
    <2>1. predecessor'[j] = IF Cheaper(j) THEN current ELSE predecessor[j]
      BY <1>2, <1>3 DEF Places
    <2>2. CASE Cheaper(j)
      BY <1>2, <1>5, <1>6, <2>1, <2>2
    <2>3. CASE ~Cheaper(j)
      BY <1>2, <1>5, <1>6, <2>1, <2>3 DEF Cheaper, MinimaAreCosts
    <2> QED
      BY <2>2, <2>3
  <1>8. delta \in Int /\ delta >= 0
    <2>1. ASSUME NEW j \in open PROVE least[j] >= 0
      <3>1. CASE Cheaper(j)
        BY <3>1, <1>2, <1>5 DEF DualFeasible
      <3>2. CASE ~Cheaper(j)
        BY <3>2, <1>2 DEF Cheaper, MinimaAreBounds
      <3> QED
        BY <3>1, <3>2
    <2> QED
      BY <1>7, <2>1
  <1>9. ASSUME NEW i \in Rows, NEW j \in Columns
        PROVE  One - Padded(i, j)' - potentialsRows'[i] - potentialsColumns'[j]
                 = Reduced(i, j) - (IF i \in reached THEN delta ELSE 0)
                                 + (IF j \in used' THEN delta ELSE 0)
    <2>1. Padded(i, j)' = Padded(i, j)
      BY <1>2 DEF Padded, inputVars
    <2>2. Padded(i, j) \in Int /\ One \in Int
      BY PaddedIsInteger, ScoresAreIntegers
    <2>3. potentialsRows[i] \in Int /\ potentialsColumns[j] \in Int
      BY <1>3 DEF Typed, Places
    <2>4. potentialsRows'[i] = potentialsRows[i] + (IF i \in reached THEN delta ELSE 0)
      BY <1>1, <1>3, <1>8, <2>3
    <2>5. potentialsColumns'[j] = potentialsColumns[j] - (IF j \in used' THEN delta ELSE 0)
      BY <1>1, <1>3, <1>8, <2>3 DEF Places
    <2> QED
      BY <1>8, <2>1, <2>2, <2>3, <2>4, <2>5 DEF Reduced
  <1>10. ASSUME NEW k \in Places, matching[k] \in Rows, NEW j \in Columns
         PROVE  Reduced(matching[k], j)'
                  = Reduced(matching[k], j) - (IF matching[k] \in reached THEN delta ELSE 0)
                                            + (IF j \in used' THEN delta ELSE 0)
    <2>1. Reduced(matching[k], j)'
            = One - Padded(matching[k], j)' - potentialsRows'[matching[k]] - potentialsColumns'[j]
      BY <1>2 DEF Reduced
    <2> DEFINE i == matching[k]
    <2>2. Padded(i, j)' = IF j <= realColumnCount THEN weights[i][j] ELSE MinMatchScore
      BY <1>2 DEF Padded, inputVars
    <2> HIDE DEF i
    <2>3. i \in Rows
      BY <1>10 DEF i
    <2>4. Padded(matching[k], j)' = Padded(i, j)
      BY <2>2 DEF i, Padded
    <2>5. ASSUME NEW r \in Rows
          PROVE  One - Padded(r, j) - potentialsRows'[r] - potentialsColumns'[j]
                   = Reduced(r, j) - (IF r \in reached THEN delta ELSE 0)
                                   + (IF j \in used' THEN delta ELSE 0)
      <3>1. Padded(r, j)' = Padded(r, j)
        BY <1>2 DEF Padded, inputVars
      <3> QED
        BY <1>9, <3>1
    <2> QED
      BY <2>1, <2>3, <2>4, <2>5 DEF i
  <1>11. OneToOne'
    BY <1>1, <1>2, <1>3 DEF OneToOne
  <1>12. RowsArePlaced'
    <2>1. \A i \in 1..row : i # 0
      OBVIOUS
    <2> QED
      BY <1>1, <1>2, <1>3, <2>1 DEF RowsArePlaced
  <1>13. PartnersAreTight'
    <2> SUFFICES ASSUME NEW j \in Columns
                 PROVE  /\ potentialsColumns'[j] <= 0
                        /\ IF matching[j] = 0 THEN potentialsColumns'[j] = 0
                           ELSE Reduced(matching[j], j)' = 0
      BY <1>2, <1>3 DEF PartnersAreTight, Tight
    <2>1. /\ potentialsColumns[j] \in Int /\ potentialsColumns[j] <= 0
          /\ potentialsColumns'[j] = IF j \in used' THEN potentialsColumns[j] - delta
                                     ELSE potentialsColumns[j]
      BY <1>1, <1>3 DEF Typed, Places, PartnersAreTight
    <2>2. CASE matching[j] = 0
      <3>1. j \notin used'
        BY <1>5, <2>2 DEF Rows
      <3> QED
        BY <2>1, <2>2, <3>1 DEF PartnersAreTight
    <2>3. CASE matching[j] # 0
      <3>1. matching[j] \in Rows /\ j \in Places
        <4>1. j \in Places
          BY <1>3
        <4>2. matching[j] \in 0..rowCount
          BY <4>1 DEF Typed, Places
        <4> QED
          BY <2>3, <4>1, <4>2 DEF Rows, Input
      <3>2. matching[j] \in reached <=> j \in used'
        BY <1>2, <1>3, <2>3, <3>1 DEF OneToOne
      <3>3. Reduced(matching[j], j) = 0
        BY <2>3 DEF PartnersAreTight, Tight
      <3>4. Reduced(matching[j], j)' = 0
        BY <1>8, <1>10, <3>1, <3>2, <3>3
      <3> QED
        BY <1>8, <2>1, <2>3, <3>4
    <2> QED
      BY <2>2, <2>3
  <1>14. ASSUME NEW j \in open
         PROVE  Reduced(matching[predecessor[j]], j)' = least[j] - delta
    <2>1. PICK k \in used' : k = predecessor'[j]
      BY <1>7
    <2>2. k \in Places /\ matching[k] \in Rows /\ matching[k] \in reached
      BY <1>3, <1>5
    <2>3. least[j] = Reduced(matching[k], j) /\ least[j] \in Int
      BY <1>7, <2>1
    <2>4. j \in Columns /\ j \notin used'
      OBVIOUS
    <2>5. Reduced(matching[k], j)' = least[j] - delta
      <3> HIDE DEF least, open, reached
      <3> QED
        BY <1>8, <1>10, <2>2, <2>3, <2>4
    <2> QED
      BY <2>1, <2>5 DEF Reduced, Padded
  <1>15. MinimaAreCosts'
    BY <1>1, <1>2, <1>3, <1>7, <1>14 DEF MinimaAreCosts
  <1>16. TreeIsTight'
    <2>1. PICK round \in [Places -> Nat] :
            /\ round[next] = rank[current] + 1
            /\ \A j \in Places \ {next} : round[j] = rank[j]
      <3> DEFINE extended == [rank EXCEPT ![next] = rank[current] + 1]
      <3>1. /\ extended \in [Places -> Nat] /\ extended[next] = rank[current] + 1
            /\ \A j \in Places \ {next} : extended[j] = rank[j]
        BY <1>3
      <3> HIDE DEF extended
      <3> QED
        BY <3>1
    <2>2. \A j \in used' : /\ round[j] = rank[j] /\ rank[j] \in Nat
                           /\ rank[j] <= rank[current] /\ round[j] < round[next]
      BY <1>2, <1>3, <1>4, <2>1 DEF IsTree
    <2>3. ASSUME NEW j \in used' \ {0}
          PROVE  /\ predecessor'[j] \in used' /\ round[predecessor'[j]] < round[j]
                 /\ Reduced(matching[predecessor[j]], j)' = 0
      <3>1. predecessor'[j] = predecessor[j]
        BY <1>2, <1>3 DEF Places
      <3>2. /\ predecessor[j] \in used /\ rank[predecessor[j]] < rank[j]
            /\ Reduced(matching[predecessor[j]], j) = 0
        BY <1>2, <1>4, <2>2 DEF IsTree
      <3>3. PICK k \in used' : k = predecessor[j]
        BY <1>2, <3>2
      <3>4. k \in Places /\ matching[k] \in Rows /\ matching[k] \in reached /\ j \in Columns
        BY <1>3, <1>5
      <3>5. Reduced(matching[k], j)' = 0
        BY <1>8, <1>10, <3>2, <3>3, <3>4
      <3>6. Reduced(matching[predecessor[j]], j)' = 0
        BY <3>1, <3>3, <3>5 DEF Reduced, Padded
      <3> QED
        BY <1>2, <2>2, <3>1, <3>2, <3>6
    <2>4. /\ predecessor'[next] \in used' /\ round[predecessor'[next]] < round[next]
          /\ Reduced(matching[predecessor[next]], next)' = 0
      <3>1. predecessor'[next] \in used'
        BY <1>7
      <3>2. Reduced(matching[predecessor[next]], next)' = delta - delta
        BY <1>14
      <3> QED
        BY <1>8, <2>2, <3>1, <3>2
    <2> HIDE DEF open, least, reached, delta
    <2>5. current' = next /\ next # 0 /\ used' \subseteq Places
      BY <1>1, <1>3
    <2>6. ASSUME NEW j \in (used' \cup {next}) \ {0}
          PROVE  /\ predecessor'[j] \in used' /\ round[predecessor'[j]] < round[j]
                 /\ Reduced(matching[predecessor[j]], j)' = 0
      <3>1. CASE j = next
        <4>1. Reduced(matching[predecessor[j]], j)' = 0
          BY <2>4, <3>1 DEF Reduced, Padded
        <4> QED
          BY <2>4, <3>1, <4>1
      <3>2. CASE j \in used' \ {0}
        BY <2>3, <3>2
      <3> QED
        BY <3>1, <3>2
    <2>7. \A j \in used' : matching'[j] \in Rows'
      BY <1>2, <1>3, <1>5
    <2>8. IsTree(round)'
      <3>1. \A j \in ((used \cup {current}) \ {0})' :
              /\ predecessor'[j] \in used' /\ round[predecessor'[j]] < round[j]
              /\ Reduced(matching[predecessor[j]], j)' = 0
        BY <2>5, <2>6
      <3>2. (phase = "scan" => \A j \in used : round[j] < round[current])'
        BY <2>2, <2>5
      <3> QED
        BY <2>5, <2>7, <3>1, <3>2 DEF IsTree
    <2> QED
      BY <1>3, <2>8 DEF TreeIsTight
  <1> QED
    BY <1>11, <1>12, <1>13, <1>15, <1>16

LEMMA PairedIsInductive == AssignmentSpec => []Paired
  <1>1. IInv /\ Paired /\ [AssignmentNext]_assignmentVars => Paired'
    <2> SUFFICES ASSUME IInv, Paired, [AssignmentNext]_assignmentVars PROVE Paired'
      OBVIOUS
    <2>1. CASE StartRow
      BY <2>1, StartRowPairs
    <2>2. CASE Scan
      BY <2>2, ScanPairs
    <2>3. CASE Augment
      BY <2>3, AugmentPairs
    <2>4. CASE UNCHANGED assignmentVars
      <3> USE DEF assignmentVars, inputVars, searchVars, Places, Columns, ColumnCount
      <3>1. OneToOne' /\ RowsArePlaced'
        BY <2>4 DEF Paired, OneToOne, RowsArePlaced
      <3>2. PartnersAreTight' /\ MinimaAreCosts'
        BY <2>4 DEF Paired, PartnersAreTight, Tight, MinimaAreCosts, Reduced, Padded
      <3>3. ASSUME NEW rank, IsTree(rank) PROVE IsTree(rank)'
        BY <2>4, <3>3 DEF IsTree, Reduced, Padded, Rows
      <3>4. TreeIsTight'
        BY <2>4, <3>3 DEF Paired, TreeIsTight
      <3> QED
        BY <3>1, <3>2, <3>4 DEF Paired
    <2> QED
      BY <2>1, <2>2, <2>3, <2>4 DEF AssignmentNext
  <1> QED
    BY <1>1, InitIsPaired, Inductive, PTL DEF AssignmentSpec

(* Whatever the number of rows, of columns and the scores: between two     *)
(* searches the potentials prove the pairing to be the best there is for   *)
(* the rows placed so far.                                                 *)
THEOREM PairingIsCertified == AssignmentSpec => []PotentialsCertify
  <1>1. IInv /\ Paired => PotentialsCertify
    <2> SUFFICES ASSUME IInv, Paired, phase = "row"
                 PROVE  /\ \A i \in 1..row : \E j \in Columns : \A k \in Columns :
                             matching[k] = i <=> k = j
                        /\ \A j \in Columns :
                             /\ potentialsColumns[j] <= 0
                             /\ IF matching[j] = 0 THEN potentialsColumns[j] = 0
                                ELSE matching[j] \in 1..row /\ Reduced(matching[j], j) = 0
      BY DEF IInv, PotentialsCertify
    <2>1. Columns = Places \ {0} /\ row \in Nat /\ \A j \in Places : matching[j] \in Nat
      <3>1. rowCount \in Nat /\ ColumnCount \in Nat
        BY DEF IInv, Input, ColumnCount
      <3>2. Columns = Places \ {0}
        BY <3>1 DEF Places, Columns
      <3>3. row \in Nat
        BY <3>1 DEF IInv, Typed
      <3>4. matching \in [Places -> 0..rowCount]
        BY DEF IInv, Typed, Places
      <3> QED
        BY <3>1, <3>2, <3>3, <3>4
    <2>2. ASSUME NEW i \in 1..row
          PROVE  \E j \in Columns : \A k \in Columns : matching[k] = i <=> k = j
      <3>1. PICK j \in Columns : matching[j] = i
        BY <2>1 DEF Paired, RowsArePlaced
      <3>2. \A k \in Columns : matching[k] = i => k = j
        BY <2>1, <3>1 DEF Paired, OneToOne
      <3> QED
        BY <3>1, <3>2
    <2>3. ASSUME NEW j \in Columns, matching[j] # 0 PROVE matching[j] \in 1..row
      BY <2>1, <2>3 DEF Paired, RowsArePlaced
    <2> QED
      BY <2>2, <2>3 DEF Paired, PartnersAreTight, Tight
  <1> QED
    BY <1>1, Inductive, PairedIsInductive, PTL
--------------------------------------------------------------------------------
(* What SumTo computes: one partial sum after the other.                   *)
Adds(g, f, n) == [k \in 0..n |-> IF k = 0 THEN 0 ELSE g[k - 1] + f[k]]

LEMMA SumsExist ==
    ASSUME NEW f, NEW n \in Nat, \A k \in 1..n : f[k] \in Int
    PROVE  \E g : g = Adds(g, f, n)
  <1> DEFINE P == { m \in Nat : m <= n => \E g : g = Adds(g, f, m) }
  <1>1. 0 \in P
    <2> DEFINE z == [k \in 0..0 |-> 0]
    <2>1. Adds(z, f, 0) = z
      BY DEF Adds
    <2> QED
      BY <2>1
  <1>2. ASSUME NEW m \in Nat, m \in P PROVE m + 1 \in P
    <2> SUFFICES ASSUME m + 1 <= n PROVE \E g : g = Adds(g, f, m + 1)
      OBVIOUS
    <2>1. PICK g : g = Adds(g, f, m)
      BY <1>2
    <2> DEFINE h == [k \in 0..m+1 |-> IF k = m + 1 THEN g[m] + f[m + 1] ELSE g[k]]
    <2>2. h = [k \in 0..m+1 |-> h[k]]
      OBVIOUS
    <2>3. ASSUME NEW k \in 0..m+1 PROVE h[k] = IF k = 0 THEN 0 ELSE h[k - 1] + f[k]
      <3>1. CASE k = m + 1
        BY <3>1
      <3>2. CASE k # m + 1
        <4>1. k \in 0..m /\ (k # 0 => k - 1 \in 0..m)
          BY <3>2
        <4>2. g[k] = IF k = 0 THEN 0 ELSE g[k-1] + f[k]
          BY <2>1, <4>1 DEF Adds
        <4> QED
          BY <3>2, <4>1, <4>2
      <3> QED
        BY <3>1, <3>2
    <2> HIDE DEF h
    <2>4. h = Adds(h, f, m + 1)
      BY <2>2, <2>3 DEF Adds
    <2> QED
      BY <2>4
  <1> HIDE DEF P
  <1>3. n \in P
    BY <1>1, <1>2, Induction
  <1> QED
    BY <1>3 DEF P

LEMMA SumsAgree ==
    ASSUME NEW f, NEW n \in Nat, NEW m \in Nat, n <= m, \A k \in 1..m : f[k] \in Int,
           NEW g, g = Adds(g, f, n), NEW h, h = Adds(h, f, m)
    PROVE  \A k \in 0..n : g[k] = h[k] /\ h[k] \in Int
  <1> DEFINE P == { k \in Nat : k <= n => g[k] = h[k] /\ h[k] \in Int }
  <1>1. /\ \A k \in 0..n : g[k] = IF k = 0 THEN 0 ELSE g[k - 1] + f[k]
        /\ \A k \in 0..m : h[k] = IF k = 0 THEN 0 ELSE h[k - 1] + f[k]
    BY DEF Adds
  <1>2. 0 \in P
    BY <1>1
  <1>3. ASSUME NEW k \in Nat, k \in P PROVE k + 1 \in P
    BY <1>1, <1>3
  <1> HIDE DEF P
  <1>4. Nat \subseteq P
    BY <1>2, <1>3, Induction
  <1> QED
    BY <1>4 DEF P

LEMMA SumIsLast ==
    ASSUME NEW f, NEW n \in Nat, \A k \in 1..n : f[k] \in Int
    PROVE  \E g : g = Adds(g, f, n) /\ SumTo(f, n) = g[n]
  <1> DEFINE G == CHOOSE g : g = Adds(g, f, n)
  <1>1. SumTo(f, n) = G[n]
    BY DEF SumTo, Adds
  <1>2. G = Adds(G, f, n)
    BY SumsExist, Zenon
  <1> QED
    BY <1>1, <1>2

LEMMA SumUnfolds ==
    ASSUME NEW f, NEW n \in Nat, \A k \in 1..n : f[k] \in Int
    PROVE  /\ SumTo(f, n) \in Int
           /\ n = 0 => SumTo(f, n) = 0
           /\ n > 0 => SumTo(f, n) = SumTo(f, n - 1) + f[n]
  <1>1. PICK g : g = Adds(g, f, n) /\ SumTo(f, n) = g[n]
    BY SumIsLast
  <1>2. SumTo(f, n) \in Int
    BY <1>1, SumsAgree
  <1>3. \A k \in 0..n : g[k] = IF k = 0 THEN 0 ELSE g[k - 1] + f[k]
    BY <1>1 DEF Adds
  <1>4. ASSUME n > 0 PROVE SumTo(f, n) = SumTo(f, n - 1) + f[n]
    <2>1. n - 1 \in Nat /\ \A k \in 1..n-1 : f[k] \in Int
      BY <1>4
    <2>2. PICK h : h = Adds(h, f, n - 1) /\ SumTo(f, n - 1) = h[n - 1]
      BY <2>1, SumIsLast
    <2>3. h[n - 1] = g[n - 1]
      BY <1>1, <2>1, <2>2, SumsAgree
    <2> QED
      BY <1>1, <1>3, <1>4, <2>2, <2>3
  <1> QED
    BY <1>1, <1>2, <1>3, <1>4

(* How sums compare if their terms do.                                     *)
AreIntegers(f, n) == \A k \in 1..n : f[k] \in Int
AreAtMost(f, g, h, n) == \A k \in 1..n : f[k] <= g[k] + h[k]
AreSums(f, g, h, n) == \A k \in 1..n : f[k] = g[k] + h[k]

LEMMA SumIsMonotone ==
    ASSUME NEW n \in Nat, NEW f, NEW g, NEW h,
           AreIntegers(f, n), AreIntegers(g, n), AreIntegers(h, n), AreAtMost(f, g, h, n)
    PROVE  SumTo(f, n) <= SumTo(g, n) + SumTo(h, n)
  <1> DEFINE P == { m \in Nat : m <= n => SumTo(f, m) <= SumTo(g, m) + SumTo(h, m) }
  <1>1. \A k \in 1..n : f[k] \in Int /\ g[k] \in Int /\ h[k] \in Int /\ f[k] <= g[k] + h[k]
    BY DEF AreIntegers, AreAtMost
  <1>2. 0 \in P
    BY SumUnfolds
  <1>3. ASSUME NEW m \in Nat, m \in P PROVE m + 1 \in P
    <2> SUFFICES ASSUME m + 1 <= n
                 PROVE  SumTo(f, m + 1) <= SumTo(g, m + 1) + SumTo(h, m + 1)
      OBVIOUS
    <2>1. SumTo(f, m) <= SumTo(g, m) + SumTo(h, m)
      BY <1>3
    <2>2. /\ SumTo(f, m + 1) = SumTo(f, m) + f[m + 1] /\ SumTo(f, m) \in Int
          /\ SumTo(g, m + 1) = SumTo(g, m) + g[m + 1] /\ SumTo(g, m) \in Int
          /\ SumTo(h, m + 1) = SumTo(h, m) + h[m + 1] /\ SumTo(h, m) \in Int
      BY <1>1, SumUnfolds
    <2>3. /\ f[m + 1] \in Int /\ g[m + 1] \in Int /\ h[m + 1] \in Int
          /\ f[m + 1] <= g[m + 1] + h[m + 1]
      BY <1>1
    <2> QED
      BY <2>1, <2>2, <2>3
  <1> HIDE DEF P
  <1>4. n \in P
    BY <1>2, <1>3, Induction
  <1> QED
    BY <1>4 DEF P

LEMMA SumIsAdditive ==
    ASSUME NEW n \in Nat, NEW f, NEW g, NEW h,
           AreIntegers(f, n), AreIntegers(g, n), AreIntegers(h, n), AreSums(f, g, h, n)
    PROVE  SumTo(f, n) = SumTo(g, n) + SumTo(h, n)
  <1> DEFINE P == { m \in Nat : m <= n => SumTo(f, m) = SumTo(g, m) + SumTo(h, m) }
  <1>1. \A k \in 1..n : f[k] \in Int /\ g[k] \in Int /\ h[k] \in Int /\ f[k] = g[k] + h[k]
    BY DEF AreIntegers, AreSums
  <1>2. 0 \in P
    BY SumUnfolds
  <1>3. ASSUME NEW m \in Nat, m \in P PROVE m + 1 \in P
    <2> SUFFICES ASSUME m + 1 <= n
                 PROVE  SumTo(f, m + 1) = SumTo(g, m + 1) + SumTo(h, m + 1)
      OBVIOUS
    <2>1. SumTo(f, m) = SumTo(g, m) + SumTo(h, m)
      BY <1>3
    <2>2. /\ SumTo(f, m + 1) = SumTo(f, m) + f[m + 1] /\ SumTo(f, m) \in Int
          /\ SumTo(g, m + 1) = SumTo(g, m) + g[m + 1] /\ SumTo(g, m) \in Int
          /\ SumTo(h, m + 1) = SumTo(h, m) + h[m + 1] /\ SumTo(h, m) \in Int
      BY <1>1, SumUnfolds
    <2>3. /\ f[m + 1] \in Int /\ g[m + 1] \in Int /\ h[m + 1] \in Int
          /\ f[m + 1] = g[m + 1] + h[m + 1]
      BY <1>1
    <2> QED
      BY <2>1, <2>2, <2>3
  <1> HIDE DEF P
  <1>4. n \in P
    BY <1>2, <1>3, Induction
  <1> QED
    BY <1>4 DEF P

LEMMA SumOfZeros ==
    ASSUME NEW n \in Nat, NEW f, \A k \in 1..n : f[k] = 0
    PROVE  SumTo(f, n) = 0
  <1>1. AreIntegers(f, n) /\ AreSums(f, f, f, n)
    BY DEF AreIntegers, AreSums
  <1>2. SumTo(f, n) = SumTo(f, n) + SumTo(f, n)
    BY <1>1, SumIsAdditive
  <1>3. SumTo(f, n) \in Int
    BY SumUnfolds
  <1>4. \A s \in Int : s = s + s => s = 0
    OBVIOUS
  <1> QED
    BY <1>2, <1>3, <1>4, Zenon

(* A sum of which one term grows by d.                                     *)
Raised(g, f, c, d, n) == \A k \in 1..n : g[k] = f[k] + (IF k = c THEN d ELSE 0)

LEMMA SumOfRaised ==
    ASSUME NEW n \in Nat, NEW f, NEW g, NEW c \in 1..n, NEW d \in Int,
           AreIntegers(f, n), Raised(g, f, c, d, n)
    PROVE  SumTo(g, n) = SumTo(f, n) + d
  <1> DEFINE P == { m \in Nat : m <= n =>
                      SumTo(g, m) = SumTo(f, m) + (IF c <= m THEN d ELSE 0) }
  <1>1. \A k \in 1..n : /\ f[k] \in Int /\ g[k] \in Int
                        /\ g[k] = f[k] + (IF k = c THEN d ELSE 0)
    BY DEF AreIntegers, Raised
  <1>2. 0 \in P
    BY SumUnfolds
  <1>3. ASSUME NEW m \in Nat, m \in P PROVE m + 1 \in P
    <2> SUFFICES ASSUME m + 1 <= n
                 PROVE  SumTo(g, m + 1) = SumTo(f, m + 1) + (IF c <= m + 1 THEN d ELSE 0)
      OBVIOUS
    <2>1. SumTo(g, m) = SumTo(f, m) + (IF c <= m THEN d ELSE 0)
      BY <1>3
    <2>2. /\ SumTo(f, m + 1) = SumTo(f, m) + f[m + 1] /\ SumTo(f, m) \in Int
          /\ SumTo(g, m + 1) = SumTo(g, m) + g[m + 1] /\ SumTo(g, m) \in Int
      BY <1>1, SumUnfolds
    <2>3. /\ f[m + 1] \in Int
          /\ g[m + 1] = f[m + 1] + (IF m + 1 = c THEN d ELSE 0)
      BY <1>1
    <2> QED
      BY <2>1, <2>2, <2>3
  <1> HIDE DEF P
  <1>4. n \in P
    BY <1>2, <1>3, Induction
  <1> QED
    BY <1>4 DEF P

(* Sums over the rows of what their columns weigh: over the columns, if no *)
(* two rows have the same.                                                 *)
Taken(w, g, k, n) == [j \in 1..n |-> IF \E i \in 1..k : g[i] = j THEN w[j] ELSE 0]
IsOneToOne(g, m) == \A i, k \in 1..m : g[i] = g[k] => i = k
Weighs(along, w, g, m) == \A i \in 1..m : along[i] = w[g[i]]

LEMMA TakingOne ==
    ASSUME NEW m \in Nat, NEW n \in Nat, NEW g \in [1..m -> 1..n], NEW w \in [1..n -> Int],
           IsOneToOne(g, m), NEW k \in Nat, k + 1 <= m
    PROVE  SumTo(Taken(w, g, k + 1, n), n) = SumTo(Taken(w, g, k, n), n) + w[g[k + 1]]
  <1> DEFINE old == Taken(w, g, k, n)
             new == Taken(w, g, k + 1, n)
  <1>1. PICK c \in 1..n : c = g[k + 1]
    OBVIOUS
  <1>2. PICK d \in Int : d = w[c]
    OBVIOUS
  <1>3. \A i \in 1..k : g[i] # c
    BY <1>1 DEF IsOneToOne
  <1>4. AreIntegers(old, n)
    BY DEF Taken, AreIntegers
  <1>5. Raised(new, old, c, d, n)
    <2> SUFFICES ASSUME NEW j \in 1..n PROVE new[j] = old[j] + (IF j = c THEN d ELSE 0)
      BY DEF Raised
    <2>1. \A i \in Int : i \in 1..k+1 <=> i \in 1..k \/ i = k + 1
      OBVIOUS
    <2>2. (\E i \in 1..k+1 : g[i] = j) <=> j = c \/ \E i \in 1..k : g[i] = j
      BY <1>1, <2>1
    <2>3. w[j] \in Int
      OBVIOUS
    <2> QED
      BY <1>2, <1>3, <2>2, <2>3 DEF Taken
  <1> HIDE DEF old, new
  <1>6. SumTo(new, n) = SumTo(old, n) + d
    BY <1>4, <1>5, SumOfRaised
  <1> QED
    BY <1>1, <1>2, <1>6 DEF old, new

LEMMA SumOverColumns ==
    ASSUME NEW m \in Nat, NEW n \in Nat, NEW g \in [1..m -> 1..n], NEW w \in [1..n -> Int],
           NEW along, IsOneToOne(g, m), Weighs(along, w, g, m)
    PROVE  SumTo(along, m) = SumTo(Taken(w, g, m, n), n)
  <1> DEFINE P == { k \in Nat : k <= m => SumTo(along, k) = SumTo(Taken(w, g, k, n), n) }
  <1>1. \A i \in 1..m : along[i] \in Int /\ along[i] = w[g[i]]
    BY DEF Weighs
  <1>2. 0 \in P
    <2>1. \A j \in 1..n : Taken(w, g, 0, n)[j] = 0
      BY DEF Taken
    <2>2. SumTo(Taken(w, g, 0, n), n) = 0
      BY <2>1, SumOfZeros
    <2>3. SumTo(along, 0) = 0
      BY SumUnfolds
    <2> QED
      BY <2>2, <2>3
  <1>3. ASSUME NEW k \in Nat, k \in P PROVE k + 1 \in P
    <2> SUFFICES ASSUME k + 1 <= m
                 PROVE  SumTo(along, k + 1) = SumTo(Taken(w, g, k + 1, n), n)
      OBVIOUS
    <2>1. SumTo(along, k + 1) = SumTo(along, k) + along[k + 1]
      BY <1>1, SumUnfolds, SMTT(30)
    <2>2. along[k + 1] = w[g[k + 1]]
      BY <1>1
    <2>3. SumTo(along, k) = SumTo(Taken(w, g, k, n), n)
      BY <1>3
    <2>4. SumTo(Taken(w, g, k + 1, n), n) = SumTo(Taken(w, g, k, n), n) + w[g[k + 1]]
      BY TakingOne
    <2> QED
      BY <2>1, <2>2, <2>3, <2>4
  <1> HIDE DEF P
  <1>4. m \in P
    BY <1>2, <1>3, Induction
  <1> QED
    BY <1>4 DEF P

(* Two choices of columns, of which the second takes all that weigh        *)
(* anything.                                                               *)
LEMMA SumOfChoices ==
    ASSUME NEW m \in Nat, NEW n \in Nat, NEW w \in [1..n -> Nat],
           NEW g \in [1..m -> 1..n], IsOneToOne(g, m), NEW along, Weighs(along, w, g, m),
           NEW h \in [1..m -> 1..n], IsOneToOne(h, m), NEW highest, Weighs(highest, w, h, m),
           \A j \in 1..n : w[j] = 0 \/ \E i \in 1..m : h[i] = j
    PROVE  SumTo(along, m) <= SumTo(highest, m)
  <1> DEFINE own == Taken(w, g, m, n)
             all == Taken(w, h, m, n)
             none == [j \in 1..n |-> 0]
  <1>1. w \in [1..n -> Int]
    OBVIOUS
  <1>2. SumTo(along, m) = SumTo(own, n) /\ SumTo(highest, m) = SumTo(all, n)
    BY <1>1, SumOverColumns
  <1>3. AreIntegers(own, n) /\ AreIntegers(all, n) /\ AreIntegers(none, n)
    BY <1>1 DEF AreIntegers, Taken
  <1>4. AreAtMost(own, all, none, n)
    <2> SUFFICES ASSUME NEW j \in 1..n PROVE own[j] <= all[j] + none[j]
      BY DEF AreAtMost
    <2>1. w[j] \in Nat /\ (w[j] = 0 \/ \E i \in 1..m : h[i] = j)
      OBVIOUS
    <2> QED
      BY <2>1, SMTT(30) DEF Taken
  <1>5. \A j \in 1..n : none[j] = 0
    OBVIOUS
  <1> HIDE DEF own, all, none
  <1>6. SumTo(own, n) <= SumTo(all, n) + SumTo(none, n)
    BY <1>3, <1>4, SumIsMonotone
  <1>7. SumTo(none, n) = 0 /\ SumTo(all, n) \in Int
    BY <1>3, <1>5, SumOfZeros, SumUnfolds DEF AreIntegers
  <1> QED
    BY <1>2, <1>6, <1>7

(***************************************************************************)
(* What the potentials certify.  g and h give every row a column, h the    *)
(* one it is matched with; those of f's rows without a partner get columns *)
(* beyond the real ones.  A score is at most One less the potentials, with *)
(* equality along h; the rows' potentials are the same in both sums, and   *)
(* of the columns' h takes all there are.                                  *)
(***************************************************************************)
LEMMA CertifiedIsMaximal ==
    ASSUME Input, Typed, PotentialsCertify, Assigned
    PROVE  /\ Assignment \in Pairings
           /\ \A f \in Pairings :
                SumTo(PairScores(f), rowCount) <= SumTo(PairScores(Assignment), rowCount)
  <1> DEFINE real == realColumnCount
             m == rowCount
             n == ColumnCount
  <1>1. /\ m \in Nat /\ real \in Nat /\ n \in Nat /\ n = real + m
        /\ Rows = 1..m /\ Columns = 1..n /\ row = m
        /\ Rows \subseteq 0..rowCount /\ Columns \subseteq 0..ColumnCount
    BY DEF Input, Assigned, ColumnCount, Rows, Columns
  <1>2. \A i \in Rows : \E j \in Columns : \A k \in Columns : matching[k] = i <=> k = j
    BY <1>1 DEF PotentialsCertify, Assigned
  <1> DEFINE h == [i \in Rows |-> CHOOSE j \in Columns : matching[j] = i]
  <1>3. \A i \in Rows : /\ h[i] \in Columns
                        /\ \A k \in Columns : matching[k] = i <=> k = h[i]
    <2> TAKE i \in Rows
    <2>1. PICK j \in Columns : \A k \in Columns : matching[k] = i <=> k = j
      BY <1>2
    <2>2. h[i] = j
      BY <2>1
    <2> QED
      BY <2>1, <2>2
  <1>4. h \in [Rows -> Columns] /\ \A i, k \in Rows : h[i] = h[k] => i = k
    BY <1>3
  <1> HIDE DEF h
  <1>5. \A i \in Rows : Assignment[i] = IF h[i] <= real THEN h[i] ELSE 0
    <2> TAKE i \in Rows
    <2>1. 1..real \subseteq Columns
      BY <1>1
    <2>2. h[i] \in Columns /\ \A k \in 1..real : matching[k] = i <=> k = h[i]
      BY <1>3, <2>1
    <2>3. CASE h[i] <= real
      <3>1. h[i] \in 1..real
        BY <1>1, <2>2, <2>3
      <3> QED
        BY <2>2, <2>3, <3>1 DEF Assignment
    <2>4. CASE ~(h[i] <= real)
      <3>1. \A k \in 1..real : k # h[i]
        BY <1>1, <2>2, <2>4
      <3> QED
        BY <2>2, <2>4, <3>1 DEF Assignment
    <2> QED
      BY <2>3, <2>4
  <1>6. Assignment \in Pairings
    <2>1. \A i \in Rows : Assignment[i] \in 0..real
      BY <1>1, <1>3, <1>5
    <2>2. Assignment \in [Rows -> 0..real]
      BY <2>1 DEF Assignment
    <2>3. ASSUME NEW i \in Rows, NEW k \in Rows, Assignment[i] = Assignment[k], Assignment[i] # 0
          PROVE  i = k
      BY <1>4, <1>5, <2>3
    <2> QED
      BY <2>2, <2>3 DEF Pairings
  \* Scores along a choice of columns.
  <1> DEFINE weight == [j \in Columns |-> 0 - potentialsColumns[j]]
             own == [i \in Rows |-> One - potentialsRows[i]]
  <1>7. /\ \A i \in Rows : own[i] \in Int
        /\ weight \in [Columns -> Nat]
        /\ \A j \in Columns : weight[j] = 0 \/ \E i \in Rows : h[i] = j
    <2>1. \A i \in Rows : potentialsRows[i] \in Int
      BY <1>1 DEF Typed
    <2>2. \A j \in Columns : potentialsColumns[j] \in Int /\ potentialsColumns[j] <= 0
      BY <1>1 DEF Typed, PotentialsCertify, Assigned
    <2>3. ASSUME NEW j \in Columns, potentialsColumns[j] # 0
          PROVE  \E i \in Rows : h[i] = j
      <3>1. matching[j] \in 1..row
        BY <2>3 DEF PotentialsCertify, Assigned
      <3> QED
        BY <1>1, <1>3, <3>1
    <2> QED
      BY <2>1, <2>2, <2>3, ScoresAreIntegers
  <1>8. \A i \in Rows, j \in Columns :
          /\ Padded(i, j) \in Int
          /\ Padded(i, j) <= own[i] + weight[j]
          /\ j = h[i] => Padded(i, j) = own[i] + weight[j]
    <2> TAKE i \in Rows, j \in Columns
    <2>1. Padded(i, j) \in Int /\ Reduced(i, j) >= 0
      BY PaddedIsInteger DEF PotentialsCertify, DualFeasible
    <2>2. potentialsRows[i] \in Int /\ potentialsColumns[j] \in Int
      BY <1>1 DEF Typed
    <2>3. j = h[i] => Reduced(i, j) = 0
      <3> SUFFICES ASSUME j = h[i] PROVE Reduced(i, j) = 0
        OBVIOUS
      <3>1. matching[j] = i /\ i # 0
        BY <1>1, <1>3
      <3> QED
        BY <3>1 DEF PotentialsCertify, Assigned
    <2> QED
      BY <2>1, <2>2, <2>3, ScoresAreIntegers DEF Reduced
  <1> HIDE DEF weight, own
  <1> DEFINE along(g) == [i \in Rows |-> weight[g[i]]]
  <1>9. ASSUME NEW f \in Pairings
        PROVE  \E g \in [Rows -> Columns] :
                 /\ \A i, k \in Rows : g[i] = g[k] => i = k
                 /\ \A i \in Rows : PairScores(f)[i] = Padded(i, g[i])
    <2> DEFINE g == [i \in Rows |-> IF f[i] = 0 THEN real + i ELSE f[i]]
    <2>1. /\ \A i \in Rows : f[i] \in 0..real
          /\ \A i, k \in Rows : f[i] = f[k] /\ f[i] # 0 => i = k
      BY DEF Pairings
    <2>2. \A i \in Rows : g[i] \in Columns
      BY <1>1, <2>1
    <2>3. \A i, k \in Rows : g[i] = g[k] => i = k
      BY <1>1, <2>1
    <2>4. \A i \in Rows : PairScores(f)[i] = Padded(i, g[i])
      BY <1>1, <2>1 DEF PairScores, Padded
    <2> QED
      BY <2>2, <2>3, <2>4
  <1>10. ASSUME NEW f \in Pairings
         PROVE  SumTo(PairScores(f), m) <= SumTo(own, m) + SumTo(along(h), m)
    <2>1. PICK g \in [Rows -> Columns] :
            /\ \A i, k \in Rows : g[i] = g[k] => i = k
            /\ \A i \in Rows : PairScores(f)[i] = Padded(i, g[i])
      BY <1>9
    <2>2. \A i \in Rows : /\ PairScores(f)[i] \in Int /\ own[i] \in Int /\ along(g)[i] \in Int
                          /\ PairScores(f)[i] <= own[i] + along(g)[i]
      BY <1>7, <1>8, <2>1
    <2>3. SumTo(along(g), m) <= SumTo(along(h), m)
      <3> DEFINE mine == along(g)
                 highest == along(h)
      <3>1. /\ weight \in [1..n -> Nat] /\ g \in [1..m -> 1..n] /\ h \in [1..m -> 1..n]
            /\ \A j \in 1..n : weight[j] = 0 \/ \E i \in 1..m : h[i] = j
        BY <1>1, <1>4, <1>7, <2>1
      <3>2. IsOneToOne(g, m) /\ IsOneToOne(h, m)
        BY <1>1, <1>4, <2>1 DEF IsOneToOne
      <3>3. Weighs(mine, weight, g, m) /\ Weighs(highest, weight, h, m)
        BY <1>1 DEF Weighs
      <3> HIDE DEF mine, highest
      <3>4. SumTo(mine, m) <= SumTo(highest, m)
        BY <1>1, <3>1, <3>2, <3>3, SumOfChoices
      <3> QED
        BY <3>4 DEF mine, highest
    <2>4. \A i \in Rows : along(h)[i] \in Int
      BY <1>4, <1>7
    <2> DEFINE s == PairScores(f)
               t == along(g)
    <2>5. AreIntegers(s, m) /\ AreIntegers(own, m) /\ AreIntegers(t, m) /\ AreAtMost(s, own, t, m)
      BY <1>1, <2>2 DEF AreIntegers, AreAtMost
    <2> HIDE DEF s, t
    <2>6. SumTo(s, m) <= SumTo(own, m) + SumTo(t, m)
      BY <1>1, <2>5, SumIsMonotone
    <2>7. /\ SumTo(s, m) \in Int /\ SumTo(own, m) \in Int /\ SumTo(t, m) \in Int
          /\ SumTo(along(h), m) \in Int
      BY <1>1, <2>4, <2>5, SumUnfolds DEF AreIntegers
    <2> QED
      BY <2>3, <2>6, <2>7 DEF s, t
  <1>11. SumTo(PairScores(Assignment), m) = SumTo(own, m) + SumTo(along(h), m)
    <2>1. \A i \in Rows : PairScores(Assignment)[i] = Padded(i, h[i])
      BY <1>1, <1>3, <1>5 DEF PairScores, Padded
    <2>2. \A i \in Rows : /\ PairScores(Assignment)[i] \in Int /\ own[i] \in Int
                          /\ along(h)[i] \in Int
                          /\ PairScores(Assignment)[i] = own[i] + along(h)[i]
      BY <1>3, <1>4, <1>7, <1>8, <2>1
    <2> DEFINE s == PairScores(Assignment)
               t == along(h)
    <2>3. AreIntegers(s, m) /\ AreIntegers(own, m) /\ AreIntegers(t, m) /\ AreSums(s, own, t, m)
      BY <1>1, <2>2 DEF AreIntegers, AreSums
    <2> HIDE DEF s, t
    <2>4. SumTo(s, m) = SumTo(own, m) + SumTo(t, m)
      BY <1>1, <2>3, SumIsAdditive
    <2> QED
      BY <2>4 DEF s, t
  <1> QED
    BY <1>6, <1>10, <1>11

(* The pairing with which the search ends has the greatest sum of scores,  *)
(* for any number of webs on the two sides and any scores.                 *)
THEOREM NoBetterPairing == AssignmentSpec => []AssignmentIsMaximal
  <1>1. IInv /\ PotentialsCertify => AssignmentIsMaximal
    BY CertifiedIsMaximal DEF IInv, AssignmentIsMaximal
  <1> QED
    BY <1>1, Inductive, PairingIsCertified, PTL

--------------------------------------------------------------------------------
(***************************************************************************)
(* The peephole.  A block is run on the values of the registers; two runs  *)
(* that agree on what lives at a place see the same from there on, and a   *)
(* fold makes runs that differ only in a register that nobody reads.       *)
(***************************************************************************)
(* What an instruction's shape says of its operands.                       *)
LEMMA InstructionIs ==
  ASSUME NEW i \in Instructions
  PROVE  /\ i.id \in Nat /\ i.id # 0 /\ i.op \in {"addi", "set", "other"}
         /\ Defines(i) \subseteq Registers /\ Uses(i) \subseteq Registers
         /\ DefinesFirst(i) \subseteq Defines(i) /\ Reads(i) \subseteq Uses(i)
         /\ i.op # "other" => Reads(i) = {}
         /\ i.op = "addi" =>
              /\ i \in Addis /\ i.dest \in Registers /\ i.base \in Registers /\ i.imm \in Int
              /\ i.constant \in BOOLEAN /\ i.blocked \in BOOLEAN
              /\ Defines(i) = {i.dest} /\ DefinesFirst(i) = {i.dest} /\ Uses(i) = {i.base}
  <1>1. CASE i \in Addis
    BY <1>1 DEF Addis, Defines, DefinesFirst, Uses, Reads
  <1>2. CASE i \in Sets \cup Others
    <2>1. /\ i.id \in Nat \ {0} /\ i.op \in {"set", "other"}
          /\ i.first \subseteq Registers /\ i.rest \subseteq Registers /\ i.uses \subseteq Registers
      BY <1>2 DEF Sets, Others, FirstOperands
    <2> QED
      BY <2>1 DEF Defines, DefinesFirst, Uses, Reads
  <1> QED
    BY <1>1, <1>2 DEF Instructions

(***************************************************************************)
(* Places in a block.                                                      *)
(***************************************************************************)
Identified(q) ==
  /\ q \in Seq(Instructions)
  /\ \A j, k \in 1..Len(q) : q[j].id = q[k].id => j = k

(* Place finds an instruction with the address, if there is one.           *)
LEMMA PlaceIs ==
  ASSUME NEW q, NEW n \in Nat, Len(q) = n, NEW id
  PROVE  \/ Place(q, id) = 0 /\ \A k \in 1..n : q[k].id # id
         \/ Place(q, id) \in 1..n /\ q[Place(q, id)].id = id
  <1> DEFINE I == {k \in 1..n : q[k].id = id}
  <1>1. Place(q, id) = IF I # {} THEN CHOOSE x \in I : \A y \in I : x =< y ELSE 0
    BY DEF Place, SelectInSeq, Min
  <1>2. I # {} => \E x \in I : \A y \in I : x =< y
    <2>1. I \in SUBSET Nat
      OBVIOUS
    <2> HIDE DEF I
    <2> QED
      BY <2>1, LeastElement
  <1> QED
    BY <1>1, <1>2

(* In a block the address of each instruction leads back to its place.     *)
LEMMA PlaceOfOne ==
  ASSUME NEW q, Identified(q), NEW n \in Nat, Len(q) = n
  PROVE  /\ \A k \in 1..n : Place(q, q[k].id) = k /\ Instruction(q, q[k].id) = q[k]
         /\ \A id : (\A k \in 1..n : q[k].id # id) => Place(q, id) = 0
         /\ Place(q, 0) = 0
  <1>1. ASSUME NEW k \in 1..n PROVE Place(q, q[k].id) = k
    BY <1>1, PlaceIs DEF Identified
  <1>2. ASSUME NEW k \in 1..n PROVE q[k].id # 0
    <2>1. q[k] \in Instructions
      BY DEF Identified
    <2> QED
      BY <2>1, InstructionIs
  <1>3. ASSUME NEW id, \A k \in 1..n : q[k].id # id PROVE Place(q, id) = 0
    BY <1>3, PlaceIs
  <1> QED
    BY <1>1, <1>2, <1>3 DEF Instruction

(* What RemoveAt leaves: places before p, and those after it one lower.    *)
LEMMA RemovedAt ==
  ASSUME NEW q \in Seq(Instructions), NEW n \in Nat, Len(q) = n, NEW p \in 1..n
  PROVE  /\ RemoveAt(q, p) \in Seq(Instructions) /\ Len(RemoveAt(q, p)) = n - 1
         /\ \A k \in 1..(n - 1) : RemoveAt(q, p)[k] = IF k < p THEN q[k] ELSE q[k + 1]
  <1> DEFINE u == SubSeq(q, 1, p - 1)
             v == SubSeq(q, p + 1, n)
  <1>1. /\ u \in Seq(Instructions) /\ Len(u) = p - 1 /\ \A k \in 1..(p - 1) : u[k] = q[k]
    <2>1. /\ SubSeq(q, 1, p - 1) \in Seq(Instructions)
          /\ Len(SubSeq(q, 1, p - 1)) = IF 1 <= p - 1 THEN p - 1 - 1 + 1 ELSE 0
          /\ \A i \in 1..(p - 1 - 1 + 1) : SubSeq(q, 1, p - 1)[i] = q[1 + i - 1]
      <3>1. \A i \in 1..(p - 1) : q[i] \in Instructions
        OBVIOUS
      <3> QED
        BY <3>1, SubSeqProperties
    <2> QED
      BY <2>1
  <1>2. /\ v \in Seq(Instructions) /\ Len(v) = n - p /\ \A k \in 1..(n - p) : v[k] = q[p + k]
    <2>1. /\ SubSeq(q, p + 1, n) \in Seq(Instructions)
          /\ Len(SubSeq(q, p + 1, n)) = IF p + 1 <= n THEN n - (p + 1) + 1 ELSE 0
          /\ \A i \in 1..(n - (p + 1) + 1) : SubSeq(q, p + 1, n)[i] = q[(p + 1) + i - 1]
      <3>1. \A i \in (p + 1)..n : q[i] \in Instructions
        OBVIOUS
      <3> QED
        BY <3>1, SubSeqProperties
    <2>2. n - (p + 1) + 1 = n - p /\ (IF p + 1 <= n THEN n - (p + 1) + 1 ELSE 0) = n - p
      OBVIOUS
    <2>3. ASSUME NEW k \in 1..(n - p) PROVE (p + 1) + k - 1 = p + k
      OBVIOUS
    <2> HIDE DEF u
    <2> QED
      BY <2>1, <2>2, <2>3
  <1>3. RemoveAt(q, p) = u \o v
    BY DEF RemoveAt
  <1> HIDE DEF u, v
  <1>4. /\ u \o v \in Seq(Instructions) /\ Len(u \o v) = Len(u) + Len(v)
        /\ \A i \in 1..(Len(u) + Len(v)) : (u \o v)[i] = IF i <= Len(u) THEN u[i] ELSE v[i - Len(u)]
    BY <1>1, <1>2, ConcatProperties
  <1>5. Len(u) + Len(v) = n - 1
    BY <1>1, <1>2
  <1>6. ASSUME NEW k \in 1..(n - 1) PROVE (u \o v)[k] = IF k < p THEN q[k] ELSE q[k + 1]
    <2>1. CASE k < p
      BY <1>1, <1>4, <1>5, <2>1
    <2>2. CASE ~(k < p)
      <3>1. k - (p - 1) \in 1..(n - p) /\ p + (k - (p - 1)) = k + 1 /\ ~(k <= p - 1)
        BY <2>2
      <3>2. (u \o v)[k] = v[k - (p - 1)]
        BY <1>1, <1>4, <1>5, <3>1
      <3> QED
        BY <1>2, <2>2, <3>1, <3>2
    <2> QED
      BY <2>1, <2>2
  <1> QED
    BY <1>3, <1>4, <1>5, <1>6

(* The instructions between two places.                                    *)
LEMMA SpanIs ==
  ASSUME NEW q \in Seq(Instructions), NEW n \in 1..Len(q), NEW p \in 0..(n - 1)
  PROVE  \A i : i \in Range(SubSeq(q, p + 1, n - 1)) <=> \E k \in (p + 1)..(n - 1) : i = q[k]
  <1> DEFINE between == SubSeq(q, p + 1, n - 1)
  <1>0. PICK l \in Nat : l = Len(q)
    OBVIOUS
  <1>1. \A i \in (p + 1)..(n - 1) : q[i] \in Instructions
    BY <1>0
  <1>2. /\ between \in Seq(Instructions)
        /\ Len(between) = IF p + 1 <= n - 1 THEN n - 1 - (p + 1) + 1 ELSE 0
        /\ \A i \in 1..(n - 1 - (p + 1) + 1) : between[i] = q[(p + 1) + i - 1]
    <2>1. p + 1 \in Nat /\ n - 1 \in Nat
      BY <1>0
    <2> QED
      BY <1>1, <2>1, SubSeqProperties
  <1> HIDE DEF between
  <1>3. \A i : i \in Range(between) <=> \E j \in 1..Len(between) : i = between[j]
    BY <1>2 DEF Range
  <1>4. Len(between) = n - 1 - p
    BY <1>0, <1>2
  <1>5. ASSUME NEW j \in 1..Len(between)
        PROVE  \E k \in (p + 1)..(n - 1) : between[j] = q[k]
    <2>1. p + j \in (p + 1)..(n - 1) /\ (p + 1) + j - 1 = p + j
      BY <1>0, <1>4
    <2> QED
      BY <1>0, <1>2, <1>4, <2>1
  <1>6. ASSUME NEW k \in (p + 1)..(n - 1)
        PROVE  \E j \in 1..Len(between) : q[k] = between[j]
    <2>1. k - p \in 1..Len(between) /\ (p + 1) + (k - p) - 1 = k
      BY <1>0, <1>4
    <2>2. k - p \in 1..(n - 1 - (p + 1) + 1)
      BY <1>0
    <2>3. between[k - p] = q[k]
      BY <1>2, <2>1, <2>2
    <2> QED
      BY <2>1, <2>3
  <1>7. ASSUME NEW i \in Range(between) PROVE \E k \in (p + 1)..(n - 1) : i = q[k]
    <2>1. PICK j \in 1..Len(between) : i = between[j]
      BY <1>3
    <2> QED
      BY <1>5, <2>1
  <1>8. ASSUME NEW k \in (p + 1)..(n - 1) PROVE q[k] \in Range(between)
    BY <1>3, <1>6
  <1> QED
    BY <1>7, <1>8 DEF between

(***************************************************************************)
(* The nearest definition before a candidate, in any operand (the table)   *)
(* and in the first one (what the tool infers).                            *)
(***************************************************************************)
Nearest(q, n, x) ==
  \/ x = 0 /\ \A k \in 1..(n - 1) : q[n].base \notin Defines(q[k])
  \/ \E k \in 1..(n - 1) : /\ x = q[k].id /\ q[n].base \in Defines(q[k])
                           /\ \A j \in (k + 1)..(n - 1) : q[n].base \notin Defines(q[j])

(* A candidate has one nearest definition.                                 *)
LEMMA NearestIsOne ==
  ASSUME NEW q, Identified(q), NEW n \in 1..Len(q), NEW x, Nearest(q, n, x),
         NEW y, Nearest(q, n, y)
  PROVE  x = y
  <1>1. CASE x = 0 /\ \A k \in 1..(n - 1) : q[n].base \notin Defines(q[k])
    BY <1>1 DEF Nearest
  <1>2. CASE \E k \in 1..(n - 1) : /\ x = q[k].id /\ q[n].base \in Defines(q[k])
                                   /\ \A j \in (k + 1)..(n - 1) : q[n].base \notin Defines(q[j])
    <2>1. PICK k \in 1..(n - 1) : /\ x = q[k].id /\ q[n].base \in Defines(q[k])
                                  /\ \A j \in (k + 1)..(n - 1) : q[n].base \notin Defines(q[j])
      BY <1>2
    <2>2. PICK l \in 1..(n - 1) : /\ y = q[l].id /\ q[n].base \in Defines(q[l])
                                  /\ \A j \in (l + 1)..(n - 1) : q[n].base \notin Defines(q[j])
      BY <2>1 DEF Nearest
    <2>3. k = l
      <3>1. k \notin (l + 1)..(n - 1) /\ l \notin (k + 1)..(n - 1)
        BY <2>1, <2>2
      <3> QED
        BY <3>1
    <2> QED
      BY <2>1, <2>2, <2>3
  <1> QED
    BY <1>1, <1>2 DEF Nearest

LEMMA GreatestElement ==
  ASSUME NEW n \in Nat, NEW S \in SUBSET (1..n), S # {}
  PROVE  \E m \in S : \A k \in S : m >= k
  <1> DEFINE T == {n - k : k \in S}
  <1>1. T \in SUBSET Nat /\ T # {}
    <2>1. PICK s \in S : TRUE
      OBVIOUS
    <2>2. n - s \in T
      OBVIOUS
    <2>3. ASSUME NEW k \in S PROVE n - k \in Nat
      OBVIOUS
    <2> QED
      BY <2>2, <2>3
  <1>2. PICK t \in T : \A u \in T : t <= u
    BY <1>1, LeastElement
  <1>3. PICK m \in S : t = n - m
    BY <1>2
  <1>4. \A k \in S : n - m <= n - k
    BY <1>2, <1>3
  <1> QED
    BY <1>4

(* x is the last instruction before the candidate whose first operand      *)
(* defines its base, and l its place; 0 if there is none.                  *)
FirstNearest(q, n, x, l) ==
  /\ l \in 0..(n - 1) /\ Place(q, x) = l /\ (l = 0 => x = 0)
  /\ l # 0 => x = q[l].id /\ q[n].base \in DefinesFirst(q[l])
  /\ \A k \in (l + 1)..(n - 1) : q[n].base \notin DefinesFirst(q[k])

(* What reaching_definition infers by walking back is that one.            *)
LEMMA InferredIsNearest ==
  ASSUME NEW q, Identified(q), NEW n \in 1..Len(q)
  PROVE  \E l \in 0..(n - 1) : FirstNearest(q, n, InferredDefinition(q, q[n]), l)
  <1> DEFINE c == q[n]
             before == SubSeq(q, 1, n - 1)
             I == {i \in 1..(n - 1) : c.base \in DefinesFirst(before[i])}
             m == CHOOSE x \in I : \A y \in I : x >= y
  <1>0. PICK l \in Nat : l = Len(q)
    BY DEF Identified
  <1>1. Place(q, c.id) = n
    BY <1>0, PlaceOfOne
  <1>2. /\ Len(before) = n - 1 /\ \A k \in 1..(n - 1) : before[k] = q[k]
    <2>1. /\ Len(SubSeq(q, 1, n - 1)) = IF 1 <= n - 1 THEN n - 1 - 1 + 1 ELSE 0
          /\ \A i \in 1..(n - 1 - 1 + 1) : SubSeq(q, 1, n - 1)[i] = q[1 + i - 1]
      <3>1. \A i \in 1..(n - 1) : q[i] \in Instructions
        BY <1>0 DEF Identified
      <3> QED
        BY <1>0, <3>1, SubSeqProperties
    <2> QED
      BY <1>0, <2>1
  <1>3. InferredDefinition(q, c) =
          LET x == IF I # {} THEN m ELSE 0 IN IF x = 0 THEN 0 ELSE before[x].id
    <2> DEFINE B == SubSeq(q, 1, Place(q, c.id) - 1)
               K == {i \in 1..Len(B) : c.base \in DefinesFirst(B[i])}
    <2>1. InferredDefinition(q, c) =
            LET x == IF K # {} THEN CHOOSE x \in K : \A y \in K : x >= y ELSE 0
            IN  IF x = 0 THEN 0 ELSE B[x].id
      BY DEF InferredDefinition, SelectLastInSubSeq, Max
    <2>2. B = before
      BY <1>1
    <2> HIDE DEF B, before
    <2>3. K = I
      BY <1>2, <2>2
    <2> HIDE DEF K, I
    <2> QED
      BY <2>1, <2>2, <2>3
  <1>4. I # {} => m \in I /\ \A y \in I : m >= y
    <2>1. I \in SUBSET (1..(n - 1)) /\ n - 1 \in Nat
      BY <1>0
    <2> HIDE DEF I
    <2> QED
      BY <2>1, GreatestElement
  <1>5. \A k \in 1..(n - 1) : k \in I <=> c.base \in DefinesFirst(q[k])
    BY <1>2
  <1> HIDE DEF c, before, m
  <1>6. CASE I = {}
    <2>1. InferredDefinition(q, c) = 0
      BY <1>3, <1>6
    <2>2. Place(q, 0) = 0
      BY <1>0, PlaceOfOne
    <2> QED
      BY <1>0, <1>5, <1>6, <2>1, <2>2 DEF FirstNearest, c
  <1>7. CASE I # {}
    <2> HIDE DEF I
    <2>1. m \in 1..(n - 1) /\ m \in I
      BY <1>4, <1>7 DEF I
    <2>2. InferredDefinition(q, c) = q[m].id
      BY <1>2, <1>3, <1>7, <2>1
    <2>3. \A j \in (m + 1)..(n - 1) : j \notin I
      BY <1>4, <1>7, <2>1
    <2>4. \A j \in (m + 1)..(n - 1) : j \in 1..(n - 1)
      BY <2>1
    <2>5. Place(q, q[m].id) = m
      BY <1>0, <2>1, PlaceOfOne
    <2>6. FirstNearest(q, n, q[m].id, m)
      BY <1>0, <1>5, <2>1, <2>3, <2>4, <2>5 DEF FirstNearest, c
    <2> QED
      BY <2>1, <2>2, <2>6 DEF c
  <1> QED
    BY <1>6, <1>7

(***************************************************************************)
(* The values of a block.                                                  *)
(***************************************************************************)
Value == (Nat \X Registers) \X Int \X (SUBSET Nat)
State == [Registers -> Value]
Entry == [r \in Registers |-> Fresh(0, r)]

LEMMA SumIs ==
  ASSUME NEW v \in Value, NEW a \in Addis
  PROVE  Sum(v, a) \in Value
  BY DEF Sum, Value, Addis

LEMMA SumTwice ==
  ASSUME NEW v \in Value, NEW a \in Addis, NEW c \in Addis, NEW b \in Addis,
         a.constant, c.constant, b.constant, b.imm = c.imm + a.imm
  PROVE  Sum(Sum(v, a), c) = Sum(v, b)
  BY DEF Sum, Value, Addis

(* The effect of an instruction, operation by operation.                   *)
LEMMA EffectIs ==
  ASSUME NEW i \in Instructions, NEW s \in State
  PROVE  /\ Effect(i, s) \in State
         /\ \A r \in Registers \ Defines(i) : Effect(i, s)[r] = s[r]
         /\ i.op # "addi" => \A r \in Defines(i) : Effect(i, s)[r] = Fresh(i.id, r)
         /\ i.op = "addi" => Effect(i, s)[i.dest] = Sum(s[i.base], i)
  <1>1. /\ i.id \in Nat /\ Defines(i) \subseteq Registers
        /\ i.op = "addi" => i \in Addis /\ i.dest \in Registers /\ i.base \in Registers
                             /\ Defines(i) = {i.dest}
    BY InstructionIs
  <1> DEFINE new(r) == IF r \notin Defines(i) THEN s[r]
                       ELSE IF i.op = "addi" THEN Sum(s[i.base], i)
                       ELSE Fresh(i.id, r)
  <1>2. ASSUME NEW r \in Registers PROVE new(r) \in Value
    <2>1. s[r] \in Value /\ Fresh(i.id, r) \in Value
      BY <1>1 DEF State, Fresh, Value
    <2>2. ASSUME i.op = "addi" PROVE Sum(s[i.base], i) \in Value
      <3>1. s[i.base] \in Value
        BY <1>1, <2>2 DEF State
      <3> QED
        BY <1>1, <2>2, <3>1, SumIs
    <2> QED
      BY <2>1, <2>2
  <1>3. Effect(i, s) = [r \in Registers |-> new(r)]
    BY DEF Effect
  <1>4. \A r \in Registers : Effect(i, s)[r] = new(r)
    BY <1>3
  <1>5. Effect(i, s) \in State
    BY <1>2, <1>3 DEF State
  <1> QED
    BY <1>1, <1>4, <1>5

(* g runs through q from place p on.                                       *)
Runs(g, q, p, n) ==
  /\ \A k \in p..n : g[k] \in State
  /\ \A k \in (p + 1)..n : g[k] = Effect(q[k], g[k - 1])

(* The values of a block are a run from its entry.                         *)
LEMMA ValuesRun ==
  ASSUME NEW q, Identified(q), NEW n \in Nat, n = Len(q)
  PROVE  Runs(Values(q), q, 0, n) /\ Values(q)[0] = Entry
  <1> DEFINE F == [p \in Nat \X State |->
                     IF p[1] + 1 \in 1..n THEN Effect(q[p[1] + 1], p[2]) ELSE p[2]]
             Unfolds(f) == f = [k \in 0..n |-> IF k = 0 THEN Entry ELSE Effect(q[k], f[k - 1])]
  <1>1. \A k \in 1..n : q[k] \in Instructions
    BY DEF Identified
  <1>2. F \in [Nat \X State -> State]
    <2> SUFFICES ASSUME NEW p \in Nat \X State
                 PROVE  (IF p[1] + 1 \in 1..n THEN Effect(q[p[1] + 1], p[2]) ELSE p[2]) \in State
      OBVIOUS
    <2>1. p[1] \in Nat /\ p[2] \in State
      OBVIOUS
    <2> QED
      BY <1>1, <2>1, EffectIs
  <1>3. Entry \in State
    BY DEF Entry, State, Value, Fresh
  <1>4. \A k \in Nat : \A s \in State :
          F[<<k, s>>] = IF k + 1 \in 1..n THEN Effect(q[k + 1], s) ELSE s
    OBVIOUS
  <1> HIDE DEF F
  <1>5. PICK f : f \in [Nat -> State] /\ f[0] = Entry /\ \A k \in Nat : f[k + 1] = F[<<k, f[k]>>]
    <2> DEFINE R == State
    <2>1. F \in [Nat \X R -> R] /\ Entry \in R
      BY <1>2, <1>3
    <2> HIDE DEF R
    <2>2. \E f : Recursion(f, Entry, F, R)
      BY <2>1, RecursionExists, Zenon
    <2> QED
      BY <2>2 DEF R, Recursion
  <1>6. \A k \in 1..n : f[k] = Effect(q[k], f[k - 1])
    <2> SUFFICES ASSUME NEW k \in 1..n PROVE f[k] = Effect(q[k], f[k - 1])
      OBVIOUS
    <2>1. k - 1 \in Nat /\ (k - 1) + 1 = k
      OBVIOUS
    <2>2. f[k] = F[<<k - 1, f[k - 1]>>] /\ f[k - 1] \in State
      BY <1>5, <2>1
    <2>3. F[<<k - 1, f[k - 1]>>] =
            IF (k - 1) + 1 \in 1..n THEN Effect(q[(k - 1) + 1], f[k - 1]) ELSE f[k - 1]
      BY <1>4, <2>1, <2>2
    <2> HIDE DEF Identified
    <2> QED
      BY <2>1, <2>2, <2>3
  <1> DEFINE h == [k \in 0..n |-> f[k]]
  <1>7. Unfolds(h)
    <2> DEFINE e == [k \in 0..n |-> IF k = 0 THEN Entry ELSE Effect(q[k], h[k - 1])]
    <2>1. \A k \in 0..n : h[k] = e[k]
      <3> TAKE k \in 0..n
      <3>1. CASE k = 0
        BY <1>5, <3>1
      <3>2. CASE k # 0
        <4>1. k \in 1..n /\ k - 1 \in 0..n
          BY <3>2
        <4>2. h[k] = f[k] /\ h[k - 1] = f[k - 1]
          BY <4>1
        <4> HIDE DEF h
        <4> QED
          BY <1>6, <3>2, <4>1, <4>2
      <3> QED
        BY <3>1, <3>2
    <2>2. h = e
      <3> HIDE DEF h
      <3>1. h = [k \in 0..n |-> h[k]]
        BY DEF h
      <3> QED
        BY <2>1, <3>1
    <2> QED
      BY <2>2
  <1>8. Values(q) = CHOOSE g : Unfolds(g)
    BY DEF Values, Entry
  <1>9. Unfolds(Values(q))
    <2> HIDE DEF Unfolds, h
    <2> QED
      BY <1>7, <1>8
  <1> DEFINE v == Values(q)
  <1>10. v[0] = Entry /\ \A k \in 1..n : v[k] = Effect(q[k], v[k - 1])
    <2> HIDE DEF v
    <2>1. v = [k \in 0..n |-> IF k = 0 THEN Entry ELSE Effect(q[k], v[k - 1])]
      BY <1>9 DEF v
    <2>2. ASSUME NEW k \in 0..n PROVE v[k] = IF k = 0 THEN Entry ELSE Effect(q[k], v[k - 1])
      BY <2>1
    <2> QED
      BY <2>2
  <1> HIDE DEF v
  <1>11. \A k \in 0..n : v[k] \in State
    <2> DEFINE P == {k \in Nat : k <= n => v[k] \in State}
    <2>1. 0 \in P
      BY <1>3, <1>10
    <2>2. ASSUME NEW k \in Nat, k \in P PROVE k + 1 \in P
      <3> SUFFICES ASSUME k + 1 <= n PROVE v[k + 1] \in State
        OBVIOUS
      <3>1. k + 1 \in 1..n /\ (k + 1) - 1 = k /\ v[k] \in State
        BY <2>2
      <3> QED
        BY <1>1, <1>10, <3>1, EffectIs
    <2> HIDE DEF P
    <2>3. Nat \subseteq P
      BY <2>1, <2>2, Induction
    <2> QED
      BY <2>3 DEF P
  <1> QED
    BY <1>10, <1>11 DEF Runs, v

(***************************************************************************)
(* What lives after a place decides what the rest of the block does: two   *)
(* runs that agree on L at p see the same wherever an instruction after p   *)
(* reads, and end with the same in outs.                                   *)
(***************************************************************************)
SameRest(g, h, q, p, n, outs) ==
  /\ \A k \in (p + 1)..n : \A r \in Reads(q[k]) : g[k - 1][r] = h[k - 1][r]
  /\ \A r \in outs : g[n][r] = h[n][r]

Decides(q, p, n, L, outs) ==
  \A g, h : Runs(g, q, p, n) /\ Runs(h, q, p, n) /\ (\A r \in L : g[p][r] = h[p][r])
              => SameRest(g, h, q, p, n, outs)

(* At the end what lives is what is observed.                              *)
LEMMA EndDecides ==
  ASSUME NEW q, NEW n \in Nat, NEW L
  PROVE  Decides(q, n, n, L, L)
  BY DEF Decides, SameRest

(* One step of the backward walk: kill the definitions, add the uses.      *)
LEMMA StepDecides ==
  ASSUME NEW q, NEW n \in Nat, NEW p \in 1..n, q[p] \in Instructions,
         NEW L \in SUBSET Registers, NEW outs, Decides(q, p, n, L, outs)
  PROVE  Decides(q, p - 1, n, (L \ Defines(q[p])) \cup Uses(q[p]), outs)
  <1> DEFINE M == (L \ Defines(q[p])) \cup Uses(q[p])
  <1> SUFFICES ASSUME NEW g, NEW h, Runs(g, q, p - 1, n), Runs(h, q, p - 1, n),
                      \A r \in M : g[p - 1][r] = h[p - 1][r]
               PROVE  SameRest(g, h, q, p - 1, n, outs)
    BY DEF Decides
  <1>0. /\ Reads(q[p]) \subseteq Uses(q[p]) /\ L \subseteq Registers
        /\ q[p].op = "addi" => Defines(q[p]) = {q[p].dest} /\ Uses(q[p]) = {q[p].base}
    BY InstructionIs
  <1>1. /\ p - 1 \in (p - 1)..n /\ p \in ((p - 1) + 1)..n
        /\ \A k \in p..n : k \in (p - 1)..n
        /\ \A k \in (p + 1)..n : k \in ((p - 1) + 1)..n
        /\ \A k \in ((p - 1) + 1)..n : k = p \/ k \in (p + 1)..n
    OBVIOUS
  <1>2. /\ g[p - 1] \in State /\ h[p - 1] \in State
        /\ g[p] = Effect(q[p], g[p - 1]) /\ h[p] = Effect(q[p], h[p - 1])
    BY <1>1 DEF Runs
  <1>3. Runs(g, q, p, n) /\ Runs(h, q, p, n)
    BY <1>1 DEF Runs
  <1>4. ASSUME NEW r \in L PROVE g[p][r] = h[p][r]
    <2>1. CASE r \in Defines(q[p])
      <3>1. CASE q[p].op # "addi"
        <4>1. Effect(q[p], g[p - 1])[r] = Fresh(q[p].id, r)
          BY <1>2, <2>1, <3>1, EffectIs
        <4>2. Effect(q[p], h[p - 1])[r] = Fresh(q[p].id, r)
          BY <1>2, <2>1, <3>1, EffectIs
        <4> QED
          BY <1>2, <4>1, <4>2
      <3>2. CASE q[p].op = "addi"
        <4>1. g[p - 1][q[p].base] = h[p - 1][q[p].base] /\ r = q[p].dest
          BY <1>0, <2>1, <3>2
        <4>2. g[p][r] = Sum(g[p - 1][q[p].base], q[p])
          BY <1>2, <3>2, <4>1, EffectIs
        <4>3. h[p][r] = Sum(h[p - 1][q[p].base], q[p])
          BY <1>2, <3>2, <4>1, EffectIs
        <4> QED
          BY <4>1, <4>2, <4>3
      <3> QED
        BY <3>1, <3>2
    <2>2. CASE r \notin Defines(q[p])
      <3>1. g[p][r] = g[p - 1][r] /\ h[p][r] = h[p - 1][r]
        BY <1>0, <1>2, <2>2, EffectIs
      <3> QED
        BY <2>2, <3>1
    <2> QED
      BY <2>1, <2>2
  <1>5. SameRest(g, h, q, p, n, outs)
    BY <1>3, <1>4 DEF Decides
  <1>6. \A r \in Reads(q[p]) : g[p - 1][r] = h[p - 1][r]
    BY <1>0
  <1> QED
    BY <1>1, <1>5, <1>6 DEF SameRest

(***************************************************************************)
(* A block from which an instruction at or before p went: its rest moved   *)
(* one place down.                                                         *)
(***************************************************************************)
RestMoved(q, d, p, n) == \A k \in (p + 1)..n : d[k - 1] = q[k]

SameRestMoved(g, h, q, p, n, outs) ==
  /\ \A k \in (p + 1)..n : \A r \in Reads(q[k]) : g[k - 1][r] = h[(k - 1) - 1][r]
  /\ \A r \in outs : g[n][r] = h[n - 1][r]

LEMMA MovedRun ==
  ASSUME NEW q, NEW d, NEW n \in Nat, NEW p \in 1..n, RestMoved(q, d, p, n),
         NEW h, Runs(h, d, p - 1, n - 1)
  PROVE  Runs([k \in p..n |-> h[k - 1]], q, p, n)
  <1> DEFINE g == [k \in p..n |-> h[k - 1]]
  <1>1. \A k \in p..n : g[k] = h[k - 1] /\ k - 1 \in (p - 1)..(n - 1)
    OBVIOUS
  <1> HIDE DEF g
  <1>2. ASSUME NEW k \in (p + 1)..n PROVE g[k] = Effect(q[k], g[k - 1])
    <2>1. k - 1 \in ((p - 1) + 1)..(n - 1) /\ k \in p..n /\ k - 1 \in p..n
      OBVIOUS
    <2>2. h[k - 1] = Effect(d[k - 1], h[(k - 1) - 1]) /\ d[k - 1] = q[k]
      BY <2>1 DEF Runs, RestMoved
    <2> QED
      BY <1>1, <2>1, <2>2
  <1>3. \A k \in p..n : g[k] \in State
    BY <1>1 DEF Runs
  <1>4. Runs(g, q, p, n)
    BY <1>2, <1>3 DEF Runs
  <1> QED
    BY <1>4 DEF g

LEMMA MovedRest ==
  ASSUME NEW q, NEW d, NEW n \in Nat, NEW p \in 1..n, RestMoved(q, d, p, n),
         NEW L, NEW outs, Decides(q, p, n, L, outs),
         NEW g, Runs(g, q, p, n), NEW h, Runs(h, d, p - 1, n - 1),
         \A r \in L : g[p][r] = h[p - 1][r]
  PROVE  SameRestMoved(g, h, q, p, n, outs)
  <1> DEFINE f == [k \in p..n |-> h[k - 1]]
  <1>1. \A k \in p..n : f[k] = h[k - 1]
    OBVIOUS
  <1>2. Runs(f, q, p, n)
    BY MovedRun
  <1> HIDE DEF f
  <1>3. p \in p..n /\ n \in p..n /\ \A k \in (p + 1)..n : k - 1 \in p..n
    OBVIOUS
  <1>4. \A r \in L : g[p][r] = f[p][r]
    BY <1>1, <1>3
  <1>5. SameRest(g, f, q, p, n, outs)
    BY <1>2, <1>4 DEF Decides
  <1> QED
    BY <1>1, <1>3, <1>5 DEF SameRest, SameRestMoved

LEMMA MovedDecides ==
  ASSUME NEW q, NEW d, NEW n \in Nat, NEW p \in 1..n, RestMoved(q, d, p, n),
         NEW L, NEW outs, Decides(q, p, n, L, outs)
  PROVE  Decides(d, p - 1, n - 1, L, outs)
  <1> SUFFICES ASSUME NEW g, NEW h, Runs(g, d, p - 1, n - 1), Runs(h, d, p - 1, n - 1),
                      \A r \in L : g[p - 1][r] = h[p - 1][r]
               PROVE  SameRest(g, h, d, p - 1, n - 1, outs)
    BY DEF Decides
  <1> DEFINE f == [k \in p..n |-> g[k - 1]]
  <1>1. \A k \in p..n : f[k] = g[k - 1]
    OBVIOUS
  <1>2. Runs(f, q, p, n)
    BY MovedRun
  <1> HIDE DEF f
  <1>3. SameRestMoved(f, h, q, p, n, outs)
    BY <1>1, <1>2, MovedRest
  <1>4. ASSUME NEW k \in ((p - 1) + 1)..(n - 1), NEW r \in Reads(d[k])
        PROVE  g[k - 1][r] = h[k - 1][r]
    <2>1. k + 1 \in (p + 1)..n /\ k \in p..n /\ (k + 1) - 1 = k
      OBVIOUS
    <2>2. d[k] = q[k + 1] /\ f[k] = g[k - 1]
      BY <1>1, <2>1 DEF RestMoved
    <2> QED
      BY <1>3, <1>4, <2>1, <2>2 DEF SameRestMoved
  <1>5. ASSUME NEW r \in outs PROVE g[n - 1][r] = h[n - 1][r]
    BY <1>1, <1>3 DEF SameRestMoved
  <1> QED
    BY <1>4, <1>5 DEF SameRest

(***************************************************************************)
(* What two blocks compute, one of them without the instruction at p.      *)
(***************************************************************************)
Source(p, k) == IF k < p THEN k ELSE k + 1

SameButFor(q, d, n, p, outs) ==
  /\ Identified(q) /\ Identified(d) /\ n \in Nat /\ Len(q) = n /\ Len(d) = n - 1
  /\ p \in 1..n /\ Reads(q[p]) = {}
  /\ \A k \in 1..(n - 1) :
       /\ d[k].id = q[Source(p, k)].id /\ Reads(d[k]) = Reads(q[Source(p, k)])
       /\ \A r \in Reads(d[k]) : Values(d)[k - 1][r] = Values(q)[Source(p, k) - 1][r]
  /\ \A r \in outs : Values(q)[n][r] = Values(d)[n - 1][r]

LEMMA SameResult ==
  ASSUME NEW q, NEW d, NEW n, NEW p, NEW outs, SameButFor(q, d, n, p, outs)
  PROVE  Result(d, outs) = Result(q, outs)
  <1> USE DEF SameButFor
  <1> DEFINE Read(b, k) == {<<b[k].id, r, Values(b)[k - 1][r]>> : r \in Reads(b[k])}
             Seen(b, m) == UNION {Read(b, k) : k \in 1..m}
             Held(b, m) == [r \in outs |-> Values(b)[m][r]]
  <1>1. Result(q, outs) = [seen |-> Seen(q, n), held |-> Held(q, n)]
    <2>1. DOMAIN q = 1..n
      BY DEF Identified
    <2> QED
      BY <2>1 DEF Result
  <1>2. Result(d, outs) = [seen |-> Seen(d, n - 1), held |-> Held(d, n - 1)]
    <2>1. DOMAIN d = 1..(n - 1)
      BY DEF Identified
    <2> QED
      BY <2>1 DEF Result
  <1>3. Held(q, n) = Held(d, n - 1)
    OBVIOUS
  <1>4. ASSUME NEW k \in 1..(n - 1) PROVE Source(p, k) \in 1..n /\ Read(d, k) = Read(q, Source(p, k))
    <2>1. Source(p, k) \in 1..n
      BY DEF Source
    <2>2. Reads(d[k]) = Reads(q[Source(p, k)]) /\ d[k].id = q[Source(p, k)].id
          /\ \A r \in Reads(d[k]) : Values(d)[k - 1][r] = Values(q)[Source(p, k) - 1][r]
      OBVIOUS
    <2> HIDE DEF SameButFor
    <2> QED
      BY <2>1, <2>2
  <1>5. ASSUME NEW j \in 1..n, j # p PROVE \E k \in 1..(n - 1) : Source(p, k) = j
    <2>1. CASE j < p
      <3>1. j \in 1..(n - 1) /\ Source(p, j) = j
        BY <2>1 DEF Source
      <3> QED
        BY <3>1
    <2>2. CASE ~(j < p)
      <3>1. j - 1 \in 1..(n - 1) /\ Source(p, j - 1) = j
        BY <1>5, <2>2 DEF Source
      <3> QED
        BY <3>1
    <2> QED
      BY <2>1, <2>2
  <1>6. Read(q, p) = {}
    OBVIOUS
  <1> HIDE DEF Read, SameButFor
  <1>7. Seen(d, n - 1) = Seen(q, n)
    <2>1. ASSUME NEW x \in Seen(d, n - 1) PROVE x \in Seen(q, n)
      <3>1. PICK k \in 1..(n - 1) : x \in Read(d, k)
        OBVIOUS
      <3> QED
        BY <1>4, <3>1
    <2>2. ASSUME NEW x \in Seen(q, n) PROVE x \in Seen(d, n - 1)
      <3>1. PICK j \in 1..n : x \in Read(q, j)
        OBVIOUS
      <3>2. PICK k \in 1..(n - 1) : Source(p, k) = j
        BY <1>5, <1>6, <3>1
      <3> QED
        BY <1>4, <3>1, <3>2
    <2> QED
      BY <2>1, <2>2
  <1> QED
    BY <1>1, <1>2, <1>3, <1>7

(***************************************************************************)
(* When the rule accepts a candidate, in terms of places: its definition   *)
(* is an ADDI at p before it, and nothing between the two minds the fold.  *)
(***************************************************************************)
FoldsFrom(q, n, p, R) ==
  /\ q[p].op = "addi" /\ ~q[p].blocked
  /\ q[p].dest # q[n].dest => q[p].dest \notin R
  /\ \A k \in (p + 1)..(n - 1) : q[p].base \notin Defines(q[k]) /\ q[p].dest \notin Uses(q[k])
  /\ q[n].constant /\ q[p].constant
  /\ q[n].imm + q[p].imm \in MinImmediate..MaxImmediate

LEMMA AcceptedIs ==
  ASSUME NEW q, Identified(q), NEW n \in 1..Len(q), q[n].op = "addi", NEW x, NEW R
  PROVE  RejectedBy(q, q[n], x, R) = "none" <=>
           \E p \in 1..(n - 1) : q[p].id = x /\ FoldsFrom(q, n, p, R)
  <1>0. PICK l \in Nat : l = Len(q)
    BY DEF Identified
  <1>1. Place(q, q[n].id) = n
    BY <1>0, PlaceOfOne
  <1>2. \/ Place(q, x) = 0 /\ \A k \in 1..l : q[k].id # x
        \/ Place(q, x) \in 1..l /\ q[Place(q, x)].id = x
    BY <1>0, PlaceIs
  <1>3. CASE Place(q, x) = 0
    <2>1. RejectedBy(q, q[n], x, R) = "no_reaching_definition"
      BY <1>3 DEF RejectedBy
    <2>2. \A k \in 1..(n - 1) : q[k].id # x
      BY <1>0, <1>2, <1>3
    <2> QED
      BY <2>1, <2>2
  <1>4. CASE Place(q, x) # 0
    <2> DEFINE p == Place(q, x)
               a == q[p]
               c == q[n]
               between == SubSeq(q, p + 1, n - 1)
               span == Range(between)
    <2>1. p \in 1..l /\ a.id = x /\ Place(q, a.id) = p /\ Instruction(q, x) = a
      BY <1>2, <1>4 DEF Instruction
    <2>2. RejectedBy(q, c, x, R) =
            IF a.op # "addi" THEN "reaching_definition_not_addi"
            ELSE IF a.dest # c.dest /\ a.dest \in R THEN "destination_reserved"
            ELSE IF a.blocked THEN "reaching_definition_blocked"
            ELSE IF p >= n THEN "predecessor_unreachable"
            ELSE IF \E i \in span : a.base \in Defines(i) THEN "base_redefined"
            ELSE IF \E i \in span : a.dest \in Uses(i) THEN "destination_used"
            ELSE IF ~(c.constant /\ a.constant) THEN "immediate_not_constant"
            ELSE IF c.imm + a.imm \notin MinImmediate..MaxImmediate THEN "immediate_out_of_range"
            ELSE "none"
      <3> HIDE DEF p
      <3> QED
        BY <1>1, <1>4, <2>1 DEF RejectedBy, InstructionsBetween, p
    <2> HIDE DEF p
    <2>3. p < n => \A i : i \in span <=> \E k \in (p + 1)..(n - 1) : i = q[k]
      <3> SUFFICES ASSUME p < n PROVE \A i : i \in span <=> \E k \in (p + 1)..(n - 1) : i = q[k]
        OBVIOUS
      <3>1. q \in Seq(Instructions) /\ p \in 0..(n - 1)
        BY <1>0, <2>1 DEF Identified
      <3> QED
        BY <3>1, SpanIs
    <2> HIDE DEF a, c, span
    <2>5. RejectedBy(q, c, x, R) = "none" <=>
            /\ p < n /\ a.op = "addi" /\ ~a.blocked /\ (a.dest # c.dest => a.dest \notin R)
            /\ \A i \in span : a.base \notin Defines(i) /\ a.dest \notin Uses(i)
            /\ c.constant /\ a.constant
            /\ c.imm + a.imm \in MinImmediate..MaxImmediate
      <3>1. p >= n <=> ~(p < n)
        BY <1>0, <2>1
      <3> DEFINE sum == c.imm + a.imm
                 field == MinImmediate..MaxImmediate
      <3>2. RejectedBy(q, c, x, R) =
              IF a.op # "addi" THEN "reaching_definition_not_addi"
              ELSE IF a.dest # c.dest /\ a.dest \in R THEN "destination_reserved"
              ELSE IF a.blocked THEN "reaching_definition_blocked"
              ELSE IF p >= n THEN "predecessor_unreachable"
              ELSE IF \E i \in span : a.base \in Defines(i) THEN "base_redefined"
              ELSE IF \E i \in span : a.dest \in Uses(i) THEN "destination_used"
              ELSE IF ~(c.constant /\ a.constant) THEN "immediate_not_constant"
              ELSE IF sum \notin field THEN "immediate_out_of_range"
              ELSE "none"
        BY <2>2
      <3> HIDE DEF sum, field
      <3>3. RejectedBy(q, c, x, R) = "none" <=>
              /\ p < n /\ a.op = "addi" /\ ~a.blocked /\ (a.dest # c.dest => a.dest \notin R)
              /\ \A i \in span : a.base \notin Defines(i) /\ a.dest \notin Uses(i)
              /\ c.constant /\ a.constant /\ sum \in field
        BY <3>1, <3>2, ZenonT(60)
      <3> QED
        BY <3>3 DEF sum, field
    <2>6. RejectedBy(q, c, x, R) = "none" <=> p < n /\ FoldsFrom(q, n, p, R)
      BY <2>3, <2>5 DEF FoldsFrom, a, c
    <2>7. \A k \in 1..(n - 1) : q[k].id = x => k = p
      BY <1>0, <2>1 DEF Identified, a
    <2>8. p < n => p \in 1..(n - 1)
      BY <1>0, <2>1
    <2> QED
      BY <1>0, <2>1, <2>6, <2>7, <2>8 DEF a, c
  <1> QED
    BY <1>3, <1>4

(***************************************************************************)
(* The tool's inference beside the table: they name one definition, or an  *)
(* instruction between defines the base and the table's rule rejects.      *)
(***************************************************************************)
LEMMA InferredAgainstTable ==
  ASSUME NEW q, Identified(q), NEW n \in 1..Len(q), q[n].op = "addi", NEW x, Nearest(q, n, x)
  PROVE  \/ ~DefinedBetween(q, q[n]) /\ InferredDefinition(q, q[n]) = x
         \/ DefinedBetween(q, q[n]) /\ \A R : RejectedBy(q, q[n], x, R) # "none"
  <1> DEFINE y == InferredDefinition(q, q[n])
             base == q[n].base
  <1>0. PICK s \in Nat : s = Len(q)
    BY DEF Identified
  <1>1. PICK l \in 0..(n - 1) : FirstNearest(q, n, y, l)
    BY InferredIsNearest
  <1>2. Place(q, q[n].id) = n /\ \A k \in 1..s : q[k] \in Instructions
    BY <1>0, PlaceOfOne DEF Identified
  <1>3. DefinedBetween(q, q[n]) <=> \E k \in (l + 1)..(n - 1) : base \in Defines(q[k])
    <2>1. \A i : i \in Range(SubSeq(q, l + 1, n - 1)) <=> \E k \in (l + 1)..(n - 1) : i = q[k]
      BY SpanIs DEF Identified
    <2>2. InstructionsBetween(q, y, q[n].id) = SubSeq(q, l + 1, n - 1)
      <3> HIDE DEF y
      <3> QED
        BY <1>1, <1>2 DEF InstructionsBetween, FirstNearest
    <2> QED
      BY <2>1, <2>2 DEF DefinedBetween
  <1> HIDE DEF y
  <1>4. CASE ~DefinedBetween(q, q[n])
    <2>1. \A k \in (l + 1)..(n - 1) : base \notin Defines(q[k])
      BY <1>3, <1>4
    <2>2. Nearest(q, n, y)
      <3>1. CASE l = 0
        BY <1>1, <2>1, <3>1 DEF FirstNearest, Nearest
      <3>2. CASE l # 0
        <4>1. l \in 1..(n - 1) /\ l \in 1..s
          BY <1>0, <3>2
        <4>2. y = q[l].id /\ base \in Defines(q[l])
          BY <1>1, <1>2, <3>2, <4>1, InstructionIs DEF FirstNearest
        <4> QED
          BY <2>1, <4>1, <4>2 DEF Nearest
      <3> QED
        BY <3>1, <3>2
    <2> QED
      BY <1>4, <2>2, NearestIsOne DEF y
  <1>5. CASE DefinedBetween(q, q[n])
    <2> SUFFICES ASSUME NEW R, RejectedBy(q, q[n], x, R) = "none" PROVE FALSE
      BY <1>5
    <2>1. PICK p \in 1..(n - 1) : q[p].id = x /\ FoldsFrom(q, n, p, R)
      BY AcceptedIs
    <2>2. PICK k \in (l + 1)..(n - 1) : base \in Defines(q[k])
      BY <1>3, <1>5
    <2>3. p \in 1..s /\ k \in 1..(n - 1) /\ q[p] \in Instructions /\ q[p].id # 0
      BY <1>0, <1>2, <2>1, <2>2, InstructionIs
    <2>4. PICK j \in 1..(n - 1) : /\ x = q[j].id /\ base \in Defines(q[j])
                                   /\ \A i \in (j + 1)..(n - 1) : base \notin Defines(q[i])
      BY <2>1, <2>3 DEF Nearest
    <2>5. j = p
      BY <1>0, <2>1, <2>3, <2>4 DEF Identified
    <2>6. p \in (l + 1)..(n - 1)
      BY <1>0, <2>2, <2>4, <2>5
    <2>7. base \in DefinesFirst(q[p])
      BY <2>1, <2>3, <2>4, <2>5, InstructionIs DEF FoldsFrom
    <2> QED
      BY <1>1, <2>6, <2>7 DEF FirstNearest
  <1> QED
    BY <1>4, <1>5 DEF y

(***************************************************************************)
(* The values before the place where two blocks differ.                    *)
(***************************************************************************)
SameStart(q, d, n, m, l, g, h) ==
  /\ n \in Nat /\ m \in Nat /\ l \in Nat /\ l <= n /\ l <= m
  /\ Runs(g, q, 0, n) /\ Runs(h, d, 0, m) /\ g[0] = h[0]
  /\ \A k \in 1..l : d[k] = q[k]

LEMMA SamePrefix ==
  ASSUME NEW q, NEW d, NEW n, NEW m, NEW l, NEW g, NEW h, SameStart(q, d, n, m, l, g, h)
  PROVE  \A k \in 0..l : g[k] = h[k]
  <1> USE DEF SameStart
  <1> DEFINE P == {k \in Nat : k <= l => g[k] = h[k]}
  <1>1. 0 \in P
    OBVIOUS
  <1>2. ASSUME NEW k \in Nat, k \in P PROVE k + 1 \in P
    <2> SUFFICES ASSUME k + 1 <= l PROVE g[k + 1] = h[k + 1]
      OBVIOUS
    <2>1. k + 1 \in (0 + 1)..n /\ k + 1 \in (0 + 1)..m /\ k + 1 \in 1..l /\ (k + 1) - 1 = k
      OBVIOUS
    <2>2. g[k] = h[k]
      BY <1>2
    <2> QED
      BY <2>1, <2>2 DEF Runs
  <1> HIDE DEF P
  <1>3. Nat \subseteq P
    BY <1>1, <1>2, Induction
  <1> QED
    BY <1>3 DEF P

(***************************************************************************)
(* d is q after the candidate at m took over from the definition at p.     *)
(***************************************************************************)
Folded(q, d, n, m, p, R) ==
  /\ Identified(q) /\ Identified(d) /\ Len(q) = n /\ Len(d) = n - 1
  /\ FoldsFrom(q, m, p, R)
  /\ q[m].op = "addi" /\ q[m].base = q[p].dest
  /\ \A k \in (p + 1)..(m - 1) : q[p].dest \notin Defines(q[k])
  /\ \A k \in 1..(n - 1) : k # m - 1 => d[k] = q[Source(p, k)]
  /\ d[m - 1].id = q[m].id /\ d[m - 1].op = "addi" /\ d[m - 1].dest = q[m].dest
  /\ d[m - 1].base = q[p].base /\ d[m - 1].imm = q[m].imm + q[p].imm
  /\ d[m - 1].constant = q[m].constant

FoldedRuns(q, d, n, m, p, R, g, h) ==
  /\ n \in Nat /\ m \in 1..n /\ p \in 1..(m - 1) /\ Folded(q, d, n, m, p, R)
  /\ Runs(g, q, 0, n) /\ Runs(h, d, 0, n - 1) /\ g[0] = h[0]

Apart(s, t, x) == \A r \in Registers \ {x} : s[r] = t[r]

ApartBetween(q, m, p, g, h) ==
  /\ \A k \in 0..(p - 1) : g[k] = h[k]
  /\ \A k \in p..(m - 1) :
       /\ Apart(g[k], h[k - 1], q[p].dest)
       /\ g[k][q[p].dest] = g[p][q[p].dest]
       /\ h[k - 1][q[p].base] = g[p - 1][q[p].base]

LEMMA FoldedBetween ==
  ASSUME NEW q, NEW d, NEW n, NEW m, NEW p, NEW R, NEW g, NEW h,
         FoldedRuns(q, d, n, m, p, R, g, h)
  PROVE  ApartBetween(q, m, p, g, h)
  <1> USE DEF FoldedRuns
  <1> DEFINE x == q[p].dest
             y == q[p].base
             Good(k) == /\ Apart(g[k], h[k - 1], x)
                        /\ g[k][x] = g[p][x]
                        /\ h[k - 1][y] = g[p - 1][y]
  <1>1. \A k \in 1..n : q[k] \in Instructions
    BY DEF Folded, Identified
  <1>2. q[p].op = "addi" /\ x \in Registers /\ y \in Registers /\ Defines(q[p]) = {x}
    <2>1. q[p].op = "addi"
      BY DEF Folded, FoldsFrom
    <2>2. q[p] \in Instructions
      BY <1>1
    <2> QED
      BY <2>1, <2>2, InstructionIs
  <1>3. \A k \in 0..(p - 1) : g[k] = h[k]
    <2>1. \A k \in 1..(p - 1) : d[k] = q[k]
      BY DEF Folded, Source
    <2>2. n - 1 \in Nat /\ p - 1 \in Nat /\ p - 1 <= n /\ p - 1 <= n - 1
      OBVIOUS
    <2>3. SameStart(q, d, n, n - 1, p - 1, g, h)
      BY <2>1, <2>2 DEF SameStart
    <2> QED
      BY <2>3, SamePrefix
  <1> DEFINE P == {k \in Nat : p + k <= m - 1 => Good(p + k)}
  <1>4. 0 \in P
    <2>1. p \in (0 + 1)..n /\ p - 1 \in 0..n /\ p - 1 \in 0..(p - 1)
      OBVIOUS
    <2>2. g[p] = Effect(q[p], g[p - 1]) /\ g[p - 1] \in State /\ g[p - 1] = h[p - 1]
      BY <1>3, <2>1 DEF Runs
    <2>3. \A r \in Registers \ {x} : g[p][r] = g[p - 1][r]
      BY <1>1, <1>2, <2>2, EffectIs
    <2>4. Good(p)
      BY <2>2, <2>3 DEF Apart
    <2> HIDE DEF Good
    <2>5. p + 0 = p
      OBVIOUS
    <2> QED
      BY <2>4, <2>5
  <1>5. ASSUME NEW j \in Nat, j \in P PROVE j + 1 \in P
    <2> SUFFICES ASSUME p + (j + 1) <= m - 1 PROVE Good(p + (j + 1))
      OBVIOUS
    <2> DEFINE k == p + j
    <2>0. Good(k)
      BY <1>5
    <2>1. /\ p + (j + 1) = k + 1 /\ (k + 1) - 1 = k /\ k \in Nat /\ k \in 1..(m - 2)
          /\ k + 1 \in 1..n /\ k + 1 \in (0 + 1)..n /\ k \in (0 + 1)..(n - 1) /\ k \in 0..n
          /\ k - 1 \in 0..(n - 1) /\ k + 1 \in (p + 1)..(m - 1) /\ k \in 1..(n - 1) /\ k # m - 1
          /\ ~(k < p)
      OBVIOUS
    <2> HIDE DEF k
    <2> DEFINE i == q[k + 1]
    <2>2. d[k] = i
      BY <2>1 DEF Folded, Source
    <2>3. /\ g[k + 1] = Effect(i, g[k]) /\ h[k] = Effect(i, h[k - 1])
          /\ g[k] \in State /\ h[k - 1] \in State
      BY <2>1, <2>2 DEF Runs
    <2>4. i \in Instructions /\ y \notin Defines(i) /\ x \notin Uses(i) /\ x \notin Defines(i)
      BY <1>1, <2>1 DEF Folded, FoldsFrom
    <2> HIDE DEF i
    <2>5. g[k + 1][x] = g[k][x] /\ h[k][y] = h[k - 1][y]
      BY <1>2, <2>3, <2>4, EffectIs
    <2>6. ASSUME NEW r \in Registers \ {x} PROVE g[k + 1][r] = h[k][r]
      <3>1. g[k][r] = h[k - 1][r]
        BY <2>0 DEF Apart
      <3>2. CASE r \notin Defines(i)
        BY <2>3, <2>4, <3>1, <3>2, EffectIs
      <3>3. CASE r \in Defines(i)
        <4>2. CASE i.op # "addi"
          <5>1. Effect(i, g[k])[r] = Fresh(i.id, r)
            BY <2>3, <2>4, <3>3, <4>2, EffectIs
          <5>2. Effect(i, h[k - 1])[r] = Fresh(i.id, r)
            BY <2>3, <2>4, <3>3, <4>2, EffectIs
          <5> QED
            BY <2>3, <5>1, <5>2
        <4>3. CASE i.op = "addi"
          <5>1. i.base \in Registers \ {x} /\ r = i.dest
            BY <2>4, <3>3, <4>3, InstructionIs
          <5>2. g[k][i.base] = h[k - 1][i.base]
            BY <2>0, <5>1 DEF Apart
          <5>3. g[k + 1][r] = Sum(g[k][i.base], i)
            BY <2>3, <2>4, <4>3, <5>1, EffectIs
          <5>4. h[k][r] = Sum(h[k - 1][i.base], i)
            BY <2>3, <2>4, <4>3, <5>1, EffectIs
          <5> QED
            BY <5>2, <5>3, <5>4
        <4> QED
          BY <4>2, <4>3
      <3> QED
        BY <3>2, <3>3
    <2> QED
      BY <2>0, <2>1, <2>5, <2>6 DEF Apart
  <1> HIDE DEF P
  <1>6. Nat \subseteq P
    BY <1>4, <1>5, Induction
  <1>7. ASSUME NEW k \in p..(m - 1) PROVE Good(k)
    <2>1. k - p \in P /\ p + (k - p) = k /\ k <= m - 1
      BY <1>6
    <2> HIDE DEF Good
    <2> QED
      BY <2>1 DEF P
  <1> QED
    BY <1>3, <1>7 DEF ApartBetween

LEMMA FoldedAt ==
  ASSUME NEW q, NEW d, NEW n, NEW m, NEW p, NEW R \in SUBSET Registers, NEW g, NEW h,
         FoldedRuns(q, d, n, m, p, R, g, h)
  PROVE  \A r \in R : g[m][r] = h[m - 1][r]
  <1> DEFINE x == q[p].dest
             y == q[p].base
             c == q[m]
             b == d[m - 1]
  <1>1. /\ m - 1 \in p..(m - 1) /\ m \in (0 + 1)..n /\ m - 1 \in (0 + 1)..(n - 1)
        /\ m - 1 \in 0..n /\ (m - 1) - 1 \in 0..(n - 1) /\ p \in (0 + 1)..n /\ p - 1 \in 0..n
        /\ p \in 1..n /\ m - 1 \in 1..(n - 1)
    BY DEF FoldedRuns
  <1>2. /\ Apart(g[m - 1], h[(m - 1) - 1], x)
        /\ g[m - 1][x] = g[p][x]
        /\ h[(m - 1) - 1][y] = g[p - 1][y]
    <2>1. ApartBetween(q, m, p, g, h)
      BY FoldedBetween
    <2> QED
      BY <1>1, <2>1 DEF ApartBetween
  <1>3. /\ g[m] = Effect(c, g[m - 1]) /\ h[m - 1] = Effect(b, h[(m - 1) - 1])
        /\ g[m - 1] \in State /\ h[(m - 1) - 1] \in State /\ g[p] = Effect(q[p], g[p - 1])
        /\ g[p - 1] \in State
    BY <1>1 DEF FoldedRuns, Runs
  <1>4. c \in Instructions /\ b \in Instructions /\ q[p] \in Instructions
    BY <1>1 DEF FoldedRuns, Folded, Identified
  <1>5. /\ c.op = "addi" /\ c.base = x /\ b.op = "addi" /\ b.dest = c.dest /\ b.base = y
        /\ b.imm = c.imm + q[p].imm /\ q[p].op = "addi" /\ (x # c.dest => x \notin R)
        /\ c.constant /\ q[p].constant /\ b.constant
    BY DEF FoldedRuns, Folded, FoldsFrom
  <1>6. /\ x \in Registers /\ y \in Registers /\ c \in Addis /\ b \in Addis /\ q[p] \in Addis
        /\ c.dest \in Registers /\ Defines(c) = {c.dest} /\ Defines(b) = {c.dest}
    BY <1>4, <1>5, InstructionIs
  <1> HIDE DEF c, b, x, y
  <1>7. g[m][c.dest] = h[m - 1][c.dest]
    <2>1. g[p][x] = Sum(g[p - 1][y], q[p])
      BY <1>3, <1>4, <1>5, EffectIs DEF x, y
    <2>2. g[m][c.dest] = Sum(g[m - 1][x], c)
      BY <1>3, <1>4, <1>5, EffectIs
    <2>3. h[m - 1][c.dest] = Sum(h[(m - 1) - 1][y], b)
      BY <1>3, <1>4, <1>5, EffectIs
    <2>4. PICK v \in Value : v = g[p - 1][y]
      BY <1>3, <1>6 DEF State
    <2>5. Sum(Sum(v, q[p]), c) = Sum(v, b)
      BY <1>5, <1>6, SumTwice
    <2> QED
      BY <1>2, <2>1, <2>2, <2>3, <2>4, <2>5
  <1>8. ASSUME NEW r \in R, r # c.dest PROVE g[m][r] = h[m - 1][r]
    <2>1. r \in Registers \ {x}
      BY <1>5, <1>8
    <2>2. g[m - 1][r] = h[(m - 1) - 1][r]
      BY <1>2, <2>1 DEF Apart
    <2>3. g[m][r] = g[m - 1][r] /\ h[m - 1][r] = h[(m - 1) - 1][r]
      BY <1>3, <1>4, <1>6, <1>8, EffectIs
    <2> QED
      BY <2>2, <2>3
  <1> QED
    BY <1>7, <1>8

(***************************************************************************)
(* The invariant.  Besides what the runs check: what lives decides what    *)
(* the code after the cursor does, a register that it uses before it       *)
(* defines it lives, the table names the nearest definitions, and as long  *)
(* as nothing has been folded the code before the cursor is the            *)
(* snapshot's.                                                             *)
(***************************************************************************)
Event == [candidate : Nat, live : SUBSET Registers, definition : Nat, fired : BOOLEAN]

BlockTyped ==
  /\ Identified(code) /\ Identified(snapshot) /\ at \in 0..Len(code)
  /\ liveOut \in SUBSET Registers /\ live \in SUBSET Registers
  /\ table \in [DOMAIN table -> Nat]
  /\ \A k \in 1..Len(code) : code[k].id \in DOMAIN table
  /\ events \in Seq(Event)

LiveDecides == Decides(code, at, Len(code), live, liveOut)

UsesLive(q, a, n, L) ==
  \A m \in (a + 1)..n : \A r \in Uses(q[m]) :
    (\A k \in (a + 1)..(m - 1) : r \notin Defines(q[k])) => r \in L

UsedIsLive == UsesLive(code, at, Len(code), live)

TableIsNearest ==
  \A n \in 1..Len(code) : code[n].op = "addi" => Nearest(code, n, table[code[n].id])

NothingFolded(trace, n) == \A k \in 1..n : ~trace[k].fired

PrefixIsCaptured ==
  NothingFolded(events, Len(events)) =>
    at <= Len(snapshot) /\ \A k \in 1..at : code[k] = snapshot[k]

(* An event of the trace is decided on the snapshot as the pass decided it.*)
Decided(block, e) ==
  \E n \in 1..Len(block) :
     LET c == block[n]
     IN  /\ c.id = e.candidate /\ c.op = "addi"
         /\ e.fired <=> RejectedBy(block, c, e.definition, e.live) = "none"
         /\ e.fired => RejectedBy(block, c, InferredDefinition(block, c), {}) = "none"

EventsAreDecided ==
  \A n \in 1..Len(events) : NothingFolded(events, n - 1) => Decided(snapshot, events[n])

BlockInv ==
  /\ BlockTyped /\ LiveDecides /\ UsedIsLive /\ TableIsNearest /\ FoldsKeepTheBlock
  /\ PrefixIsCaptured /\ EventsAreDecided

(* The table built from a block names the nearest definitions.             *)
LEMMA TableOfIs ==
  ASSUME NEW q, Identified(q), NEW n \in Nat, n = Len(q)
  PROVE  /\ TableOf(q) \in [DOMAIN TableOf(q) -> Nat]
         /\ \A l \in 1..n : /\ q[l].id \in DOMAIN TableOf(q)
                            /\ q[l].op = "addi" => Nearest(q, l, TableOf(q)[q[l].id])
  <1> DEFINE Ids == {i.id : i \in Range(q)}
             Prior(l) == {k \in 1..(l - 1) : Defines(q[k]) \cap Uses(q[l]) # {}}
             Of(l) == IF Prior(l) = {} THEN 0
                      ELSE q[CHOOSE k \in Prior(l) : \A j \in Prior(l) : j <= k].id
  <1>4. \A id : id \in Ids <=> \E k \in 1..n : id = q[k].id
    <2>1. DOMAIN q = 1..n
      BY DEF Identified
    <2> QED
      BY <2>1 DEF Range
  <1>5. TableOf(q) = [id \in Ids |-> Of(Place(q, id))]
    BY DEF TableOf
  <1>6. ASSUME NEW l \in 1..n
        PROVE  /\ Of(l) \in Nat
               /\ q[l].op = "addi" => Nearest(q, l, Of(l))
    <2>1. \A k \in 1..n : q[k] \in Instructions
      BY DEF Identified
    <2>0. q[l].op = "addi" => Uses(q[l]) = {q[l].base}
      BY <2>1, InstructionIs
    <2>2. CASE Prior(l) = {}
      <3>1. Of(l) = 0
        BY <2>2
      <3>2. ASSUME q[l].op = "addi", NEW k \in 1..(l - 1)
            PROVE  q[l].base \notin Defines(q[k])
        BY <2>0, <2>2, <3>2
      <3> QED
        BY <3>1, <3>2 DEF Nearest
    <2>3. CASE Prior(l) # {}
      <3> DEFINE m == CHOOSE k \in Prior(l) : \A j \in Prior(l) : j <= k
      <3>1. m \in Prior(l) /\ \A j \in Prior(l) : j <= m
        <4>1. Prior(l) \in SUBSET (1..(l - 1)) /\ l - 1 \in Nat
          OBVIOUS
        <4> DEFINE S == Prior(l)
        <4> HIDE DEF Prior
        <4>2. \E k \in S : \A j \in S : k >= j
          BY <2>3, <4>1, GreatestElement
        <4>3. \A j, k \in S : j <= k <=> k >= j
          BY <4>1
        <4> QED
          BY <4>2, <4>3
      <3>2. Of(l) = q[m].id
        BY <2>3
      <3> HIDE DEF m, Of
      <3>3. m \in 1..(l - 1) /\ m \in 1..n /\ Defines(q[m]) \cap Uses(q[l]) # {}
        BY <3>1
      <3>4. Of(l) \in Nat
        BY <2>1, <3>2, <3>3, InstructionIs
      <3>5. ASSUME q[l].op = "addi" PROVE Nearest(q, l, Of(l))
        <4>1. Uses(q[l]) = {q[l].base}
          BY <2>0, <3>5
        <4>2. q[l].base \in Defines(q[m])
          BY <3>3, <4>1
        <4>3. \A j \in (m + 1)..(l - 1) : j \in 1..(l - 1) /\ ~(j <= m)
          BY <3>3
        <4>4. \A j \in (m + 1)..(l - 1) : q[l].base \notin Defines(q[j])
          BY <3>1, <4>1, <4>3
        <4> QED
          BY <3>2, <3>3, <4>2, <4>4 DEF Nearest
      <3> QED
        BY <3>4, <3>5
    <2> QED
      BY <2>2, <2>3
  <1> HIDE DEF Ids, Of
  <1>7. \A k \in 1..n : Place(q, q[k].id) = k
    BY PlaceOfOne
  <1>8. \A k \in 1..n : q[k].id \in Ids /\ TableOf(q)[q[k].id] = Of(k)
    BY <1>4, <1>5, <1>7
  <1>9. \A id \in Ids : TableOf(q)[id] \in Nat
    BY <1>4, <1>6, <1>8
  <1> QED
    BY <1>5, <1>6, <1>8, <1>9

LEMMA InitInvariant == Init => BlockInv
  <1> SUFFICES ASSUME Init PROVE BlockInv
    OBVIOUS
  <1>1. /\ code \in Blocks /\ liveOut \in LiveOuts /\ live = liveOut /\ snapshot = code
        /\ at = Len(code) /\ table = TableOf(code) /\ events = <<>>
    BY DEF Init
  <1>2. Identified(code) /\ liveOut \in SUBSET Registers
    <2>1. code \in Seq(Instructions) /\ DOMAIN code = 1..Len(code)
      BY <1>1, BlockAssumption
    <2> QED
      BY <1>1, <2>1, BlockAssumption DEF Identified
  <1>3. PICK n \in Nat : n = Len(code)
    BY <1>2 DEF Identified
  <1>4. /\ table \in [DOMAIN table -> Nat]
        /\ \A l \in 1..n : /\ code[l].id \in DOMAIN table
                           /\ code[l].op = "addi" => Nearest(code, l, table[code[l].id])
    BY <1>1, <1>2, <1>3, TableOfIs
  <1>10. BlockTyped
    <2>1. events \in Seq(Event)
      BY <1>1
    <2>2. at \in 0..Len(code)
      BY <1>1, <1>3
    <2> QED
      BY <1>1, <1>2, <1>3, <1>4, <2>1, <2>2 DEF BlockTyped
  <1>11. LiveDecides /\ UsedIsLive
    BY <1>1, <1>3, EndDecides DEF LiveDecides, UsedIsLive, UsesLive
  <1>12. TableIsNearest
    BY <1>3, <1>4 DEF TableIsNearest
  <1>13. FoldsKeepTheBlock
    BY <1>1 DEF FoldsKeepTheBlock
  <1>14. PrefixIsCaptured
    BY <1>1, <1>3 DEF PrefixIsCaptured
  <1>15. EventsAreDecided
    BY <1>1 DEF EventsAreDecided
  <1> QED
    BY <1>10, <1>11, <1>12, <1>13, <1>14, <1>15 DEF BlockInv

LEMMA StutterInvariant == BlockInv /\ UNCHANGED vars => BlockInv'
  BY DEF vars, BlockInv, BlockTyped, LiveDecides, UsedIsLive, UsesLive, TableIsNearest,
         FoldsKeepTheBlock, PrefixIsCaptured, NothingFolded, EventsAreDecided, Decided

(***************************************************************************)
(* What a decision of the pass means.                                      *)
(***************************************************************************)
LEMMA NearestPrefix ==
  ASSUME NEW q, NEW d, NEW n \in Nat, NEW l \in 1..n, NEW x,
         \A k \in 1..n : d[k] = q[k], Nearest(q, l, x)
  PROVE  Nearest(d, l, x)
  <1>1. \A k \in 1..(l - 1) : k \in 1..n
    OBVIOUS
  <1>2. \A j \in 1..(l - 1) : \A k \in (j + 1)..(l - 1) : k \in 1..n
    OBVIOUS
  <1>3. CASE x = 0 /\ \A k \in 1..(l - 1) : q[l].base \notin Defines(q[k])
    BY <1>1, <1>3 DEF Nearest
  <1>4. CASE \E j \in 1..(l - 1) : /\ x = q[j].id /\ q[l].base \in Defines(q[j])
                                   /\ \A k \in (j + 1)..(l - 1) : q[l].base \notin Defines(q[k])
    BY <1>1, <1>2, <1>4 DEF Nearest
  <1> QED
    BY <1>3, <1>4 DEF Nearest

(* The rule fires when the table's entry is the place of a possible fold.  *)
LEMMA FiresIs ==
  ASSUME BlockTyped, at > 0, code[at].op = "addi"
  PROVE  /\ Decision.fires <=>
              RejectedBy(code, code[at], table[code[at].id], live) = "none"
         /\ Decision.fires <=>
              \E p \in 1..(at - 1) : code[p].id = table[code[at].id] /\ FoldsFrom(code, at, p, live)
  <1>1. at \in 1..Len(code) /\ Identified(code)
    BY DEF BlockTyped, Identified
  <1>2. Decision.fires <=> RejectedBy(code, code[at], table[code[at].id], live) = "none"
    BY DEF Decision, Evaluate
  <1> DEFINE x == table[code[at].id]
  <1>3. RejectedBy(code, code[at], x, live) = "none" <=>
           \E p \in 1..(at - 1) : code[p].id = x /\ FoldsFrom(code, at, p, live)
    <2> HIDE DEF x
    <2> QED
      BY <1>1, AcceptedIs
  <1> QED
    BY <1>2, <1>3

(* The event that the breakpoint records is decided on the snapshot as in  *)
(* the pass, as long as nothing was folded.                                *)
LEMMA RecordedIsDecided ==
  ASSUME BlockInv, at > 0, code[at].op = "addi", NEW f \in BOOLEAN, f <=> Decision.fires
  PROVE  /\ Recorded(f) \in Seq(Event) /\ Len(Recorded(f)) = Len(events) + 1
         /\ \A k \in 1..Len(events) : Recorded(f)[k] = events[k]
         /\ Recorded(f)[Len(events) + 1].fired = f
         /\ \A n \in 1..Len(Recorded(f)) :
              NothingFolded(Recorded(f), n - 1) => Decided(snapshot, Recorded(f)[n])
  <1> DEFINE c == code[at]
             x == table[c.id]
             e == [candidate |-> c.id, live |-> live, definition |-> x, fired |-> f]
  <1>0. PICK n \in Nat : n = Len(code)
    BY DEF BlockInv, BlockTyped, Identified
  <1>1. /\ at \in 1..n /\ Identified(code) /\ Identified(snapshot)
        /\ events \in Seq(Event) /\ live \in SUBSET Registers
        /\ c \in Instructions
    BY <1>0 DEF BlockInv, BlockTyped, Identified
  <1>2. c.id \in Nat /\ x \in Nat
    <2>1. c.id \in Nat
      BY <1>1, InstructionIs
    <2>2. c.id \in DOMAIN table /\ table \in [DOMAIN table -> Nat]
      BY <1>0, <1>1 DEF BlockInv, BlockTyped
    <2> QED
      BY <2>1, <2>2
  <1>3. e \in Event
    BY <1>1, <1>2 DEF Event
  <1>4. e.candidate = c.id /\ e.live = live /\ e.definition = x /\ e.fired = f
    OBVIOUS
  <1>5. Recorded(f) = Append(events, e)
    BY DEF Recorded
  <1>6. f <=> \E p \in 1..(at - 1) : code[p].id = x /\ FoldsFrom(code, at, p, live)
    BY FiresIs DEF BlockInv
  <1>7. Nearest(code, at, x)
    BY <1>0, <1>1 DEF BlockInv, TableIsNearest
  <1> DEFINE r == Recorded(f)
             l == Len(events)
  <1> HIDE DEF e, x
  <1>8. /\ r \in Seq(Event) /\ Len(r) = l + 1 /\ l \in Nat
        /\ \A k \in 1..l : r[k] = events[k]
        /\ r[l + 1] = e
    BY <1>1, <1>3, <1>5, AppendProperties
  <1> HIDE DEF r, l
  <1>9. ASSUME NothingFolded(r, l) PROVE Decided(snapshot, e)
    <2>1. NothingFolded(events, l)
      BY <1>8, <1>9 DEF NothingFolded
    <2>2. at <= Len(snapshot) /\ \A k \in 1..at : snapshot[k] = code[k]
      BY <2>1 DEF BlockInv, PrefixIsCaptured, l
    <2>3. PICK s \in Nat : s = Len(snapshot)
      BY <1>1 DEF Identified
    <2>4. at \in 1..s /\ snapshot[at] = c /\ at \in 1..Len(snapshot)
      BY <1>1, <2>2, <2>3
    <2>5. \A R : \A p \in 1..(at - 1) :
             /\ snapshot[p].id = code[p].id
             /\ FoldsFrom(snapshot, at, p, R) <=> FoldsFrom(code, at, p, R)
      <3> SUFFICES ASSUME NEW R, NEW p \in 1..(at - 1)
                   PROVE  /\ snapshot[p].id = code[p].id
                          /\ FoldsFrom(snapshot, at, p, R) <=> FoldsFrom(code, at, p, R)
        OBVIOUS
      <3>1. p \in 1..at /\ at \in 1..at /\ \A k \in (p + 1)..(at - 1) : k \in 1..at
        BY <1>1
      <3>2. snapshot[p] = code[p] /\ snapshot[at] = code[at]
            /\ \A k \in (p + 1)..(at - 1) : snapshot[k] = code[k]
        BY <2>2, <3>1
      <3> QED
        BY <3>2 DEF FoldsFrom
    <2>6. f <=> RejectedBy(snapshot, c, x, live) = "none"
      <3>1. RejectedBy(snapshot, snapshot[at], x, live) = "none" <=>
              \E p \in 1..(at - 1) : snapshot[p].id = x /\ FoldsFrom(snapshot, at, p, live)
        BY <1>1, <2>4, AcceptedIs
      <3> HIDE DEF c
      <3> QED
        BY <1>6, <2>4, <2>5, <3>1
    <2>7. Nearest(snapshot, at, x)
      <3>1. at \in 1..at /\ at \in Nat
        BY <1>1
      <3> QED
        BY <1>7, <2>2, <3>1, NearestPrefix
    <2>8. f => InferredDefinition(snapshot, c) = x
      <3>1. \/ InferredDefinition(snapshot, snapshot[at]) = x
            \/ \A R : RejectedBy(snapshot, snapshot[at], x, R) # "none"
        BY <1>1, <2>4, <2>7, InferredAgainstTable
      <3> QED
        BY <2>4, <2>6, <3>1
    <2>9. f => RejectedBy(snapshot, c, InferredDefinition(snapshot, c), {}) = "none"
      <3> SUFFICES ASSUME f PROVE RejectedBy(snapshot, c, x, {}) = "none"
        BY <2>8
      <3>1. PICK p \in 1..(at - 1) : code[p].id = x /\ FoldsFrom(code, at, p, live)
        BY <1>6
      <3>2. snapshot[p].id = x /\ FoldsFrom(snapshot, at, p, {})
        BY <2>5, <3>1 DEF FoldsFrom
      <3>3. RejectedBy(snapshot, snapshot[at], x, {}) = "none" <=>
              \E o \in 1..(at - 1) : snapshot[o].id = x /\ FoldsFrom(snapshot, at, o, {})
        BY <1>1, <2>4, AcceptedIs
      <3> QED
        BY <2>4, <3>2, <3>3
    <2> QED
      BY <1>4, <2>4, <2>6, <2>9 DEF Decided
  <1>10. ASSUME NEW k \in 1..(l + 1), NothingFolded(r, k - 1) PROVE Decided(snapshot, r[k])
    <2>1. CASE k = l + 1
      <3>1. k - 1 = l
        BY <1>8, <2>1
      <3> QED
        BY <1>8, <1>9, <1>10, <2>1, <3>1
    <2>2. CASE k # l + 1
      <3>1. k \in 1..l /\ \A j \in 1..(k - 1) : j \in 1..l
        BY <1>8, <2>2
      <3>2. NothingFolded(events, k - 1) /\ r[k] = events[k]
        BY <1>8, <1>10, <3>1 DEF NothingFolded
      <3> QED
        BY <3>1, <3>2 DEF BlockInv, EventsAreDecided, l
    <2> QED
      BY <2>1, <2>2
  <1> QED
    BY <1>4, <1>8, <1>10 DEF r, l

(***************************************************************************)
(* The steps.                                                              *)
(***************************************************************************)
LEMMA StepBackInvariant == BlockInv /\ StepBack => BlockInv'
  <1> SUFFICES ASSUME BlockInv, StepBack PROVE BlockInv'
    OBVIOUS
  <1>0. PICK n \in Nat : n = Len(code)
    BY DEF BlockInv, BlockTyped, Identified
  <1>1. /\ at \in 1..n /\ at' = at - 1 /\ Identified(code) /\ Identified(snapshot)
        /\ live' = (live \ Defines(code[at])) \cup Uses(code[at])
        /\ code' = code /\ snapshot' = snapshot /\ liveOut' = liveOut /\ table' = table
    BY <1>0 DEF StepBack, BlockInv, BlockTyped, Identified
  <1>2. code[at] \in Instructions
    BY <1>0, <1>1 DEF Identified
  <1>3. /\ events' \in Seq(Event)
        /\ EventsAreDecided'
        /\ NothingFolded(events', Len(events')) => NothingFolded(events, Len(events))
    <2>1. CASE code[at].op = "addi"
      <3>1. events' = Recorded(FALSE) /\ at > 0 /\ ~Decision.fires
        BY <2>1 DEF StepBack
      <3>2. /\ events' \in Seq(Event) /\ Len(events') = Len(events) + 1
            /\ \A k \in 1..Len(events) : events'[k] = events[k]
            /\ \A k \in 1..Len(events') :
                 NothingFolded(events', k - 1) => Decided(snapshot, events'[k])
        BY <2>1, <3>1, RecordedIsDecided
      <3>3. Len(events) \in Nat
        BY DEF BlockInv, BlockTyped
      <3>4. \A k \in 1..Len(events) : k \in 1..Len(events')
        BY <3>2, <3>3
      <3> QED
        BY <1>1, <3>2, <3>4 DEF EventsAreDecided, NothingFolded
    <2>2. CASE code[at].op # "addi"
      <3>1. events' = events
        BY <2>2 DEF StepBack
      <3> QED
        BY <1>1, <3>1 DEF BlockInv, BlockTyped, EventsAreDecided
    <2> QED
      BY <2>1, <2>2
  <1>4. BlockTyped'
    <2>1. live' \in SUBSET Registers
      BY <1>1, <1>2, InstructionIs DEF BlockInv, BlockTyped
    <2>2. at' \in 0..Len(code')
      BY <1>0, <1>1
    <2> QED
      BY <1>1, <1>3, <2>1, <2>2 DEF BlockInv, BlockTyped
  <1>5. LiveDecides'
    <2>1. live \in SUBSET Registers /\ Decides(code, at, n, live, liveOut)
      BY <1>0 DEF BlockInv, BlockTyped, LiveDecides
    <2>2. Decides(code, at - 1, n, (live \ Defines(code[at])) \cup Uses(code[at]), liveOut)
      BY <1>1, <1>2, <2>1, StepDecides
    <2> QED
      BY <1>0, <1>1, <2>2 DEF LiveDecides
  <1>6. TableIsNearest'
    <2>1. TableIsNearest
      BY DEF BlockInv
    <2> QED
      BY <1>1, <2>1 DEF TableIsNearest
  <1>9. UsedIsLive'
    <2> SUFFICES ASSUME NEW m \in at..n, NEW r \in Uses(code[m]),
                        \A k \in at..(m - 1) : r \notin Defines(code[k])
                 PROVE  r \in (live \ Defines(code[at])) \cup Uses(code[at])
      BY <1>0, <1>1 DEF UsedIsLive, UsesLive
    <2>1. CASE m = at
      BY <2>1
    <2>2. CASE m # at
      <3>1. m \in (at + 1)..n /\ at \in at..(m - 1) /\ \A k \in (at + 1)..(m - 1) : k \in at..(m - 1)
        BY <1>1, <2>2
      <3>2. r \in live
        BY <1>0, <3>1 DEF BlockInv, UsedIsLive, UsesLive
      <3> QED
        BY <3>1, <3>2
    <2> QED
      BY <2>1, <2>2
  <1>7. FoldsKeepTheBlock'
    BY <1>1 DEF BlockInv, FoldsKeepTheBlock
  <1>8. PrefixIsCaptured'
    <2> SUFFICES ASSUME NothingFolded(events', Len(events'))
                 PROVE  at' <= Len(snapshot) /\ \A k \in 1..at' : code[k] = snapshot[k]
      BY <1>1 DEF PrefixIsCaptured
    <2>1. at <= Len(snapshot) /\ \A k \in 1..at : code[k] = snapshot[k]
      BY <1>3 DEF BlockInv, PrefixIsCaptured
    <2>2. Len(snapshot) \in Nat
      BY <1>1 DEF Identified
    <2> QED
      BY <1>1, <2>1, <2>2
  <1> QED
    BY <1>3, <1>4, <1>5, <1>6, <1>7, <1>8, <1>9 DEF BlockInv

Without(q, d, n, p) ==
  /\ Identified(d) /\ Len(d) = n - 1
  /\ \A k \in 1..(n - 1) : d[k] = q[Source(p, k)] /\ Source(p, k) \in 1..n

(* A block without one of its instructions.                                *)
LEMMA BlockWithout ==
  ASSUME NEW q, Identified(q), NEW n \in Nat, Len(q) = n, NEW p \in 1..n
  PROVE  Without(q, RemoveAt(q, p), n, p)
  <1> DEFINE d == RemoveAt(q, p)
  <1>1. q \in Seq(Instructions) /\ \A j, k \in 1..n : q[j].id = q[k].id => j = k
    BY DEF Identified
  <1>2. /\ d \in Seq(Instructions) /\ Len(d) = n - 1
        /\ \A k \in 1..(n - 1) : d[k] = IF k < p THEN q[k] ELSE q[k + 1]
    BY <1>1, RemovedAt, Zenon
  <1> HIDE DEF d
  <1>3. \A k \in 1..(n - 1) : d[k] = q[Source(p, k)] /\ Source(p, k) \in 1..n
    BY <1>2 DEF Source
  <1>4. ASSUME NEW j \in 1..(n - 1), NEW k \in 1..(n - 1), d[j].id = d[k].id PROVE j = k
    <2>1. Source(p, j) = Source(p, k)
      BY <1>1, <1>3, <1>4
    <2> QED
      BY <2>1 DEF Source
  <1>5. Identified(d)
    BY <1>2, <1>4 DEF Identified
  <1> QED
    BY <1>2, <1>3, <1>5 DEF d, Without

(* A nearest definition stays the nearest when an instruction goes that is *)
(* not it.                                                                 *)
LEMMA NearestWithout ==
  ASSUME NEW q, NEW d, NEW n \in Nat, NEW p \in 1..n,
         \A k \in 1..(n - 1) : /\ d[k].id = q[Source(p, k)].id
                               /\ Defines(d[k]) = Defines(q[Source(p, k)]),
         NEW l \in 1..(n - 1), NEW m, m = Source(p, l), d[l].base = q[m].base,
         NEW x, Nearest(q, m, x),
         p < m /\ q[m].base \in Defines(q[p])
           => \E k \in (p + 1)..(m - 1) : q[m].base \in Defines(q[k])
  PROVE  Nearest(d, l, x)
  <1> DEFINE y == q[m].base
  <1>0. m \in 1..n /\ m = IF l < p THEN l ELSE l + 1
    BY DEF Source
  <1>1. ASSUME NEW j \in 1..(l - 1)
        PROVE  /\ Source(p, j) \in 1..(m - 1) /\ j \in 1..(n - 1)
               /\ d[j].id = q[Source(p, j)].id /\ Defines(d[j]) = Defines(q[Source(p, j)])
    <2>1. Source(p, j) \in 1..(m - 1) /\ j \in 1..(n - 1)
      BY <1>0 DEF Source
    <2> QED
      BY <2>1
  <1>2. ASSUME NEW j \in 1..(m - 1), j # p PROVE \E t \in 1..(l - 1) : Source(p, t) = j
    <2>1. CASE j < p
      <3>1. j \in 1..(l - 1) /\ Source(p, j) = j
        BY <1>0, <2>1 DEF Source
      <3> QED
        BY <3>1
    <2>2. CASE ~(j < p)
      <3>1. j - 1 \in 1..(l - 1) /\ Source(p, j - 1) = j
        BY <1>0, <1>2, <2>2 DEF Source
      <3> QED
        BY <3>1
    <2> QED
      BY <2>1, <2>2
  <1>3. CASE x = 0 /\ \A k \in 1..(m - 1) : y \notin Defines(q[k])
    BY <1>1, <1>3 DEF Nearest
  <1>4. CASE \E k \in 1..(m - 1) : /\ x = q[k].id /\ y \in Defines(q[k])
                                   /\ \A j \in (k + 1)..(m - 1) : y \notin Defines(q[j])
    <2>1. PICK k \in 1..(m - 1) : /\ x = q[k].id /\ y \in Defines(q[k])
                                  /\ \A j \in (k + 1)..(m - 1) : y \notin Defines(q[j])
      BY <1>4
    <2>2. k # p
      BY <1>0, <2>1
    <2>3. PICK t \in 1..(l - 1) : Source(p, t) = k
      BY <1>2, <2>2
    <2>4. ASSUME NEW j \in (t + 1)..(l - 1) PROVE y \notin Defines(d[j])
      <3>1. j \in 1..(l - 1) /\ Source(p, j) \in (k + 1)..(m - 1)
        <4>1. j \in 1..(l - 1) /\ j > t
          OBVIOUS
        <4>2. Source(p, j) \in 1..(m - 1)
          BY <1>1, <4>1
        <4> QED
          BY <1>0, <2>3, <4>1, <4>2 DEF Source
      <3> QED
        BY <1>1, <2>1, <3>1
    <2> QED
      BY <1>1, <2>1, <2>3, <2>4 DEF Nearest
  <1> QED
    BY <1>3, <1>4 DEF Nearest

(* What is used after the cursor lives there, wherever the rest has moved. *)
LEMMA MovedUses ==
  ASSUME NEW q, NEW d, NEW n \in Nat, NEW p \in 1..n, RestMoved(q, d, p, n),
         NEW L, UsesLive(q, p, n, L)
  PROVE  UsesLive(d, p - 1, n - 1, L)
  <1> SUFFICES ASSUME NEW m \in p..(n - 1), NEW r \in Uses(d[m]),
                      \A k \in p..(m - 1) : r \notin Defines(d[k])
               PROVE  r \in L
    BY DEF UsesLive
  <1>1. \A k \in p..(n - 1) : d[k] = q[k + 1]
    <2> TAKE k \in p..(n - 1)
    <2>1. k + 1 \in (p + 1)..n /\ (k + 1) - 1 = k
      OBVIOUS
    <2> QED
      BY <2>1 DEF RestMoved
  <1>2. ASSUME NEW k \in (p + 1)..((m + 1) - 1) PROVE r \notin Defines(q[k])
    <2>1. k - 1 \in p..(m - 1) /\ k - 1 \in p..(n - 1) /\ (k - 1) + 1 = k
      OBVIOUS
    <2> QED
      BY <1>1, <2>1
  <1>3. m + 1 \in (p + 1)..n /\ r \in Uses(q[m + 1])
    BY <1>1
  <1> QED
    BY <1>2, <1>3 DEF UsesLive

LEMMA DeleteDeadInvariant == BlockInv /\ DeleteDead => BlockInv'
  <1> SUFFICES ASSUME BlockInv, DeleteDead PROVE BlockInv'
    OBVIOUS
  <1>0. PICK n \in Nat : n = Len(code)
    BY DEF BlockInv, BlockTyped, Identified
  <1>1. /\ at \in 1..n /\ at' = at - 1 /\ Identified(code) /\ Identified(snapshot)
        /\ code' = RemoveAt(code, at)
        /\ code[at].op \in {"addi", "set"} /\ Defines(code[at]) \cap live = {}
        /\ live' = live /\ snapshot' = snapshot /\ liveOut' = liveOut /\ table' = table
        /\ events' = events
    BY <1>0 DEF DeleteDead, Dead, BlockInv, BlockTyped, Identified
  <1>2. \A k \in 1..n : code[k] \in Instructions
    BY <1>0, <1>1 DEF Identified
  <1>3. /\ Identified(code') /\ Len(code') = n - 1
        /\ \A k \in 1..(n - 1) : code'[k] = code[Source(at, k)] /\ Source(at, k) \in 1..n
    <2>1. Without(code, RemoveAt(code, at), n, at)
      BY <1>0, <1>1, BlockWithout
    <2> QED
      BY <1>1, <2>1 DEF Without
  <1>4. \A k \in 1..(at - 1) : code'[k] = code[k]
    BY <1>1, <1>3 DEF Source
  <1>5. RestMoved(code, code', at, n)
    <2> SUFFICES ASSUME NEW k \in (at + 1)..n PROVE code'[k - 1] = code[k]
      BY DEF RestMoved
    <2>1. k - 1 \in 1..(n - 1) /\ Source(at, k - 1) = k
      BY <1>1 DEF Source
    <2> QED
      BY <1>3, <2>1
  <1>6. BlockTyped'
    <2>1. \A k \in 1..Len(code') : code'[k].id \in DOMAIN table
      BY <1>0, <1>3 DEF BlockInv, BlockTyped
    <2>2. at' \in 0..Len(code')
      BY <1>1, <1>3
    <2> QED
      BY <1>1, <1>3, <2>1, <2>2 DEF BlockInv, BlockTyped
  <1>7. Decides(code, at, n, live, liveOut)
    BY <1>0 DEF BlockInv, LiveDecides
  <1>8. LiveDecides'
    <2>1. Decides(code', at - 1, n - 1, live, liveOut)
      BY <1>1, <1>5, <1>7, MovedDecides
    <2> QED
      BY <1>1, <1>3, <2>1 DEF LiveDecides
  <1>13. UsedIsLive'
    <2>1. UsesLive(code', at - 1, n - 1, live)
      BY <1>0, <1>1, <1>5, MovedUses DEF BlockInv, UsedIsLive
    <2> QED
      BY <1>1, <1>3, <2>1 DEF UsedIsLive
  <1>9. TableIsNearest'
    <2> SUFFICES ASSUME NEW k \in 1..(n - 1), code'[k].op = "addi"
                 PROVE  Nearest(code', k, table[code'[k].id])
      BY <1>1, <1>3 DEF TableIsNearest
    <2> DEFINE m == Source(at, k)
               x == table[code'[k].id]
    <2>1. m \in 1..n /\ code'[k] = code[m] /\ code[m].op = "addi"
      BY <1>3
    <2>2. Nearest(code, m, x)
      BY <1>0, <2>1 DEF BlockInv, TableIsNearest
    <2>3. ASSUME at < m, code[m].base \in Defines(code[at])
          PROVE  \E j \in (at + 1)..(m - 1) : code[m].base \in Defines(code[j])
      <3>1. code[m].base \in Uses(code[m])
        BY <1>2, <2>1, InstructionIs
      <3>2. m \in (at + 1)..n
        BY <1>1, <2>1, <2>3
      <3> HIDE DEF m
      <3>3. code[m].base \notin live
        BY <1>1, <2>3
      <3> QED
        BY <1>0, <3>1, <3>2, <3>3 DEF BlockInv, UsedIsLive, UsesLive
    <2>4. \A j \in 1..(n - 1) : /\ code'[j].id = code[Source(at, j)].id
                                /\ Defines(code'[j]) = Defines(code[Source(at, j)])
      BY <1>3
    <2>5. code'[k].base = code[m].base
      BY <2>1
    <2> HIDE DEF x
    <2>6. Nearest(code', k, x)
      BY <1>1, <2>2, <2>3, <2>4, <2>5, NearestWithout
    <2> QED
      BY <2>6 DEF x
  <1>10. FoldsKeepTheBlock'
    <2> DEFINE g == Values(code)
               h == Values(code')
    <2>1. Runs(g, code, 0, n) /\ g[0] = Entry
      BY <1>0, <1>1, ValuesRun
    <2>2. Runs(h, code', 0, n - 1) /\ h[0] = Entry
      <3>1. n - 1 \in Nat /\ n - 1 = Len(code')
        BY <1>1, <1>3
      <3> QED
        BY <1>3, <3>1, ValuesRun
    <2> HIDE DEF g, h
    <2>3. \A k \in 0..(at - 1) : g[k] = h[k]
      <3>1. SameStart(code, code', n, n - 1, at - 1, g, h)
        BY <1>1, <1>4, <2>1, <2>2 DEF SameStart
      <3> QED
        BY <3>1, SamePrefix
    <2>4. \A r \in live : g[at][r] = h[at - 1][r]
      <3> SUFFICES ASSUME NEW r \in live PROVE g[at][r] = h[at - 1][r]
        OBVIOUS
      <3>1. at \in (0 + 1)..n /\ at - 1 \in 0..n /\ at - 1 \in 0..(at - 1)
        BY <1>1
      <3>2. g[at] = Effect(code[at], g[at - 1]) /\ g[at - 1] \in State /\ code[at] \in Instructions
        BY <1>1, <1>2, <2>1, <3>1 DEF Runs
      <3>3. r \in Registers \ Defines(code[at])
        BY <1>1 DEF BlockInv, BlockTyped
      <3>4. g[at][r] = g[at - 1][r]
        BY <3>2, <3>3, EffectIs
      <3> QED
        BY <2>3, <3>1, <3>4
    <2>5. SameRestMoved(g, h, code, at, n, liveOut)
      <3>1. Runs(g, code, at, n) /\ Runs(h, code', at - 1, n - 1)
        <4>1. /\ \A k \in at..n : k \in 0..n
              /\ \A k \in (at + 1)..n : k \in (0 + 1)..n
              /\ \A k \in (at - 1)..(n - 1) : k \in 0..(n - 1)
              /\ \A k \in ((at - 1) + 1)..(n - 1) : k \in (0 + 1)..(n - 1)
          BY <1>1
        <4> QED
          BY <2>1, <2>2, <4>1 DEF Runs
      <3> QED
        BY <1>1, <1>5, <1>7, <2>4, <3>1, MovedRest
    <2>6. ASSUME NEW k \in 1..(n - 1), NEW r \in Reads(code'[k])
          PROVE  h[k - 1][r] = g[Source(at, k) - 1][r]
      <3>1. CASE k < at
        <4>1. Source(at, k) = k /\ k - 1 \in 0..(at - 1)
          BY <1>1, <3>1 DEF Source
        <4> QED
          BY <2>3, <4>1
      <3>2. CASE ~(k < at)
        <4>1. Source(at, k) = k + 1 /\ k + 1 \in (at + 1)..n /\ (k + 1) - 1 = k
          BY <1>1, <3>2 DEF Source
        <4>2. code'[k] = code[k + 1]
          BY <1>3, <4>1
        <4>3. g[(k + 1) - 1][r] = h[((k + 1) - 1) - 1][r]
          BY <2>5, <2>6, <4>1, <4>2 DEF SameRestMoved
        <4> QED
          BY <4>1, <4>3
      <3> QED
        BY <3>1, <3>2
    <2>7. Result(code', liveOut) = Result(code, liveOut)
      <3>1. Reads(code[at]) = {} /\ \A r \in liveOut : g[n][r] = h[n - 1][r]
        BY <1>1, <1>2, <2>5, InstructionIs DEF SameRestMoved
      <3>2. SameButFor(code, code', n, at, liveOut)
        BY <1>0, <1>1, <1>3, <2>6, <3>1 DEF SameButFor, g, h
      <3> QED
        BY <3>2, SameResult
    <2> QED
      BY <1>1, <2>7 DEF BlockInv, FoldsKeepTheBlock
  <1>11. PrefixIsCaptured'
    <2> SUFFICES ASSUME NothingFolded(events, Len(events))
                 PROVE  at - 1 <= Len(snapshot) /\ \A k \in 1..(at - 1) : code'[k] = snapshot[k]
      BY <1>1 DEF PrefixIsCaptured
    <2>1. at <= Len(snapshot) /\ \A k \in 1..at : code[k] = snapshot[k]
      BY DEF BlockInv, PrefixIsCaptured
    <2>2. Len(snapshot) \in Nat
      BY <1>1 DEF Identified
    <2> QED
      BY <1>1, <1>4, <2>1, <2>2
  <1>12. EventsAreDecided'
    BY <1>1 DEF BlockInv, EventsAreDecided
  <1> QED
    BY <1>6, <1>8, <1>9, <1>10, <1>11, <1>12, <1>13 DEF BlockInv

(* What Fold does, without records and updates.                            *)
LEMMA FoldIs ==
  ASSUME BlockInv, Fold, NEW n \in Nat, n = Len(code)
  PROVE  /\ at \in 1..n /\ at' = at - 1 /\ live' = live /\ snapshot' = snapshot /\ liveOut' = liveOut
         /\ \E p \in 1..(at - 1) :
              /\ Folded(code, code', n, at, p, live)
              /\ table' = [table EXCEPT ![code[at].id] = table[code[p].id]]
  <1> DEFINE c == code[at]
             x == table[c.id]
  <1>1. /\ at \in 1..n /\ at > 0 /\ c.op = "addi" /\ Decision.fires /\ Identified(code)
        /\ at' = at - 1 /\ live' = live /\ snapshot' = snapshot /\ liveOut' = liveOut
    BY DEF Fold, BlockInv, BlockTyped
  <1>2. RejectedBy(code, c, x, live) = "none"
    BY <1>1, FiresIs DEF BlockInv
  <1>3. PICK p \in 1..(at - 1) : code[p].id = x /\ FoldsFrom(code, at, p, live)
    BY <1>1, FiresIs DEF BlockInv
  <1> DEFINE a == code[p]
             b == [c EXCEPT !.base = a.base, !.imm = c.imm + a.imm]
             e == [code EXCEPT ![at] = b]
  <1>4. p \in 1..n /\ a.op = "addi" /\ Place(code, x) = p /\ Instruction(code, x) = a
    <2>1. p \in 1..n
      BY <1>1
    <2> QED
      BY <1>1, <1>3, <2>1, PlaceOfOne DEF FoldsFrom
  <1>5. Decision.rewrite = <<[base |-> a.base, immediate |-> c.imm + a.imm, removes |-> a.id]>>
    <2> HIDE DEF c, x, a
    <2> QED
      BY <1>2, <1>4 DEF Decision, Evaluate, c, x
  <1>6. code' = RemoveAt(e, p) /\ table' = [table EXCEPT ![c.id] = table[a.id]]
    <2>1. /\ Decision.rewrite[1].base = a.base /\ Decision.rewrite[1].immediate = c.imm + a.imm
          /\ Decision.rewrite[1].removes = a.id
      BY <1>5
    <2>2. b.id = c.id
      OBVIOUS
    <2>3. LET rewrite == Decision.rewrite[1]
              y == [code[at] EXCEPT !.base = rewrite.base, !.imm = rewrite.immediate]
          IN  /\ code' = RemoveAt([code EXCEPT ![at] = y], Place(code, rewrite.removes))
              /\ table' = [table EXCEPT ![y.id] = table[rewrite.removes]]
      BY DEF Fold
    <2> HIDE DEF a
    <2> QED
      BY <1>3, <1>4, <2>1, <2>2, <2>3 DEF a
  <1>7. \A k \in 1..n : code[k] \in Instructions
    BY <1>1 DEF Identified
  <1>8. c \in Addis /\ a \in Addis
    BY <1>1, <1>4, <1>7, InstructionIs
  <1>9. /\ b.id = c.id /\ b.op = c.op /\ b.dest = c.dest /\ b.base = a.base
        /\ b.imm = c.imm + a.imm /\ b.constant = c.constant /\ b \in Instructions
    <2>1. c.imm + a.imm \in Int /\ a.base \in Registers
      BY <1>8 DEF Addis
    <2> DEFINE base == a.base
               imm == c.imm + a.imm
    <2> HIDE DEF c, base, imm
    <2>2. /\ [c EXCEPT !.base = base, !.imm = imm].id = c.id
          /\ [c EXCEPT !.base = base, !.imm = imm].op = c.op
          /\ [c EXCEPT !.base = base, !.imm = imm].dest = c.dest
          /\ [c EXCEPT !.base = base, !.imm = imm].base = base
          /\ [c EXCEPT !.base = base, !.imm = imm].imm = imm
          /\ [c EXCEPT !.base = base, !.imm = imm].constant = c.constant
      BY <1>8 DEF Addis
    <2>3. [c EXCEPT !.base = base, !.imm = imm] \in Addis
      BY <1>8, <2>1 DEF Addis, base, imm
    <2> QED
      BY <2>2, <2>3 DEF base, imm, Instructions
  <1>10. Identified(e) /\ Len(e) = n /\ e[at] = b /\ \A k \in 1..n : k # at => e[k] = code[k]
    <2>1. code \in Seq(Instructions) /\ \A j, k \in 1..n : code[j].id = code[k].id => j = k
      BY <1>1 DEF Identified
    <2>2. /\ e \in Seq(Instructions) /\ Len(e) = n /\ e[at] = b
          /\ \A k \in 1..n : k # at => e[k] = code[k]
      <3> HIDE DEF b
      <3> QED
        BY <1>1, <1>9, <2>1
    <2>3. \A k \in 1..n : e[k].id = code[k].id
      <3> HIDE DEF e
      <3> QED
        BY <1>9, <2>2
    <2> HIDE DEF e
    <2> QED
      BY <2>1, <2>2, <2>3 DEF Identified
  <1> HIDE DEF b, e
  <1>11. /\ Identified(code') /\ Len(code') = n - 1
         /\ \A k \in 1..(n - 1) : code'[k] = e[Source(p, k)] /\ Source(p, k) \in 1..n
    <2>1. Without(e, RemoveAt(e, p), n, p)
      BY <1>4, <1>10, BlockWithout
    <2> QED
      BY <1>6, <2>1 DEF Without
  <1>12. at - 1 \in 1..(n - 1) /\ Source(p, at - 1) = at
         /\ \A k \in 1..(n - 1) : k # at - 1 => Source(p, k) # at
    BY <1>1 DEF Source
  <1>13. code'[at - 1] = b /\ \A k \in 1..(n - 1) : k # at - 1 => code'[k] = code[Source(p, k)]
    BY <1>10, <1>11, <1>12
  <1>14. a.dest = c.base /\ \A k \in (p + 1)..(at - 1) : a.dest \notin Defines(code[k])
    <2>1. Nearest(code, at, x)
      BY <1>1 DEF BlockInv, TableIsNearest
    <2>2. x # 0
      BY <1>3, <1>8 DEF Addis
    <2>3. PICK k \in 1..(at - 1) : /\ x = code[k].id /\ c.base \in Defines(code[k])
                                   /\ \A j \in (k + 1)..(at - 1) : c.base \notin Defines(code[j])
      BY <2>1, <2>2 DEF Nearest
    <2>4. k = p
      <3>1. k \in 1..n
        BY <1>1
      <3> QED
        BY <1>1, <1>3, <1>4, <2>3, <3>1 DEF Identified
    <2> QED
      BY <1>4, <2>3, <2>4 DEF Defines
  <1>15. Folded(code, code', n, at, p, live)
    BY <1>1, <1>3, <1>9, <1>11, <1>13, <1>14 DEF Folded
  <1> QED
    BY <1>1, <1>6, <1>15

LEMMA FoldInvariant == BlockInv /\ Fold => BlockInv'
  <1> SUFFICES ASSUME BlockInv, Fold PROVE BlockInv'
    OBVIOUS
  <1>0. PICK n \in Nat : n = Len(code)
    BY DEF BlockInv, BlockTyped, Identified
  <1>1. /\ at \in 1..n /\ at' = at - 1 /\ live' = live /\ snapshot' = snapshot /\ liveOut' = liveOut
        /\ \E p \in 1..(at - 1) :
             /\ Folded(code, code', n, at, p, live)
             /\ table' = [table EXCEPT ![code[at].id] = table[code[p].id]]
    BY <1>0, FoldIs
  <1>2. PICK p \in 1..(at - 1) :
             /\ Folded(code, code', n, at, p, live)
             /\ table' = [table EXCEPT ![code[at].id] = table[code[p].id]]
    BY <1>1
  <1> DEFINE a == code[p]
             c == code[at]
             b == code'[at - 1]
  <1>3. /\ Identified(code) /\ Identified(code') /\ Len(code') = n - 1 /\ Identified(snapshot)
        /\ FoldsFrom(code, at, p, live) /\ c.op = "addi" /\ a.op = "addi" /\ c.base = a.dest
        /\ \A k \in (p + 1)..(at - 1) : a.dest \notin Defines(code[k])
        /\ \A k \in 1..(n - 1) : k # at - 1 => code'[k] = code[Source(p, k)]
        /\ b.id = c.id /\ b.op = "addi" /\ b.base = a.base /\ b.dest = c.dest
        /\ a.dest # c.dest => a.dest \notin live
    BY <1>2 DEF Folded, BlockInv, BlockTyped, FoldsFrom
  <1>4. /\ p \in 1..n /\ at - 1 \in 1..(n - 1)
        /\ \A k \in 1..(p - 1) : k \in 1..(n - 1) /\ k # at - 1 /\ Source(p, k) = k /\ k \in 1..n
        /\ \A k \in p..(n - 1) : k \in 1..(n - 1) /\ Source(p, k) = k + 1 /\ k + 1 \in 1..n
    BY <1>1 DEF Source
  <1>5. /\ \A k \in 1..n : code[k] \in Instructions /\ code[k].id \in DOMAIN table
        /\ \A j, k \in 1..n : code[j].id = code[k].id => j = k
        /\ table \in [DOMAIN table -> Nat]
    BY <1>0, <1>3 DEF BlockInv, BlockTyped, Identified
  <1>6. /\ \A k \in 1..(p - 1) : code'[k] = code[k]
        /\ \A k \in p..(n - 1) : k # at - 1 => code'[k] = code[k + 1]
    BY <1>3, <1>4
  <1>7. RestMoved(code, code', at, n)
    <2> SUFFICES ASSUME NEW k \in (at + 1)..n PROVE code'[k - 1] = code[k]
      BY DEF RestMoved
    <2>1. k - 1 \in p..(n - 1) /\ k - 1 # at - 1 /\ (k - 1) + 1 = k
      BY <1>1
    <2> QED
      BY <1>6, <2>1
  <1>8. Decides(code, at, n, live, liveOut)
    BY <1>0 DEF BlockInv, LiveDecides
  <1> HIDE DEF a, b, c
  <1>16. /\ c \in Instructions /\ a \in Instructions /\ b \in Instructions
         /\ Defines(a) = {a.dest} /\ Defines(b) = Defines(c) /\ Defines(c) = {c.dest}
         /\ Reads(a) = {} /\ Reads(b) = {} /\ Reads(c) = {}
    <2>1. c \in Instructions /\ a \in Instructions /\ b \in Instructions
      BY <1>1, <1>3, <1>4, <1>5 DEF a, b, c, Identified
    <2>2. /\ Defines(a) = {a.dest} /\ Reads(a) = {} /\ Defines(b) = {b.dest} /\ Reads(b) = {}
      BY <1>3, <2>1, InstructionIs
    <2>3. Defines(c) = {c.dest} /\ Reads(c) = {}
      BY <1>3, <2>1, InstructionIs
    <2> QED
      BY <1>3, <2>1, <2>2, <2>3
  <1>9. EventsAreDecided' /\ events' \in Seq(Event) /\ ~NothingFolded(events', Len(events'))
    <2>1. events' = Recorded(TRUE) /\ at > 0 /\ code[at].op = "addi" /\ Decision.fires
      BY DEF Fold
    <2>2. /\ events' \in Seq(Event) /\ Len(events') = Len(events) + 1
          /\ events'[Len(events) + 1].fired
          /\ \A k \in 1..Len(events') :
               NothingFolded(events', k - 1) => Decided(snapshot, events'[k])
      BY <2>1, RecordedIsDecided
    <2>3. Len(events) + 1 \in 1..Len(events')
      BY <2>2 DEF BlockInv, BlockTyped
    <2> QED
      BY <1>1, <2>2, <2>3 DEF EventsAreDecided, NothingFolded
  <1>10. PrefixIsCaptured'
    BY <1>9 DEF PrefixIsCaptured
  <1>11. /\ DOMAIN table' = DOMAIN table /\ table' \in [DOMAIN table' -> Nat]
         /\ table'[c.id] = table[a.id]
         /\ \A id \in DOMAIN table : id # c.id => table'[id] = table[id]
    <2>1. c.id \in DOMAIN table /\ table[a.id] \in Nat
      BY <1>1, <1>4, <1>5 DEF a, c
    <2>2. table' = [table EXCEPT ![c.id] = table[a.id]]
      BY <1>2 DEF a, c
    <2> QED
      BY <1>5, <2>1, <2>2
  <1>12. BlockTyped'
    <2>1. \A k \in 1..Len(code') : code'[k].id \in DOMAIN table'
      <3> SUFFICES ASSUME NEW k \in 1..(n - 1) PROVE code'[k].id \in DOMAIN table
        BY <1>3, <1>11
      <3>1. CASE k = at - 1
        BY <1>1, <1>3, <1>5, <3>1 DEF b, c
      <3>2. CASE k # at - 1
        <4>1. Source(p, k) \in 1..n
          BY <1>4 DEF Source
        <4> QED
          BY <1>3, <1>5, <3>2, <4>1
      <3> QED
        BY <3>1, <3>2
    <2>2. at' \in 0..Len(code')
      BY <1>1, <1>3
    <2> QED
      BY <1>1, <1>3, <1>9, <1>11, <2>1, <2>2 DEF BlockInv, BlockTyped
  <1>13. LiveDecides'
    <2>1. Decides(code', at - 1, n - 1, live, liveOut)
      BY <1>1, <1>7, <1>8, MovedDecides
    <2> QED
      BY <1>1, <1>3, <2>1 DEF LiveDecides
  <1>17. UsedIsLive'
    <2>1. UsesLive(code', at - 1, n - 1, live)
      BY <1>0, <1>1, <1>7, MovedUses DEF BlockInv, UsedIsLive
    <2> QED
      BY <1>1, <1>3, <2>1 DEF UsedIsLive
  <1>14. TableIsNearest'
    <2> SUFFICES ASSUME NEW k \in 1..(n - 1), code'[k].op = "addi"
                 PROVE  Nearest(code', k, table'[code'[k].id])
      BY <1>3 DEF TableIsNearest
    <2>1. CASE k # at - 1
      <3> DEFINE m == Source(p, k)
                 x == table[code[m].id]
      <3>1. m \in 1..n /\ m # at
        BY <1>1, <1>4, <2>1 DEF Source
      <3>2. code'[k] = code[m] /\ code[m].op = "addi" /\ code[m] \in Instructions
        BY <1>3, <1>5, <2>1, <3>1
      <3>3. table'[code'[k].id] = x
        BY <1>1, <1>5, <1>11, <3>1, <3>2 DEF c
      <3>4. Nearest(code, m, x)
        BY <1>0, <3>1, <3>2 DEF BlockInv, TableIsNearest
      <3>5. \A j \in 1..(n - 1) : /\ code'[j].id = code[Source(p, j)].id
                                  /\ Defines(code'[j]) = Defines(code[Source(p, j)])
        <4> TAKE j \in 1..(n - 1)
        <4>1. CASE j = at - 1
          <5>1. Source(p, j) = at
            BY <1>1, <4>1 DEF Source
          <5> QED
            BY <1>3, <1>16, <4>1, <5>1 DEF b, c
        <4>2. CASE j # at - 1
          BY <1>3, <4>2
        <4> QED
          BY <4>1, <4>2
      <3>6. ASSUME p < m, code[m].base \in Defines(code[p])
            PROVE  \E j \in (p + 1)..(m - 1) : code[m].base \in Defines(code[j])
        <4>1. code[m].base = a.dest /\ a.dest \in Uses(code[m])
          BY <1>16, <3>2, <3>6, InstructionIs DEF a
        <4> HIDE DEF m
        <4>2. m > at
          <5>1. m < at => m \in (p + 1)..(at - 1)
            BY <1>1, <3>1, <3>6
          <5> QED
            BY <1>1, <1>3, <3>1, <4>1, <5>1 DEF FoldsFrom, a
        <4>3. CASE a.dest = c.dest
          <5>1. at \in (p + 1)..(m - 1) /\ a.dest \in Defines(code[at])
            BY <1>1, <1>16, <3>1, <4>2, <4>3 DEF c
          <5> QED
            BY <4>1, <5>1
        <4>4. CASE a.dest # c.dest
          <5>1. a.dest \notin live /\ m \in (at + 1)..n
            BY <1>1, <1>3, <3>1, <4>2, <4>4
          <5>2. PICK j \in (at + 1)..(m - 1) : a.dest \in Defines(code[j])
            BY <1>0, <4>1, <5>1 DEF BlockInv, UsedIsLive, UsesLive
          <5>3. j \in (p + 1)..(m - 1)
            BY <1>1
          <5> QED
            BY <4>1, <5>2, <5>3
        <4> QED
          BY <4>3, <4>4
      <3>7. code'[k].base = code[m].base
        BY <3>2
      <3> HIDE DEF x
      <3>8. Nearest(code', k, x)
        BY <1>4, <3>4, <3>5, <3>6, <3>7, NearestWithout
      <3> QED
        BY <3>3, <3>8
    <2>3. CASE k = at - 1
      <3> DEFINE x == table[a.id]
      <3>1. code'[k] = b /\ table'[b.id] = x
        BY <1>3, <1>11, <2>3 DEF b
      <3>2. Nearest(code, p, x)
        BY <1>0, <1>3, <1>4 DEF BlockInv, TableIsNearest, a
      <3> HIDE DEF x
      <3>3. ASSUME NEW j \in p..(k - 1) PROVE a.base \notin Defines(code'[j])
        <4>1. j + 1 \in (p + 1)..(at - 1) /\ j \in p..(n - 1) /\ j # at - 1
          BY <1>1, <2>3
        <4>2. code'[j] = code[j + 1] /\ a.base \notin Defines(code[j + 1])
          BY <1>3, <1>6, <4>1 DEF FoldsFrom, a
        <4> QED
          BY <4>2
      <3>4. CASE x = 0 /\ \A j \in 1..(p - 1) : a.base \notin Defines(code[j])
        <4>1. ASSUME NEW j \in 1..(k - 1) PROVE a.base \notin Defines(code'[j])
          <5>1. j \in 1..(p - 1) \/ j \in p..(k - 1)
            OBVIOUS
          <5> QED
            BY <1>6, <3>3, <3>4, <5>1
        <4> QED
          BY <1>3, <3>1, <3>4, <4>1 DEF Nearest
      <3>5. CASE \E j \in 1..(p - 1) : /\ x = code[j].id /\ a.base \in Defines(code[j])
                                       /\ \A i \in (j + 1)..(p - 1) : a.base \notin Defines(code[i])
        <4>1. PICK j \in 1..(p - 1) : /\ x = code[j].id /\ a.base \in Defines(code[j])
                                      /\ \A i \in (j + 1)..(p - 1) : a.base \notin Defines(code[i])
          BY <3>5
        <4>2. ASSUME NEW i \in (j + 1)..(k - 1) PROVE a.base \notin Defines(code'[i])
          <5>1. i \in p..(k - 1) \/ (i \in (j + 1)..(p - 1) /\ i \in 1..(p - 1))
            OBVIOUS
          <5> QED
            BY <1>6, <3>3, <4>1, <5>1
        <4>3. j \in 1..(k - 1) /\ code'[j] = code[j]
          BY <1>6, <2>3
        <4> QED
          BY <1>3, <3>1, <4>1, <4>2, <4>3 DEF Nearest
      <3> QED
        BY <3>2, <3>4, <3>5 DEF Nearest, a
    <2> QED
      BY <2>1, <2>3
  <1>15. FoldsKeepTheBlock'
    <2> DEFINE g == Values(code)
               h == Values(code')
    <2>1. Runs(g, code, 0, n) /\ g[0] = Entry
      BY <1>0, <1>3, ValuesRun
    <2>2. Runs(h, code', 0, n - 1) /\ h[0] = Entry
      <3>1. n - 1 \in Nat /\ n - 1 = Len(code')
        BY <1>1, <1>3
      <3> QED
        BY <1>3, <3>1, ValuesRun
    <2> HIDE DEF g, h
    <2>3. FoldedRuns(code, code', n, at, p, live, g, h)
      BY <1>1, <1>2, <2>1, <2>2 DEF FoldedRuns
    <2>4. ApartBetween(code, at, p, g, h)
      BY <2>3, FoldedBetween
    <2>5. \A r \in live : g[at][r] = h[at - 1][r]
      <3>1. live \in SUBSET Registers
        BY DEF BlockInv, BlockTyped
      <3> QED
        BY <2>3, <3>1, FoldedAt
    <2>6. SameRestMoved(g, h, code, at, n, liveOut)
      <3>1. Runs(g, code, at, n) /\ Runs(h, code', at - 1, n - 1)
        <4>1. /\ \A k \in at..n : k \in 0..n
              /\ \A k \in (at + 1)..n : k \in (0 + 1)..n
              /\ \A k \in (at - 1)..(n - 1) : k \in 0..(n - 1)
              /\ \A k \in ((at - 1) + 1)..(n - 1) : k \in (0 + 1)..(n - 1)
          BY <1>1
        <4> QED
          BY <2>1, <2>2, <4>1 DEF Runs
      <3> QED
        BY <1>1, <1>7, <1>8, <2>5, <3>1, MovedRest
    <2>7. ASSUME NEW k \in 1..(n - 1)
          PROVE  /\ code'[k].id = code[Source(p, k)].id
                 /\ Reads(code'[k]) = Reads(code[Source(p, k)])
      <3>1. CASE k = at - 1
        <4>1. Source(p, k) = at
          BY <1>1, <3>1 DEF Source
        <4> QED
          BY <1>3, <1>16, <3>1, <4>1 DEF b, c
      <3>2. CASE k # at - 1
        BY <1>3, <3>2
      <3> QED
        BY <3>1, <3>2
    <2>8. ASSUME NEW k \in 1..(n - 1), NEW r \in Reads(code'[k])
          PROVE  h[k - 1][r] = g[Source(p, k) - 1][r]
      <3>1. CASE k < p
        <4>1. Source(p, k) = k /\ k - 1 \in 0..(p - 1)
          BY <3>1 DEF Source
        <4> QED
          BY <2>4, <4>1 DEF ApartBetween
      <3>2. CASE ~(k < p) /\ k < at - 1
        <4>1. /\ Source(p, k) = k + 1 /\ k + 1 \in (p + 1)..(at - 1) /\ k \in p..(at - 1)
              /\ (k + 1) - 1 = k /\ k + 1 \in 1..n
          BY <1>1, <3>2 DEF Source
        <4>2. r \in Reads(code[k + 1])
          BY <2>7, <2>8, <4>1
        <4>3. r \in Registers \ {a.dest}
          <5>1. a.dest \notin Uses(code[k + 1])
            BY <1>3, <4>1 DEF FoldsFrom, a
          <5> QED
            BY <1>5, <4>1, <4>2, <5>1, InstructionIs
        <4>5. Apart(g[k], h[k - 1], a.dest)
          BY <2>4, <4>1 DEF ApartBetween, a
        <4> QED
          BY <4>1, <4>3, <4>5 DEF Apart
      <3>3. CASE k = at - 1
        BY <1>16, <2>8, <3>3 DEF b
      <3>4. CASE k > at - 1
        <4>1. Source(p, k) = k + 1 /\ k + 1 \in (at + 1)..n /\ (k + 1) - 1 = k
          BY <1>1, <3>4 DEF Source
        <4>2. r \in Reads(code[k + 1])
          BY <2>7, <2>8, <4>1
        <4>3. g[(k + 1) - 1][r] = h[((k + 1) - 1) - 1][r]
          BY <2>6, <4>1, <4>2 DEF SameRestMoved
        <4> QED
          BY <4>1, <4>3
      <3> QED
        BY <1>1, <3>1, <3>2, <3>3, <3>4
    <2>9. Result(code', liveOut) = Result(code, liveOut)
      <3>1. Reads(code[p]) = {} /\ \A r \in liveOut : g[n][r] = h[n - 1][r]
        BY <1>16, <2>6 DEF SameRestMoved, a
      <3>2. SameButFor(code, code', n, p, liveOut)
        BY <1>0, <1>3, <1>4, <2>7, <2>8, <3>1 DEF SameButFor, g, h
      <3> QED
        BY <3>2, SameResult
    <2> QED
      BY <1>1, <2>9 DEF BlockInv, FoldsKeepTheBlock
  <1> QED
    BY <1>9, <1>10, <1>12, <1>13, <1>14, <1>15, <1>17 DEF BlockInv

(***************************************************************************)
(* The theorems.                                                           *)
(***************************************************************************)
LEMMA Invariant == Spec => []BlockInv
  <1>1. BlockInv /\ [Next]_vars => BlockInv'
    BY StepBackInvariant, DeleteDeadInvariant, FoldInvariant, StutterInvariant DEF Next
  <1> QED
    BY <1>1, InitInvariant, PTL DEF Spec

(* The rule's folds and the deletions leave what the block computes alone. *)
LEMMA FoldsPreserveTheBlock == Spec => []FoldsKeepTheBlock
  <1>1. BlockInv => FoldsKeepTheBlock
    BY DEF BlockInv
  <1> QED
    BY <1>1, Invariant, PTL

LEMMA InvariantIsCurrent == BlockInv => TableStaysCurrent
  <1> SUFFICES ASSUME BlockInv, NEW n \in DOMAIN code, code[n].op = "addi"
               PROVE  table[code[n].id] = TableOf(code)[code[n].id]
    BY DEF TableStaysCurrent
  <1>1. PICK s \in Nat : s = Len(code)
    BY DEF BlockInv, BlockTyped, Identified
  <1>2. Identified(code) /\ n \in 1..s
    BY <1>1 DEF BlockInv, BlockTyped, Identified
  <1>3. Nearest(code, n, table[code[n].id])
    BY <1>1, <1>2 DEF BlockInv, TableIsNearest
  <1>4. Nearest(code, n, TableOf(code)[code[n].id])
    BY <1>1, <1>2, TableOfIs
  <1> QED
    BY <1>1, <1>2, <1>3, <1>4, NearestIsOne

LEMMA InvariantErrsOneWay == BlockInv => InferenceErrsOneWay
  <1> SUFFICES ASSUME BlockInv, NEW n \in DOMAIN code, code[n].op = "addi", NEW R
               PROVE  LET c        == code[n]
                          inferred == Evaluate(code, c, InferredDefinition(code, c), R)
                          decided  == Evaluate(code, c, table[c.id], R)
                      IN  /\ decided.fires => inferred.rewrite = decided.rewrite
                          /\ inferred.fires => (decided.fires <=> ~DefinedBetween(code, c))
    BY DEF InferenceErrsOneWay
  <1> DEFINE c == code[n]
             x == table[c.id]
             y == InferredDefinition(code, c)
             decided == Evaluate(code, c, x, R)
  <1>1. n \in 1..Len(code) /\ Identified(code) /\ Nearest(code, n, x)
    BY DEF BlockInv, BlockTyped, TableIsNearest, Identified
  <1>2. \/ ~DefinedBetween(code, c) /\ y = x
        \/ DefinedBetween(code, c) /\ RejectedBy(code, c, x, R) # "none"
    BY <1>1, InferredAgainstTable
  <1>3. decided.fires <=> RejectedBy(code, c, x, R) = "none"
    BY DEF Evaluate
  <1> HIDE DEF c, x, y, decided
  <1> QED
    BY <1>2, <1>3 DEF c, x, y, decided

LEMMA InvariantDecides == BlockInv => TraceDecidesTheFirstFold
  <1> SUFFICES ASSUME BlockInv PROVE TraceDecidesTheFirstFold
    OBVIOUS
  <1> SUFFICES ASSUME NEW n \in DOMAIN events, \A k \in 1..(n - 1) : ~events[k].fired
               PROVE  LET place == Place(snapshot, events[n].candidate)
                      IN  /\ ReplayTrace(snapshot, events)[n].fires = events[n].fired
                          /\ events[n].fired => ReplayStage(snapshot, {})[place].fires
    BY DEF TraceDecidesTheFirstFold
  <1> DEFINE e == events[n]
             place == Place(snapshot, e.candidate)
  <1>1. n \in 1..Len(events) /\ e \in Event /\ Identified(snapshot)
    BY DEF BlockInv, BlockTyped
  <1>2. Decided(snapshot, e)
    BY <1>1 DEF BlockInv, EventsAreDecided, NothingFolded
  <1>3. PICK s \in Nat : s = Len(snapshot)
    BY <1>1 DEF Identified
  <1>4. PICK m \in 1..s :
           LET c == snapshot[m]
           IN  /\ c.id = e.candidate /\ c.op = "addi"
               /\ e.fired <=> RejectedBy(snapshot, c, e.definition, e.live) = "none"
               /\ e.fired => RejectedBy(snapshot, c, InferredDefinition(snapshot, c), {}) = "none"
    BY <1>2, <1>3 DEF Decided
  <1>5. place = m /\ Instruction(snapshot, e.candidate) = snapshot[m]
    BY <1>1, <1>3, <1>4, PlaceOfOne
  <1>6. ReplayTrace(snapshot, events)[n].fires
          = (RejectedBy(snapshot, snapshot[m], e.definition, e.live) = "none")
    <2>1. ReplayTrace(snapshot, events)[n]
            = Evaluate(snapshot, snapshot[m], e.definition, e.live)
      BY <1>4, <1>5 DEF ReplayTrace
    <2> QED
      BY <2>1 DEF Evaluate
  <1>7. ReplayStage(snapshot, {})[m].fires
          = (RejectedBy(snapshot, snapshot[m], InferredDefinition(snapshot, snapshot[m]), {}) = "none")
    <2>1. m \in {k \in DOMAIN snapshot : snapshot[k].op = "addi"}
      BY <1>1, <1>3, <1>4 DEF Identified
    <2>2. ReplayStage(snapshot, {})[m]
            = Evaluate(snapshot, snapshot[m], InferredDefinition(snapshot, snapshot[m]), {})
      BY <2>1 DEF ReplayStage
    <2> QED
      BY <2>2 DEF Evaluate
  <1>8. e.fired \in BOOLEAN
    BY <1>1 DEF Event
  <1> QED
    BY <1>4, <1>5, <1>6, <1>7, <1>8

(* At every point of the walk the table that was recorded once says what   *)
(* one built from the code of that moment would.                           *)
LEMMA TableIsNeverStale == Spec => []TableStaysCurrent
  BY Invariant, InvariantIsCurrent, PTL

(* Both: folds change neither what the block computes nor what the table   *)
(* should say.                                                             *)
THEOREM FoldsAreSafe == Spec => []FoldsAreSound
  BY FoldsPreserveTheBlock, TableIsNeverStale, PTL DEF FoldsAreSound

(* The tool's inference errs one way, by folding over a definition that is *)
(* not the first operand of its instruction.                               *)
THEOREM InferenceOnlyOverlooks == Spec => []InferenceErrsOneWay
  BY Invariant, InvariantErrsOneWay, PTL

(* Up to the first fold the trace replayed on the captured stage decides   *)
(* as the rule did.                                                        *)
THEOREM TraceReplays == Spec => []TraceDecidesTheFirstFold
  BY Invariant, InvariantDecides, PTL
-----------------------------------------------------------------------------
(***************************************************************************)
(* Select orders.                                                          *)
(***************************************************************************)
Orders(S, o) ==
  /\ o \in [1..Cardinality(S) -> S] /\ o \in Seq(S) /\ Len(o) = Cardinality(S)
  /\ Range(o) = S
  /\ \A i, j \in 1..Cardinality(S) : o[i] = o[j] => i = j
  /\ \A r \in S : \E i \in 1..Cardinality(S) : o[i] = r

LEMMA EveryElementIsPlaced ==
    ASSUME NEW S, IsFiniteSet(S), NEW o \in SetToSeqs(S)
    PROVE  Orders(S, o) /\ Cardinality(S) \in Nat
  <1> DEFINE N == Cardinality(S)
  <1>1. N \in Nat
    BY FS_CardinalityType
  <1>2. o \in [1..N -> S] /\ \A i, j \in 1..N : o[i] = o[j] => i = j
    BY DEF SetToSeqs
  <1>3. o \in Injection(1..N, S)
    BY <1>2 DEF Injection, IsInjective
  <1>4. IsFiniteSet(1..N) /\ Cardinality(1..N) = N
    BY <1>1, FS_Interval
  <1>5. o \in Surjection(1..N, S)
    BY <1>3, <1>4, FS_Injection
  <1>6. \A r \in S : \E i \in 1..N : o[i] = r
    BY <1>5 DEF Surjection
  <1>7. o \in Seq(S) /\ Len(o) = N
    BY <1>1, <1>2
  <1>8. Range(o) = S
    BY <1>2, <1>6 DEF Range
  <1> QED
    BY <1>1, <1>2, <1>6, <1>7, <1>8 DEF Orders

LEMMA OrdersAreListed ==
    ASSUME NEW S, IsFiniteSet(S), NEW o, o \in Seq(S), Distinct(o), Range(o) = S
    PROVE  o \in SetToSeqs(S)
  <1> DEFINE N == Len(o)
  <1>1. N \in Nat /\ o \in [1..N -> S] /\ \A i, j \in 1..N : o[i] = o[j] => i = j
    BY DEF Distinct
  <1>2. o \in Bijection(1..N, S)
    BY <1>1 DEF Bijection, Injection, IsInjective, Surjection, Range
  <1>3. Cardinality(S) = N
    <2>1. IsFiniteSet(1..N) /\ Cardinality(1..N) = N
      BY <1>1, FS_Interval
    <2> HIDE DEF N
    <2> QED
      BY <2>1, <1>2, FS_Bijection DEF ExistsBijection
  <1> QED
    BY <1>1, <1>3 DEF SetToSeqs

LEMMA PositionIsUnique ==
    ASSUME NEW S, NEW o, Orders(S, o), NEW i \in 1..Cardinality(S)
    PROVE  Position(o, o[i]) = i
  <1>1. DOMAIN o = 1..Cardinality(S)
    BY DEF Orders
  <1>2. \A j \in DOMAIN o : o[j] = o[i] <=> j = i
    BY <1>1 DEF Orders
  <1> QED
    BY <1>1, <1>2 DEF Position

LEMMA PairsInOrder ==
    ASSUME NEW o, NEW D, DOMAIN o = D, NEW p
    PROVE  p \in Precedes(o) <=> \E i, j \in D : i < j /\ p = <<o[i], o[j]>>
  <1>1. Precedes(o) = {<<o[q[1]], o[q[2]]>> : q \in {q \in D \X D : q[1] < q[2]}}
    BY DEF Precedes
  <1>2. ASSUME NEW q \in D \X D PROVE q[1] \in D /\ q[2] \in D
    OBVIOUS
  <1>3. ASSUME NEW i \in D, NEW j \in D PROVE <<i, j>> \in D \X D /\ <<i, j>>[1] = i /\ <<i, j>>[2] = j
    OBVIOUS
  <1> QED
    BY <1>1, <1>2, <1>3

(* A reversed pair is one that the baseline does not have.                 *)
LEMMA ReversalsAreNew ==
    ASSUME NEW S, Cardinality(S) \in Nat, NEW o, Orders(S, o), NEW b, Orders(S, b)
    PROVE  /\ Inversions(o, b) = Precedes(o) \ Precedes(b)
           /\ \A p \in Precedes(o) : p \in Precedes(b) \/ <<p[2], p[1]>> \in Precedes(b)
  <1> DEFINE D == 1..Cardinality(S)
  <1>1. /\ DOMAIN o = D /\ DOMAIN b = D /\ Range(o) = S
        /\ \A i \in D : o[i] \in S /\ b[i] \in S
        /\ \A r \in S : (\E i \in D : o[i] = r) /\ (\E i \in D : b[i] = r)
    BY DEF Orders
  <1>2. \A i \in D : Position(o, o[i]) = i /\ Position(b, b[i]) = i
    BY PositionIsUnique
  <1> HIDE DEF D
  <1>3. ASSUME NEW p PROVE p \in Precedes(o) <=> \E i, j \in D : i < j /\ p = <<o[i], o[j]>>
    BY <1>1, PairsInOrder
  <1>4. ASSUME NEW p PROVE p \in Precedes(b) <=> \E i, j \in D : i < j /\ p = <<b[i], b[j]>>
    BY <1>1, PairsInOrder
  <1> USE DEF D
  <1>5. \A x, y \in S : <<x, y>> \in Precedes(o) <=> Position(o, x) < Position(o, y)
    BY <1>1, <1>2, <1>3
  <1>6. \A x, y \in S : <<x, y>> \in Precedes(b) <=> Position(b, x) < Position(b, y)
    BY <1>1, <1>2, <1>4
  <1>7. \A x, y \in S : x # y => Position(b, x) < Position(b, y) \/ Position(b, y) < Position(b, x)
    BY <1>1, <1>2
  <1>8. \A p \in Precedes(o) : \E x, y \in S : p = <<x, y>> /\ x # y
    BY <1>1, <1>2, <1>3
  <1>9. \A p : p \in Inversions(o, b) <=>
          \E x, y \in S : /\ p = <<x, y>>
                          /\ Position(o, x) < Position(o, y) /\ Position(b, x) > Position(b, y)
    <2>1. Inversions(o, b) = {p \in S \X S : /\ Position(o, p[1]) < Position(o, p[2])
                                             /\ Position(b, p[1]) > Position(b, p[2])}
      BY <1>1 DEF Inversions
    <2>2. ASSUME NEW p \in S \X S PROVE p[1] \in S /\ p[2] \in S /\ p = <<p[1], p[2]>>
      OBVIOUS
    <2>3. ASSUME NEW x \in S, NEW y \in S
          PROVE  <<x, y>> \in S \X S /\ <<x, y>>[1] = x /\ <<x, y>>[2] = y
      OBVIOUS
    <2> QED
      BY <2>1, <2>2, <2>3
  <1>10. \A x \in S : Position(b, x) \in Nat /\ Position(o, x) \in Nat
    BY <1>1, <1>2
  <1>11. \A p \in Precedes(o) : p \in Precedes(b) \/ <<p[2], p[1]>> \in Precedes(b)
    BY <1>6, <1>7, <1>8
  <1>12. ASSUME NEW p PROVE p \in Inversions(o, b) <=> p \in Precedes(o) /\ p \notin Precedes(b)
    <2>1. ASSUME p \in Inversions(o, b) PROVE p \in Precedes(o) /\ p \notin Precedes(b)
      BY <2>1, <1>5, <1>6, <1>9, <1>10
    <2>2. ASSUME p \in Precedes(o), p \notin Precedes(b) PROVE p \in Inversions(o, b)
      <3>1. PICK x, y \in S : p = <<x, y>> /\ x # y
        BY <2>2, <1>8
      <3> QED
        BY <3>1, <2>2, <1>5, <1>6, <1>7, <1>9
    <2> QED
      BY <2>1, <2>2
  <1> QED
    BY <1>11, <1>12

LEMMA InversionsAreCounted ==
    ASSUME NEW S, IsFiniteSet(S), NEW o, Orders(S, o), NEW b
    PROVE  Cardinality(Inversions(o, b)) \in Nat
  <1>1. Inversions(o, b) \subseteq S \X S
    BY DEF Inversions, Orders
  <1>2. IsFiniteSet(S \X S)
    BY FS_Product
  <1> QED
    BY <1>1, <1>2, FS_Subset, FS_CardinalityType

LEMMA FirstOfScore ==
    ASSUME NEW S, NEW o \in Seq(S), NEW b
    PROVE  /\ OrderScore(o, b)[1] = Cardinality(Inversions(o, b))
           /\ DOMAIN OrderScore(o, b) = 1..(3 + Len(o))
  <1>1. ASSUME NEW x, NEW y, NEW z
        PROVE  (<<x, y, z>> \o o)[1] = x /\ DOMAIN (<<x, y, z>> \o o) = 1..(3 + Len(o))
    OBVIOUS
  <1> QED
    BY <1>1 DEF OrderScore

(* What is smaller as a tuple is not larger in its first component.        *)
LEMMA FirstOfTheSmaller ==
    ASSUME NEW a, NEW b, NEW n \in Nat, DOMAIN a = 1..n, n > 0, a[1] \in Int, b[1] \in Int
    PROVE  /\ Lexicographic(a, b) => a[1] <= b[1]
           /\ ~Lexicographic(a, b) => b[1] <= a[1]
  <1>1. ASSUME NEW m \in 1..n, a[m] < b[m], \A k \in 1..(m - 1) : a[k] = b[k]
        PROVE  a[1] <= b[1]
    BY <1>1
  <1>2. ASSUME a[1] < b[1] PROVE Lexicographic(a, b)
    BY <1>2 DEF Lexicographic
  <1> QED
    BY <1>1, <1>2 DEF Lexicographic

(***************************************************************************)
(* The best of what was tried, by a score of which the first component     *)
(* counts.                                                                 *)
(***************************************************************************)
Scored(U, score) ==
  /\ DOMAIN score = U
  /\ \A x \in U : score[x][1] \in Nat /\ \E n \in Nat : n > 0 /\ DOMAIN score[x] = 1..n

IsBest(found, score, b) ==
  IF found = {} THEN b = <<>>
  ELSE /\ b[2] \in found /\ b = <<score[b[2]], b[2]>>
       /\ \A x \in found : score[b[2]][1] <= score[x][1]

LEMMA BestOfMore ==
    ASSUME NEW U, NEW score, Scored(U, score), NEW found, found \subseteq U,
           NEW h \in U, NEW b, IsBest(found, score, b),
           NEW c, c = IF b = <<>> \/ Lexicographic(score[h], b[1]) THEN <<score[h], h>> ELSE b
    PROVE  IsBest(found \cup {h}, score, c)
  <1> DEFINE first(x) == score[x][1]
  <1>1. \A x \in found \cup {h} : first(x) \in Nat
    BY DEF Scored
  <1>2. CASE found = {}
    <2>1. b = <<>>
      BY <1>2 DEF IsBest
    <2>2. c = <<score[h], h>> /\ c[2] = h
      BY <2>1
    <2>3. \A x \in found \cup {h} : first(h) <= first(x)
      BY <1>1, <1>2
    <2> QED
      BY <2>2, <2>3 DEF IsBest
  <1>3. CASE found # {}
    <2> DEFINE k == b[2]
    <2>1. k \in found /\ b = <<score[k], k>> /\ \A x \in found : first(k) <= first(x)
      BY <1>3 DEF IsBest
    <2>2. b # <<>> /\ b[1] = score[k]
      BY <2>1
    <2>3. /\ Lexicographic(score[h], b[1]) => first(h) <= first(k)
          /\ ~Lexicographic(score[h], b[1]) => first(k) <= first(h)
      <3>1. PICK n \in Nat : n > 0 /\ DOMAIN score[h] = 1..n
        BY DEF Scored
      <3>2. score[h][1] \in Int /\ score[k][1] \in Int
        BY <1>1, <2>1
      <3> HIDE DEF k
      <3> QED
        BY <3>1, <3>2, <2>2, FirstOfTheSmaller
    <2>4. CASE Lexicographic(score[h], b[1])
      <3>1. c = <<score[h], h>> /\ c[2] = h
        BY <2>4
      <3>2. \A x \in found \cup {h} : first(h) <= first(x)
        BY <1>1, <2>1, <2>3, <2>4
      <3> QED
        BY <3>1, <3>2 DEF IsBest
    <2>5. CASE ~Lexicographic(score[h], b[1])
      <3>1. c = b
        BY <2>2, <2>5
      <3>2. \A x \in found \cup {h} : first(k) <= first(x)
        BY <1>1, <2>1, <2>3, <2>5
      <3> QED
        BY <3>1, <3>2, <2>1 DEF IsBest
    <2> QED
      BY <2>4, <2>5
  <1> QED
    BY <1>2, <1>3

(***************************************************************************)
(* The search for a select order.                                          *)
(***************************************************************************)
PrefixOrders == SetToSeqs(Range(prefix))

Meets(o) == Hits(Selection(capture.snapshot, o \o rest), Targets)

Solved == {o \in PrefixOrders \ pending : families = {} /\ Meets(o)}

PrefixPairs == Precedes(prefix) \cup {<<p[2], p[1]>> : p \in Precedes(prefix)}

OrderScores == [o \in PrefixOrders |-> OrderScore(o, prefix)]

Asked ==
  /\ capture \in Captures /\ query \in Queries
  /\ IsFiniteSet(Range(prefix)) /\ prefix \in PrefixOrders

OrdersTried ==
  /\ families \in {{}, {{}}} /\ pending \subseteq PrefixOrders
  /\ families # {} => pending = {}
  /\ status # "searching" => /\ families = {} /\ pending = {}
                             /\ status = "reachable" <=> best # <<>>
  /\ IsBest(Solved, OrderScores, best)
  /\ always = {p \in PrefixPairs : \A o \in Solved : p \in Precedes(o)}

OrderInv == Asked /\ (query.kind = "order" => OrdersTried)

LEMMA FrontPart ==
    ASSUME NEW S, NEW o \in Seq(S), NEW m \in 1..Len(o)
    PROVE  /\ SubSeq(o, 1, m) \in Seq(S) /\ Len(SubSeq(o, 1, m)) = m
           /\ \A i \in 1..m : SubSeq(o, 1, m)[i] = o[i]
  <1>1. m \in Nat /\ Len(o) \in Nat /\ o \in [1..Len(o) -> S]
    OBVIOUS
  <1>2. SubSeq(o, 1, m) = [i \in 1..m |-> o[i]]
    BY <1>1
  <1>3. [i \in 1..m |-> o[i]] \in [1..m -> S]
    BY <1>1
  <1>4. [i \in 1..m |-> o[i]] \in Seq(S) /\ Len([i \in 1..m |-> o[i]]) = m
    BY <1>1, <1>3
  <1> QED
    BY <1>2, <1>4

LEMMA TargetsArePlaced ==
    ASSUME SearchInit
    PROVE  Asked
  <1> DEFINE s == capture.snapshot
             own == [r \in DOMAIN s.parent |-> r]
             q == RemovalOrder(s, capture.limit, own)
             o == Baseline(capture)
             ends == {Position(o, r) : r \in DOMAIN Targets}
             last == Greatest(ends)
  <1>1. /\ capture \in Captures /\ query \in Queries
        /\ IsSnapshot(s) /\ DOMAIN Targets # {} /\ DOMAIN Targets \subseteq s.active
    BY CapturesAssumption, QueriesAssumption DEF SearchInit, Targets
  <1>2. AreRanks(s, own)
    BY <1>1 DEF IsSnapshot, Nodes, AreRanks
  <1>3. q \in Seq(s.active) /\ Distinct(q) /\ ToSet(q) = s.active
    BY <1>1, <1>2, RemovalIsAnOrder DEF IsOrder
  <1>4. o = Reverse(q)
    BY DEF Baseline
  <1>5. /\ o \in Seq(s.active) /\ Len(o) = Len(q) /\ ToSet(o) = s.active
        /\ \A i \in 1..Len(q) : o[i] = q[Len(q) - i + 1]
    BY <1>3, <1>4, ReverseOfSequence
  <1> DEFINE N == Len(o)
  <1>6. N \in Nat /\ DOMAIN o = 1..N
    BY <1>5
  <1>7. ASSUME NEW i \in 1..N, NEW j \in 1..N, o[i] = o[j] PROVE i = j
    <2>1. /\ N - i + 1 \in 1..N /\ N - j + 1 \in 1..N
          /\ o[i] = q[N - i + 1] /\ o[j] = q[N - j + 1]
      BY <1>5, <1>6
    <2>2. N - i + 1 = N - j + 1
      BY <2>1, <1>3, <1>5, <1>7 DEF Distinct
    <2> QED
      BY <2>2, <1>6
  <1>8. ASSUME NEW r \in DOMAIN Targets PROVE Position(o, r) \in 1..N
    <2>1. \E i \in 1..N : o[i] = r
      BY <1>1, <1>5, <1>6 DEF ToSet
    <2> QED
      BY <2>1, <1>6 DEF Position
  <1>9. ends # {} /\ ends \subseteq 1..N
    BY <1>1, <1>8
  <1>10. last \in ends
    <2>1. ends \subseteq 0..(N + 1) - 1 /\ N + 1 \in Nat
      BY <1>6, <1>9
    <2> HIDE DEF ends
    <2> QED
      BY <2>1, <1>9, GreatestIsMember
  <1>11. last \in 1..N
    BY <1>9, <1>10
  <1>12. prefix = SubSeq(o, 1, last)
    BY DEF SearchInit
  <1> HIDE DEF last, o
  <1>13. /\ prefix \in Seq(s.active) /\ Len(prefix) = last
         /\ \A i \in 1..last : prefix[i] = o[i]
    BY <1>5, <1>11, <1>12, FrontPart
  <1>14. Distinct(prefix)
    BY <1>7, <1>11, <1>13 DEF Distinct
  <1>15. IsFiniteSet(Range(prefix))
    <2>1. IsFiniteSet(s.active)
      BY <1>1, FS_Subset DEF IsSnapshot
    <2>2. Range(prefix) \subseteq s.active
      BY <1>13 DEF Range
    <2> QED
      BY <2>1, <2>2, FS_Subset
  <1>16. prefix \in Seq(Range(prefix))
    <2>1. last \in Nat /\ DOMAIN prefix = 1..last
      BY <1>6, <1>11, <1>13
    <2>2. prefix \in [1..last -> Range(prefix)]
      BY <1>13, <2>1 DEF Range
    <2> QED
      BY <2>1, <2>2
  <1> QED
    BY <1>1, <1>14, <1>15, <1>16, OrdersAreListed DEF Asked, PrefixOrders

LEMMA OrderSearchStarts ==
    ASSUME SearchInit
    PROVE  OrderInv
  <1>1. Asked
    BY TargetsArePlaced
  <1>2. ASSUME query.kind = "order" PROVE OrdersTried
    <2>1. families = {{}} /\ pending = {} /\ best = <<>> /\ status = "searching" /\ always = PrefixPairs
      BY <1>2 DEF SearchInit, PrefixPairs
    <2>2. Solved = {}
      BY <2>1 DEF Solved
    <2> QED
      BY <2>1, <2>2 DEF OrdersTried, IsBest
  <1> QED
    BY <1>1, <1>2 DEF OrderInv

LEMMA OrdersAreScored ==
    ASSUME Asked
    PROVE  /\ Scored(PrefixOrders, OrderScores)
           /\ \A o \in PrefixOrders : OrderScores[o][1] = Cardinality(Inversions(o, prefix))
  <1> DEFINE S == Range(prefix)
  <1>1. ASSUME NEW o \in PrefixOrders
        PROVE  /\ OrderScore(o, prefix)[1] = Cardinality(Inversions(o, prefix))
               /\ OrderScore(o, prefix)[1] \in Nat
               /\ \E n \in Nat : n > 0 /\ DOMAIN OrderScore(o, prefix) = 1..n
    <2>1. IsFiniteSet(S) /\ Orders(S, o) /\ o \in Seq(S)
      BY EveryElementIsPlaced DEF Asked, PrefixOrders, Orders
    <2>2. Cardinality(Inversions(o, prefix)) \in Nat
      BY <2>1, InversionsAreCounted
    <2>3. 3 + Len(o) \in Nat /\ 3 + Len(o) > 0
      BY <2>1
    <2> QED
      BY <2>1, <2>2, <2>3, FirstOfScore
  <1> QED
    BY <1>1 DEF Scored, OrderScores

LEMMA OrderIsTried ==
    ASSUME OrderInv, TryOrder
    PROVE  OrderInv'
  <1> DEFINE h == Hypothesis
             S == Range(prefix)
             score == OrderScore(h, prefix)
  <1>1. /\ query.kind = "order" /\ pending # {} /\ status = "searching"
        /\ UNCHANGED <<capture, query, prefix, rest, families, removed, exhaustive, status>>
        /\ pending' = pending \ {h}
    BY DEF TryOrder
  <1>2. Asked /\ OrdersTried /\ h \in pending
    BY <1>1 DEF OrderInv, Hypothesis
  <1>3. families = {} /\ h \in PrefixOrders /\ h \notin Solved
    BY <1>1, <1>2 DEF OrdersTried, Solved
  <1>4. PrefixOrders' = PrefixOrders /\ PrefixPairs' = PrefixPairs /\ Asked'
    BY <1>1, <1>2 DEF PrefixOrders, PrefixPairs, Asked
  <1>5. Solved' = IF Meets(h) THEN Solved \cup {h} ELSE Solved
    BY <1>1, <1>2, <1>3, <1>4 DEF Solved, OrdersTried, Meets, Targets
  <1>6. IF Meets(h)
        THEN /\ best' = IF best = <<>> \/ Lexicographic(score, best[1]) THEN <<score, h>> ELSE best
             /\ always' = always \cap Precedes(h)
        ELSE best' = best /\ always' = always
    BY DEF TryOrder, Meets
  <1> HIDE DEF h
  <1>7. OrderScores' = OrderScores /\ OrderScores[h] = score
    BY <1>1, <1>3, <1>4 DEF OrderScores
  <1>8. IsBest(Solved', OrderScores', best')
    <2>1. CASE ~Meets(h)
      <3>1. Solved' = Solved /\ best' = best
        BY <2>1, <1>5, <1>6
      <3>2. IsBest(Solved, OrderScores, best)
        BY <1>2 DEF OrdersTried
      <3> QED
        BY <3>1, <3>2, <1>7
    <2>2. CASE Meets(h)
      <3>1. Solved' = Solved \cup {h} /\ Solved \subseteq PrefixOrders /\ IsBest(Solved, OrderScores, best)
        BY <2>2, <1>2, <1>5 DEF OrdersTried, Solved
      <3>2. Scored(PrefixOrders, OrderScores)
        BY <1>2, OrdersAreScored
      <3>3. best' = IF best = <<>> \/ Lexicographic(OrderScores[h], best[1])
                    THEN <<OrderScores[h], h>> ELSE best
        BY <2>2, <1>6, <1>7
      <3>4. IsBest(Solved \cup {h}, OrderScores, best')
        BY <3>1, <3>2, <3>3, <1>3, BestOfMore
      <3> QED
        BY <3>1, <3>4, <1>7
    <2> QED
      BY <2>1, <2>2
  <1>9. always' = {p \in PrefixPairs : \A o \in Solved' : p \in Precedes(o)}
    <2>1. always = {p \in PrefixPairs : \A o \in Solved : p \in Precedes(o)}
      BY <1>2 DEF OrdersTried
    <2>2. always' = IF Meets(h) THEN always \cap Precedes(h) ELSE always
      BY <1>6
    <2> QED
      BY <2>1, <2>2, <1>5
  <1>10. OrdersTried'
    BY <1>1, <1>2, <1>3, <1>4, <1>8, <1>9 DEF OrdersTried
  <1> QED
    BY <1>4, <1>10 DEF OrderInv

LEMMA OrderSearchGoesOn ==
    ASSUME OrderInv, [SearchNext]_questionVars
    PROVE  OrderInv'
  <1>1. CASE UNCHANGED questionVars
    BY <1>1 DEF questionVars, OrderInv, OrdersTried, Asked, Solved, OrderScores, PrefixOrders, PrefixPairs,
                Meets, Targets
  <1>2. CASE TryOrder
    BY <1>2, OrderIsTried
  <1>3. ASSUME UNCHANGED <<capture, query, prefix, rest>> PROVE Asked' /\ PrefixOrders' = PrefixOrders
    BY <1>3 DEF OrderInv, Asked, PrefixOrders
  <1>4. CASE TryRanks
    BY <1>3, <1>4 DEF TryRanks, OrderInv
  <1>5. CASE TryDegrees
    BY <1>3, <1>5 DEF TryDegrees, OrderInv
  <1>6. CASE NextFamily
    <2>1. UNCHANGED <<capture, query, prefix, rest, best, always, status>>
          /\ status = "searching" /\ pending = {} /\ families # {}
      BY <1>6 DEF NextFamily
    <2>2. ASSUME query.kind = "order" PROVE OrdersTried'
      <3>1. OrdersTried /\ families = {{}}
        BY <2>1, <2>2 DEF OrderInv, OrdersTried
      <3>2. removed' = {}
        BY <1>6, <3>1 DEF NextFamily
      <3>3. families' = {} /\ pending' = PrefixOrders
        BY <1>6, <2>2, <3>1, <3>2 DEF NextFamily, PrefixOrders
      <3>4. Solved = {} /\ Solved' = {} /\ PrefixPairs' = PrefixPairs /\ PrefixOrders' = PrefixOrders
        BY <2>1, <3>1, <3>3, <1>3 DEF Solved, PrefixPairs
      <3> QED
        BY <2>1, <3>1, <3>3, <3>4 DEF OrdersTried, IsBest
    <2> QED
      BY <2>1, <2>2, <1>3 DEF OrderInv
  <1>7. CASE Conclude
    <2>1. UNCHANGED <<capture, query, prefix, rest, families, removed, pending, best, always>>
          /\ status = "searching" /\ pending = {} /\ families = {}
      BY <1>7 DEF Conclude
    <2>2. ASSUME query.kind = "order" PROVE OrdersTried'
      <3>1. status' = IF best = <<>> THEN "unreachable" ELSE "reachable"
        BY <1>7, <2>2 DEF Conclude
      <3>2. /\ Solved' = Solved /\ OrderScores' = OrderScores
            /\ PrefixPairs' = PrefixPairs /\ PrefixOrders' = PrefixOrders
        BY <2>1, <1>3 DEF Solved, PrefixPairs, OrderScores, Meets, Targets
      <3> QED
        BY <2>1, <2>2, <3>1, <3>2 DEF OrdersTried, OrderInv
    <2> QED
      BY <2>1, <2>2, <1>3 DEF OrderInv
  <1> QED
    BY <1>1, <1>2, <1>4, <1>5, <1>6, <1>7 DEF SearchNext

LEMMA NearestWhenTried ==
    ASSUME OrderInv
    PROVE  NearestOrderIsFound
  <1> SUFFICES ASSUME query.kind = "order", status # "searching"
               PROVE  LET solutions == {o \in SetToSeqs(Range(prefix)) :
                                          Hits(Selection(capture.snapshot, o \o rest), Targets)}
                      IN  /\ status = "reachable" <=> solutions # {}
                          /\ solutions # {} =>
                               /\ best[2] \in solutions
                               /\ \A o \in solutions :
                                    Cardinality(Inversions(best[2], prefix)) <= Cardinality(Inversions(o, prefix))
                               /\ always \ Precedes(prefix) =
                                    {p \in Precedes(best[2]) : \A o \in solutions : p \in Inversions(o, prefix)}
    BY DEF NearestOrderIsFound
  <1> DEFINE S == Range(prefix)
  <1>1. Asked /\ OrdersTried /\ families = {} /\ pending = {}
    BY DEF OrderInv, OrdersTried
  <1>2. Solved = {o \in SetToSeqs(Range(prefix)) : Hits(Selection(capture.snapshot, o \o rest), Targets)}
    BY <1>1 DEF Solved, PrefixOrders, Meets
  <1>3. status = "reachable" <=> Solved # {}
    BY <1>1 DEF OrdersTried, IsBest
  <1>4. ASSUME Solved # {}
        PROVE  always \ Precedes(prefix) =
                 {p \in Precedes(best[2]) : \A o \in Solved : p \in Inversions(o, prefix)}
    <2>1. Cardinality(S) \in Nat /\ Orders(S, prefix)
      BY <1>1, EveryElementIsPlaced DEF Asked, PrefixOrders
    <2>2. ASSUME NEW o \in Solved
          PROVE  /\ Inversions(o, prefix) = Precedes(o) \ Precedes(prefix)
                 /\ Precedes(o) \subseteq PrefixPairs
      <3>1. Orders(S, o)
        BY <1>1, EveryElementIsPlaced DEF Asked, PrefixOrders, Solved
      <3>2. /\ Inversions(o, prefix) = Precedes(o) \ Precedes(prefix)
            /\ \A p \in Precedes(o) : p \in Precedes(prefix) \/ <<p[2], p[1]>> \in Precedes(prefix)
        BY <2>1, <3>1, ReversalsAreNew
      <3>3. \A p \in Precedes(o) : p = <<p[1], p[2]>>
        BY DEF Precedes
      <3>4. ASSUME NEW p \in Precedes(o), <<p[2], p[1]>> \in Precedes(prefix) PROVE p \in PrefixPairs
        <4> DEFINE w == <<p[2], p[1]>>
        <4>1. p = <<w[2], w[1]>>
          BY <3>3
        <4> QED
          BY <4>1, <3>4 DEF PrefixPairs
      <3> QED
        BY <3>2, <3>4 DEF PrefixPairs
    <2>3. always = {p \in PrefixPairs : \A o \in Solved : p \in Precedes(o)} /\ best[2] \in Solved
      BY <1>1, <1>4 DEF OrdersTried, IsBest
    <2> QED
      BY <2>2, <2>3
  <1>5. ASSUME Solved # {}
        PROVE  /\ best[2] \in Solved
               /\ \A o \in Solved :
                    Cardinality(Inversions(best[2], prefix)) <= Cardinality(Inversions(o, prefix))
    <2>1. /\ best[2] \in Solved
          /\ \A o \in Solved : OrderScores[best[2]][1] <= OrderScores[o][1]
      BY <1>1, <1>5 DEF OrdersTried, IsBest
    <2> QED
      BY <2>1, <1>1, OrdersAreScored DEF Solved
  <1> QED
    BY <1>2, <1>3, <1>4, <1>5

(* The order search finds the nearest order and reports what all orders    *)
(* that meet the targets have in common, for any graph and any targets.    *)
THEOREM NearestFound == SearchSpec => []NearestOrderIsFound
  <1>1. SearchInit => OrderInv
    BY OrderSearchStarts
  <1>2. OrderInv /\ [SearchNext]_questionVars => OrderInv'
    BY OrderSearchGoesOn
  <1>3. OrderInv => NearestOrderIsFound
    BY NearestWhenTried
  <1> QED
    BY <1>1, <1>2, <1>3, PTL DEF SearchSpec

-----------------------------------------------------------------------------
(***************************************************************************)
(* Additions to degrees.  A cover by layers has the degrees asked for, and *)
(* is as small as any.                                                     *)
(***************************************************************************)
Covers(cover, a, D) ==
  /\ cover.count \in Nat /\ cover.windows \in [1..cover.count -> SUBSET D]
  /\ \A r \in D : /\ a[r] \in 0..cover.count
                  /\ Cardinality({n \in 1..cover.count : r \in cover.windows[n]}) = a[r]
  /\ cover.count > 0 => \E r \in D : a[r] = cover.count
  /\ \A t \in cover.shared : \E p, q \in D : t = <<p, q, a[p] + a[q] - cover.count>>

LEMMA LayersCover ==
    ASSUME NEW m \in Nat, NEW D, NEW a \in [D -> 0..m]
    PROVE  Covers(PressureCover(a), a, D)
  <1> DEFINE webs == {r \in DOMAIN a : a[r] > 0}
             count == IF webs = {} THEN 0 ELSE Greatest({a[r] : r \in webs})
             cover == PressureCover(a)
  <1>1. /\ cover.count = count
        /\ cover.windows = [layer \in 1..count |-> {r \in webs : a[r] >= layer}]
        /\ cover.shared = {<<p[1], p[2], a[p[1]] + a[p[2]] - count>> :
                             p \in {q \in webs \X webs : q[1] < q[2] /\ a[q[1]] + a[q[2]] - count > 0}}
    BY DEF PressureCover
  <1>2. webs \subseteq D /\ \A r \in D : a[r] \in 0..m /\ (r \in webs <=> a[r] > 0)
    OBVIOUS
  <1>3. /\ count \in Nat /\ \A r \in D : a[r] \in 0..count
        /\ count > 0 => \E r \in D : a[r] = count
    <2>1. CASE webs = {}
      BY <2>1, <1>2
    <2>2. CASE webs # {}
      <3> DEFINE S == {a[r] : r \in webs}
      <3>1. S \subseteq 0..(m + 1) - 1 /\ S # {} /\ m + 1 \in Nat
        BY <2>2, <1>2
      <3>2. Greatest(S) \in S /\ \A y \in S : y <= Greatest(S)
        <4> HIDE DEF S
        <4> QED
          BY <3>1, GreatestIsMember
      <3>3. count = Greatest(S)
        BY <2>2
      <3> QED
        BY <3>2, <3>3, <1>2
    <2> QED
      BY <2>1, <2>2
  <1> HIDE DEF count
  <1>4. cover.windows \in [1..count -> SUBSET D]
    BY <1>1, <1>2
  <1>5. ASSUME NEW r \in D PROVE Cardinality({n \in 1..count : r \in cover.windows[n]}) = a[r]
    <2>1. \A n \in 1..count : r \in cover.windows[n] <=> n <= a[r]
      BY <1>1, <1>2
    <2>2. {n \in 1..count : r \in cover.windows[n]} = 1..a[r]
      BY <2>1, <1>3
    <2>3. Cardinality(1..a[r]) = a[r]
      BY <1>3, FS_Interval
    <2> QED
      BY <2>2, <2>3
  <1>6. \A t \in cover.shared : \E p, q \in D : t = <<p, q, a[p] + a[q] - count>>
    <2>1. ASSUME NEW p \in webs \X webs PROVE p[1] \in D /\ p[2] \in D
      BY <1>2
    <2> HIDE DEF webs
    <2> QED
      BY <2>1, <1>1
  <1> HIDE DEF cover
  <1>7. cover.count = count
    BY <1>1
  <1> QED
    BY <1>3, <1>4, <1>5, <1>6, <1>7 DEF Covers, cover

HasDegrees(windows, size, a, D) ==
  \A r \in D : Cardinality({n \in 1..size : r \in windows[n]}) = a[r]

IsAsLarge(cover, size, windows) ==
  /\ size = cover.count
  /\ \A t \in cover.shared : Cardinality({n \in 1..size : {t[1], t[2]} \subseteq windows[n]}) >= t[3]

LEMMA CoversAreMinimal ==
    ASSUME NEW cover, NEW a, NEW D, Covers(cover, a, D), NEW size \in 0..cover.count,
           NEW windows \in [1..size -> SUBSET D], HasDegrees(windows, size, a, D)
    PROVE  IsAsLarge(cover, size, windows)
  <1> DEFINE in(r) == {n \in 1..size : r \in windows[n]}
             count == cover.count
  <1>1. size \in Nat /\ count \in Nat /\ size <= count
    BY DEF Covers
  <1>2. \A S \in SUBSET (1..size) : IsFiniteSet(S) /\ Cardinality(S) \in 0..size
    <2>1. IsFiniteSet(1..size) /\ Cardinality(1..size) = size
      BY <1>1, FS_Interval
    <2>2. ASSUME NEW S \in SUBSET (1..size) PROVE IsFiniteSet(S) /\ Cardinality(S) \in 0..size
      <3>1. IsFiniteSet(S) /\ Cardinality(S) <= Cardinality(1..size)
        BY <2>1, FS_Subset
      <3>2. Cardinality(S) \in Nat
        BY <3>1, FS_CardinalityType
      <3> QED
        BY <3>1, <3>2, <2>1, <1>1
    <2> QED
      BY <2>2
  <1>3. \A r \in D : in(r) \in SUBSET (1..size) /\ Cardinality(in(r)) = a[r]
    BY DEF HasDegrees
  <1>4. size = count
    <2>1. CASE count > 0
      <3>1. PICK r \in D : a[r] = count
        BY <2>1 DEF Covers
      <3>2. count \in 0..size
        BY <3>1, <1>2, <1>3
      <3> QED
        BY <3>2, <1>1
    <2> QED
      BY <2>1, <1>1
  <1>5. ASSUME NEW t \in cover.shared
        PROVE  Cardinality({n \in 1..size : {t[1], t[2]} \subseteq windows[n]}) >= t[3]
    <2>1. PICK p \in D, q \in D : t = <<p, q, a[p] + a[q] - count>>
      BY DEF Covers
    <2> HIDE DEF in
    <2>2. /\ IsFiniteSet(in(p)) /\ IsFiniteSet(in(q))
          /\ Cardinality(in(p)) = a[p] /\ Cardinality(in(q)) = a[q]
      BY <1>2, <1>3
    <2>3. Cardinality(in(p) \cup in(q)) = a[p] + a[q] - Cardinality(in(p) \cap in(q))
      BY <2>2, FS_Union
    <2>4. in(p) \cup in(q) \in SUBSET (1..size) /\ in(p) \cap in(q) \in SUBSET (1..size)
      BY <1>3
    <2>5. Cardinality(in(p) \cup in(q)) \in 0..size /\ Cardinality(in(p) \cap in(q)) \in 0..size
      BY <2>4, <1>2
    <2>6. a[p] \in Int /\ a[q] \in Int
      BY <2>2, <1>2, <1>3
    <2>7. Cardinality(in(p) \cap in(q)) >= a[p] + a[q] - count
      BY <2>3, <2>5, <2>6, <1>1, <1>4
    <2>8. {n \in 1..size : {t[1], t[2]} \subseteq windows[n]} = in(p) \cap in(q)
      BY <2>1 DEF in
    <2>9. t[3] = a[p] + a[q] - count
      BY <2>1
    <2> QED
      BY <2>7, <2>8, <2>9
  <1> QED
    BY <1>4, <1>5 DEF IsAsLarge

(***************************************************************************)
(* The score of additions.                                                 *)
(***************************************************************************)
LEMMA SumIsNatural ==
    ASSUME NEW N \in Nat, NEW f \in [1..N -> Nat]
    PROVE  SumSeq(f) \in Nat
  <1> DEFINE F == [p \in (1..N) \X Nat |-> p[2] + f[p[1]]]
             Body(g) == [n \in 0..N |-> IF n = 0 THEN 0 ELSE g[n - 1] + f[n]]
             G == CHOOSE g : g = Body(g)
  <1>1. F \in [(1..N) \X Nat -> Nat]
    OBVIOUS
  <1>2. \A n \in 1..N, x \in Nat : F[<<n, x>>] = x + f[n]
    OBVIOUS
  <1> HIDE DEF F
  <1>3. PICK g \in [0..N -> Nat] : g[0] = 0 /\ \A n \in 1..N : g[n] = F[<<n, g[n - 1]>>]
    <2>1. \E g : Recurses(g, 0, F, Nat, N)
      BY <1>1, BoundedRecursion, Zenon
    <2> QED
      BY <2>1 DEF Recurses
  <1>4. g = Body(g)
    <2>1. ASSUME NEW n \in 1..N PROVE g[n] = g[n - 1] + f[n]
      <3>1. n - 1 \in 0..N
        OBVIOUS
      <3> QED
        BY <1>2, <1>3, <3>1
    <2>2. \A n \in 0..N : n = 0 \/ n \in 1..N
      OBVIOUS
    <2> QED
      BY <1>3, <2>1, <2>2
  <1> HIDE DEF Body
  <1>5. G = Body(G)
    BY <1>4, Zenon
  <1>6. Len(f) = N
    OBVIOUS
  <1>7. SumSeq(f) = G[N]
    BY <1>6 DEF SumSeq, Body
  <1> HIDE DEF G
  <1>8. \A n \in 0..N : G[n] = IF n = 0 THEN 0 ELSE G[n - 1] + f[n]
    BY <1>5 DEF Body
  <1> DEFINE P == {n \in Nat : n <= N => G[n] \in Nat}
  <1>9. 0 \in P /\ \A n \in Nat : n \in P => n + 1 \in P
    BY <1>8
  <1> HIDE DEF P
  <1>10. N \in P
    BY <1>9, Induction
  <1> QED
    BY <1>7, <1>10 DEF P

LEMMA NumbersAreSorted ==
    ASSUME NEW S, IsFiniteSet(S), S \subseteq Int
    PROVE  Ascending(S) \in [1..Cardinality(S) -> S] /\ Cardinality(S) \in Nat
  <1> DEFINE own == [r \in S |-> r]
             q == Ranked(S, own)
             below(x) == {y \in S : y < x}
  <1>1. /\ q \in [1..Cardinality(S) -> S] /\ Cardinality(S) \in Nat
        /\ \A n \in 1..Cardinality(S) : Cardinality(Earlier(S, own, q[n])) = n - 1
    <2>1. \A r \in S : own[r] \in Int
      OBVIOUS
    <2> HIDE DEF own
    <2> QED
      BY <2>1, RankedEnumerates DEF Enumerates
  <1>2. \A x \in S : Earlier(S, own, x) = below(x)
    BY DEF Earlier
  <1>3. \A n \in 1..Cardinality(S) : \E x \in S : Cardinality(below(x)) = n - 1
    BY <1>1, <1>2
  <1>4. Ascending(S) = [n \in 1..Cardinality(S) |-> CHOOSE x \in S : Cardinality(below(x)) = n - 1]
    BY DEF Ascending, Sorted
  <1> HIDE DEF below
  <1> QED
    BY <1>1, <1>3, <1>4

LEMMA DegreesAreScored ==
    ASSUME NEW D, IsFiniteSet(D), D \subseteq Int, NEW a \in [D -> Nat]
    PROVE  /\ DegreeScore(a)[1] \in Nat
           /\ \E n \in Nat : n > 0 /\ DOMAIN DegreeScore(a) = 1..n
  <1> DEFINE N == Cardinality(D)
             amounts == [n \in 1..N |-> a[Ascending(D)[n]]]
  <1>1. N \in Nat /\ amounts \in [1..N -> Nat]
    BY NumbersAreSorted
  <1>2. DegreeScore(a) = <<SumSeq(amounts), Cardinality({n \in DOMAIN amounts : amounts[n] > 0})>> \o amounts
    BY DEF DegreeScore
  <1>3. SumSeq(amounts) \in Nat
    BY <1>1, SumIsNatural
  <1> HIDE DEF amounts, N
  <1>4. amounts \in Seq(Nat) /\ Len(amounts) = N
    BY <1>1
  <1>5. ASSUME NEW x, NEW y
        PROVE  (<<x, y>> \o amounts)[1] = x /\ DOMAIN (<<x, y>> \o amounts) = 1..(2 + N)
    BY <1>4
  <1>6. 2 + N \in Nat /\ 2 + N > 0
    BY <1>1
  <1> QED
    BY <1>2, <1>3, <1>5, <1>6

(***************************************************************************)
(* Nodes added to a capture.                                               *)
(***************************************************************************)
LEMMA GreatestOfFinite ==
    ASSUME NEW S, IsFiniteSet(S), S \subseteq Int, S # {}
    PROVE  Greatest(S) \in S /\ \A y \in S : y <= Greatest(S)
  <1> DEFINE own == [r \in S |-> r]
             N == Cardinality(S)
             q == Ranked(S, own)
  <1>1. \A r \in S : own[r] \in Int /\ own[r] = r
    OBVIOUS
  <1> HIDE DEF own
  <1>2. /\ q \in [1..N -> S] /\ N \in Nat
        /\ \A n \in 1..N : Cardinality(Earlier(S, own, q[n])) = n - 1
    <2>1. \A r \in S : own[r] \in Int
      BY <1>1
    <2>2. Enumerates(Ranked(S, own), S, own)
      BY <2>1, RankedEnumerates
    <2>3. N \in Nat
      BY FS_CardinalityType
    <2> QED
      BY <2>2, <2>3 DEF Enumerates
  <1>3. N # 0
    BY FS_EmptySet
  <1> DEFINE x == q[N]
  <1>4. x \in S /\ Cardinality(Earlier(S, own, x)) = N - 1
    BY <1>2, <1>3
  <1> HIDE DEF x, q
  <1>5. ASSUME NEW y \in S PROVE y <= x
    <2>1. x \notin Earlier(S, own, y)
      <3>1. /\ Cardinality(Earlier(S, own, y)) \in Nat /\ Cardinality(Earlier(S, own, y)) < N
            /\ x \in Earlier(S, own, y) => Cardinality(Earlier(S, own, x)) < Cardinality(Earlier(S, own, y))
        BY <1>1, <1>4, EarlierIsSmaller
      <3> QED
        BY <3>1, <1>2, <1>4
    <2>2. ~(x < y)
      BY <2>1, <1>1, <1>4 DEF Earlier
    <2> QED
      BY <2>2, <1>4
  <1>6. \E m \in S : \A y \in S : m >= y
    BY <1>4, <1>5
  <1> QED
    BY <1>6 DEF Greatest

(* The node of a window stays in the graph.                                *)
Joined(s, x, W) == AddSyntheticNode(s, x, W, FALSE)

OneMore(S, x) == S \cup {x}

Added(s, x, W, t) ==
  /\ Nodes(t) = OneMore(Nodes(s), x) /\ t.active = s.active /\ t.parent[x] = x
  /\ \A r \in Nodes(s) :
       /\ t.parent[r] = s.parent[r] /\ t.cost[r] = s.cost[r] /\ t.extra[r] = s.extra[r]
       /\ t.neighbors[r] = IF r \in W THEN OneMore(s.neighbors[r], x) ELSE s.neighbors[r]

LEMMA PartsOfACapture ==
    ASSUME NEW a, NEW b, NEW c, NEW d, NEW e,
           NEW t, t = [neighbors |-> a, parent |-> b, cost |-> c, extra |-> d, active |-> e]
    PROVE  /\ t.neighbors = a /\ t.parent = b /\ t.cost = c /\ t.extra = d /\ t.active = e
           /\ \A A, B, C, D, E : a \in A /\ b \in B /\ c \in C /\ d \in D /\ e \in E =>
                t \in [neighbors : A, parent : B, cost : C, extra : D, active : E]
  OBVIOUS

Shapes ==
  [neighbors : UNION {[A -> SUBSET A] : A \in SUBSET Nat}, parent : UNION {[A -> A] : A \in SUBSET Nat},
   cost : UNION {[A -> Nat] : A \in SUBSET Nat}, extra : UNION {[A -> Nat] : A \in SUBSET Nat},
   active : SUBSET Nat]

LEMMA NodeIsAdded ==
    ASSUME NEW s, IsSnapshot(s), NEW W \in SUBSET Nodes(s), NEW x \in Nat, x \notin Nodes(s),
           NEW t, t = Joined(s, x, W)
    PROVE  IsSnapshot(t) /\ t \in Shapes /\ Added(s, x, W, t)
  <1> DEFINE R == Nodes(s)
             T == R \cup {x}
  <1>1. /\ IsFiniteSet(R) /\ R \subseteq Nat
        /\ DOMAIN s.neighbors = R /\ \A r \in R : s.neighbors[r] \subseteq R
        /\ DOMAIN s.parent = R /\ \A r \in R : s.parent[r] \in R
        /\ DOMAIN s.cost = R /\ \A r \in R : s.cost[r] \in Nat
        /\ DOMAIN s.extra = R /\ \A r \in R : s.extra[r] \in Nat
        /\ s.active \subseteq R
    BY DEF IsSnapshot
  <1> DEFINE joined == [r \in R |-> s.neighbors[r] \cup (IF r \in W THEN {x} ELSE {})]
             with(f, y) == [r \in T |-> IF r = x THEN y ELSE f[r]]
  <1>2. t = [neighbors |-> with(joined, W), parent |-> with(s.parent, x), cost |-> with(s.cost, 0),
             extra |-> with(s.extra, 0), active |-> s.active]
    BY <1>1 DEF AddSyntheticNode, Joined
  <1>3. /\ t.neighbors = with(joined, W) /\ t.parent = with(s.parent, x)
        /\ t.cost = with(s.cost, 0) /\ t.extra = with(s.extra, 0) /\ t.active = s.active
    <2> DEFINE a == with(joined, W)
               b == with(s.parent, x)
               c == with(s.cost, 0)
               d == with(s.extra, 0)
               e == s.active
    <2>1. t = [neighbors |-> a, parent |-> b, cost |-> c, extra |-> d, active |-> e]
      BY <1>2
    <2> HIDE DEF a, b, c, d, e
    <2>2. t.neighbors = a /\ t.parent = b /\ t.cost = c /\ t.extra = d /\ t.active = e
      BY <2>1, PartsOfACapture
    <2> QED
      BY <2>2 DEF a, b, c, d, e
  <1>4. \A r \in R : r # x /\ joined[r] = s.neighbors[r] \cup (IF r \in W THEN {x} ELSE {})
    OBVIOUS
  <1> HIDE DEF joined
  <1>5. IsFiniteSet(T) /\ T \subseteq Nat
    BY <1>1, FS_AddElement
  <1>6. t.neighbors \in [T -> SUBSET T] /\ t.parent \in [T -> T]
    <2>1. \A r \in R : joined[r] \subseteq T
      BY <1>1, <1>4
    <2>2. with(joined, W) \in [T -> SUBSET T]
      BY <2>1
    <2>3. with(s.parent, x) \in [T -> T]
      BY <1>1
    <2> QED
      BY <1>3, <2>2, <2>3
  <1>7. t.cost \in [T -> Nat] /\ t.extra \in [T -> Nat] /\ t.active \subseteq T
    <2>1. with(s.cost, 0) \in [T -> Nat] /\ with(s.extra, 0) \in [T -> Nat]
      BY <1>1
    <2> QED
      BY <1>1, <1>3, <2>1
  <1>8. Nodes(t) = T
    BY <1>6 DEF Nodes
  <1>9. IsSnapshot(t)
    BY <1>5, <1>6, <1>7, <1>8 DEF IsSnapshot
  <1>10. t \in Shapes
    <2>1. T \in SUBSET Nat /\ t.active \in SUBSET Nat
      BY <1>5, <1>7
    <2> HIDE DEF T
    <2>2. t.neighbors \in UNION {[A -> SUBSET A] : A \in SUBSET Nat}
      BY <1>6, <2>1
    <2>3. t.parent \in UNION {[A -> A] : A \in SUBSET Nat}
      BY <1>6, <2>1
    <2>4. t.cost \in UNION {[A -> Nat] : A \in SUBSET Nat} /\ t.extra \in UNION {[A -> Nat] : A \in SUBSET Nat}
      BY <1>7, <2>1
    <2> DEFINE a == with(joined, W)
               b == with(s.parent, x)
               c == with(s.cost, 0)
               d == with(s.extra, 0)
               e == s.active
               A1 == UNION {[A -> SUBSET A] : A \in SUBSET Nat}
               A2 == UNION {[A -> A] : A \in SUBSET Nat}
               A3 == UNION {[A -> Nat] : A \in SUBSET Nat}
    <2>5. t = [neighbors |-> a, parent |-> b, cost |-> c, extra |-> d, active |-> e]
      BY <1>2
    <2>6. Shapes = [neighbors : A1, parent : A2, cost : A3, extra : A3, active : SUBSET Nat]
      BY DEF Shapes
    <2>7. a \in A1 /\ b \in A2 /\ c \in A3 /\ d \in A3 /\ e \in SUBSET Nat
      BY <1>3, <2>1, <2>2, <2>3, <2>4
    <2> HIDE DEF a, b, c, d, e, A1, A2, A3
    <2> QED
      BY <2>5, <2>6, <2>7, PartsOfACapture
  <1>11. x \in T /\ t.parent[x] = x
    BY <1>3
  <1>12. ASSUME NEW r \in R
         PROVE  /\ t.parent[r] = s.parent[r] /\ t.cost[r] = s.cost[r] /\ t.extra[r] = s.extra[r]
                /\ t.neighbors[r] = IF r \in W THEN s.neighbors[r] \cup {x} ELSE s.neighbors[r]
    <2>1. r \in T /\ r # x
      BY <1>4
    <2>2. /\ with(joined, W)[r] = joined[r] /\ with(s.parent, x)[r] = s.parent[r]
          /\ with(s.cost, 0)[r] = s.cost[r] /\ with(s.extra, 0)[r] = s.extra[r]
      BY <2>1
    <2> HIDE DEF with
    <2> QED
      BY <1>3, <1>4, <2>2
  <1> QED
    BY <1>3, <1>8, <1>9, <1>10, <1>11, <1>12 DEF OneMore, Added

LEMMA CaptureIsLarger ==
    ASSUME NEW s, IsSnapshot(s), NEW W, W \subseteq Nodes(s), NEW x \in Nat, x \notin Nodes(s)
    PROVE  /\ IsSnapshot(Joined(s, x, W)) /\ Joined(s, x, W) \in Shapes
           /\ Nodes(Joined(s, x, W)) = OneMore(Nodes(s), x)
  <1> DEFINE t == Joined(s, x, W)
  <1>1. W \in SUBSET Nodes(s) /\ t = Joined(s, x, W)
    OBVIOUS
  <1> HIDE DEF t
  <1>2. IsSnapshot(t) /\ t \in Shapes /\ Nodes(t) = OneMore(Nodes(s), x)
    BY <1>1, NodeIsAdded DEF Added
  <1> QED
    BY <1>2 DEF t

NextNode(s) == Greatest(Nodes(s)) + 1

LEMMA NextIsNew ==
    ASSUME NEW s, IsSnapshot(s), Nodes(s) # {}
    PROVE  NextNode(s) \in Nat /\ NextNode(s) \notin Nodes(s) /\ \A r \in Nodes(s) : NextNode(s) > r
  <1>1. IsFiniteSet(Nodes(s)) /\ Nodes(s) \subseteq Nat
    BY DEF IsSnapshot
  <1>2. Greatest(Nodes(s)) \in Nodes(s) /\ \A y \in Nodes(s) : y <= Greatest(Nodes(s))
    BY <1>1, GreatestOfFinite
  <1> QED
    BY <1>1, <1>2 DEF NextNode

AddsWindows(w, s, W) ==
  /\ w[0] = s
  /\ \A n \in 1..Len(W) : w[n] = Joined(w[n - 1], NextNode(w[n - 1]), W[n])
  /\ WithWindows(s, W) = w[Len(W)]

LEMMA WindowsAreAdded ==
    ASSUME NEW s, IsSnapshot(s), Nodes(s) # {}, NEW W \in Seq(SUBSET Nodes(s))
    PROVE  \E w : AddsWindows(w, s, W)
  <1> DEFINE N == Len(W)
             R == {s} \cup {x \in Shapes : IsSnapshot(x) /\ Nodes(s) \subseteq Nodes(x)}
             Add(x, n) == AddSyntheticNode(x, Greatest(DOMAIN x.parent) + 1, W[n], FALSE)
             F == [p \in (1..N) \X R |-> Add(p[2], p[1])]
             Body(g) == [n \in 0..N |-> IF n = 0 THEN s ELSE Add(g[n - 1], n)]
             G == CHOOSE g : g = Body(g)
  <1>1. N \in Nat /\ \A n \in 1..N : W[n] \in SUBSET Nodes(s)
    OBVIOUS
  <1>2. s \in R
    OBVIOUS
  <1>3. ASSUME NEW n \in 1..N, NEW x \in R PROVE Add(x, n) \in R
    <2>1. IsSnapshot(x) /\ Nodes(s) \subseteq Nodes(x) /\ Nodes(x) # {}
      OBVIOUS
    <2>2. Add(x, n) = Joined(x, NextNode(x), W[n])
      BY DEF NextNode, Nodes, Joined
    <2>3. W[n] \in SUBSET Nodes(x)
      BY <1>1, <2>1
    <2>4. NextNode(x) \in Nat /\ NextNode(x) \notin Nodes(x)
      BY <2>1, NextIsNew
    <2> DEFINE v == NextNode(x)
               y == Joined(x, v, W[n])
    <2> HIDE DEF R, Add, y, v
    <2>5. /\ v \in Nat /\ v \notin Nodes(x) /\ y = Joined(x, v, W[n])
          /\ Add(x, n) = y
      BY <2>2, <2>4 DEF v, y
    <2>7. IsSnapshot(y) /\ y \in Shapes /\ Nodes(y) = OneMore(Nodes(x), v)
      BY <2>1, <2>3, <2>5, CaptureIsLarger
    <2> QED
      BY <2>1, <2>5, <2>7 DEF R, OneMore
  <1> HIDE DEF R, Add
  <1>4. F \in [(1..N) \X R -> R]
    <2> SUFFICES ASSUME NEW p \in (1..N) \X R PROVE Add(p[2], p[1]) \in R
      OBVIOUS
    <2> QED
      BY <1>3
  <1>5. \A n \in 1..N, x \in R : F[<<n, x>>] = Add(x, n)
    OBVIOUS
  <1> HIDE DEF F, N
  <1>6. PICK g \in [0..N -> R] : g[0] = s /\ \A n \in 1..N : g[n] = F[<<n, g[n - 1]>>]
    <2>1. \E g : Recurses(g, s, F, R, N)
      BY <1>1, <1>2, <1>4, BoundedRecursion, Zenon
    <2> QED
      BY <2>1 DEF Recurses
  <1>7. g = Body(g)
    <2>1. ASSUME NEW n \in 1..N PROVE g[n] = Add(g[n - 1], n)
      <3>1. n - 1 \in 0..N
        BY <1>1
      <3> QED
        BY <1>5, <1>6, <3>1
    <2>2. \A n \in 0..N : n = 0 \/ n \in 1..N
      BY <1>1
    <2> QED
      BY <1>6, <2>1, <2>2
  <1> HIDE DEF Body
  <1>8. G = Body(G)
    BY <1>7, Zenon
  <1>9. WithWindows(s, W) = G[N]
    BY DEF WithWindows, Body, Add, N
  <1> HIDE DEF G
  <1>10. \A n \in 0..N : G[n] = IF n = 0 THEN s ELSE Add(G[n - 1], n)
    BY <1>8 DEF Body
  <1>11. AddsWindows(G, s, W)
    <2>1. G[0] = s /\ \A n \in 1..N : G[n] = Add(G[n - 1], n)
      BY <1>1, <1>10
    <2>2. \A n \in 1..N : Add(G[n - 1], n) = Joined(G[n - 1], NextNode(G[n - 1]), W[n])
      BY DEF Add, NextNode, Nodes, Joined
    <2> QED
      BY <2>1, <2>2, <1>9 DEF AddsWindows, N
  <1> QED
    BY <1>11

Marks(W, n, r) == Cardinality({k \in 1..n : r \in W[k]})

LEMMA MarksGrow ==
    ASSUME NEW W, NEW r, NEW n \in Nat
    PROVE  /\ Marks(W, n, r) \in Nat /\ Marks(W, 0, r) = 0
           /\ Marks(W, n + 1, r) = IF r \in W[n + 1] THEN Marks(W, n, r) + 1 ELSE Marks(W, n, r)
  <1> DEFINE A(m) == {k \in 1..m : r \in W[k]}
  <1>1. IsFiniteSet(A(n)) /\ Cardinality(A(n)) \in Nat
    <2>1. A(n) \subseteq 1..n
      OBVIOUS
    <2> HIDE DEF A
    <2>2. IsFiniteSet(1..n)
      BY FS_Interval
    <2> QED
      BY <2>1, <2>2, FS_Subset, FS_CardinalityType
  <1>2. A(0) = {}
    OBVIOUS
  <1>3. n + 1 \notin A(n) /\ \A k : k \in 1..(n + 1) <=> k \in 1..n \/ k = n + 1
    OBVIOUS
  <1>4. A(n + 1) = IF r \in W[n + 1] THEN A(n) \cup {n + 1} ELSE A(n)
    BY <1>3
  <1> HIDE DEF A
  <1>5. Cardinality(A(n) \cup {n + 1}) = Cardinality(A(n)) + 1
    BY <1>1, <1>3, FS_AddElement
  <1>6. Cardinality(A(0)) = 0
    BY <1>2, FS_EmptySet
  <1> QED
    BY <1>1, <1>4, <1>5, <1>6 DEF Marks, A

(* A capture t that is s with the first n windows joined to it.            *)
Old(s, t, r, W, n) ==
  /\ t.parent[r] = s.parent[r] /\ t.cost[r] = s.cost[r] /\ t.extra[r] = s.extra[r]
  /\ s.neighbors[r] \subseteq t.neighbors[r]
  /\ t.neighbors[r] \cap Nodes(s) \subseteq s.neighbors[r]
  /\ Cardinality(t.neighbors[r]) = Cardinality(s.neighbors[r]) + Marks(W, n, r)

Grown(s, t, W, n) ==
  /\ IsSnapshot(t) /\ Nodes(s) \subseteq Nodes(t) /\ t.active = s.active
  /\ \A x \in Nodes(t) \ Nodes(s) : t.parent[x] = x /\ \A r \in Nodes(s) : x > r
  /\ \A r \in Nodes(s) : Old(s, t, r, W, n)

LEMMA GrownAtFirst ==
    ASSUME NEW s, IsSnapshot(s), NEW W
    PROVE  Grown(s, s, W, 0)
  <1>1. ASSUME NEW r \in Nodes(s) PROVE Old(s, s, r, W, 0)
    <2>1. IsFiniteSet(s.neighbors[r])
      BY FS_Subset DEF IsSnapshot
    <2>2. Cardinality(s.neighbors[r]) \in Nat
      BY <2>1, FS_CardinalityType
    <2>3. Marks(W, 0, r) = 0
      BY MarksGrow
    <2> QED
      BY <2>2, <2>3 DEF Old
  <1> QED
    BY <1>1 DEF Grown

LEMMA GrowsOn ==
    ASSUME NEW s, IsSnapshot(s), Nodes(s) # {}, NEW W, NEW n \in Nat, W[n + 1] \subseteq Nodes(s),
           NEW t, Grown(s, t, W, n)
    PROVE  Grown(s, Joined(t, NextNode(t), W[n + 1]), W, n + 1)
  <1> DEFINE x == NextNode(t)
             X == W[n + 1]
             u == Joined(t, x, X)
  <1>1. /\ IsSnapshot(t) /\ Nodes(s) \subseteq Nodes(t) /\ t.active = s.active /\ Nodes(t) # {}
        /\ X \in SUBSET Nodes(t)
    BY DEF Grown
  <1>2. x \in Nat /\ x \notin Nodes(t) /\ \A r \in Nodes(t) : x > r
    BY <1>1, NextIsNew
  <1> HIDE DEF x, X
  <1>3. u = Joined(t, x, X)
    OBVIOUS
  <1> HIDE DEF u
  <1>4. /\ IsSnapshot(u)
        /\ Nodes(u) = OneMore(Nodes(t), x) /\ u.active = t.active /\ u.parent[x] = x
        /\ \A r \in Nodes(t) :
             /\ u.parent[r] = t.parent[r] /\ u.cost[r] = t.cost[r] /\ u.extra[r] = t.extra[r]
             /\ u.neighbors[r] = IF r \in X THEN t.neighbors[r] \cup {x} ELSE t.neighbors[r]
    <2>1. IsSnapshot(u) /\ Added(t, x, X, u)
      BY <1>1, <1>2, <1>3, NodeIsAdded
    <2> QED
      BY <2>1 DEF Added, OneMore
  <1>5. ASSUME NEW r \in Nodes(s) PROVE Old(s, u, r, W, n + 1)
    <2>1. r \in Nodes(t) /\ Old(s, t, r, W, n) /\ x \notin Nodes(s)
      BY <1>1, <1>2 DEF Grown
    <2>2. t.neighbors[r] \subseteq Nodes(t) /\ IsFiniteSet(Nodes(t))
      BY <1>1, <2>1 DEF IsSnapshot
    <2>3. IsFiniteSet(t.neighbors[r]) /\ x \notin t.neighbors[r]
      BY <2>2, <1>2, FS_Subset
    <2>4. Cardinality(t.neighbors[r] \cup {x}) = Cardinality(t.neighbors[r]) + 1
      BY <2>3, FS_AddElement
    <2>5. Cardinality(s.neighbors[r]) \in Nat
      <3>1. IsFiniteSet(s.neighbors[r])
        BY FS_Subset DEF IsSnapshot
      <3> QED
        BY <3>1, FS_CardinalityType
    <2>6. /\ Marks(W, n, r) \in Nat
          /\ Marks(W, n + 1, r) = IF r \in X THEN Marks(W, n, r) + 1 ELSE Marks(W, n, r)
      BY MarksGrow DEF X
    <2>7. Cardinality(t.neighbors[r]) = Cardinality(s.neighbors[r]) + Marks(W, n, r)
      BY <2>1 DEF Old
    <2>8. u.neighbors[r] = IF r \in X THEN t.neighbors[r] \cup {x} ELSE t.neighbors[r]
      BY <1>4, <2>1
    <2>9. Cardinality(u.neighbors[r]) = Cardinality(s.neighbors[r]) + Marks(W, n + 1, r)
      <3>1. CASE r \in X
        BY <3>1, <2>4, <2>5, <2>6, <2>7, <2>8
      <3>2. CASE r \notin X
        BY <3>2, <2>6, <2>7, <2>8
      <3> QED
        BY <3>1, <3>2
    <2>10. /\ s.neighbors[r] \subseteq u.neighbors[r]
           /\ u.neighbors[r] \cap Nodes(s) \subseteq s.neighbors[r]
      BY <2>1, <2>8 DEF Old
    <2>11. u.parent[r] = s.parent[r] /\ u.cost[r] = s.cost[r] /\ u.extra[r] = s.extra[r]
      BY <1>4, <2>1 DEF Old
    <2> QED
      BY <2>9, <2>10, <2>11 DEF Old
  <1>6. ASSUME NEW y \in Nodes(u) \ Nodes(s)
        PROVE  u.parent[y] = y /\ \A r \in Nodes(s) : y > r
    <2>1. CASE y = x
      BY <2>1, <1>1, <1>2, <1>4
    <2>2. CASE y # x
      <3>1. y \in Nodes(t) \ Nodes(s)
        BY <2>2, <1>4 DEF OneMore
      <3>2. t.parent[y] = y /\ \A r \in Nodes(s) : y > r
        BY <3>1 DEF Grown
      <3> QED
        BY <3>1, <3>2, <1>4
    <2> QED
      BY <2>1, <2>2
  <1>7. Nodes(s) \subseteq Nodes(u) /\ u.active = s.active
    BY <1>1, <1>4 DEF OneMore
  <1>8. Grown(s, u, W, n + 1)
    BY <1>4, <1>5, <1>6, <1>7 DEF Grown
  <1> QED
    BY <1>8 DEF u, x, X

LEMMA WindowsGrow ==
    ASSUME NEW s, IsSnapshot(s), Nodes(s) # {}, NEW W \in Seq(SUBSET Nodes(s))
    PROVE  Grown(s, WithWindows(s, W), W, Len(W))
  <1>1. PICK w : AddsWindows(w, s, W)
    BY WindowsAreAdded
  <1> DEFINE N == Len(W)
             P == {n \in Nat : n <= N => Grown(s, w[n], W, n)}
  <1>2. /\ N \in Nat /\ w[0] = s /\ WithWindows(s, W) = w[N]
        /\ \A n \in 1..N : w[n] = Joined(w[n - 1], NextNode(w[n - 1]), W[n])
        /\ \A n \in 1..N : W[n] \subseteq Nodes(s)
    BY <1>1 DEF AddsWindows
  <1> HIDE DEF N
  <1>3. 0 \in P
    BY <1>2, GrownAtFirst
  <1>4. ASSUME NEW n \in Nat, n \in P PROVE n + 1 \in P
    <2> SUFFICES ASSUME n + 1 <= N PROVE Grown(s, w[n + 1], W, n + 1)
      OBVIOUS
    <2>1. n + 1 \in 1..N /\ (n + 1) - 1 = n /\ Grown(s, w[n], W, n)
      BY <1>2, <1>4
    <2>2. w[n + 1] = Joined(w[n], NextNode(w[n]), W[n + 1]) /\ W[n + 1] \subseteq Nodes(s)
      BY <1>2, <2>1
    <2> QED
      BY <2>1, <2>2, GrowsOn
  <1> HIDE DEF P
  <1>5. N \in P
    BY <1>2, <1>3, <1>4, Induction
  <1> QED
    BY <1>2, <1>5 DEF P, N

(* Windows leave the roots as they are, and a window is its own.           *)
LEMMA RootsStay ==
    ASSUME NEW s, IsSnapshot(s), HasRoots(s), NEW W, NEW n, NEW t, Grown(s, t, W, n), NEW r \in Nodes(s)
    PROVE  Canonical(t, r) = Canonical(s, r)
  <1>1. IsSnapshot(t) /\ r \in Nodes(t) /\ Nodes(s) \subseteq Nodes(t)
    BY DEF Grown
  <1>2. PICK g : Climbs(g, s, r)
    BY CanonicalUnfolds
  <1>3. PICK h : Climbs(h, t, r)
    BY <1>1, CanonicalUnfolds
  <1> DEFINE N == Cardinality(Nodes(s))
             M == Cardinality(Nodes(t))
             P == {m \in Nat : h[m] = g[m]}
             Q == {m \in Nat : g[N + m] = g[N]}
  <1>4. N \in Nat /\ M \in Nat /\ N <= M
    <2>1. IsFiniteSet(Nodes(t)) /\ IsFiniteSet(Nodes(s))
      BY <1>1 DEF IsSnapshot
    <2> QED
      BY <2>1, <1>1, FS_Subset, FS_CardinalityType
  <1>5. \A m \in Nat : g[m] \in Nodes(s) /\ g[m + 1] = s.parent[g[m]] /\ h[m + 1] = t.parent[h[m]]
    BY <1>2, <1>3 DEF Climbs
  <1>6. 0 \in P
    BY <1>2, <1>3 DEF Climbs
  <1>7. ASSUME NEW m \in Nat, m \in P PROVE m + 1 \in P
    <2>1. t.parent[g[m]] = s.parent[g[m]]
      BY <1>5 DEF Grown, Old
    <2> QED
      BY <2>1, <1>5, <1>7
  <1>8. Canonical(s, r) = g[N] /\ Canonical(t, r) = h[M]
    BY <1>2, <1>3 DEF Climbs
  <1> HIDE DEF N, M
  <1>9. 0 \in Q
    BY <1>4
  <1>10. ASSUME NEW m \in Nat, m \in Q PROVE m + 1 \in Q
    <2>1. s.parent[g[N]] = g[N]
      BY <1>8 DEF HasRoots
    <2>2. N + m \in Nat /\ N + (m + 1) = (N + m) + 1
      BY <1>4
    <2>3. g[N + (m + 1)] = s.parent[g[N + m]]
      BY <2>2, <1>5
    <2> QED
      BY <2>1, <2>3, <1>10
  <1> HIDE DEF P, Q
  <1>11. M \in P /\ M - N \in Q
    <2>1. M - N \in Nat
      BY <1>4
    <2> QED
      BY <2>1, <1>4, <1>6, <1>7, <1>9, <1>10, Induction
  <1>12. N + (M - N) = M
    BY <1>4
  <1> QED
    BY <1>8, <1>11, <1>12 DEF P, Q

LEMMA NewRoots ==
    ASSUME NEW s, NEW W, NEW n, NEW t, Grown(s, t, W, n), NEW x \in Nodes(t) \ Nodes(s)
    PROVE  Canonical(t, x) = x
  <1>1. IsSnapshot(t) /\ t.parent[x] = x /\ x \in Nodes(t)
    BY DEF Grown
  <1>2. PICK h : Climbs(h, t, x)
    BY <1>1, CanonicalUnfolds
  <1> DEFINE P == {m \in Nat : h[m] = x}
             M == Cardinality(Nodes(t))
  <1>3. 0 \in P /\ \A m \in Nat : m \in P => m + 1 \in P
    BY <1>1, <1>2 DEF Climbs
  <1>4. M \in Nat
    BY <1>1, FS_CardinalityType DEF IsSnapshot
  <1>5. Canonical(t, x) = h[M]
    BY <1>2 DEF Climbs
  <1> HIDE DEF P, M
  <1>6. M \in P
    BY <1>3, <1>4, Induction
  <1> QED
    BY <1>5, <1>6 DEF P

Fields == {"neighbors", "parent", "cost", "extra", "active"}

LEMMA DegreesAreAdded ==
    ASSUME NEW s, IsSnapshot(s), DOMAIN s = Fields, NEW a, \A r \in DOMAIN a : a[r] \in Nat,
           NEW u, u = WithDegrees(s, a)
    PROVE  /\ IsSnapshot(u) /\ Nodes(u) = Nodes(s)
           /\ u.neighbors = s.neighbors /\ u.parent = s.parent /\ u.cost = s.cost /\ u.active = s.active
           /\ \A r \in Nodes(s) : u.extra[r] = s.extra[r] + (IF r \in DOMAIN a THEN a[r] ELSE 0)
  <1> DEFINE e == [r \in DOMAIN s.extra |-> s.extra[r] + IF r \in DOMAIN a THEN a[r] ELSE 0]
  <1>1. u = [s EXCEPT !.extra = e]
    BY DEF WithDegrees
  <1>2. /\ DOMAIN s.extra = Nodes(s) /\ \A r \in Nodes(s) : s.extra[r] \in Nat
    BY DEF IsSnapshot
  <1>3. /\ e \in [Nodes(s) -> Nat]
        /\ \A r \in Nodes(s) : e[r] = s.extra[r] + (IF r \in DOMAIN a THEN a[r] ELSE 0)
    BY <1>2
  <1> HIDE DEF e
  <1>4. /\ u.neighbors = s.neighbors /\ u.parent = s.parent /\ u.cost = s.cost /\ u.active = s.active
        /\ u.extra = e
    BY <1>1 DEF Fields
  <1>5. Nodes(u) = Nodes(s)
    BY <1>4 DEF Nodes
  <1>6. IsSnapshot(u)
    BY <1>3, <1>4, <1>5 DEF IsSnapshot
  <1> QED
    BY <1>3, <1>4, <1>5, <1>6

Own(s) == [r \in DOMAIN s.parent |-> r]

(* A hypothesis of degrees is replayed like the windows that it stands for.*)
LEMMA DegreesAreWindows ==
    ASSUME Classed, NEW s, IsSnapshot(s), HasRoots(s), DOMAIN s = Fields,
           \A r \in s.active : r >= FirstVirtual,
           NEW a, \A r \in DOMAIN a : a[r] \in Nat, NEW W, NEW n, NEW t, Grown(s, t, W, n),
           \A r \in s.active : Marks(W, n, r) = IF r \in DOMAIN a THEN a[r] ELSE 0,
           NEW u, u = WithDegrees(s, a), NEW k, NEW r \in s.active
    PROVE  /\ r \in DOMAIN Replay(u, k, Own(u)) /\ r \in DOMAIN Replay(t, k, Own(t))
           /\ Replay(t, k, Own(t))[r] = Replay(u, k, Own(u))[r]
  <1> DEFINE q == [x \in s.active |-> x]
             A == s.active
             B == Own(u)
             C == Own(t)
  <1>1. /\ IsSnapshot(u) /\ Nodes(u) = Nodes(s)
        /\ u.neighbors = s.neighbors /\ u.parent = s.parent /\ u.cost = s.cost /\ u.active = A
        /\ \A x \in Nodes(s) : u.extra[x] = s.extra[x] + (IF x \in DOMAIN a THEN a[x] ELSE 0)
    BY DegreesAreAdded
  <1>2. /\ IsSnapshot(t) /\ Nodes(s) \subseteq Nodes(t) /\ t.active = A
        /\ \A x \in Nodes(s) : Old(s, t, x, W, n)
    BY DEF Grown
  <1>3. A \subseteq Nodes(s) /\ Nodes(s) \subseteq Nat
    BY DEF IsSnapshot
  <1>4. \A x \in A : B[x] = x /\ C[x] = x
    BY <1>1, <1>2, <1>3 DEF Own, Nodes
  <1>5. /\ Maps(q, A, A) /\ \A x \in A : q[x] = x
    BY DEF Maps
  <1> HIDE DEF q, A, B, C
  <1>6. AreRanks(u, B) /\ AreRanks(t, C)
    BY <1>1, <1>2, <1>3, <1>4 DEF AreRanks
  <1>7. ASSUME NEW x \in A
        PROVE  /\ Cardinality(u.neighbors[x]) + u.extra[x] = Cardinality(t.neighbors[x]) + t.extra[x]
               /\ u.cost[x] = t.cost[x]
    <2>1. x \in Nodes(s) /\ Old(s, t, x, W, n)
      BY <1>2, <1>3
    <2>2. Marks(W, n, x) = IF x \in DOMAIN a THEN a[x] ELSE 0
      BY DEF A
    <2>3. u.extra[x] = s.extra[x] + Marks(W, n, x) /\ u.neighbors[x] = s.neighbors[x]
      BY <1>1, <2>1, <2>2
    <2>4. Cardinality(t.neighbors[x]) = Cardinality(s.neighbors[x]) + Marks(W, n, x)
          /\ t.extra[x] = s.extra[x] /\ t.cost[x] = s.cost[x]
      BY <2>1 DEF Old
    <2>5. s.extra[x] \in Nat /\ Marks(W, n, x) \in Nat
      BY <2>1, <2>2 DEF IsSnapshot
    <2>6. Cardinality(s.neighbors[x]) \in Nat
      <3>1. IsFiniteSet(s.neighbors[x])
        BY <2>1, FS_Subset DEF IsSnapshot
      <3> QED
        BY <3>1, FS_CardinalityType
    <2>7. u.cost[x] = t.cost[x]
      BY <1>1, <2>4
    <2> QED
      BY <2>3, <2>4, <2>5, <2>6, <2>7
  <1>8. \A x, y \in A : y \in u.neighbors[x] <=> y \in t.neighbors[x]
    BY <1>1, <1>2, <1>3 DEF Old
  <1>9. Embeds(q, u, B, t, C)
    <2>1. \A x, y \in A : Before(B, x, y) <=> Before(C, x, y)
      BY <1>4 DEF Before
    <2> QED
      BY <2>1, <1>1, <1>2, <1>5, <1>7, <1>8 DEF Embeds
  <1>10. Alike(q, u, B, t, C)
    BY <1>1, <1>2, <1>6, <1>9 DEF Alike
  <1>11. Separate(u) /\ Separate(t)
    BY <1>1, <1>2 DEF Separate, Physical, A, Classed
  <1>12. SameRoots(q, u, t)
    <2> SUFFICES ASSUME NEW x \in A, NEW c, c \in Physical \cup A
                 PROVE  c \in Roots(u, x) <=> c \in Roots(t, x)
      BY <1>1, <1>5 DEF SameRoots
    <2>1. x \in Nodes(s) /\ x \in Nat /\ Old(s, t, x, W, n) /\ x >= FirstVirtual
      BY <1>2, <1>3 DEF A
    <2>2. u.neighbors[x] = s.neighbors[x] /\ s.neighbors[x] \subseteq Nodes(s)
          /\ t.neighbors[x] \subseteq Nodes(t)
      BY <1>1, <1>2, <2>1 DEF IsSnapshot
    <2>3. \A y : Canonical(u, y) = Canonical(s, y)
      BY <1>1 DEF Canonical
    <2>4. \A y \in Nodes(s) : Canonical(t, y) = Canonical(s, y)
      BY RootsStay
    <2>5. ASSUME c \in Roots(u, x) PROVE c \in Roots(t, x)
      <3>1. PICK y \in s.neighbors[x] : c = Canonical(s, y)
        BY <2>2, <2>3, <2>5 DEF Roots
      <3>2. y \in t.neighbors[x] /\ Canonical(t, y) = c
        BY <3>1, <2>1, <2>2, <2>4 DEF Old
      <3> QED
        BY <3>2 DEF Roots
    <2>6. ASSUME c \in Roots(t, x) PROVE c \in Roots(u, x)
      <3>1. PICK y \in t.neighbors[x] : c = Canonical(t, y)
        BY <2>6 DEF Roots
      <3>2. y \in Nodes(s)
        <4>1. SUFFICES ASSUME y \notin Nodes(s) PROVE FALSE
          OBVIOUS
        <4>2. y \in Nodes(t) \ Nodes(s) /\ \A z \in Nodes(s) : y > z
          BY <4>1, <2>2 DEF Grown
        <4>3. c = y
          BY <3>1, <4>2, NewRoots
        <4>4. c > x /\ c \notin A /\ c \in Nat
          BY <4>1, <4>2, <4>3, <1>2, <1>3, <2>1 DEF IsSnapshot
        <4> QED
          BY <4>4, <2>1 DEF Physical, Classed
      <3>3. y \in s.neighbors[x] /\ Canonical(u, y) = c
        BY <3>1, <3>2, <2>1, <2>3, <2>4 DEF Old
      <3> QED
        BY <3>3, <2>2 DEF Roots
    <2> QED
      BY <2>5, <2>6
  <1>13. \A x \in u.active :
           /\ x \in DOMAIN Replay(u, k, B) /\ q[x] \in DOMAIN Replay(t, k, C)
           /\ Replay(t, k, C)[q[x]] = Replay(u, k, B)[x]
    BY <1>10, <1>11, <1>12, ReplayedAlike
  <1> QED
    BY <1>1, <1>5, <1>13 DEF A, B, C

(***************************************************************************)
(* The search for degrees.                                                 *)
(***************************************************************************)
DegreesMeet(a) ==
  Hits(Replay(WithDegrees(capture.snapshot, a), capture.limit,
              [r \in DOMAIN capture.snapshot.parent |-> r]), Targets)

DegreesSolved == {a \in Additions \ pending : families = {} /\ DegreesMeet(a)}

DegreeScores == [a \in Additions |-> DegreeScore(a)]

Posed == capture \in Captures /\ query \in Queries /\ DOMAIN Targets \subseteq capture.snapshot.active

DegreesTried ==
  /\ families \in {{}, {{}}} /\ pending \subseteq Additions
  /\ families # {} => pending = {}
  /\ status # "searching" => /\ families = {} /\ pending = {}
                             /\ status = "reachable" <=> best # <<>>
  /\ IsBest(DegreesSolved, DegreeScores, best)

DegreeInv == Posed /\ (query.kind = "degree" => DegreesTried)

LEMMA DegreeSearchStarts ==
    ASSUME SearchInit
    PROVE  DegreeInv
  <1>1. Posed
    BY DEF SearchInit, Posed
  <1>2. ASSUME query.kind = "degree" PROVE DegreesTried
    <2>1. families = {{}} /\ pending = {} /\ best = <<>> /\ status = "searching"
      BY <1>2 DEF SearchInit
    <2>2. DegreesSolved = {}
      BY <2>1 DEF DegreesSolved
    <2> QED
      BY <2>1, <2>2 DEF DegreesTried, IsBest
  <1> QED
    BY <1>1, <1>2 DEF DegreeInv

LEMMA TargetsAreNumbers ==
    ASSUME Posed
    PROVE  IsFiniteSet(DOMAIN Targets) /\ DOMAIN Targets \subseteq Nodes(capture.snapshot)
           /\ DOMAIN Targets \subseteq Int
  <1>1. IsSnapshot(capture.snapshot) /\ DOMAIN Targets \subseteq capture.snapshot.active
    BY CapturesAssumption DEF Posed
  <1> QED
    BY <1>1, FS_Subset DEF IsSnapshot

LEMMA AdditionsAreScored ==
    ASSUME Posed
    PROVE  Scored(Additions, DegreeScores)
  <1> DEFINE D == DOMAIN Targets
  <1>1. IsFiniteSet(D) /\ D \subseteq Int
    BY TargetsAreNumbers
  <1>2. \A a \in Additions : a \in [D -> Nat]
    BY ExtraAssumption DEF Additions
  <1> HIDE DEF D
  <1>3. ASSUME NEW a \in Additions
        PROVE  DegreeScore(a)[1] \in Nat /\ \E n \in Nat : n > 0 /\ DOMAIN DegreeScore(a) = 1..n
    BY <1>1, <1>2, DegreesAreScored
  <1> QED
    BY <1>3 DEF Scored, DegreeScores

LEMMA DegreesAreTried ==
    ASSUME DegreeInv, TryDegrees
    PROVE  DegreeInv'
  <1> DEFINE h == Hypothesis
             score == DegreeScore(h)
  <1>1. /\ query.kind = "degree" /\ pending # {} /\ status = "searching"
        /\ UNCHANGED <<capture, query, prefix, rest, families, removed, always, exhaustive, status>>
        /\ pending' = pending \ {h}
    BY DEF TryDegrees
  <1>2. Posed /\ DegreesTried /\ h \in pending
    BY <1>1 DEF DegreeInv, Hypothesis
  <1>3. families = {} /\ h \in Additions /\ h \notin DegreesSolved
    BY <1>1, <1>2 DEF DegreesTried, DegreesSolved
  <1>4. Additions' = Additions /\ Posed'
    BY <1>1, <1>2 DEF Additions, Posed, Targets
  <1>5. DegreesSolved' = IF DegreesMeet(h) THEN DegreesSolved \cup {h} ELSE DegreesSolved
    BY <1>1, <1>2, <1>3, <1>4 DEF DegreesSolved, DegreesTried, DegreesMeet, Targets
  <1>6. best' = IF DegreesMeet(h) /\ (best = <<>> \/ Lexicographic(score, best[1]))
                THEN <<score, h>> ELSE best
    BY DEF TryDegrees, DegreesMeet
  <1> HIDE DEF h
  <1>7. DegreeScores' = DegreeScores /\ DegreeScores[h] = score
    BY <1>1, <1>3, <1>4 DEF DegreeScores
  <1>8. IsBest(DegreesSolved', DegreeScores', best')
    <2>1. CASE ~DegreesMeet(h)
      <3>1. DegreesSolved' = DegreesSolved /\ best' = best
        BY <2>1, <1>5, <1>6
      <3>2. IsBest(DegreesSolved, DegreeScores, best)
        BY <1>2 DEF DegreesTried
      <3> QED
        BY <3>1, <3>2, <1>7
    <2>2. CASE DegreesMeet(h)
      <3>1. /\ DegreesSolved' = DegreesSolved \cup {h} /\ DegreesSolved \subseteq Additions
            /\ IsBest(DegreesSolved, DegreeScores, best)
        BY <2>2, <1>2, <1>5 DEF DegreesTried, DegreesSolved
      <3>2. Scored(Additions, DegreeScores)
        BY <1>2, AdditionsAreScored
      <3>3. best' = IF best = <<>> \/ Lexicographic(DegreeScores[h], best[1])
                    THEN <<DegreeScores[h], h>> ELSE best
        BY <2>2, <1>6, <1>7
      <3>4. IsBest(DegreesSolved \cup {h}, DegreeScores, best')
        BY <3>1, <3>2, <3>3, <1>3, BestOfMore
      <3> QED
        BY <3>1, <3>4, <1>7
    <2> QED
      BY <2>1, <2>2
  <1>9. DegreesTried'
    BY <1>1, <1>2, <1>3, <1>4, <1>8 DEF DegreesTried
  <1> QED
    BY <1>4, <1>9 DEF DegreeInv

LEMMA DegreeSearchGoesOn ==
    ASSUME DegreeInv, [SearchNext]_questionVars
    PROVE  DegreeInv'
  <1>1. CASE UNCHANGED questionVars
    BY <1>1 DEF questionVars, DegreeInv, DegreesTried, Posed, DegreesSolved, DegreeScores, Additions,
                DegreesMeet, Targets
  <1>2. CASE TryDegrees
    BY <1>2, DegreesAreTried
  <1>3. ASSUME UNCHANGED <<capture, query>> PROVE Posed' /\ Additions' = Additions
    BY <1>3 DEF DegreeInv, Posed, Additions, Targets
  <1>4. CASE TryRanks
    BY <1>3, <1>4 DEF TryRanks, DegreeInv
  <1>5. CASE TryOrder
    BY <1>3, <1>5 DEF TryOrder, DegreeInv
  <1>6. CASE NextFamily
    <2>1. UNCHANGED <<capture, query, prefix, rest, best, always, status>>
          /\ status = "searching" /\ pending = {} /\ families # {}
      BY <1>6 DEF NextFamily
    <2>2. ASSUME query.kind = "degree" PROVE DegreesTried'
      <3>1. DegreesTried /\ families = {{}}
        BY <2>1, <2>2 DEF DegreeInv, DegreesTried
      <3>2. removed' = {}
        BY <1>6, <3>1 DEF NextFamily
      <3>3. families' = {} /\ pending' = Additions
        BY <1>6, <2>2, <3>1, <3>2 DEF NextFamily
      <3>4. DegreesSolved = {} /\ DegreesSolved' = {} /\ Additions' = Additions
        BY <2>1, <3>1, <3>3, <1>3 DEF DegreesSolved
      <3> QED
        BY <2>1, <3>1, <3>3, <3>4 DEF DegreesTried, IsBest
    <2> QED
      BY <2>1, <2>2, <1>3 DEF DegreeInv
  <1>7. CASE Conclude
    <2>1. UNCHANGED <<capture, query, prefix, rest, families, removed, pending, best, always>>
          /\ status = "searching" /\ pending = {} /\ families = {}
      BY <1>7 DEF Conclude
    <2>2. ASSUME query.kind = "degree" PROVE DegreesTried'
      <3>1. status' = IF best = <<>> THEN "unreachable" ELSE "reachable"
        BY <1>7, <2>2 DEF Conclude
      <3>2. DegreesSolved' = DegreesSolved /\ DegreeScores' = DegreeScores /\ Additions' = Additions
        BY <2>1, <1>3 DEF DegreesSolved, DegreeScores, DegreesMeet, Targets
      <3> QED
        BY <2>1, <2>2, <3>1, <3>2 DEF DegreesTried, DegreeInv
    <2> QED
      BY <2>1, <2>2, <1>3 DEF DegreeInv
  <1> QED
    BY <1>1, <1>2, <1>4, <1>5, <1>6, <1>7 DEF SearchNext

LEMMA EdgesMeet ==
    ASSUME Posed, NEW a \in Additions, NEW t, t = WithWindows(capture.snapshot, PressureCover(a).windows)
    PROVE  Reached(t, [r \in DOMAIN t.parent |-> r]) <=> DegreesMeet(a)
  <1> DEFINE s == capture.snapshot
             D == DOMAIN Targets
             cover == PressureCover(a)
             W == cover.windows
             N == cover.count
             u == WithDegrees(s, a)
             x == Replay(u, capture.limit, Own(u))
             y == Replay(t, capture.limit, Own(t))
  <1>1. /\ DOMAIN s = Fields /\ IsSnapshot(s) /\ HasRoots(s)
        /\ \A r \in s.active : r >= FirstVirtual
        /\ D \subseteq s.active /\ D # {}
    BY CapturesAssumption, QueriesAssumption DEF Posed, Fields, Targets
  <1>2. Classed
    BY ClassAssumption DEF Classed, Physical
  <1>3. a \in [D -> 0..MaxExtra] /\ MaxExtra \in Nat
    BY ExtraAssumption DEF Additions
  <1>4. D \subseteq Nodes(s) /\ Nodes(s) # {}
    BY <1>1 DEF IsSnapshot
  <1> HIDE DEF D
  <1>5. Covers(cover, a, D)
    BY <1>3, LayersCover
  <1>6. N \in Nat /\ W \in [1..N -> SUBSET D]
        /\ \A r \in D : Cardinality({n \in 1..N : r \in W[n]}) = a[r]
    BY <1>5 DEF Covers
  <1> HIDE DEF s, cover, W, N, u
  <1>7. W \in Seq(SUBSET Nodes(s)) /\ Len(W) = N
    <2>1. W \in [1..N -> SUBSET Nodes(s)]
      BY <1>4, <1>6
    <2> QED
      BY <2>1, <1>6
  <1>8. Grown(s, t, W, N)
    <2>1. t = WithWindows(s, W)
      BY DEF s, W, cover
    <2> QED
      BY <2>1, <1>1, <1>4, <1>7, WindowsGrow
  <1>9. ASSUME NEW r \in s.active PROVE Marks(W, N, r) = IF r \in DOMAIN a THEN a[r] ELSE 0
    <2>1. CASE r \in D
      BY <2>1, <1>3, <1>6 DEF Marks
    <2>2. CASE r \notin D
      <3>1. {n \in 1..N : r \in W[n]} = {}
        BY <2>2, <1>6
      <3> QED
        BY <3>1, <2>2, <1>3, FS_EmptySet DEF Marks
    <2> QED
      BY <2>1, <2>2
  <1>10. u = WithDegrees(s, a) /\ \A r \in DOMAIN a : a[r] \in Nat
    BY <1>3 DEF u
  <1>11. ASSUME NEW r \in D PROVE r \in DOMAIN x /\ r \in DOMAIN y /\ y[r] = x[r]
    BY <1>1, <1>2, <1>8, <1>9, <1>10, DegreesAreWindows
  <1>12. Score(y, Targets) = Score(x, Targets)
    <2> HIDE DEF x, y
    <2>1. {r \in D : r \in DOMAIN y /\ y[r] = Targets[r]} = {r \in D : r \in DOMAIN x /\ x[r] = Targets[r]}
      BY <1>11
    <2> QED
      BY <2>1 DEF Score, D
  <1>13. Reached(t, [r \in DOMAIN t.parent |-> r]) <=> Hits(y, Targets)
    BY DEF Reached, Own
  <1>14. DegreesMeet(a) <=> Hits(x, Targets)
    <2>1. u.parent = s.parent
      BY <1>1, <1>10, DegreesAreAdded
    <2>2. Own(u) = [r \in DOMAIN s.parent |-> r]
      BY <2>1 DEF Own
    <2> QED
      BY <2>2, <1>10 DEF DegreesMeet, s
  <1> HIDE DEF x, y
  <1> QED
    BY <1>12, <1>13, <1>14 DEF Hits

LEMMA EdgesWhenTried ==
    ASSUME DegreeInv
    PROVE  DegreesAreEdges
  <1> DEFINE met(a) == LET s == WithWindows(capture.snapshot, PressureCover(a).windows)
                       IN  Reached(s, [r \in DOMAIN s.parent |-> r])
             total(a) == DegreeScore(a)[1]
             cover == PressureCover(best[2])
             webs == DOMAIN Targets
             Minimal == \A size \in 0..cover.count :
                          \A windows \in [1..size -> SUBSET webs] :
                            Degrees(windows, webs) = best[2] =>
                              /\ size = cover.count
                              /\ \A t \in cover.shared :
                                   Cardinality({n \in 1..size : {t[1], t[2]} \subseteq windows[n]}) >= t[3]
  <1> SUFFICES ASSUME query.kind = "degree", status # "searching"
               PROVE  /\ status = "reachable" <=> \E a \in Additions : met(a)
                      /\ best # <<>> =>
                           /\ met(best[2])
                           /\ Degrees(cover.windows, webs) = best[2]
                           /\ \A a \in Additions : met(a) => total(best[2]) <= total(a)
                           /\ Minimal
    BY DEF DegreesAreEdges
  <1>1. Posed /\ DegreesTried /\ families = {} /\ pending = {}
    BY DEF DegreeInv, DegreesTried
  <1>2. DegreesSolved = {a \in Additions : met(a)}
    <2>1. \A a \in Additions : met(a) <=> DegreesMeet(a)
      BY <1>1, EdgesMeet
    <2> HIDE DEF met
    <2> QED
      BY <2>1, <1>1 DEF DegreesSolved
  <1> HIDE DEF met
  <1>3. /\ IsBest(DegreesSolved, DegreeScores, best)
        /\ status = "reachable" <=> best # <<>>
    BY <1>1 DEF DegreesTried
  <1>4. status = "reachable" <=> \E a \in Additions : met(a)
    BY <1>2, <1>3 DEF IsBest
  <1>5. ASSUME best # <<>>
        PROVE  /\ best[2] \in Additions /\ met(best[2])
               /\ \A a \in Additions : met(a) => total(best[2]) <= total(a)
    <2>1. /\ best[2] \in DegreesSolved
          /\ \A a \in DegreesSolved : DegreeScores[best[2]][1] <= DegreeScores[a][1]
      BY <1>3, <1>5 DEF IsBest
    <2> QED
      BY <2>1, <1>2 DEF DegreeScores
  <1>6. ASSUME NEW a \in Additions, NEW m, m = PressureCover(a)
        PROVE  /\ Degrees(m.windows, webs) = a
               /\ \A size \in 0..m.count :
                    \A windows \in [1..size -> SUBSET webs] :
                      Degrees(windows, webs) = a =>
                        /\ size = m.count
                        /\ \A t \in m.shared :
                             Cardinality({n \in 1..size : {t[1], t[2]} \subseteq windows[n]}) >= t[3]
    <2>1. a \in [webs -> 0..MaxExtra] /\ MaxExtra \in Nat
      BY ExtraAssumption DEF Additions
    <2> HIDE DEF webs
    <2>2. Covers(m, a, webs)
      BY <2>1, <1>6, LayersCover
    <2>3. /\ m.windows \in [1..m.count -> SUBSET webs]
          /\ \A r \in webs : Cardinality({n \in 1..m.count : r \in m.windows[n]}) = a[r]
      BY <2>2 DEF Covers
    <2>4. Degrees(m.windows, webs) = a
      BY <2>1, <2>3 DEF Degrees
    <2>5. ASSUME NEW size \in 0..m.count, NEW windows \in [1..size -> SUBSET webs],
                 Degrees(windows, webs) = a
          PROVE  /\ size = m.count
                 /\ \A t \in m.shared :
                      Cardinality({n \in 1..size : {t[1], t[2]} \subseteq windows[n]}) >= t[3]
      <3>1. HasDegrees(windows, size, a, webs)
        BY <2>5 DEF Degrees, HasDegrees
      <3>2. IsAsLarge(m, size, windows)
        BY <3>1, <2>2, CoversAreMinimal
      <3> QED
        BY <3>2 DEF IsAsLarge
    <2> QED
      BY <2>4, <2>5
  <1>7. ASSUME best # <<>> PROVE Degrees(cover.windows, webs) = best[2] /\ Minimal
    BY <1>5, <1>6, <1>7
  <1> HIDE DEF total, Minimal
  <1> QED
    BY <1>4, <1>5, <1>7

(* The additions that the degree search reports stand for live ranges that *)
(* give the targets their colours, and no fewer of them do, for any graph. *)
THEOREM DegreesFound == SearchSpec => []DegreesAreEdges
  <1>1. SearchInit => DegreeInv
    BY DegreeSearchStarts
  <1>2. DegreeInv /\ [SearchNext]_questionVars => DegreeInv'
    BY DegreeSearchGoesOn
  <1>3. DegreeInv => DegreesAreEdges
    BY EdgesWhenTried
  <1> QED
    BY <1>1, <1>2, <1>3, PTL DEF SearchSpec

-----------------------------------------------------------------------------
(***************************************************************************)
(* The search for birth ranks.                                             *)
(***************************************************************************)
LEMMA BirthsFollow ==
    ASSUME NEW K, IsFiniteSet(K), NEW f, \A r \in K : f[r] \in Int,
           NEW a \in K, NEW b \in K, f[a] < f[b]
    PROVE  /\ Cardinality({q \in K : f[q] < f[a]}) \in Nat
           /\ Cardinality({q \in K : f[q] < f[b]}) \in Nat
           /\ Cardinality({q \in K : f[q] < f[a]}) < Cardinality({q \in K : f[q] < f[b]})
  <1> DEFINE A == {q \in K : f[q] < f[a]}
             B == {q \in K : f[q] < f[b]}
  <1>1. A \subseteq B /\ B \subseteq K /\ a \in B /\ a \notin A
    OBVIOUS
  <1> HIDE DEF A, B
  <1>2. IsFiniteSet(B) /\ Cardinality(B) \in Nat
    BY <1>1, FS_Subset, FS_CardinalityType
  <1>3. /\ IsFiniteSet(A) /\ Cardinality(A) <= Cardinality(B)
        /\ Cardinality(B) = Cardinality(A) => B = A
    BY <1>1, <1>2, FS_Subset
  <1>4. Cardinality(A) \in Nat /\ Cardinality(A) # Cardinality(B)
    BY <1>1, <1>3, FS_CardinalityType
  <1>5. Cardinality(A) < Cardinality(B)
    BY <1>2, <1>3, <1>4
  <1> QED
    BY <1>2, <1>4, <1>5 DEF A, B

(* Two numberings that both follow a third one order alike.                *)
LEMMA FollowersAreOrdered ==
    ASSUME NEW A, NEW f, NEW B, NEW C, A \subseteq Int,
           \A r \in A : f[r] \in Int /\ B[r] \in Int /\ C[r] \in Int,
           \A a, b \in A : f[a] = f[b] => a = b,
           \A a, b \in A : f[a] < f[b] => B[a] < B[b] /\ C[a] < C[b]
    PROVE  Ordered(B, C, A)
  <1> SUFFICES ASSUME NEW a \in A, NEW b \in A PROVE Before(B, a, b) <=> Before(C, a, b)
    BY DEF Ordered
  <1>1. /\ f[a] \in Int /\ f[b] \in Int /\ B[a] \in Int /\ B[b] \in Int
        /\ C[a] \in Int /\ C[b] \in Int /\ a \in Int /\ b \in Int
    OBVIOUS
  <1>2. CASE a = b
    BY <1>1, <1>2 DEF Before
  <1>3. CASE f[a] < f[b]
    <2>1. B[a] < B[b] /\ C[a] < C[b]
      BY <1>3
    <2> QED
      BY <1>1, <2>1 DEF Before
  <1>4. CASE f[b] < f[a]
    <2>1. B[b] < B[a] /\ C[b] < C[a]
      BY <1>4
    <2> QED
      BY <1>1, <2>1 DEF Before
  <1> QED
    BY <1>1, <1>2, <1>3, <1>4

LEMMA MovableIsPermutable ==
    ASSUME capture \in Captures
    PROVE  /\ Permutable(capture) = Movable /\ Removable(capture) = Slots
           /\ Movable \subseteq Nodes(capture.snapshot)
           /\ \A r \in Movable : r > FirstVirtual /\ r \in Nat
  <1>1. /\ \A r \in capture.objects : r \in Nodes(capture.snapshot) /\ r >= FirstVirtual
        /\ Nodes(capture.snapshot) \subseteq Nat
    BY CapturesAssumption DEF IsSnapshot
  <1>2. FirstVirtual \in Nat
    BY ClassAssumption
  <1>3. OfKind(capture, "object") = {r \in capture.objects : capture.snapshot.parent[r] = r}
    BY <1>1 DEF OfKind, Kind, Nodes
  <1>4. Permutable(capture) = Movable
    BY <1>3 DEF Permutable, Fixed, Movable
  <1>5. Removable(capture) = Slots
    BY <1>4 DEF Removable, Slots
  <1>6. \A r \in Movable : r \in Nodes(capture.snapshot) /\ r >= FirstVirtual /\ r # FirstVirtual
    BY <1>1 DEF Movable
  <1> QED
    BY <1>1, <1>2, <1>4, <1>5, <1>6

(* A slot that may be removed plays no part in the colouring.              *)
LEMMA SlotsAreLone ==
    ASSUME capture \in Captures, NEW gone \in SUBSET Slots, NEW s, s = capture.snapshot
    PROVE  Lone(s, gone \cap s.active) /\ Rootless(s, gone \cap s.active)
  <1> DEFINE G == gone \cap s.active
  <1>1. /\ IsSnapshot(s)
        /\ \A r \in Nodes(s) : /\ s.extra[r] = 0
                               /\ \A n \in s.neighbors[r] : r \in s.neighbors[n]
                               /\ s.neighbors[r] \subseteq s.neighbors[Canonical(s, r)]
    BY CapturesAssumption
  <1>2. /\ s.active \subseteq Nodes(s) /\ \A r \in Nodes(s) : s.neighbors[r] \subseteq Nodes(s)
    BY <1>1 DEF IsSnapshot
  <1>3. \A r \in G : s.neighbors[r] = {} /\ r \in s.active
    BY DEF Slots
  <1>4. ASSUME NEW r \in s.active, NEW n \in s.neighbors[r] PROVE n \notin G
    BY <1>1, <1>2, <1>3, <1>4
  <1>5. ASSUME NEW r \in s.active, NEW n \in s.neighbors[r] PROVE Canonical(s, n) \notin G
    <2>1. n \in Nodes(s) /\ r \in s.neighbors[n]
      BY <1>1, <1>2, <1>5
    <2>2. r \in s.neighbors[Canonical(s, n)]
      BY <1>1, <2>1
    <2> QED
      BY <1>3, <2>2
  <1>6. Lone(s, G)
    <2>1. G \subseteq s.active /\ \A r \in G : s.neighbors[r] = {} /\ s.extra[r] = 0
      BY <1>1, <1>2, <1>3
    <2> HIDE DEF G
    <2>2. \A r \in s.active : s.neighbors[r] \cap G = {}
      BY <1>4
    <2> QED
      BY <2>1, <2>2 DEF Lone
  <1>7. Rootless(s, G)
    <2> HIDE DEF G
    <2> QED
      BY <1>5 DEF Rootless, Roots
  <1> QED
    BY <1>6, <1>7
(* Objects that change places as in p are tried in the order h.            *)
Facing(P, p, h) ==
  /\ p \in [P -> P] /\ \A x, y \in P : p[x] = p[y] => x = y
  /\ h \in SetToSeqs(P)
  /\ \A i, j \in 1..Cardinality(P) : i < j <=> p[h[j]] < p[h[i]]

(* The band that may move, its highest number, and what is gone of it.     *)
Band(H, N, g, n) ==
  /\ H \in Int /\ N \in Nat /\ g \in Nat /\ n \in Nat /\ N = n + g
  /\ \A r \in Movable : r <= H
  /\ Movable # {} => H \in Movable
  /\ \A o \in Int : (\A r \in Movable : o < r) /\ Movable # {} => N <= H - o

LEMMA BandIs ==
    ASSUME capture \in Captures, NEW gone \in SUBSET Slots
    PROVE  Band(Greatest(Movable \cup {FirstVirtual - 1}), Cardinality(Movable), Cardinality(gone),
                Cardinality(Movable \ gone))
           /\ IsFiniteSet(Movable \ gone)
  <1> DEFINE H == Greatest(Movable \cup {FirstVirtual - 1})
             N == Cardinality(Movable)
  <1>1. /\ Movable \subseteq Nodes(capture.snapshot) /\ IsFiniteSet(Nodes(capture.snapshot))
        /\ \A r \in Movable : r > FirstVirtual /\ r \in Nat
        /\ FirstVirtual \in Nat
    BY MovableIsPermutable, CapturesAssumption, ClassAssumption DEF IsSnapshot
  <1>2. IsFiniteSet(Movable) /\ gone \subseteq Movable
    BY <1>1, FS_Subset DEF Slots
  <1>3. /\ IsFiniteSet(gone) /\ IsFiniteSet(Movable \ gone) /\ N \in Nat /\ Cardinality(gone) \in Nat
        /\ Cardinality(Movable \ gone) \in Nat
    BY <1>2, FS_Subset, FS_CardinalityType
  <1>4. Cardinality(Movable \ gone) = N - Cardinality(gone)
    <2>1. Cardinality(Movable \ gone) = Cardinality(Movable) - Cardinality(Movable \cap gone)
      BY <1>2, FS_Difference
    <2>2. Movable \cap gone = gone
      BY <1>2
    <2> QED
      BY <2>1, <2>2
  <1>5. H \in Movable \cup {FirstVirtual - 1} /\ \A y \in Movable \cup {FirstVirtual - 1} : y <= H
    <2> DEFINE S == Movable \cup {FirstVirtual - 1}
    <2>1. IsFiniteSet(S) /\ S \subseteq Int /\ S # {}
      BY <1>1, <1>2, FS_AddElement
    <2> HIDE DEF S
    <2> QED
      BY <2>1, GreatestOfFinite DEF S
  <1> HIDE DEF H
  <1>6. H \in Int /\ (\A r \in Movable : r <= H) /\ (Movable # {} => H \in Movable)
    <2>1. H \in Int
      BY <1>1, <1>5
    <2>2. ASSUME NEW r \in Movable PROVE r <= H /\ H # FirstVirtual - 1
      BY <1>1, <1>5, <2>2
    <2> QED
      BY <1>5, <2>1, <2>2
  <1>7. ASSUME NEW o \in Int, \A r \in Movable : o < r, Movable # {} PROVE N <= H - o
    <2>1. Movable \subseteq (o + 1)..H
      BY <1>1, <1>6, <1>7
    <2>2. o < H
      BY <1>6, <1>7
    <2>3. IsFiniteSet((o + 1)..H) /\ Cardinality((o + 1)..H) = H - o
      <3>1. o + 1 \in Int /\ ~(o + 1 > H) /\ H - (o + 1) + 1 = H - o
        BY <1>6, <2>2
      <3> QED
        BY <1>6, <3>1, FS_Interval
    <2> QED
      BY <2>1, <2>3, FS_Subset
  <1> QED
    BY <1>3, <1>4, <1>6, <1>7 DEF Band, H

(* The ranks of what may move, of the temporaries and of all others.       *)
RanksAre(B, P, h, H, g) ==
  /\ \A i \in 1..Cardinality(P) : B[h[i]] = H - g + 1 - i
  /\ \A r \in Nodes(capture.snapshot) \ P :
       B[r] = IF r \in OfKind(capture, "temporary") THEN r - g ELSE r

LEMMA RanksAreAssigned ==
    ASSUME capture \in Captures, NEW gone \in SUBSET Slots, NEW P, P = Movable \ gone,
           NEW h \in SetToSeqs(P)
    PROVE  RanksAre(RankAssignment(capture, h, gone), P, h,
                    Greatest(Movable \cup {FirstVirtual - 1}), Cardinality(gone))
  <1> DEFINE H == Greatest(Movable \cup {FirstVirtual - 1})
             B == RankAssignment(capture, h, gone)
             g == Cardinality(gone)
             n == Cardinality(P)
  <1>1. Permutable(capture) = Movable /\ Movable \subseteq Nodes(capture.snapshot)
    BY MovableIsPermutable
  <1>2. IsFiniteSet(P) /\ H \in Int /\ g \in Nat /\ n \in Nat
    BY BandIs DEF Band
  <1>3. Orders(P, h)
    BY <1>2, EveryElementIsPlaced
  <1>4. Range(h) = P /\ DOMAIN h = 1..n /\ \A i \in 1..n : h[i] \in P
    BY <1>3 DEF Orders
  <1>5. B = [r \in Nodes(capture.snapshot) |->
               IF r \in P THEN (H - g) + 1 - Position(h, r)
               ELSE IF r \in OfKind(capture, "temporary") THEN r - g ELSE r]
    BY <1>1, <1>4 DEF RankAssignment, Position, Nodes
  <1>6. \A i \in 1..n : Position(h, h[i]) = i
    BY <1>3, PositionIsUnique
  <1> HIDE DEF H, B, g, n
  <1>7. \A r \in P : r \in Nodes(capture.snapshot)
    BY <1>1
  <1>8. ASSUME NEW i \in 1..n PROVE B[h[i]] = H - g + 1 - i
    BY <1>4, <1>5, <1>6, <1>7
  <1>9. ASSUME NEW r \in Nodes(capture.snapshot) \ P
        PROVE  B[r] = IF r \in OfKind(capture, "temporary") THEN r - g ELSE r
    BY <1>5
  <1> QED
    BY <1>8, <1>9 DEF RanksAre, B, H, g, n

(* What a kept register is: it may move, is a temporary, or comes before   *)
(* all that may move.                                                      *)
IsPinned(r) ==
  r \notin Movable /\ r \notin OfKind(capture, "temporary") /\ \A x \in Movable : r < x

LEMMA KindOfKept ==
    ASSUME capture \in Captures, IsOneBand, NEW r \in capture.snapshot.active
    PROVE  /\ r \in Nodes(capture.snapshot) /\ r \in Nat /\ r >= FirstVirtual
           /\ \/ r \in Movable /\ r \notin OfKind(capture, "temporary")
              \/ r \in OfKind(capture, "temporary") /\ r \notin Movable /\ \A x \in Movable : x < r
              \/ IsPinned(r)
  <1>1. /\ r \in Nodes(capture.snapshot) /\ r \in Nat /\ r >= FirstVirtual
        /\ capture.snapshot.parent[r] = r
    BY CapturesAssumption DEF IsSnapshot
  <1>2. CASE r \notin capture.objects
    <2>1. r \in OfKind(capture, "temporary") /\ r \notin Movable
      BY <1>1, <1>2 DEF OfKind, Kind, Nodes, Movable
    <2> QED
      BY <1>1, <2>1 DEF IsOneBand
  <1>3. CASE r \in capture.objects
    <2>1. r \notin OfKind(capture, "temporary")
      BY <1>1, <1>3 DEF OfKind, Kind
    <2>2. CASE r \in Movable
      BY <1>1, <2>1, <2>2
    <2>3. CASE r \notin Movable
      <3>1. r \in capture.fixed \/ r = FirstVirtual
        BY <1>1, <1>3, <2>3 DEF Movable
      <3>2. \A x \in Movable : r < x
        BY <3>1, MovableIsPermutable, ClassAssumption DEF IsOneBand
      <3> QED
        BY <1>1, <2>1, <2>3, <3>2 DEF IsPinned
    <2> QED
      BY <2>2, <2>3
  <1> QED
    BY <1>2, <1>3
(* The ranks that the tool assigns follow the places of the registers.     *)
LEMMA RanksFollow ==
    ASSUME capture \in Captures, IsOneBand, NEW gone \in SUBSET Slots, NEW P, P = Movable \ gone,
           NEW p, NEW h, Facing(P, p, h), NEW B, B = RankAssignment(capture, h, gone),
           NEW f, f = Rearranged(p),
           NEW a \in capture.snapshot.active \ gone, NEW b \in capture.snapshot.active \ gone,
           f[a] < f[b]
    PROVE  B[a] < B[b]
  <1> DEFINE H == Greatest(Movable \cup {FirstVirtual - 1})
             N == Cardinality(Movable)
             g == Cardinality(gone)
             n == Cardinality(P)
             T == OfKind(capture, "temporary")
  <1>1. Band(H, N, g, n) /\ IsFiniteSet(P)
    BY BandIs
  <1>2. RanksAre(B, P, h, H, g)
    BY RanksAreAssigned DEF Facing
  <1>3. Orders(P, h)
    BY <1>1, EveryElementIsPlaced DEF Facing
  <1> HIDE DEF H, N, g, n, T
  <1>4. /\ H \in Int /\ N \in Nat /\ g \in Nat /\ n \in Nat /\ N = n + g
        /\ \A r \in Movable : r <= H
        /\ Movable # {} => H \in Movable
        /\ \A o \in Int : (\A r \in Movable : o < r) /\ Movable # {} => N <= H - o
    BY <1>1 DEF Band
  <1>5. ASSUME NEW r \in Nodes(capture.snapshot) PROVE f[r] = IF r \in P THEN p[r] ELSE r
    <2>1. DOMAIN p = P
      BY DEF Facing
    <2> QED
      BY <2>1 DEF Rearranged, Nodes
  <1>6. /\ \A x \in P : p[x] \in P /\ \E i \in 1..n : h[i] = x
        /\ \A i, j \in 1..n : i < j <=> p[h[j]] < p[h[i]]
    BY <1>3 DEF Facing, Orders, n
  <1>7. /\ \A i \in 1..n : B[h[i]] = H - g + 1 - i
        /\ \A r \in Nodes(capture.snapshot) \ P : B[r] = IF r \in T THEN r - g ELSE r
    BY <1>2 DEF RanksAre, n, T
  <1>8. /\ \A r \in Movable : r > FirstVirtual /\ r \in Nat
        /\ P \subseteq Movable /\ IsFiniteSet(Movable)
    <2>1. /\ \A r \in Movable : r > FirstVirtual /\ r \in Nat
          /\ Movable \subseteq Nodes(capture.snapshot) /\ IsFiniteSet(Nodes(capture.snapshot))
      BY MovableIsPermutable, CapturesAssumption DEF IsSnapshot
    <2> QED
      BY <2>1, FS_Subset
  <1> DEFINE Plain(r) == r \in Nodes(capture.snapshot) /\ r \in Nat
             Kinds(r) == \/ r \in P
                         \/ r \in T /\ r \notin P /\ \A x \in Movable : x < r
                         \/ r \notin T /\ r \notin P /\ \A x \in Movable : r < x
  <1>9. ASSUME NEW r \in capture.snapshot.active \ gone PROVE Plain(r) /\ Kinds(r)
    BY <1>8, KindOfKept DEF IsPinned, T
  <1>10. Plain(a) /\ Kinds(a) /\ Plain(b) /\ Kinds(b)
    BY <1>9
  <1>11. CASE a \in P /\ b \in P
    <2>1. PICK i \in 1..n : h[i] = a
      BY <1>6, <1>11
    <2>2. PICK j \in 1..n : h[j] = b
      BY <1>6, <1>11
    <2>3. p[h[i]] < p[h[j]]
      BY <1>5, <1>10, <1>11, <2>1, <2>2
    <2>4. j < i
      BY <1>6, <2>3
    <2>5. B[a] = H - g + 1 - i /\ B[b] = H - g + 1 - j
      BY <1>7, <2>1, <2>2
    <2> QED
      BY <1>4, <2>4, <2>5
  <1>12. CASE a \in P /\ b \notin P
    <2>1. p[a] \in Movable /\ p[a] < b /\ p[a] \in Nat
      BY <1>5, <1>6, <1>8, <1>10, <1>12
    <2>2. b \in T /\ \A x \in Movable : x < b
      BY <1>10, <1>12, <2>1
    <2>3. PICK i \in 1..n : h[i] = a
      BY <1>6, <1>12
    <2>4. B[a] = H - g + 1 - i /\ B[b] = b - g
      BY <1>7, <1>10, <1>12, <2>2, <2>3
    <2>5. H < b
      BY <1>4, <2>1, <2>2
    <2> QED
      BY <1>4, <1>10, <2>3, <2>4, <2>5
  <1>13. CASE a \notin P /\ b \in P
    <2>1. p[b] \in Movable /\ a < p[b] /\ p[b] \in Nat
      BY <1>5, <1>6, <1>8, <1>10, <1>13
    <2>2. a \notin T /\ \A x \in Movable : a < x
      BY <1>10, <1>13, <2>1
    <2>3. PICK j \in 1..n : h[j] = b
      BY <1>6, <1>13
    <2>4. B[b] = H - g + 1 - j /\ B[a] = a
      BY <1>7, <1>10, <1>13, <2>2, <2>3
    <2>5. N <= H - a
      BY <1>4, <1>10, <2>1, <2>2
    <2> QED
      BY <1>4, <1>10, <2>3, <2>4, <2>5
  <1>14. CASE a \notin P /\ b \notin P
    <2>1. /\ a < b /\ B[a] = (IF a \in T THEN a - g ELSE a) /\ B[b] = IF b \in T THEN b - g ELSE b
      BY <1>5, <1>7, <1>10, <1>14
    <2>2. CASE a \in T
      BY <1>4, <1>10, <2>1, <2>2
    <2>3. CASE a \notin T /\ b \notin T
      BY <2>1, <2>3
    <2>4. CASE a \notin T /\ b \in T
      <3>1. CASE Movable = {}
        <4>1. N = 0
          BY <3>1, FS_EmptySet DEF N
        <4> QED
          BY <1>4, <1>10, <2>1, <2>4, <4>1
      <3>2. CASE Movable # {}
        <4>1. (\A x \in Movable : a < x) /\ \A x \in Movable : x < b
          BY <1>10, <1>14, <2>4
        <4>2. N <= H - a /\ H < b
          BY <1>4, <1>10, <3>2, <4>1
        <4> QED
          BY <1>4, <1>10, <2>1, <2>4, <4>2
      <3> QED
        BY <3>1, <3>2
    <2> QED
      BY <2>2, <2>3, <2>4
  <1> QED
    BY <1>11, <1>12, <1>13, <1>14
Met(gone, h) == Reached(capture.snapshot, RankAssignment(capture, h, gone))

LEMMA RanksAreNumbers ==
    ASSUME capture \in Captures, NEW gone \in SUBSET Slots, NEW P, P = Movable \ gone,
           NEW p, NEW h, Facing(P, p, h)
    PROVE  /\ AreRanks(capture.snapshot, RankAssignment(capture, h, gone))
           /\ AreRanks(capture.snapshot, Births(gone, Rearranged(p)))
           /\ \A r \in Nodes(capture.snapshot) : Rearranged(p)[r] \in Int
  <1> DEFINE s == capture.snapshot
             H == Greatest(Movable \cup {FirstVirtual - 1})
             g == Cardinality(gone)
             B == RankAssignment(capture, h, gone)
             f == Rearranged(p)
  <1>1. /\ s.active \subseteq Nodes(s) /\ Nodes(s) \subseteq Nat /\ IsFiniteSet(Nodes(s))
        /\ FirstVirtual \in Nat
    BY CapturesAssumption, ClassAssumption DEF IsSnapshot
  <1>2. H \in Int /\ g \in Nat /\ IsFiniteSet(P)
    BY BandIs DEF Band
  <1>3. RanksAre(B, P, h, H, g)
    BY RanksAreAssigned DEF Facing
  <1>4. \A r \in P : \E i \in 1..Cardinality(P) : h[i] = r
    BY <1>2, EveryElementIsPlaced DEF Facing, Orders
  <1> HIDE DEF H, g, B
  <1>5. ASSUME NEW r \in Nodes(s) PROVE B[r] \in Int
    <2>1. CASE r \in P
      <3>1. PICK i \in 1..Cardinality(P) : h[i] = r
        BY <1>4, <2>1
      <3>2. B[r] = H - g + 1 - i /\ i \in Int
        BY <1>3, <3>1 DEF RanksAre
      <3> QED
        BY <1>2, <3>2
    <2>2. CASE r \notin P
      <3>1. B[r] = r - g \/ B[r] = r
        BY <1>3, <2>2 DEF RanksAre
      <3> QED
        BY <1>1, <1>2, <3>1
    <2> QED
      BY <2>1, <2>2
  <1>6. ASSUME NEW r \in Nodes(s) PROVE f[r] \in Int
    <2>1. DOMAIN p = P /\ \A x \in P : p[x] \in P
      BY DEF Facing
    <2>2. P \subseteq Nat
      BY MovableIsPermutable
    <2>3. f[r] = IF r \in P THEN p[r] ELSE r
      BY <2>1 DEF Rearranged, Nodes
    <2> QED
      BY <1>1, <2>1, <2>2, <2>3
  <1>7. ASSUME NEW r \in Nodes(s) PROVE Births(gone, f)[r] \in Int
    <2> DEFINE kept == {q \in Nodes(s) : q >= FirstVirtual} \ gone
               K == {q \in kept : f[q] < f[r]}
    <2>1. Births(gone, f)[r] = IF r \notin kept THEN r ELSE FirstVirtual + Cardinality(K)
      BY DEF Births, Nodes
    <2>2. K \subseteq Nodes(s)
      OBVIOUS
    <2> HIDE DEF K, kept
    <2>3. Cardinality(K) \in Nat
      BY <1>1, <2>2, FS_Subset, FS_CardinalityType
    <2> QED
      BY <1>1, <2>1, <2>3
  <1> QED
    BY <1>1, <1>5, <1>6, <1>7 DEF AreRanks, B

LEMMA BirthsAreOrdered ==
    ASSUME capture \in Captures, IsOneBand, NEW gone \in SUBSET Slots, NEW P, P = Movable \ gone,
           NEW p, NEW h, Facing(P, p, h)
    PROVE  Ordered(Births(gone, Rearranged(p)), RankAssignment(capture, h, gone),
                   capture.snapshot.active \ gone)
  <1> DEFINE s == capture.snapshot
             A == s.active \ gone
             f == Rearranged(p)
             B == Births(gone, f)
             C == RankAssignment(capture, h, gone)
             K == {q \in Nodes(s) : q >= FirstVirtual} \ gone
  <1>1. /\ s.active \subseteq Nodes(s) /\ Nodes(s) \subseteq Nat /\ IsFiniteSet(Nodes(s))
        /\ \A r \in s.active : r >= FirstVirtual
        /\ FirstVirtual \in Nat
    BY CapturesAssumption, ClassAssumption DEF IsSnapshot
  <1>2. /\ \A r \in s.active : C[r] \in Int /\ B[r] \in Int
        /\ \A r \in Nodes(s) : f[r] \in Int
    BY RanksAreNumbers DEF AreRanks
  <1>3. ASSUME NEW r \in Nodes(s) PROVE f[r] = IF r \in P THEN p[r] ELSE r
    <2>1. DOMAIN p = P
      BY DEF Facing
    <2> QED
      BY <2>1 DEF Rearranged, Nodes
  <1>4. ASSUME NEW a \in A, NEW b \in A, f[a] = f[b] PROVE a = b
    <2>1. /\ a \in Nodes(s) /\ b \in Nodes(s) /\ a \notin gone /\ b \notin gone
      BY <1>1
    <2>2. /\ \A x, y \in P : p[x] \in P /\ (p[x] = p[y] => x = y)
      BY DEF Facing
    <2> QED
      BY <1>3, <1>4, <2>1, <2>2
  <1>5. ASSUME NEW a \in A, NEW b \in A, f[a] < f[b] PROVE B[a] < B[b]
    <2>1. a \in K /\ b \in K /\ K \subseteq Nodes(s) /\ a \in Nodes(s) /\ b \in Nodes(s)
      BY <1>1
    <2> DEFINE c(x) == Cardinality({q \in K : f[q] < f[x]})
    <2>2. /\ B[a] = FirstVirtual + c(a) /\ B[b] = FirstVirtual + c(b)
      BY <2>1 DEF Births, Nodes
    <2>3. IsFiniteSet(K) /\ \A r \in K : f[r] \in Int
      BY <1>1, <1>2, <2>1, FS_Subset
    <2> HIDE DEF K, f
    <2>4. c(a) \in Nat /\ c(b) \in Nat /\ c(a) < c(b)
      BY <1>5, <2>1, <2>3, BirthsFollow
    <2> HIDE DEF c
    <2> QED
      BY <1>1, <2>2, <2>4
  <1>6. ASSUME NEW a \in A, NEW b \in A, f[a] < f[b] PROVE C[a] < C[b]
    BY <1>6, RanksFollow
  <1>7. A \subseteq Int /\ \A r \in A : f[r] \in Int /\ B[r] \in Int /\ C[r] \in Int
    BY <1>1, <1>2
  <1> HIDE DEF A, f, B, C
  <1>8. Ordered(B, C, A)
    BY <1>4, <1>5, <1>6, <1>7, FollowersAreOrdered
  <1> QED
    BY <1>8 DEF A, f, B, C

LEMMA BirthsAreTried ==
    ASSUME Posed, IsOneBand, NEW gone \in SUBSET Slots, NEW P, P = Movable \ gone,
           NEW p, NEW h, Facing(P, p, h)
    PROVE  Reached(capture.snapshot, Births(gone, Rearranged(p))) <=> Met(gone, h)
  <1> DEFINE s == capture.snapshot
             G == gone \cap s.active
             k == capture.limit
             B == Births(gone, Rearranged(p))
             C == RankAssignment(capture, h, gone)
             D == DOMAIN Targets
  <1>1. capture \in Captures /\ D \subseteq s.active
    BY DEF Posed
  <1>2. /\ IsSnapshot(s) /\ k \in Nat /\ k > 0
        /\ \A r \in s.active : r >= FirstVirtual
    BY <1>1, CapturesAssumption
  <1>3. Classed /\ Endowed /\ Separate(s)
    BY <1>2, ClassAssumption DEF Classed, Endowed, Separate, Physical, IsSnapshot
  <1>4. Lone(s, G) /\ Rootless(s, G)
    BY <1>1, SlotsAreLone
  <1>5. AreRanks(s, B) /\ AreRanks(s, C)
    BY <1>1, RanksAreNumbers
  <1>6. Ordered(B, C, s.active \ G)
    <2>1. Ordered(B, C, s.active \ gone)
      BY <1>1, BirthsAreOrdered
    <2>2. s.active \ gone = s.active \ G
      OBVIOUS
    <2> QED
      BY <2>1, <2>2
  <1> HIDE DEF B, C, G, k, D
  <1>7. \A r \in s.active : /\ r \in DOMAIN Replay(s, k, B) /\ r \in DOMAIN Replay(s, k, C)
                            /\ Replay(s, k, B)[r] = Replay(s, k, C)[r]
    BY <1>2, <1>3, <1>4, <1>5, <1>6, ReplaysMatch
  <1>8. {r \in D : r \in DOMAIN Replay(s, k, B) /\ Replay(s, k, B)[r] = Targets[r]}
          = {r \in D : r \in DOMAIN Replay(s, k, C) /\ Replay(s, k, C)[r] = Targets[r]}
    BY <1>1, <1>7
  <1>9. Hits(Replay(s, k, B), Targets) <=> Hits(Replay(s, k, C), Targets)
    BY <1>8 DEF Hits, Score, D
  <1> QED
    BY <1>9 DEF Reached, Met, B, C, k
(* Every rearrangement of the objects is an order that is tried, and every *)
(* order tried is a rearrangement.                                         *)
LEMMA PlacesHaveAnOrder ==
    ASSUME NEW P, IsFiniteSet(P), P \subseteq Int, NEW p \in [P -> P],
           \A x, y \in P : p[x] = p[y] => x = y
    PROVE  \E h : Facing(P, p, h)
  <1> DEFINE n == Cardinality(P)
             q == Ranked(P, p)
             h == Reverse(q)
  <1>1. \A r \in P : p[r] \in Int
    OBVIOUS
  <1>2. /\ q \in Seq(P) /\ Len(q) = n /\ n \in Nat
        /\ Distinct(q) /\ ToSet(q) = P
        /\ \A i, j \in 1..n : i < j <=> Before(p, q[i], q[j])
    <2>1. Enumerates(q, P, p) /\ Len(q) = n /\ n \in Nat /\ q \in Seq(P)
      BY <1>1, RankedEnumerates
    <2> HIDE DEF q, n
    <2>2. Len(q) = Cardinality(P)
      BY <2>1 DEF n
    <2>3. /\ Distinct(q) /\ ToSet(q) = P
          /\ \A i, j \in 1 .. Len(q) : i < j <=> Before(p, q[i], q[j])
      BY <1>1, <2>1, <2>2, EnumerationIsOrdered
    <2> QED
      BY <2>1, <2>3
  <1> HIDE DEF q, n
  <1>3. /\ h \in Seq(P) /\ Len(h) = n /\ ToSet(h) = P
        /\ \A i \in 1..n : h[i] = q[n - i + 1]
    BY <1>2, ReverseOfSequence
  <1> HIDE DEF h
  <1>4. \A i \in 1..n : n - i + 1 \in 1..n /\ q[n - i + 1] \in P
    BY <1>2
  <1>5. Distinct(h)
    <2> SUFFICES ASSUME NEW i \in 1..n, NEW j \in 1..n, h[i] = h[j] PROVE i = j
      BY <1>3 DEF Distinct
    <2>1. q[n - i + 1] = q[n - j + 1]
      BY <1>3
    <2>2. n - i + 1 = n - j + 1
      BY <1>2, <1>4, <2>1 DEF Distinct
    <2> QED
      BY <1>2, <2>2
  <1>6. Range(h) = P
    BY <1>3 DEF ToSet, Range
  <1>7. h \in SetToSeqs(P)
    BY <1>3, <1>5, <1>6, OrdersAreListed
  <1>8. ASSUME NEW i \in 1..n, NEW j \in 1..n PROVE i < j <=> p[h[j]] < p[h[i]]
    <2> DEFINE k == n - i + 1
               m == n - j + 1
    <2>1. k \in 1..n /\ m \in 1..n /\ (i < j <=> m < k)
      BY <1>2
    <2>2. h[i] = q[k] /\ h[j] = q[m] /\ q[k] \in P /\ q[m] \in P
      BY <1>3, <1>4
    <2> HIDE DEF k, m
    <2>3. m < k <=> Before(p, q[m], q[k])
      BY <1>2, <2>1
    <2>4. ASSUME NEW x \in P, NEW y \in P PROVE Before(p, x, y) <=> p[x] < p[y]
      <3>1. p[x] = p[y] => x = y
        OBVIOUS
      <3>2. p[x] \in Int /\ p[y] \in Int /\ x \in Int /\ y \in Int
        BY <1>1
      <3> QED
        BY <3>1, <3>2 DEF Before
    <2> QED
      BY <2>1, <2>2, <2>3, <2>4
  <1> QED
    BY <1>7, <1>8 DEF Facing, n

LEMMA OrderHasPlaces ==
    ASSUME NEW P, IsFiniteSet(P), P \subseteq Int, NEW h \in SetToSeqs(P)
    PROVE  \E p : Facing(P, p, h)
  <1> DEFINE n == Cardinality(P)
             own == [r \in P |-> r]
             e == Ranked(P, own)
             p == [x \in P |-> e[n + 1 - Position(h, x)]]
  <1>1. /\ e \in Seq(P) /\ Len(e) = n /\ n \in Nat /\ Distinct(e)
        /\ \A i, j \in 1..n : i < j <=> Before(own, e[i], e[j])
    <2>1. \A r \in P : own[r] \in Int
      OBVIOUS
    <2> HIDE DEF own
    <2>2. Enumerates(e, P, own) /\ Len(e) = n /\ n \in Nat /\ e \in Seq(P)
      BY <2>1, RankedEnumerates
    <2> HIDE DEF e, n
    <2>3. Len(e) = Cardinality(P)
      BY <2>2 DEF n
    <2>4. /\ Distinct(e)
          /\ \A i, j \in 1 .. Len(e) : i < j <=> Before(own, e[i], e[j])
      BY <2>1, <2>2, <2>3, EnumerationIsOrdered
    <2> QED
      BY <2>2, <2>4
  <1>2. ASSUME NEW i \in 1..n, NEW j \in 1..n PROVE e[i] \in P /\ (i < j <=> e[i] < e[j])
    <2>1. e[i] \in P /\ e[j] \in P /\ own[e[i]] = e[i] /\ own[e[j]] = e[j]
      BY <1>1
    <2> HIDE DEF own
    <2>2. Before(own, e[i], e[j]) <=> e[i] < e[j]
      BY <2>1 DEF Before
    <2> QED
      BY <1>1, <2>1, <2>2
  <1> HIDE DEF e
  <1>3. Orders(P, h)
    BY EveryElementIsPlaced
  <1>4. \A i \in 1..n : h[i] \in P /\ Position(h, h[i]) = i
    BY <1>3, PositionIsUnique DEF Orders
  <1>5. \A x \in P : \E i \in 1..n : h[i] = x /\ Position(h, x) = i
    <2>1. \A x \in P : \E i \in 1..n : h[i] = x
      BY <1>3 DEF Orders
    <2> QED
      BY <1>4, <2>1
  <1> HIDE DEF n
  <1>6. \A i \in 1..n : n + 1 - i \in 1..n
    BY <1>1
  <1>7. \A i \in 1..n : p[h[i]] = e[n + 1 - i]
    BY <1>4
  <1>8. p \in [P -> P]
    <2> SUFFICES ASSUME NEW x \in P PROVE e[n + 1 - Position(h, x)] \in P
      OBVIOUS
    <2> QED
      BY <1>2, <1>5, <1>6
  <1> HIDE DEF p
  <1>9. ASSUME NEW i \in 1..n, NEW j \in 1..n PROVE i < j <=> p[h[j]] < p[h[i]]
    <2> DEFINE k == n + 1 - i
               m == n + 1 - j
    <2>1. k \in 1..n /\ m \in 1..n /\ (i < j <=> m < k)
      BY <1>1
    <2>2. p[h[i]] = e[k] /\ p[h[j]] = e[m]
      BY <1>7
    <2> HIDE DEF k, m
    <2> QED
      BY <1>2, <2>1, <2>2
  <1>10. ASSUME NEW x \in P, NEW y \in P, p[x] = p[y] PROVE x = y
    <2>1. PICK i \in 1..n : h[i] = x
      BY <1>5
    <2>2. PICK j \in 1..n : h[j] = y
      BY <1>5
    <2>3. ~(i < j) /\ ~(j < i)
      <3>1. p[x] \in Int
        BY <1>8
      <3> QED
        BY <1>9, <1>10, <2>1, <2>2, <3>1
    <2>4. i = j
      BY <1>1, <2>3
    <2> QED
      BY <2>1, <2>2, <2>4
  <1> QED
    BY <1>8, <1>9, <1>10 DEF Facing, n

(* The numberings of the family and the hypotheses of the search reach the *)
(* same targets.                                                           *)
LEMMA FamilyIsTried ==
    ASSUME Posed, IsOneBand
    PROVE  (\E m \in Numberings : Reached(capture.snapshot, m)) <=>
             \E gone \in SUBSET Slots : \E h \in SetToSeqs(Movable \ gone) : Met(gone, h)
  <1> DEFINE Arranged(gone, p) == p \in [Movable \ gone -> Movable \ gone] /\ IsInjective(p)
  <1>1. capture \in Captures
    BY DEF Posed
  <1>2. ASSUME NEW gone \in SUBSET Slots
        PROVE  IsFiniteSet(Movable \ gone) /\ Movable \ gone \subseteq Int
    <2>1. IsFiniteSet(Movable \ gone)
      BY <1>1, BandIs
    <2>2. \A r \in Movable : r \in Nat
      BY <1>1, MovableIsPermutable
    <2> QED
      BY <2>1, <2>2
  <1>3. ASSUME NEW m
        PROVE  m \in Numberings <=>
                 \E gone \in SUBSET Slots : \E p : Arranged(gone, p) /\ m = Births(gone, Rearranged(p))
    <2> DEFINE Of(gone) == {Births(gone, Rearranged(p)) :
                              p \in {f \in [Movable \ gone -> Movable \ gone] : IsInjective(f)}}
    <2>1. m \in Numberings <=> \E gone \in SUBSET Slots : m \in Of(gone)
      BY DEF Numberings
    <2>2. ASSUME NEW gone
          PROVE  m \in Of(gone) <=> \E p : Arranged(gone, p) /\ m = Births(gone, Rearranged(p))
      OBVIOUS
    <2> HIDE DEF Of, Arranged
    <2> QED
      BY <2>1, <2>2
  <1>4. ASSUME NEW gone \in SUBSET Slots, NEW p
        PROVE  Arranged(gone, p) => /\ p \in [Movable \ gone -> Movable \ gone]
                                    /\ \A x, y \in Movable \ gone : p[x] = p[y] => x = y
    BY DEF IsInjective
  <1>5. ASSUME NEW gone \in SUBSET Slots, NEW p, NEW h, Facing(Movable \ gone, p, h)
        PROVE  Arranged(gone, p) /\ h \in SetToSeqs(Movable \ gone)
    BY <1>5 DEF Facing, IsInjective
  <1>6. ASSUME NEW gone \in SUBSET Slots, NEW p, Arranged(gone, p),
               Reached(capture.snapshot, Births(gone, Rearranged(p)))
        PROVE  \E h \in SetToSeqs(Movable \ gone) : Met(gone, h)
    <2> HIDE DEF Arranged
    <2>1. PICK h : Facing(Movable \ gone, p, h)
      BY <1>2, <1>4, <1>6, PlacesHaveAnOrder
    <2>2. Met(gone, h)
      BY <1>6, <2>1, BirthsAreTried
    <2> QED
      BY <1>5, <2>1, <2>2
  <1>7. ASSUME NEW gone \in SUBSET Slots, NEW h \in SetToSeqs(Movable \ gone), Met(gone, h)
        PROVE  \E p : Arranged(gone, p) /\ Reached(capture.snapshot, Births(gone, Rearranged(p)))
    <2> HIDE DEF Arranged
    <2>1. PICK p : Facing(Movable \ gone, p, h)
      BY <1>2, OrderHasPlaces
    <2>2. Reached(capture.snapshot, Births(gone, Rearranged(p)))
      BY <1>7, <2>1, BirthsAreTried
    <2> QED
      BY <1>5, <2>1, <2>2
  <1> HIDE DEF Arranged
  <1> QED
    BY <1>3, <1>6, <1>7
Reachable == \E gone \in SUBSET Slots : \E h \in SetToSeqs(Movable \ gone) : Met(gone, h)

IsOpen(gone, h) == gone \in families \/ (gone = removed /\ h \in pending)

RanksTried ==
  /\ families \subseteq SUBSET Slots /\ removed \in SUBSET Slots
  /\ pending \subseteq SetToSeqs(Movable \ removed)
  /\ status = "reachable" => Reachable
  /\ exhaustive /\ status # "reachable" =>
       \A gone \in SUBSET Slots : \A h \in SetToSeqs(Movable \ gone) : Met(gone, h) => IsOpen(gone, h)
  /\ status = "unreachable" => exhaustive /\ families = {} /\ pending = {}

RankInv == Posed /\ (query.kind = "ranks" => RanksTried)

LEMMA RankSearchStarts ==
    ASSUME SearchInit
    PROVE  RankInv
  <1>1. Posed
    BY DEF SearchInit, Posed
  <1>2. ASSUME query.kind = "ranks" PROVE RanksTried
    <2>1. Removable(capture) = Slots
      BY <1>1, MovableIsPermutable DEF Posed
    <2>2. families = SUBSET Slots /\ removed = {} /\ pending = {} /\ status = "searching"
      BY <1>2, <2>1 DEF SearchInit
    <2> QED
      BY <2>2 DEF RanksTried, IsOpen
  <1> QED
    BY <1>1, <1>2 DEF RankInv

LEMMA QuestionStays ==
    ASSUME UNCHANGED <<capture, query>>, Posed
    PROVE  /\ Posed' /\ Slots' = Slots /\ Movable' = Movable /\ Reachable' = Reachable
           /\ \A gone, h : Met(gone, h)' = Met(gone, h)
  <1>1. Posed' /\ Slots' = Slots /\ Movable' = Movable
    BY DEF Posed, Targets, Slots, Movable
  <1>2. \A gone, h : Met(gone, h)' = Met(gone, h)
    BY DEF Met, Reached, Targets
  <1>3. Reachable' = Reachable
    BY <1>1, <1>2 DEF Reachable
  <1> QED
    BY <1>1, <1>2, <1>3

LEMMA RankIsTried ==
    ASSUME RankInv, TryRanks
    PROVE  RankInv'
  <1> DEFINE h == Hypothesis
             s == capture.snapshot
  <1>1. /\ query.kind = "ranks" /\ pending # {} /\ status = "searching"
        /\ UNCHANGED <<capture, query, prefix, rest, families, removed, always, exhaustive>>
        /\ pending' = pending \ {h}
    BY DEF TryRanks
  <1>2. Posed /\ RanksTried /\ h \in pending
    BY <1>1 DEF RankInv, Hypothesis
  <1>3. /\ Posed' /\ Slots' = Slots /\ Movable' = Movable /\ Reachable' = Reachable
        /\ \A gone, x : Met(gone, x)' = Met(gone, x)
    BY <1>1, <1>2, QuestionStays
  <1>4. status' = IF Met(removed, h) THEN "reachable" ELSE status
    BY DEF TryRanks, Met, Reached, Hits
  <1> HIDE DEF h
  <1>5. removed \in SUBSET Slots /\ h \in SetToSeqs(Movable \ removed)
    BY <1>2 DEF RanksTried
  <1>6. status' = "reachable" => Reachable'
    BY <1>1, <1>3, <1>4, <1>5 DEF Reachable
  <1>7. ASSUME exhaustive', status' # "reachable",
               NEW gone \in SUBSET Slots, NEW x \in SetToSeqs(Movable \ gone), Met(gone, x)
        PROVE  IsOpen(gone, x)'
    <2>1. ~Met(removed, h)
      BY <1>4, <1>7
    <2>2. IsOpen(gone, x)
      BY <1>1, <1>2, <1>7 DEF RanksTried
    <2>3. ~(gone = removed /\ x = h)
      BY <1>7, <2>1
    <2> QED
      BY <1>1, <2>2, <2>3 DEF IsOpen
  <1>8. /\ families' \subseteq SUBSET Slots' /\ removed' \in SUBSET Slots'
        /\ pending' \subseteq SetToSeqs(Movable' \ removed')
        /\ status' # "unreachable"
    BY <1>1, <1>2, <1>3, <1>4 DEF RanksTried
  <1>9. RanksTried'
    BY <1>3, <1>6, <1>7, <1>8 DEF RanksTried
  <1> QED
    BY <1>3, <1>9 DEF RankInv

(* Smaller sets of removed slots come first.                               *)
LEMMA SmallestFamily ==
    ASSUME NEW F, F # {}, \A f \in F : Cardinality(f) \in Nat
    PROVE  (CHOOSE f \in F : \A g \in F : Cardinality(f) <= Cardinality(g)) \in F
  <1> DEFINE N == {Cardinality(f) : f \in F}
  <1>1. N \in SUBSET Nat /\ N # {}
    OBVIOUS
  <1>2. PICK m \in N : \A k \in N : m <= k
    BY <1>1, LeastElement
  <1>3. PICK f \in F : m = Cardinality(f)
    BY <1>2
  <1>4. \A g \in F : Cardinality(f) <= Cardinality(g)
    BY <1>2, <1>3
  <1> QED
    BY <1>4

(* A set of numbers in ascending order is an order of it.                  *)
LEMMA NumbersAreInOrder ==
    ASSUME NEW S, IsFiniteSet(S), S \subseteq Int
    PROVE  Ascending(S) \in Seq(S) /\ Distinct(Ascending(S)) /\ Range(Ascending(S)) = S
  <1> DEFINE own == [r \in S |-> r]
             q == Ranked(S, own)
             below(x) == {y \in S : y < x}
             n == Cardinality(S)
  <1>1. \A r \in S : own[r] \in Int /\ own[r] = r
    OBVIOUS
  <1> HIDE DEF own
  <1>2. Enumerates(q, S, own) /\ Len(q) = n /\ n \in Nat /\ q \in Seq(S)
    BY <1>1, RankedEnumerates
  <1>3. Distinct(q) /\ ToSet(q) = S
    <2> HIDE DEF q, n
    <2>1. Len(q) = Cardinality(S)
      BY <1>2 DEF n
    <2> QED
      BY <1>1, <1>2, <2>1, EnumerationIsOrdered
  <1>4. \A x \in S : Earlier(S, own, x) = below(x)
    BY <1>1 DEF Earlier
  <1>5. q = [k \in 1..n |-> CHOOSE x \in S : Cardinality(Earlier(S, own, x)) = k - 1]
    BY DEF Ranked, Sorted, Earlier
  <1>6. Ascending(S) = [k \in 1..n |-> CHOOSE x \in S : Cardinality(below(x)) = k - 1]
    BY DEF Ascending, Sorted
  <1> HIDE DEF q, n, below
  <1>7. ASSUME NEW k \in 1..n
        PROVE  /\ q[k] \in S /\ Cardinality(below(q[k])) = k - 1
               /\ \A x \in S : Cardinality(below(x)) = k - 1 => x = q[k]
    <2>1. q[k] \in S /\ Cardinality(below(q[k])) = k - 1
      BY <1>2, <1>4 DEF Enumerates, n
    <2>2. ASSUME NEW x \in S, Cardinality(below(x)) = k - 1 PROVE x = q[k]
      <3>1. q[Cardinality(Earlier(S, own, x)) + 1] = x
        BY <1>2 DEF Enumerates
      <3>2. Cardinality(Earlier(S, own, x)) + 1 = k
        BY <1>4, <2>2
      <3> QED
        BY <3>1, <3>2
    <2> QED
      BY <2>1, <2>2
  <1>8. Ascending(S) = [k \in 1..n |-> q[k]]
    BY <1>6, <1>7
  <1>9. [k \in 1..n |-> q[k]] = q
    BY <1>2
  <1>10. Range(q) = S
    BY <1>3 DEF ToSet, Range
  <1> QED
    BY <1>2, <1>3, <1>8, <1>9, <1>10

(* What is tried of a family are orders of it, and all if there are few.   *)
LEMMA TriesAreOrders ==
    ASSUME NEW S, IsFiniteSet(S), S \subseteq Int, NEW T \in Tries(S)
    PROVE  /\ T \subseteq SetToSeqs(S)
           /\ Cardinality(SetToSeqs(S)) <= query.max => T = SetToSeqs(S)
  <1> DEFINE all == SetToSeqs(S)
             q == Ascending(S)
  <1>1. q \in all
    <2>1. /\ q \in Seq(S) /\ Distinct(q) /\ Range(q) = S
      BY NumbersAreInOrder
    <2> HIDE DEF q
    <2> QED
      BY <2>1, OrdersAreListed
  <1>2. CASE Cardinality(all) <= query.max
    BY <1>2 DEF Tries
  <1>3. CASE ~(Cardinality(all) <= query.max)
    <2>1. PICK others \in [1..(Samples - 1) -> all] : T = {q} \cup Range(others)
      BY <1>3 DEF Tries
    <2>2. Range(others) \subseteq all
      BY DEF Range
    <2> QED
      BY <1>1, <1>3, <2>1, <2>2
  <1> QED
    BY <1>2, <1>3

LEMMA RankFamilyIsOpened ==
    ASSUME RankInv, NextFamily
    PROVE  RankInv'
  <1>1. UNCHANGED <<capture, query, prefix, rest, best, always, status>>
        /\ status = "searching" /\ pending = {} /\ families # {}
        /\ removed' = (CHOOSE f \in families : \A g \in families : Cardinality(f) <= Cardinality(g))
        /\ families' = families \ {removed'}
    BY DEF NextFamily
  <1>2. /\ Posed' /\ Slots' = Slots /\ Movable' = Movable /\ Reachable' = Reachable
        /\ \A gone, x : Met(gone, x)' = Met(gone, x)
    BY <1>1, QuestionStays DEF RankInv
  <1>3. ASSUME query.kind = "ranks" PROVE RanksTried'
    <2> DEFINE kept == Movable \ removed'
    <2>1. RanksTried /\ capture \in Captures
      BY <1>3 DEF RankInv, Posed
    <2>2. /\ IsFiniteSet(Movable) /\ Permutable(capture) = Movable /\ Movable \subseteq Int
      <3>1. /\ Permutable(capture) = Movable /\ Movable \subseteq Nodes(capture.snapshot)
            /\ \A r \in Movable : r \in Nat
        BY <2>1, MovableIsPermutable
      <3>2. IsFiniteSet(Nodes(capture.snapshot))
        BY <2>1, CapturesAssumption DEF IsSnapshot
      <3> QED
        BY <3>1, <3>2, FS_Subset
    <2>3. \A f \in families : f \subseteq Movable /\ Cardinality(f) \in Nat
      <3>1. \A f \in families : f \subseteq Movable
        BY <2>1 DEF RanksTried, Slots
      <3> QED
        BY <2>2, <3>1, FS_Subset, FS_CardinalityType
    <2>4. removed' \in families
      BY <1>1, <2>3, SmallestFamily
    <2>5. pending' \in Tries(kept) /\ exhaustive' = (exhaustive /\ Cardinality(SetToSeqs(kept)) <= query.max)
      BY <1>3, <2>2 DEF NextFamily
    <2>6. IsFiniteSet(kept) /\ kept \subseteq Int
      BY <2>2, FS_Subset
    <2> HIDE DEF kept
    <2>7. /\ pending' \subseteq SetToSeqs(kept)
          /\ Cardinality(SetToSeqs(kept)) <= query.max => pending' = SetToSeqs(kept)
      BY <2>5, <2>6, TriesAreOrders
    <2>8. /\ families' \subseteq SUBSET Slots' /\ removed' \in SUBSET Slots'
          /\ pending' \subseteq SetToSeqs(Movable' \ removed')
      BY <1>1, <1>2, <2>1, <2>4, <2>7 DEF RanksTried, kept
    <2>9. ASSUME exhaustive', NEW gone \in SUBSET Slots, NEW x \in SetToSeqs(Movable \ gone), Met(gone, x)
          PROVE  IsOpen(gone, x)'
      <3>1. exhaustive /\ pending' = SetToSeqs(Movable \ removed')
        BY <2>5, <2>7, <2>9 DEF kept
      <3>2. gone \in families
        BY <1>1, <2>1, <2>9, <3>1 DEF RanksTried, IsOpen
      <3> QED
        BY <1>1, <2>9, <3>1, <3>2 DEF IsOpen
    <2> QED
      BY <1>1, <1>2, <2>8, <2>9 DEF RanksTried
  <1> QED
    BY <1>1, <1>2, <1>3 DEF RankInv

LEMMA RankSearchGoesOn ==
    ASSUME RankInv, [SearchNext]_questionVars
    PROVE  RankInv'
  <1>1. CASE UNCHANGED questionVars
    <2>1. UNCHANGED <<capture, query, families, removed, pending, exhaustive, status>>
      BY <1>1 DEF questionVars
    <2>2. /\ Posed' /\ Slots' = Slots /\ Movable' = Movable /\ Reachable' = Reachable
          /\ \A gone, x : Met(gone, x)' = Met(gone, x) /\ IsOpen(gone, x)' = IsOpen(gone, x)
      BY <2>1, QuestionStays DEF RankInv, IsOpen
    <2> QED
      BY <2>1, <2>2 DEF RankInv, RanksTried
  <1>2. CASE TryRanks
    BY <1>2, RankIsTried
  <1>3. CASE TryOrder
    BY <1>3, QuestionStays DEF TryOrder, RankInv
  <1>4. CASE TryDegrees
    BY <1>4, QuestionStays DEF TryDegrees, RankInv
  <1>5. CASE NextFamily
    BY <1>5, RankFamilyIsOpened
  <1>6. CASE Conclude
    <2>1. UNCHANGED <<capture, query, prefix, rest, families, removed, pending, best, always, exhaustive>>
          /\ status = "searching" /\ pending = {} /\ families = {}
      BY <1>6 DEF Conclude
    <2>2. /\ Posed' /\ Slots' = Slots /\ Movable' = Movable /\ Reachable' = Reachable
          /\ \A gone, x : Met(gone, x)' = Met(gone, x) /\ IsOpen(gone, x)' = IsOpen(gone, x)
      BY <2>1, QuestionStays DEF RankInv, IsOpen
    <2>3. ASSUME query.kind = "ranks" PROVE RanksTried'
      <3>1. status' = IF exhaustive THEN "unreachable" ELSE "not_found"
        BY <1>6, <2>3 DEF Conclude
      <3>2. RanksTried
        BY <2>3 DEF RankInv
      <3> QED
        BY <2>1, <2>2, <3>1, <3>2 DEF RanksTried
    <2> QED
      BY <2>1, <2>2, <2>3 DEF RankInv
  <1> QED
    BY <1>1, <1>2, <1>3, <1>4, <1>5, <1>6 DEF SearchNext

LEMMA VerdictWhenTried ==
    ASSUME RankInv
    PROVE  VerdictIsExact
  <1> SUFFICES ASSUME IsOneBand, query.kind = "ranks"
               PROVE  /\ status = "reachable" => \E m \in Numberings : Reached(capture.snapshot, m)
                      /\ status = "unreachable" => \A m \in Numberings : ~Reached(capture.snapshot, m)
    BY DEF VerdictIsExact, RankVerdict
  <1>1. Posed /\ RanksTried
    BY DEF RankInv
  <1>2. (\E m \in Numberings : Reached(capture.snapshot, m)) <=> Reachable
    BY <1>1, FamilyIsTried DEF Reachable
  <1>3. status = "unreachable" => ~Reachable
    BY <1>1 DEF RanksTried, Reachable, IsOpen
  <1> QED
    BY <1>1, <1>2, <1>3 DEF RanksTried

(* The search for birth ranks answers "reachable" only with a witness and  *)
(* "unreachable" only if no edit of the family gives the targets their     *)
(* colours, for any capture and any bound on the permutations.             *)
THEOREM VerdictFound == SearchSpec => []VerdictIsExact
  <1>1. SearchInit => RankInv
    BY RankSearchStarts
  <1>2. RankInv /\ [SearchNext]_questionVars => RankInv'
    BY RankSearchGoesOn
  <1>3. RankInv => VerdictIsExact
    BY VerdictWhenTried
  <1> QED
    BY <1>1, <1>2, <1>3, PTL DEF SearchSpec
================================================================================
