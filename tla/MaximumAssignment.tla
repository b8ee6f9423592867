--------------------------- MODULE MaximumAssignment ---------------------------
(***************************************************************************)
(* maximum_weight_assignment of tools/align_register_webs.py: the          *)
(* Hungarian method, one row after the other, over the matrix of scores    *)
(* and as many columns more, which stand for "no partner".  Scores are     *)
(* integers, One the best; the tool computes with floating-point numbers.  *)
(***************************************************************************)
EXTENDS Integers

CONSTANTS
  One,              \* the score of equals
  MinMatchScore     \* the score of a row without a partner

ASSUME ScoresAreIntegers == One \in Int /\ MinMatchScore \in Int /\ MinMatchScore <= One

VARIABLES
  rowCount, realColumnCount, weights,   \* the input
  row,                                  \* the row that is placed
  potentialsRows, potentialsColumns,
  matching,                             \* a column's row, 0 for none; column 0 holds row
  minimum, predecessor, used, current,  \* the search for a column that is free
  phase

searchVars == <<minimum, predecessor, used, current>>
inputVars == <<rowCount, realColumnCount, weights>>
assignmentVars ==
  <<inputVars, row, potentialsRows, potentialsColumns, matching, searchVars, phase>>

ColumnCount == realColumnCount + rowCount
Rows    == 1..rowCount
Columns == 1..ColumnCount

Padded(i, j) == IF j <= realColumnCount THEN weights[i][j] ELSE MinMatchScore

(* What an assignment loses by giving the row the column, beyond what the  *)
(* potentials account for.                                                 *)
Reduced(i, j) == One - Padded(i, j) - potentialsRows[i] - potentialsColumns[j]

(* One row of scores for each web, none of them better than One.           *)
Input ==
  /\ rowCount \in Nat /\ realColumnCount \in Nat
  /\ weights \in [Rows -> [1..realColumnCount -> Int]]
  /\ \A i \in Rows, j \in 1..realColumnCount : weights[i][j] <= One

AssignmentInit ==
  /\ row = 0
  /\ potentialsRows = [i \in 0..rowCount |-> 0]
  /\ potentialsColumns = [j \in 0..ColumnCount |-> 0]
  /\ matching = [j \in 0..ColumnCount |-> 0]
  /\ predecessor = [j \in 0..ColumnCount |-> 0]
  /\ minimum = [j \in Columns |-> 0]
  /\ used = {} /\ current = 0
  /\ phase = "row"

StartRow ==
  /\ phase = "row" /\ row < rowCount
  /\ row' = row + 1
  /\ matching' = [matching EXCEPT ![0] = row + 1]
  /\ used' = {} /\ current' = 0
  /\ phase' = "scan"
  /\ UNCHANGED <<inputVars, potentialsRows, potentialsColumns, minimum, predecessor>>

(* The first scan of a row finds no minima yet: they are infinite.         *)
Cheaper(j) == used = {} \/ Reduced(matching[current], j) < minimum[j]

(* Mutant: the minima keep the amount that the potentials moved by.        *)
ScanKeepingMinima ==
  /\ phase = "scan"
  /\ used' = used \cup {current}
  /\ predecessor' = [j \in 0..ColumnCount |->
       IF j \in Columns \ used' /\ Cheaper(j) THEN current ELSE predecessor[j]]
  /\ LET open == Columns \ used'
         least == [j \in Columns |->
                     IF j \in open /\ Cheaper(j) THEN Reduced(matching[current], j)
                     ELSE minimum[j]]
     IN  \E next \in open :
           /\ \A j \in open : least[next] < least[j] \/ (least[next] = least[j] /\ next <= j)
           /\ potentialsRows' = [i \in 0..rowCount |->
                IF \E j \in used' : matching[j] = i THEN potentialsRows[i] + least[next]
                ELSE potentialsRows[i]]
           /\ potentialsColumns' = [j \in 0..ColumnCount |->
                IF j \in used' THEN potentialsColumns[j] - least[next] ELSE potentialsColumns[j]]
           /\ minimum' = least
           /\ current' = next
           /\ phase' = IF matching[next] = 0 THEN "augment" ELSE "scan"
  /\ UNCHANGED <<inputVars, row, matching>>

(* One round of the inner loop: the row of the current column lowers the   *)
(* minima, the potentials move by the least of them, and the first column  *)
(* that has it is next.                                                    *)
Scan ==
  /\ phase = "scan"
  /\ used' = used \cup {current}
  /\ predecessor' = [j \in 0..ColumnCount |->
       IF j \in Columns \ used' /\ Cheaper(j) THEN current ELSE predecessor[j]]
  /\ LET open == Columns \ used'
         least == [j \in Columns |->
                     IF j \in open /\ Cheaper(j) THEN Reduced(matching[current], j)
                     ELSE minimum[j]]
     IN  \E next \in open :
           /\ \A j \in open : least[next] < least[j] \/ (least[next] = least[j] /\ next <= j)
           /\ potentialsRows' = [i \in 0..rowCount |->
                IF \E j \in used' : matching[j] = i THEN potentialsRows[i] + least[next]
                ELSE potentialsRows[i]]
           /\ potentialsColumns' = [j \in 0..ColumnCount |->
                IF j \in used' THEN potentialsColumns[j] - least[next] ELSE potentialsColumns[j]]
           /\ minimum' = [j \in Columns |->
                IF j \in open THEN least[j] - least[next] ELSE least[j]]
           /\ current' = next
           /\ phase' = IF matching[next] = 0 THEN "augment" ELSE "scan"
  /\ UNCHANGED <<inputVars, row, matching>>

(* Mutant: only the last step of the path changes hands.                   *)
AugmentOnce ==
  /\ phase = "augment"
  /\ matching' = [matching EXCEPT ![current] = matching[0]]
  /\ current' = 0
  /\ phase' = "row"
  /\ UNCHANGED <<inputVars, row, potentialsRows, potentialsColumns, minimum, predecessor, used>>

(* One step back along the path to column 0.                               *)
Augment ==
  /\ phase = "augment"
  /\ matching' = [matching EXCEPT ![current] = matching[predecessor[current]]]
  /\ current' = predecessor[current]
  /\ phase' = IF current' = 0 THEN "row" ELSE "augment"
  /\ UNCHANGED <<inputVars, row, potentialsRows, potentialsColumns, minimum, predecessor, used>>

AssignmentNext == StartRow \/ Scan \/ Augment

AssignmentSpec == Input /\ AssignmentInit /\ [][AssignmentNext]_assignmentVars

Assigned == phase = "row" /\ row = rowCount

(* The rows' partners; 0 is none.                                          *)
Assignment ==
  [i \in Rows |->
     IF \E j \in 1..realColumnCount : matching[j] = i
     THEN CHOOSE j \in 1..realColumnCount : matching[j] = i ELSE 0]

(******************************* properties ********************************)

(* The potentials never promise more than a pair costs: no reduced cost is *)
(* negative, in the middle of a search either.  The search relies on it:   *)
(* it takes the least minimum for the shortest path.                       *)
DualFeasible == \A i \in Rows, j \in Columns : Reduced(i, j) >= 0

(* Between two searches the potentials prove the pairing to be the best of *)
(* the rows placed so far: each of these rows has one column, a pair costs *)
(* exactly what its potentials promise, and columns promise nothing unless *)
(* they are taken.                                                         *)
PotentialsCertify ==
  /\ DualFeasible
  /\ phase = "row" =>
       /\ \A i \in 1..row : \E j \in Columns : \A k \in Columns : matching[k] = i <=> k = j
       /\ \A j \in Columns :
            /\ potentialsColumns[j] <= 0
            /\ IF matching[j] = 0 THEN potentialsColumns[j] = 0
               ELSE matching[j] \in 1..row /\ Reduced(matching[j], j) = 0

(* The sum of f[1] to f[n].                                                *)
SumTo(f, n) ==
  LET sum[k \in 0..n] == IF k = 0 THEN 0 ELSE sum[k - 1] + f[k]
  IN  sum[n]

Pairings == {f \in [Rows -> 0..realColumnCount] :
               \A i, k \in Rows : f[i] = f[k] /\ f[i] # 0 => i = k}

PairScores(f) == [i \in Rows |-> IF f[i] = 0 THEN MinMatchScore ELSE weights[i][f[i]]]

(* The pairing is one to one, and no other has a greater sum of scores,    *)
(* where a web without a partner counts MinMatchScore.                     *)
AssignmentIsMaximal ==
  Assigned =>
    /\ Assignment \in Pairings
    /\ \A f \in Pairings :
         SumTo(PairScores(f), rowCount) <= SumTo(PairScores(Assignment), rowCount)
================================================================================
