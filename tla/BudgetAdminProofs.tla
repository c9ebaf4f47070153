-------------------------- MODULE BudgetAdminProofs --------------------------
(***************************************************************************)
(* Proofs about BudgetAdmin, for any number of budgets, sessions, amounts  *)
(* and versions, and any parents the requests name.                        *)
(***************************************************************************)
EXTENDS BudgetAdmin, TLAPS

(***************************************************************************)
(* Types.  TypeOK is not inductive: what a call writes comes from what it  *)
(* has read, so the copies need their types too.                           *)
(***************************************************************************)
Updating == {"disabling", "cascading", "validating", "saving"}

\* The copies of rows that calls keep, and the functions that hold them.
CopiesOK ==
    /\ kids = [a \in Actors |-> kids[a]]
    /\ doomed = [a \in Actors |-> doomed[a]]
    /\ base \in [Actors -> Rows \cup {NoRow}]
    /\ \A a \in Actors :
          /\ call[a] = "creating" => edit[a] \in Rows
          /\ call[a] \in Updating => edit[a] \in Rows /\ base[a] \in Rows
          /\ \A c \in DOMAIN kids[a] : kids[a][c] \in Rows

Typed == TypeOK /\ CopiesOK

\* A record with all columns is not the absent row.
LEMMA RowsExist == NoRow \notin Rows
<1> SUFFICES ASSUME NoRow \in Rows
             PROVE  FALSE
  OBVIOUS
<1>1. DOMAIN NoRow = {"parent", "version"}
  BY DEF NoRow
<1>2. "amount" \in DOMAIN NoRow
  BY DEF Rows
<1> QED
  BY <1>1, <1>2

\* Nothing exists and nobody has read anything.
LEMMA TypeInit == Init => Typed
<1> SUFFICES ASSUME Init
             PROVE  Typed
  OBVIOUS
<1>1. DOMAIN None = {}
  BY DEF None
<1> QED
  BY <1>1 DEF Init, Typed, TypeOK, CopiesOK, Calls, Updating

\* Ending a call forgets what it has read and keeps the types.
LEMMA TypeLeave ==
    ASSUME Typed, NEW a \in Actors, Leave(a),
           row' \in [Budgets -> Rows \cup {NoRow}], deleted' \subseteq Budgets
    PROVE  Typed'
<1>1. DOMAIN None = {}
  BY DEF None
<1>2. /\ call' \in [Actors -> Calls]
      /\ target' \in [Actors -> Budgets \cup {NoBudget}]
      /\ edit' \in [Actors -> Rows \cup {NoRow}]
      /\ base' \in [Actors -> Rows \cup {NoRow}]
      /\ kids' = [d \in Actors |-> kids'[d]]
      /\ doomed' = [d \in Actors |-> doomed'[d]]
  BY DEF Typed, TypeOK, CopiesOK, Leave, Goto, Calls
<1>3. ASSUME NEW d \in Actors
      PROVE  /\ call'[d] # "idle" => target'[d] \in Budgets
             /\ DOMAIN kids'[d] \subseteq Budgets /\ DOMAIN doomed'[d] \subseteq Budgets
             /\ call'[d] = "creating" => edit'[d] \in Rows
             /\ call'[d] \in Updating => edit'[d] \in Rows /\ base'[d] \in Rows
             /\ \A c \in DOMAIN kids'[d] : kids'[d][c] \in Rows
  <2>1. CASE d = a
    BY <1>1, <2>1 DEF Typed, TypeOK, CopiesOK, Leave, Goto, Updating
  <2>2. CASE d # a
    BY <2>2 DEF Typed, TypeOK, CopiesOK, Leave, Goto
  <2> QED
    BY <2>1, <2>2
<1> QED
  BY <1>2, <1>3 DEF Typed, TypeOK, CopiesOK

\* A row that is written keeps the table's type.
LEMMA TypeWrite ==
    ASSUME row \in [Budgets -> Rows \cup {NoRow}], NEW b \in Budgets, NEW r \in Rows,
           UpdateBudget(b, r)
    PROVE  /\ row[b] \in Rows
           /\ row' = [row EXCEPT ![b] = [r EXCEPT !.version = row[b].version + 1]]
           /\ [r EXCEPT !.version = row[b].version + 1] \in Rows
           /\ row' \in [Budgets -> Rows \cup {NoRow}]
           /\ row[b].version = r.version /\ row[b].version \in Nat
           /\ r.parent = NoBudget \/ (r.parent \in Budgets /\ row[r.parent] # NoRow)
<1>1. /\ row[b] \in Rows /\ row[b].version = r.version
      /\ row' = [row EXCEPT ![b] = [r EXCEPT !.version = row[b].version + 1]]
      /\ r.parent = NoBudget \/ (r.parent \in Budgets /\ row[r.parent] # NoRow)
  BY DEF UpdateBudget, Unmodified, RefersToRow, Exists
<1>2. [r EXCEPT !.version = row[b].version + 1] \in Rows /\ row[b].version \in Nat
  BY <1>1 DEF Rows
<1> QED
  BY <1>1, <1>2

\* The reads keep the types: a call gets copies of rows that exist.
LEMMA TypeReads ==
    ASSUME Typed, NEW a \in Actors, NEW b \in Budgets,
           ReadForCreate(a, b) \/ ReadForUpdate(a, b) \/ ReadForDelete(a, b)
    PROVE  Typed'
<1>1. CASE ReadForCreate(a, b)
  <2>1. PICK p \in {NoBudget} \cup {q \in Parents[b] : Exists(q)}, m \in Amounts,
             isolated \in BOOLEAN, enabled \in BOOLEAN, found \in BOOLEAN :
          /\ found => p # NoBudget
          /\ edit' = [edit EXCEPT ![a] = NewRow(a, b, p, found, m, isolated, enabled)]
    BY <1>1 DEF ReadForCreate
  <2>2. p = NoBudget \/ (p \in Budgets /\ row[p] \in Rows)
    BY AdminAssumption DEF Exists, Typed, TypeOK
  <2>3. (IF MaySetIsolated(a, b) THEN isolated ELSE found /\ row[p].isolated) \in BOOLEAN
    BY <2>1, <2>2 DEF Rows
  <2>4. NewRow(a, b, p, found, m, isolated, enabled) \in Rows
    BY <2>2, <2>3 DEF NewRow, Rows
  <2>5. edit'[a] \in Rows /\ edit' \in [Actors -> Rows \cup {NoRow}]
        /\ \A d \in Actors \ {a} : edit'[d] = edit[d]
    BY <2>1, <2>4 DEF Typed, TypeOK
  <2>6. /\ call' = [call EXCEPT ![a] = "creating"] /\ target' = [target EXCEPT ![a] = b]
        /\ UNCHANGED <<row, deleted, kids, doomed, base>>
    BY <1>1 DEF ReadForCreate, Goto
  <2> QED
    BY <2>5, <2>6 DEF Typed, TypeOK, CopiesOK, Calls, Updating
<1>2. CASE ReadForUpdate(a, b)
  <2>1. PICK p \in {row[b].parent} \cup Parents[b], m \in Amounts, isolated \in BOOLEAN,
             switch \in {"keep", "enable", "disable"}, v \in {row[b].version} \cup ClientVersions[b] :
          /\ edit' = [edit EXCEPT ![a] = Edited(a, b, p, m, isolated, switch, v)]
          /\ Goto(a, IF switch = "disable" /\ a \in OrgAdmins THEN "disabling" ELSE "validating")
    BY <1>2 DEF ReadForUpdate
  <2>2. row[b] \in Rows
    BY <1>2 DEF ReadForUpdate, Exists, Typed, TypeOK
  <2>3. Edited(a, b, p, m, isolated, switch, v) \in Rows
    <3>1. p \in Budgets \cup {NoBudget} /\ v \in Nat \ {0}
      BY <2>2, AdminAssumption DEF Rows
    <3>2. (IF MaySetIsolated(a, b) THEN isolated ELSE row[b].isolated) \in BOOLEAN
      BY <2>2 DEF Rows
    <3>3. (IF switch = "keep" THEN row[b].enabled ELSE switch = "enable") \in BOOLEAN
      BY <2>2 DEF Rows
    <3>4. DisabledByIsOrg(a, row[b], switch) \in BOOLEAN
      <4>1. row[b].enabled \in BOOLEAN /\ row[b].byOrg \in BOOLEAN
        BY <2>2 DEF Rows
      <4>2. CASE switch = "enable" /\ ~row[b].enabled
        BY <4>2 DEF DisabledByIsOrg
      <4>3. CASE switch = "disable" /\ a \notin Anonymous
        <5>1. DisabledByIsOrg(a, row[b], switch) = (a \in OrgAdmins)
          BY <4>3 DEF DisabledByIsOrg
        <5> QED
          BY <5>1
      <4>4. CASE /\ ~(switch = "enable" /\ ~row[b].enabled)
                 /\ ~(switch = "disable" /\ a \notin Anonymous)
        BY <4>1, <4>4 DEF DisabledByIsOrg
      <4> QED
        BY <4>2, <4>3, <4>4
    <3> QED
      BY <3>1, <3>2, <3>3, <3>4 DEF Edited, Rows
  <2>4. edit'[a] \in Rows /\ edit' \in [Actors -> Rows \cup {NoRow}]
        /\ \A d \in Actors \ {a} : edit'[d] = edit[d]
    BY <2>1, <2>3 DEF Typed, TypeOK
  <2>5. /\ \E label \in {"disabling", "validating"} : call' = [call EXCEPT ![a] = label]
        /\ target' = [target EXCEPT ![a] = b] /\ base' = [base EXCEPT ![a] = row[b]]
        /\ UNCHANGED <<row, deleted, kids, doomed>>
    BY <1>2, <2>1 DEF ReadForUpdate, Goto
  <2> QED
    BY <2>2, <2>4, <2>5 DEF Typed, TypeOK, CopiesOK, Calls, Updating
<1>3. CASE ReadForDelete(a, b)
  <2>1. /\ \E label \in {"deleting", "collecting"} : call' = [call EXCEPT ![a] = label]
        /\ doomed' = doomed \/ doomed' = [doomed EXCEPT ![a] = [x \in {b} |-> 0]]
        /\ target' = [target EXCEPT ![a] = b]
        /\ UNCHANGED <<row, deleted, edit, kids, base>>
    BY <1>3 DEF ReadForDelete, Goto
  <2> QED
    BY <2>1 DEF Typed, TypeOK, CopiesOK, Calls, Updating
<1> QED
  BY <1>1, <1>2, <1>3

\* The cascading disable keeps the types.
LEMMA TypeCascade ==
    ASSUME Typed, NEW a \in Actors,
           ReadChildren(a) \/ \E c \in Budgets : DisableChild(a, c) \/ SkipChild(a, c)
    PROVE  Typed'
<1>0. row' \in [Budgets -> Rows \cup {NoRow}]
  <2>1. ASSUME NEW c \in Budgets, DisableChild(a, c)
        PROVE  row' \in [Budgets -> Rows \cup {NoRow}]
    <3>1. kids[a][c] \in Rows
      BY <2>1 DEF DisableChild, Typed, CopiesOK
    <3>2. [kids[a][c] EXCEPT !.enabled = FALSE, !.byOrg = TRUE] \in Rows
      BY <3>1 DEF Rows
    <3> QED
      BY <2>1, <3>2, TypeWrite DEF DisableChild, Typed, TypeOK
  <2> QED
    BY <2>1 DEF ReadChildren, SkipChild, Typed, TypeOK
<1>1. \E S \in SUBSET Budgets, label \in {"cascading", "validating"} : \E f \in [S -> Rows] :
         kids' = [kids EXCEPT ![a] = f] /\ call' = [call EXCEPT ![a] = label]
  <2>1. CASE ReadChildren(a)
    <3> DEFINE f == [c \in ToDisable(target[a]) |-> row[c]]
    <3>1. /\ kids' = [kids EXCEPT ![a] = f]
          /\ \E label \in {"cascading", "validating"} : call' = [call EXCEPT ![a] = label]
      BY <2>1 DEF ReadChildren, Goto
    <3>2. ToDisable(target[a]) \in SUBSET Budgets /\ f \in [ToDisable(target[a]) -> Rows]
      BY DEF ToDisable, Children, Exists, Typed, TypeOK
    <3> HIDE DEF f
    <3> QED
      BY <3>1, <3>2
  <2>2. ASSUME NEW c \in Budgets, NextChild(a, c)
        PROVE  \E S \in SUBSET Budgets, label \in {"cascading", "validating"} :
               \E f \in [S -> Rows] :
                  kids' = [kids EXCEPT ![a] = f] /\ call' = [call EXCEPT ![a] = label]
    <3> DEFINE f == [d \in DOMAIN kids[a] \ {c} |-> kids[a][d]]
    <3>1. /\ kids' = [kids EXCEPT ![a] = f]
          /\ \E label \in {"cascading", "validating"} : call' = [call EXCEPT ![a] = label]
      BY <2>2 DEF NextChild, Goto
    <3>2. DOMAIN kids[a] \ {c} \in SUBSET Budgets /\ f \in [DOMAIN kids[a] \ {c} -> Rows]
      BY DEF Typed, TypeOK, CopiesOK
    <3> HIDE DEF f
    <3> QED
      BY <3>1, <3>2
  <2> QED
    BY <2>1, <2>2 DEF DisableChild, SkipChild
<1>2. PICK S \in SUBSET Budgets, label \in {"cascading", "validating"} : \E f \in [S -> Rows] :
         kids' = [kids EXCEPT ![a] = f] /\ call' = [call EXCEPT ![a] = label]
  BY <1>1
<1>3. PICK f \in [S -> Rows] :
         kids' = [kids EXCEPT ![a] = f] /\ call' = [call EXCEPT ![a] = label]
  BY <1>2
<1>4. UNCHANGED <<deleted, target, edit, doomed, base>> /\ call[a] \in Updating
  BY DEF ReadChildren, DisableChild, SkipChild, Updating
<1>5. /\ call' \in [Actors -> Calls] /\ kids' = [d \in Actors |-> kids'[d]]
      /\ kids'[a] = f
      /\ \A d \in Actors \ {a} : kids'[d] = kids[d] /\ call'[d] = call[d]
      /\ call'[a] = label
  BY <1>3 DEF Typed, TypeOK, CopiesOK, Calls
<1>6. ASSUME NEW d \in Actors
      PROVE  DOMAIN kids'[d] \subseteq Budgets /\ \A c \in DOMAIN kids'[d] : kids'[d][c] \in Rows
  BY <1>5 DEF Typed, TypeOK, CopiesOK
<1> QED
  BY <1>0, <1>4, <1>5, <1>6 DEF Typed, TypeOK, CopiesOK, Updating

\* The other statements, and the writes of the ledger, keep the types.
LEMMA TypeWrites ==
    ASSUME Typed, NEW a \in Actors,
           \/ InsertBudget(a) \/ ValidateAmount(a) \/ SaveBudget(a)
           \/ GetAllDescendants(a) \/ DeleteBudgetCascade(a) \/ CallEnds(a)
    PROVE  Typed'
<1>1. CASE InsertBudget(a)
  <2>1. /\ target[a] \in Budgets /\ edit[a] \in Rows
        /\ row' = [row EXCEPT ![target[a]] = edit[a]] /\ deleted' = deleted /\ Leave(a)
    BY <1>1 DEF InsertBudget, Typed, TypeOK, CopiesOK
  <2>2. row' \in [Budgets -> Rows \cup {NoRow}] /\ deleted' \subseteq Budgets
    BY <2>1 DEF Typed, TypeOK
  <2> QED
    BY <2>1, <2>2, TypeLeave
<1>2. CASE ValidateAmount(a)
  BY <1>2 DEF ValidateAmount, Goto, Typed, TypeOK, CopiesOK, Calls, Updating
<1>3. CASE SaveBudget(a)
  <2>1. /\ target[a] \in Budgets /\ edit[a] \in Rows
        /\ UpdateBudget(target[a], edit[a]) /\ deleted' = deleted /\ Leave(a)
    BY <1>3 DEF SaveBudget, Typed, TypeOK, CopiesOK, Updating
  <2>2. row' \in [Budgets -> Rows \cup {NoRow}] /\ deleted' \subseteq Budgets
    BY <2>1, TypeWrite DEF Typed, TypeOK
  <2> QED
    BY <2>1, <2>2, TypeLeave
<1>4. CASE GetAllDescendants(a)
  <2>1. PICK f : doomed' = [doomed EXCEPT ![a] = f] /\ DOMAIN f \subseteq Budgets
    <3> DEFINE below == {x \in Budgets : DepthBelow(target[a], x) > 0}
               f == [x \in below \cup {target[a]} |-> DepthBelow(target[a], x)]
    <3>1. doomed' = [doomed EXCEPT ![a] = f]
      BY <1>4 DEF GetAllDescendants
    <3>2. DOMAIN f \subseteq Budgets
      BY <1>4 DEF GetAllDescendants, Typed, TypeOK
    <3> HIDE DEF f
    <3> QED
      BY <3>1, <3>2
  <2>2. /\ call[a] = "collecting" /\ call' = [call EXCEPT ![a] = "deleting"]
        /\ UNCHANGED <<row, deleted, target, edit, kids, base>>
    BY <1>4 DEF GetAllDescendants, Goto
  <2> QED
    BY <2>1, <2>2 DEF Typed, TypeOK, CopiesOK, Calls, Updating
<1>5. CASE DeleteBudgetCascade(a)
  <2>1. row' \in [Budgets -> Rows \cup {NoRow}] /\ deleted' \subseteq Budgets /\ Leave(a)
    BY <1>5 DEF DeleteBudgetCascade, Exists, Typed, TypeOK
  <2> QED
    BY <2>1, TypeLeave
<1>6. CASE CallEnds(a)
  BY <1>6, TypeLeave DEF CallEnds, Typed, TypeOK
<1> QED
  BY <1>1, <1>2, <1>3, <1>4, <1>5, <1>6

\* Every step keeps the types.
LEMMA TypeStep == Typed /\ [Next]_vars => Typed'
<1> SUFFICES ASSUME Typed, [Next]_vars
             PROVE  Typed'
  OBVIOUS
<1>1. CASE UNCHANGED vars
  BY <1>1 DEF vars, calls, Typed, TypeOK, CopiesOK
<1>2. ASSUME NEW b \in Budgets, Charge(b)
      PROVE  Typed'
  <2>1. row[b] \in Rows /\ row' = [row EXCEPT ![b] = [row[b] EXCEPT !.version = row[b].version + 1]]
    BY <1>2 DEF Charge, Exists, Typed, TypeOK
  <2>2. [row[b] EXCEPT !.version = row[b].version + 1] \in Rows
    BY <2>1 DEF Rows
  <2>3. row' \in [Budgets -> Rows \cup {NoRow}]
    BY <2>1, <2>2 DEF Typed, TypeOK
  <2> QED
    BY <1>2, <2>3 DEF Charge, calls, Typed, TypeOK, CopiesOK
<1> QED
  BY <1>1, <1>2, TypeReads, TypeCascade, TypeWrites DEF Next, Session

\* Rows, calls and the copies that calls keep have their types.
LEMMA AlwaysTyped == Spec => []Typed
  BY TypeInit, TypeStep, PTL DEF Spec

\* Rows have their columns' types, and a call in progress names its budget.
THEOREM AdminTypes == Spec => []TypeOK
<1>1. Typed => TypeOK
  BY DEF Typed
<1> QED
  BY <1>1, AlwaysTyped, PTL
-----------------------------------------------------------------------------
(***************************************************************************)
(* What a step does to the table.                                          *)
(***************************************************************************)
\* Row b is written: inserted, or replaced by one with the next version, and what
\* it refers to exists.
Writes(b, r) ==
    /\ r \in Rows
    /\ IF Exists(b) THEN r.version = row[b].version + 1 ELSE b \notin deleted
    /\ RefersToRow(r) \/ (Exists(b) /\ r.parent = row[b].parent)
    /\ row' = [row EXCEPT ![b] = r]
    /\ deleted' = deleted

\* The rows of a set are deleted, with all their children.
Deletes(gone) ==
    /\ \A x \in gone : Exists(x) /\ Children(x) \subseteq gone
    /\ row' = [x \in Budgets |-> IF x \in gone THEN NoRow ELSE row[x]]
    /\ deleted' = deleted \cup gone

\* A save and a cascading disable write the row their copy was made from, or not at all.
LEMMA Saves ==
    ASSUME Typed, NEW a \in Actors, SaveBudget(a)
    PROVE  /\ target[a] \in Budgets /\ edit[a] \in Rows /\ row[target[a]] \in Rows
           /\ row[target[a]].version = edit[a].version
           /\ row' = [row EXCEPT ![target[a]] =
                        [edit[a] EXCEPT !.version = row[target[a]].version + 1]]
           /\ Writes(target[a], [edit[a] EXCEPT !.version = row[target[a]].version + 1])
<1>1. /\ target[a] \in Budgets /\ edit[a] \in Rows
      /\ UpdateBudget(target[a], edit[a]) /\ deleted' = deleted
  BY DEF SaveBudget, Typed, TypeOK, CopiesOK, Updating
<1> DEFINE r == [edit[a] EXCEPT !.version = row[target[a]].version + 1]
<1>2. /\ row[target[a]] \in Rows /\ row' = [row EXCEPT ![target[a]] = r] /\ r \in Rows
      /\ row[target[a]].version = edit[a].version /\ RefersToRow(edit[a])
  BY <1>1, TypeWrite DEF Typed, TypeOK, UpdateBudget
<1>3. r.parent = edit[a].parent /\ r.version = row[target[a]].version + 1
  BY <1>1 DEF Rows
<1> HIDE DEF r
<1>4. Writes(target[a], r)
  BY <1>1, <1>2, <1>3, RowsExist DEF Writes, RefersToRow, Exists
<1> QED
  BY <1>1, <1>2, <1>4 DEF r

\* The cascade writes a child as it was read, disabled, if its version is still the same.
LEMMA Disables ==
    ASSUME Typed, NEW a \in Actors, NEW c \in Budgets, DisableChild(a, c)
    PROVE  /\ kids[a][c] \in Rows /\ row[c] \in Rows
           /\ row[c].version = kids[a][c].version
           /\ \E r : /\ Writes(c, r)
                     /\ r.isolated = kids[a][c].isolated
<1> DEFINE k == [kids[a][c] EXCEPT !.enabled = FALSE, !.byOrg = TRUE]
           r == [k EXCEPT !.version = row[c].version + 1]
<1>1. kids[a][c] \in Rows /\ UpdateBudget(c, k) /\ deleted' = deleted
  BY DEF DisableChild, Typed, CopiesOK
<1>2. /\ k \in Rows /\ k.version = kids[a][c].version /\ k.isolated = kids[a][c].isolated
  BY <1>1 DEF Rows
<1> HIDE DEF k
<1>3. /\ row[c] \in Rows /\ row' = [row EXCEPT ![c] = r] /\ r \in Rows
      /\ row[c].version = k.version /\ RefersToRow(k)
  BY <1>1, <1>2, TypeWrite DEF Typed, TypeOK, UpdateBudget
<1>4. r.parent = k.parent /\ r.version = row[c].version + 1 /\ r.isolated = k.isolated
  BY <1>2 DEF Rows
<1> HIDE DEF r
<1>5. Writes(c, r)
  BY <1>1, <1>3, <1>4, RowsExist DEF Writes, RefersToRow, Exists
<1> QED
  BY <1>1, <1>2, <1>3, <1>4, <1>5

\* Whatever a step does, it writes one row, deletes some, or leaves the table alone.
LEMMA TableStep ==
    ASSUME Typed, [Next]_vars
    PROVE  \/ UNCHANGED <<row, deleted>>
           \/ \E b \in Budgets, r \in Rows : Writes(b, r)
           \/ \E gone \in SUBSET Budgets : Deletes(gone)
<1>1. ASSUME NEW a \in Actors, InsertBudget(a)
      PROVE  \E b \in Budgets, r \in Rows : Writes(b, r)
  <2>1. target[a] \in Budgets /\ edit[a] \in Rows
    BY <1>1 DEF InsertBudget, Typed, TypeOK, CopiesOK
  <2>2. Writes(target[a], edit[a])
    BY <1>1, <2>1 DEF InsertBudget, Writes
  <2> QED
    BY <2>1, <2>2
<1>2. ASSUME NEW a \in Actors, SaveBudget(a)
      PROVE  \E b \in Budgets, r \in Rows : Writes(b, r)
  <2>1. PICK r : target[a] \in Budgets /\ Writes(target[a], r)
    BY <1>2, Saves
  <2> QED
    BY <2>1 DEF Writes
<1>3. ASSUME NEW a \in Actors, NEW c \in Budgets, DisableChild(a, c)
      PROVE  \E b \in Budgets, r \in Rows : Writes(b, r)
  <2>1. PICK r : Writes(c, r)
    BY <1>3, Disables
  <2> QED
    BY <2>1 DEF Writes
<1>4. ASSUME NEW b \in Budgets, Charge(b)
      PROVE  \E r \in Rows : Writes(b, r)
  <2> DEFINE r == [row[b] EXCEPT !.version = row[b].version + 1]
  <2>1. row[b] \in Rows /\ row' = [row EXCEPT ![b] = r] /\ deleted' = deleted /\ Exists(b)
    BY <1>4 DEF Charge, Exists, Typed, TypeOK
  <2>2. r \in Rows /\ r.version = row[b].version + 1 /\ r.parent = row[b].parent
    BY <2>1 DEF Rows
  <2> HIDE DEF r
  <2>3. Writes(b, r)
    BY <2>1, <2>2 DEF Writes
  <2> QED
    BY <2>2, <2>3
<1>5. ASSUME NEW a \in Actors, DeleteBudgetCascade(a)
      PROVE  \E gone \in SUBSET Budgets : Deletes(gone)
  <2> DEFINE gone == {x \in DOMAIN doomed[a] : Exists(x)}
  <2>1. /\ \A x \in gone : Exists(x) /\ Unreferenced(doomed[a], x)
        /\ row' = [x \in Budgets |-> IF x \in gone THEN NoRow ELSE row[x]]
        /\ deleted' = deleted \cup gone
    BY <1>5 DEF DeleteBudgetCascade
  <2>2. gone \in SUBSET Budgets
    BY DEF Exists
  <2>3. \A x \in gone : Children(x) \subseteq gone
    BY <2>1 DEF Unreferenced, Children
  <2> HIDE DEF gone
  <2> QED
    BY <2>1, <2>2, <2>3 DEF Deletes
<1>6. ASSUME NEW a \in Actors, NEW b \in Budgets,
             \/ ReadForCreate(a, b) \/ ReadForUpdate(a, b) \/ ReadForDelete(a, b) \/ SkipChild(a, b)
      PROVE  UNCHANGED <<row, deleted>>
  BY <1>6 DEF ReadForCreate, ReadForUpdate, ReadForDelete, SkipChild
<1>7. ASSUME NEW a \in Actors,
             ReadChildren(a) \/ ValidateAmount(a) \/ GetAllDescendants(a) \/ CallEnds(a)
      PROVE  UNCHANGED <<row, deleted>>
  BY <1>7 DEF ReadChildren, ValidateAmount, GetAllDescendants, CallEnds
<1>8. CASE UNCHANGED vars
  BY <1>8 DEF vars
<1> QED
  BY <1>1, <1>2, <1>3, <1>4, <1>5, <1>6, <1>7, <1>8 DEF Next, Session

(***************************************************************************)
(* No orphans.                                                             *)
(***************************************************************************)
\* Every step keeps the rows' parents: a write checks what it refers to, a delete
\* takes the children along.
LEMMA OrphanStep == Typed /\ NoOrphans /\ [Next]_vars => NoOrphans'
<1> SUFFICES ASSUME Typed, NoOrphans, [Next]_vars, NEW b \in Budgets, Exists(b)'
             PROVE  RefersToRow(row[b])'
  BY DEF NoOrphans
<1> USE DEF Exists, RefersToRow
<1>0. row \in [Budgets -> Rows \cup {NoRow}]
  BY DEF Typed, TypeOK
<1>1. CASE UNCHANGED <<row, deleted>>
  BY <1>1 DEF NoOrphans
<1>2. ASSUME NEW c \in Budgets, NEW r \in Rows, Writes(c, r)
      PROVE  RefersToRow(row[b])'
  <2>1. /\ row' = [row EXCEPT ![c] = r]
        /\ RefersToRow(r) \/ (Exists(c) /\ r.parent = row[c].parent)
    BY <1>2 DEF Writes
  <2>2. \A x \in Budgets : Exists(x) => Exists(x)'
    BY <1>0, <2>1, RowsExist
  <2>3. CASE b = c
    BY <1>0, <2>1, <2>2, <2>3 DEF NoOrphans
  <2>4. CASE b # c
    BY <1>0, <2>1, <2>2, <2>4 DEF NoOrphans
  <2> QED
    BY <2>3, <2>4
<1>3. ASSUME NEW gone \in SUBSET Budgets, Deletes(gone)
      PROVE  RefersToRow(row[b])'
  <2>1. b \notin gone /\ Exists(b) /\ row'[b] = row[b]
    BY <1>3 DEF Deletes
  <2>2. row[b].parent = NoBudget \/ Exists(row[b].parent)
    BY <2>1 DEF NoOrphans
  <2>3. row[b].parent \notin gone
    BY <1>3, <2>1 DEF Deletes, Children
  <2> QED
    BY <1>3, <2>1, <2>2, <2>3 DEF Deletes
<1> QED
  BY <1>1, <1>2, <1>3, TableStep

\* No budget is left without its parent, by no interleaving of creations, moves and
\* cascading deletes that work from a list read earlier.
THEOREM ParentsExist == Spec => []NoOrphans
<1>1. Init => NoOrphans
  BY DEF Init, NoOrphans, Exists
<1> QED
  BY <1>1, OrphanStep, AlwaysTyped, PTL DEF Spec

(***************************************************************************)
(* Lost updates.  Ids are not used again and every write raises the        *)
(* version, so that a copy of a row is the row as long as their versions   *)
(* agree.                                                                  *)
(***************************************************************************)
\* A copy r of row b: the row has been deleted, or is at least as new as the copy,
\* and is the same if it is as old.
Seen(b, r) ==
    \/ b \in deleted
    \/ /\ Exists(b)
       /\ r.version <= row[b].version
       /\ r.version = row[b].version => row[b] = r

\* What the calls in progress have read, and what they make of it.
CopiesSeen ==
    /\ \A b \in deleted : ~Exists(b)
    /\ \A a \in Actors : call[a] \in Updating =>
          /\ Seen(target[a], base[a])
          /\ target[a] \in Orgs \/ a \in OrgAdmins \/ edit[a].isolated = base[a].isolated
    /\ \A a \in Actors : call[a] = "cascading" => \A c \in DOMAIN kids[a] :
          /\ Seen(c, kids[a][c])
          /\ kids[a][c].parent = target[a] /\ ~kids[a][c].isolated /\ kids[a][c].enabled

\* Copies of rows stay behind the rows: no step lowers a version or uses an id again.
LEMMA SeenStep ==
    ASSUME Typed, \A x \in deleted : ~Exists(x), [Next]_vars,
           NEW b \in Budgets, NEW r \in Rows, Seen(b, r)
    PROVE  Seen(b, r)'
<1>0. row \in [Budgets -> Rows \cup {NoRow}] /\ r.version \in Nat
  BY DEF Typed, TypeOK, Rows
<1>1. CASE UNCHANGED <<row, deleted>>
  BY <1>1 DEF Seen, Exists
<1>2. ASSUME NEW c \in Budgets, NEW w \in Rows, Writes(c, w)
      PROVE  Seen(b, r)'
  <2>1. CASE c # b \/ b \in deleted
    BY <1>0, <1>2, <2>1 DEF Writes, Seen, Exists
  <2>2. CASE c = b /\ b \notin deleted
    <3>1. /\ Exists(b) /\ r.version <= row[b].version /\ row[b] \in Rows
          /\ w.version = row[b].version + 1 /\ row'[b] = w
      BY <1>0, <1>2, <2>2 DEF Writes, Seen, Exists
    <3>2. row[b].version \in Nat
      BY <3>1 DEF Rows
    <3> QED
      BY <1>0, <3>1, <3>2, RowsExist DEF Seen, Exists
  <2> QED
    BY <2>1, <2>2
<1>3. ASSUME NEW gone \in SUBSET Budgets, Deletes(gone)
      PROVE  Seen(b, r)'
  BY <1>0, <1>3 DEF Deletes, Seen, Exists
<1> QED
  BY <1>1, <1>2, <1>3, TableStep

\* A row that exists has been seen as it is.
LEMMA SeenNow ==
    ASSUME Typed, NEW b \in Budgets, Exists(b)
    PROVE  row[b] \in Rows /\ row[b].version \in Nat /\ Seen(b, row[b])
<1>1. row[b] \in Rows
  BY DEF Typed, TypeOK, Exists
<1>2. row[b].version \in Nat
  BY <1>1 DEF Rows
<1> QED
  BY <1>1, <1>2 DEF Seen

\* A deleted id is not used again.
LEMMA DeletedStep ==
    ASSUME Typed, \A x \in deleted : ~Exists(x), [Next]_vars
    PROVE  \A x \in deleted' : ~Exists(x)'
<1>0. row \in [Budgets -> Rows \cup {NoRow}] /\ deleted \subseteq Budgets
  BY DEF Typed, TypeOK
<1>1. CASE UNCHANGED <<row, deleted>>
  BY <1>1 DEF Exists
<1>2. ASSUME NEW c \in Budgets, NEW w \in Rows, Writes(c, w)
      PROVE  \A x \in deleted' : ~Exists(x)'
  <2>1. c \notin deleted /\ deleted' = deleted /\ row' = [row EXCEPT ![c] = w]
    BY <1>2 DEF Writes
  <2> QED
    BY <1>0, <2>1 DEF Exists
<1>3. ASSUME NEW gone \in SUBSET Budgets, Deletes(gone)
      PROVE  \A x \in deleted' : ~Exists(x)'
  BY <1>0, <1>3 DEF Deletes, Exists
<1> QED
  BY <1>1, <1>2, <1>3, TableStep

\* A step of one session leaves the calls of the others alone.
LEMMA OthersKept ==
    ASSUME Typed, NEW a \in Actors, Session(a), NEW d \in Actors, d # a
    PROVE  UNCHANGED <<call[d], target[d], edit[d], kids[d], base[d]>>
<1> USE DEF Typed, TypeOK, CopiesOK, Goto
<1>1. CASE Leave(a)
  BY <1>1 DEF Leave
<1>2. ASSUME NEW b \in Budgets,
             ReadForCreate(a, b) \/ ReadForUpdate(a, b) \/ ReadForDelete(a, b)
      PROVE  UNCHANGED <<call[d], target[d], edit[d], kids[d], base[d]>>
  BY <1>2 DEF ReadForCreate, ReadForUpdate, ReadForDelete
<1>3. ASSUME NEW c \in Budgets, DisableChild(a, c) \/ SkipChild(a, c)
      PROVE  UNCHANGED <<call[d], target[d], edit[d], kids[d], base[d]>>
  <2>1. /\ kids' = [kids EXCEPT ![a] = [x \in DOMAIN kids[a] \ {c} |-> kids[a][x]]]
        /\ \E label : call' = [call EXCEPT ![a] = label]
        /\ UNCHANGED <<target, edit, base>>
    BY <1>3 DEF DisableChild, SkipChild, NextChild
  <2> QED
    BY <2>1
<1>4. CASE ReadChildren(a)
  BY <1>4 DEF ReadChildren
<1>5. CASE ValidateAmount(a) \/ GetAllDescendants(a)
  BY <1>5 DEF ValidateAmount, GetAllDescendants
<1> QED
  BY <1>1, <1>2, <1>3, <1>4, <1>5
  DEF Session, InsertBudget, SaveBudget, DeleteBudgetCascade, CallEnds

\* What a session does to its own call: it ends it, reads a row to update, goes on
\* with the update, or is in another call.
LEMMA OwnCall ==
    ASSUME Typed, NEW a \in Actors, Session(a)
    PROVE  \/ call'[a] \notin Updating
           \/ \E b \in Budgets : ReadForUpdate(a, b)
           \/ /\ call[a] \in Updating
              /\ UNCHANGED <<target[a], edit[a], base[a]>>
              /\ call'[a] = "cascading" =>
                    \/ /\ kids'[a] = [c \in ToDisable(target[a]) |-> row[c]]
                       /\ UNCHANGED <<row, deleted>>
                    \/ /\ call[a] = "cascading"
                       /\ \E c : kids'[a] = [x \in DOMAIN kids[a] \ {c} |-> kids[a][x]]
<1> USE DEF Typed, TypeOK, CopiesOK, Goto, Updating
<1>1. CASE Leave(a)
  BY <1>1 DEF Leave
<1>2. ASSUME NEW b \in Budgets, ReadForCreate(a, b) \/ ReadForDelete(a, b)
      PROVE  call'[a] \notin Updating
  BY <1>2 DEF ReadForCreate, ReadForDelete
<1>3. ASSUME NEW c \in Budgets, DisableChild(a, c) \/ SkipChild(a, c)
      PROVE  /\ call[a] = "cascading"
             /\ UNCHANGED <<target[a], edit[a], base[a]>>
             /\ kids'[a] = [x \in DOMAIN kids[a] \ {c} |-> kids[a][x]]
  <2>1. /\ call[a] = "cascading" /\ UNCHANGED <<target, edit, base>>
        /\ kids' = [kids EXCEPT ![a] = [x \in DOMAIN kids[a] \ {c} |-> kids[a][x]]]
    BY <1>3 DEF DisableChild, SkipChild, NextChild
  <2> QED
    BY <2>1
<1>4. CASE ReadChildren(a)
  <2>1. /\ call[a] = "disabling" /\ UNCHANGED <<row, deleted, target, edit, base>>
        /\ kids' = [kids EXCEPT ![a] = [c \in ToDisable(target[a]) |-> row[c]]]
    BY <1>4 DEF ReadChildren
  <2> QED
    BY <2>1
<1>5. CASE ValidateAmount(a)
  BY <1>5 DEF ValidateAmount
<1>6. CASE GetAllDescendants(a)
  BY <1>6 DEF GetAllDescendants
<1> QED
  BY <1>1, <1>2, <1>3, <1>4, <1>5, <1>6
  DEF Session, InsertBudget, SaveBudget, DeleteBudgetCascade, CallEnds

\* An update starts from a copy of the row as it is.
LEMMA ReadsSeen ==
    ASSUME Typed, NEW a \in Actors, NEW b \in Budgets, ReadForUpdate(a, b)
    PROVE  /\ call'[a] # "cascading" /\ target'[a] = b
           /\ Seen(b, base[a])'
           /\ b \in Orgs \/ a \in OrgAdmins \/ edit'[a].isolated = base'[a].isolated
<1>1. PICK p \in {row[b].parent} \cup Parents[b], m \in Amounts, isolated \in BOOLEAN,
           switch \in {"keep", "enable", "disable"}, v \in {row[b].version} \cup ClientVersions[b] :
        /\ edit' = [edit EXCEPT ![a] = Edited(a, b, p, m, isolated, switch, v)]
        /\ Goto(a, IF switch = "disable" /\ a \in OrgAdmins THEN "disabling" ELSE "validating")
  BY DEF ReadForUpdate
<1>2. row[b] \in Rows /\ row[b].version \in Nat /\ Seen(b, row[b])
  BY SeenNow DEF ReadForUpdate
<1>3. /\ target'[a] = b /\ base'[a] = row[b] /\ UNCHANGED <<row, deleted>>
      /\ edit'[a] = Edited(a, b, p, m, isolated, switch, v)
      /\ call'[a] # "cascading"
  BY <1>1 DEF ReadForUpdate, Typed, TypeOK, CopiesOK, Goto
<1>4. edit'[a].isolated = IF MaySetIsolated(a, b) THEN isolated ELSE row[b].isolated
  BY <1>3 DEF Edited
<1>5. Seen(b, base[a])'
  BY <1>2, <1>3 DEF Seen, Exists
<1> QED
  BY <1>2, <1>3, <1>4, <1>5 DEF MaySetIsolated

\* Every step keeps the copies of all calls behind the rows.
LEMMA CopiesStep == Typed /\ CopiesSeen /\ [Next]_vars => CopiesSeen'
<1> SUFFICES ASSUME Typed, CopiesSeen, [Next]_vars
             PROVE  CopiesSeen'
  OBVIOUS
<1>0. \A x \in deleted : ~Exists(x)
  BY DEF CopiesSeen
<1>1. \A b \in deleted' : ~Exists(b)'
  BY <1>0, DeletedStep
<1> DEFINE EditOK(d) ==
             /\ Seen(target[d], base[d])
             /\ target[d] \in Orgs \/ d \in OrgAdmins \/ edit[d].isolated = base[d].isolated
           KidOK(d, c) ==
             /\ Seen(c, kids[d][c])
             /\ kids[d][c].parent = target[d] /\ ~kids[d][c].isolated /\ kids[d][c].enabled
<1>2. ASSUME NEW d \in Actors, call[d] \in Updating, UNCHANGED <<target[d], edit[d], base[d]>>
      PROVE  EditOK(d)'
  <2>1. target[d] \in Budgets /\ base[d] \in Rows /\ EditOK(d)
    BY <1>2 DEF Typed, TypeOK, CopiesOK, CopiesSeen, Updating
  <2>2. Seen(target[d], base[d])'
    <3>1. ASSUME NEW b \in Budgets, NEW r \in Rows, b = target[d], r = base[d]
          PROVE  Seen(b, r)'
      BY <1>0, <2>1, <3>1, SeenStep
    <3> QED
      BY <1>2, <2>1, <3>1 DEF Seen, Exists
  <2> QED
    BY <1>2, <2>1, <2>2
<1>3. ASSUME NEW d \in Actors, call[d] = "cascading", UNCHANGED target[d],
             NEW c \in DOMAIN kids[d], c \in DOMAIN kids'[d], kids'[d][c] = kids[d][c]
      PROVE  KidOK(d, c)'
  <2>1. c \in Budgets /\ kids[d][c] \in Rows /\ KidOK(d, c)
    BY <1>3 DEF Typed, TypeOK, CopiesOK, CopiesSeen
  <2>2. Seen(c, kids[d][c])'
    <3>1. ASSUME NEW r \in Rows, r = kids[d][c]
          PROVE  Seen(c, r)'
      BY <1>0, <2>1, <3>1, SeenStep
    <3> QED
      BY <1>3, <2>1, <3>1 DEF Seen, Exists
  <2> QED
    BY <1>3, <2>1, <2>2
<1>4. ASSUME NEW d \in Actors,
             UNCHANGED <<call[d], target[d], edit[d], kids[d], base[d]>>
      PROVE  /\ call'[d] \in Updating => EditOK(d)'
             /\ call'[d] = "cascading" => \A c \in DOMAIN kids'[d] : KidOK(d, c)'
  BY <1>2, <1>3, <1>4
<1>5. ASSUME NEW d \in Actors, Session(d)
      PROVE  /\ call'[d] \in Updating => EditOK(d)'
             /\ call'[d] = "cascading" => \A c \in DOMAIN kids'[d] : KidOK(d, c)'
  <2>1. CASE call'[d] \notin Updating
    BY <2>1 DEF Updating
  <2>2. ASSUME NEW b \in Budgets, ReadForUpdate(d, b)
        PROVE  EditOK(d)' /\ call'[d] # "cascading"
    BY <2>2, ReadsSeen DEF Seen, Exists
  <2>3. ASSUME call[d] \in Updating, UNCHANGED <<target[d], edit[d], base[d]>>,
               call'[d] = "cascading" =>
                  \/ /\ kids'[d] = [c \in ToDisable(target[d]) |-> row[c]]
                     /\ UNCHANGED <<row, deleted>>
                  \/ /\ call[d] = "cascading"
                     /\ \E c : kids'[d] = [x \in DOMAIN kids[d] \ {c} |-> kids[d][x]]
        PROVE  /\ EditOK(d)'
               /\ call'[d] = "cascading" => \A c \in DOMAIN kids'[d] : KidOK(d, c)'
    <3>1. EditOK(d)'
      BY <1>2, <2>3
    <3>2. ASSUME NEW c \in DOMAIN kids'[d], call[d] = "cascading",
                 \E e : kids'[d] = [x \in DOMAIN kids[d] \ {e} |-> kids[d][x]]
          PROVE  KidOK(d, c)'
      <4>1. c \in DOMAIN kids[d] /\ kids'[d][c] = kids[d][c]
        BY <3>2
      <4> QED
        BY <1>3, <2>3, <3>2, <4>1
    <3>3. ASSUME NEW c \in DOMAIN kids'[d], UNCHANGED <<row, deleted>>,
                 kids'[d] = [x \in ToDisable(target[d]) |-> row[x]]
          PROVE  KidOK(d, c)'
      <4>1. c \in ToDisable(target[d]) /\ kids'[d][c] = row[c]
        BY <3>3
      <4>2. c \in Budgets /\ Exists(c) /\ row[c].parent = target[d] /\ ~row[c].isolated /\ row[c].enabled
        BY <4>1 DEF ToDisable, Children
      <4>3. Seen(c, row[c])
        BY <4>2, SeenNow
      <4>4. Seen(c, kids[d][c])'
        BY <3>3, <4>1, <4>3 DEF Seen, Exists
      <4> QED
        BY <2>3, <4>1, <4>2, <4>4
    <3> QED
      BY <2>3, <3>1, <3>2, <3>3
  <2> QED
    BY <1>5, <2>1, <2>2, <2>3, OwnCall DEF Updating
<1>6. ASSUME NEW d \in Actors
      PROVE  /\ call'[d] \in Updating => EditOK(d)'
             /\ call'[d] = "cascading" => \A c \in DOMAIN kids'[d] : KidOK(d, c)'
  <2>1. CASE UNCHANGED <<call[d], target[d], edit[d], kids[d], base[d]>>
    BY <1>4, <2>1
  <2>2. CASE Session(d)
    BY <1>5, <2>2
  <2>3. ASSUME NEW a \in Actors, Session(a), a # d
        PROVE  UNCHANGED <<call[d], target[d], edit[d], kids[d], base[d]>>
    BY <2>3, OthersKept
  <2> QED
    BY <2>1, <2>2, <2>3 DEF Next, Charge, vars, calls
<1> HIDE DEF EditOK, KidOK
<1> QED
  <2>1. \A d \in Actors : call'[d] \in Updating => EditOK(d)'
    BY <1>6
  <2>2. \A d \in Actors : call'[d] = "cascading" => \A c \in DOMAIN kids'[d] : KidOK(d, c)'
    BY <1>6
  <2> QED
    BY <1>1, <2>1, <2>2 DEF CopiesSeen, EditOK, KidOK

\* The copies of all calls in progress are behind the rows.
LEMMA AlwaysSeen == Spec => []CopiesSeen
<1>1. Init => CopiesSeen
  BY DEF Init, CopiesSeen, Updating
<1> QED
  BY <1>1, CopiesStep, AlwaysTyped, PTL DEF Spec

\* A save that succeeds replaces the row it was made from, unless its request named a
\* version ahead of that row.
LEMMA SavesSeen ==
    ASSUME Typed, CopiesSeen, NEW a \in Actors, SaveBudget(a), ~AheadOfRead(a)
    PROVE  row[target[a]] = base[a]
<1>1. /\ target[a] \in Budgets /\ edit[a] \in Rows /\ row[target[a]] \in Rows
      /\ row[target[a]].version = edit[a].version
  BY Saves
<1>2. /\ base[a] \in Rows /\ Seen(target[a], base[a])
      /\ target[a] \notin deleted
  BY <1>1, RowsExist DEF SaveBudget, Typed, CopiesOK, CopiesSeen, Updating, Exists
<1>3. row[target[a]].version \in Nat /\ base[a].version \in Nat
      /\ edit[a].version <= base[a].version
  BY <1>1, <1>2 DEF Rows, AheadOfRead
<1> QED
  BY <1>1, <1>2, <1>3 DEF Seen

\* A disable that succeeds replaces the row that was read with the other children.
LEMMA DisablesSeen ==
    ASSUME Typed, CopiesSeen, NEW a \in Actors, NEW c \in Budgets, DisableChild(a, c)
    PROVE  /\ row[c] = kids[a][c]
           /\ row[c].parent = target[a] /\ ~row[c].isolated /\ row[c].enabled
<1>1. kids[a][c] \in Rows /\ row[c] \in Rows /\ row[c].version = kids[a][c].version
  BY Disables
<1>2. /\ Seen(c, kids[a][c]) /\ c \notin deleted
      /\ kids[a][c].parent = target[a] /\ ~kids[a][c].isolated /\ kids[a][c].enabled
  BY <1>1, RowsExist DEF DisableChild, CopiesSeen, Exists
<1> QED
  BY <1>1, <1>2 DEF Seen

\* A row that exists is changed by a save, a disable, a charge or a delete of it.
LEMMA Changes ==
    ASSUME Typed, [Next]_vars, NEW b \in Budgets, Exists(b), row'[b] # row[b], row'[b] # NoRow
    PROVE  \/ \E a \in Actors : SaveBudget(a) /\ target[a] = b
           \/ \E a \in Actors : DisableChild(a, b)
           \/ Charge(b)
<1>0. row \in [Budgets -> Rows \cup {NoRow}]
  BY DEF Typed, TypeOK
<1>1. ASSUME NEW a \in Actors, InsertBudget(a)
      PROVE  FALSE
  BY <1>0, <1>1 DEF InsertBudget, Exists, Typed, TypeOK
<1>2. ASSUME NEW a \in Actors, SaveBudget(a)
      PROVE  target[a] = b
  BY <1>0, <1>2, Saves
<1>3. ASSUME NEW a \in Actors, NEW c \in Budgets, DisableChild(a, c)
      PROVE  c = b
  <2>1. PICK r : Writes(c, r)
    BY <1>3, Disables
  <2> QED
    BY <1>0, <2>1 DEF Writes
<1>4. ASSUME NEW a \in Actors, DeleteBudgetCascade(a)
      PROVE  FALSE
  BY <1>4 DEF DeleteBudgetCascade
<1>5. ASSUME NEW c \in Budgets, Charge(c)
      PROVE  c = b
  BY <1>0, <1>5 DEF Charge
<1>6. ASSUME NEW a \in Actors, NEW c \in Budgets,
             \/ ReadForCreate(a, c) \/ ReadForUpdate(a, c) \/ ReadForDelete(a, c) \/ SkipChild(a, c)
      PROVE  FALSE
  BY <1>6 DEF ReadForCreate, ReadForUpdate, ReadForDelete, SkipChild
<1>7. ASSUME NEW a \in Actors,
             ReadChildren(a) \/ ValidateAmount(a) \/ GetAllDescendants(a) \/ CallEnds(a)
      PROVE  FALSE
  BY <1>7 DEF ReadChildren, ValidateAmount, GetAllDescendants, CallEnds
<1>8. CASE UNCHANGED vars
  BY <1>8 DEF vars
<1> QED
  BY <1>1, <1>2, <1>3, <1>4, <1>5, <1>6, <1>7, <1>8 DEF Next, Session

\* If a call changes, it is its own session that takes the step.
LEMMA WhoseStep ==
    ASSUME Typed, NEW a \in Actors, NEW d \in Actors, Session(d),
           call'[a] # call[a] \/ kids'[a] # kids[a]
    PROVE  a = d
  BY OthersKept

\* Neither a save nor a cascading disable overwrites a change that its session has
\* not seen, unless its client named a version ahead of the row: what it replaces is
\* the row its new values were computed from.
THEOREM NothingLost == Spec => NoLostUpdate
<1>1. Typed /\ CopiesSeen /\ [Next]_vars =>
        [\A a \in Actors, b \in Budgets :
          Exists(b) /\ row'[b] # row[b] /\ row'[b] # NoRow =>
             /\ call[a] = "saving" /\ call'[a] = "idle" /\ target[a] = b /\ ~AheadOfRead(a)
                   => Columns(row[b]) = Columns(base[a])
             /\ call[a] = "cascading" /\ b \in DOMAIN kids[a] /\ b \notin DOMAIN kids'[a]
                   => row[b] = kids[a][b]]_vars
  <2> SUFFICES ASSUME Typed, CopiesSeen, Next, NEW a \in Actors, NEW b \in Budgets,
                      Exists(b), row'[b] # row[b], row'[b] # NoRow
               PROVE  /\ call[a] = "saving" /\ call'[a] = "idle" /\ target[a] = b /\ ~AheadOfRead(a)
                            => Columns(row[b]) = Columns(base[a])
                      /\ call[a] = "cascading" /\ b \in DOMAIN kids[a] /\ b \notin DOMAIN kids'[a]
                            => row[b] = kids[a][b]
    OBVIOUS
  <2>1. ASSUME NEW d \in Actors, SaveBudget(d), target[d] = b
        PROVE  /\ call[a] = "saving" /\ call'[a] = "idle" /\ ~AheadOfRead(a) => row[b] = base[a]
               /\ call[a] = "cascading" => kids'[a] = kids[a]
    <3>1. Session(d) /\ call[d] = "saving"
      BY <2>1 DEF Session, SaveBudget
    <3>2. ~AheadOfRead(d) => row[b] = base[d]
      BY <2>1, SavesSeen
    <3> QED
      BY <3>1, <3>2, WhoseStep
  <2>2. ASSUME NEW d \in Actors, DisableChild(d, b)
        PROVE  /\ call[a] = "saving" => call'[a] = call[a]
               /\ call[a] = "cascading" /\ kids'[a] # kids[a] => row[b] = kids[a][b]
    <3>1. Session(d) /\ call[d] = "cascading"
      BY <2>2 DEF Session, DisableChild
    <3>2. row[b] = kids[d][b]
      BY <2>2, DisablesSeen
    <3> QED
      BY <3>1, <3>2, WhoseStep
  <2>3. ASSUME Charge(b)
        PROVE  call' = call /\ kids' = kids
    BY <2>3 DEF Charge, calls
  <2> QED
    BY <2>1, <2>2, <2>3, Changes
<1> QED
  BY <1>1, AlwaysTyped, AlwaysSeen, PTL DEF Spec, NoLostUpdate

\* A cascading disable turns off only what is at that moment an enabled child of the
\* budget that is not isolated.
THEOREM CascadeStaysBelow == Spec => CascadeHitsChildren
<1>1. Typed /\ CopiesSeen /\ [Next]_vars =>
        [\A a \in Actors, c \in Budgets :
          call[a] = "cascading" /\ c \in DOMAIN kids[a] /\ c \notin DOMAIN kids'[a]
             /\ row'[c] # row[c] /\ row'[c] # NoRow
             => c \in Children(target[a]) /\ ~row[c].isolated /\ row[c].enabled]_vars
  <2> SUFFICES ASSUME Typed, CopiesSeen, Next, NEW a \in Actors, NEW c \in Budgets,
                      call[a] = "cascading", c \in DOMAIN kids[a], c \notin DOMAIN kids'[a],
                      row'[c] # row[c], row'[c] # NoRow
               PROVE  c \in Children(target[a]) /\ ~row[c].isolated /\ row[c].enabled
    OBVIOUS
  <2>0. ASSUME ~Exists(c)
        PROVE  FALSE
    <3>1. ASSUME NEW d \in Actors, InsertBudget(d)
          PROVE  FALSE
      <4>1. d = a /\ call[d] = "creating"
        BY <3>1, WhoseStep DEF Session, InsertBudget
      <4> QED
        BY <4>1
    <3>2. ASSUME NEW d \in Actors, SaveBudget(d)
          PROVE  FALSE
      <4>1. d = a /\ call[d] = "saving"
        BY <3>2, WhoseStep DEF Session, SaveBudget
      <4> QED
        BY <4>1
    <3>3. ASSUME NEW d \in Actors, NEW x \in Budgets, DisableChild(d, x)
          PROVE  FALSE
      <4>1. PICK r : Writes(x, r) /\ row[x] \in Rows
        BY <3>3, Disables
      <4>2. x # c
        BY <2>0, <4>1, RowsExist DEF Exists
      <4> QED
        BY <4>1, <4>2 DEF Writes, Typed, TypeOK
    <3>4. ASSUME NEW x \in Budgets, Charge(x)
          PROVE  FALSE
      BY <3>4 DEF Charge, calls
    <3>5. ASSUME NEW d \in Actors, DeleteBudgetCascade(d)
          PROVE  FALSE
      BY <2>0, <3>5 DEF DeleteBudgetCascade
    <3>6. ASSUME NEW d \in Actors, NEW x \in Budgets,
                 \/ ReadForCreate(d, x) \/ ReadForUpdate(d, x) \/ ReadForDelete(d, x)
                 \/ SkipChild(d, x)
          PROVE  FALSE
      BY <3>6 DEF ReadForCreate, ReadForUpdate, ReadForDelete, SkipChild
    <3>7. ASSUME NEW d \in Actors,
                 ReadChildren(d) \/ ValidateAmount(d) \/ GetAllDescendants(d) \/ CallEnds(d)
          PROVE  FALSE
      BY <3>7 DEF ReadChildren, ValidateAmount, GetAllDescendants, CallEnds
    <3> QED
      BY <3>1, <3>2, <3>3, <3>4, <3>5, <3>6, <3>7 DEF Next, Session
  <2>1. ASSUME NEW d \in Actors, SaveBudget(d)
        PROVE  FALSE
    <3>1. Session(d) /\ call[d] = "saving"
      BY <2>1 DEF Session, SaveBudget
    <3> QED
      BY <3>1, WhoseStep
  <2>2. ASSUME NEW d \in Actors, DisableChild(d, c)
        PROVE  c \in Children(target[a]) /\ ~row[c].isolated /\ row[c].enabled
    <3>1. Session(d) /\ call[d] = "cascading"
      BY <2>2 DEF Session, DisableChild
    <3>2. d = a
      BY <3>1, WhoseStep
    <3> QED
      BY <2>0, <2>2, <3>2, DisablesSeen DEF Children
  <2>3. ASSUME Charge(c)
        PROVE  FALSE
    BY <2>3 DEF Charge, calls
  <2> QED
    BY <2>0, <2>1, <2>2, <2>3, Changes
<1> QED
  BY <1>1, AlwaysTyped, AlwaysSeen, PTL DEF Spec, CascadeHitsChildren

\* Whether a team or user budget is isolated is decided by org admins alone: what
\* anybody else saves has the value the row has at that moment, unless the request
\* names a version ahead of the row.
THEOREM OrgsIsolate == Spec => IsolationIsTheOrgs
<1>1. Typed /\ CopiesSeen /\ [Next]_vars =>
        [\A b \in Budgets \ Orgs :
          Exists(b) /\ row'[b] # NoRow /\ row'[b].isolated # row[b].isolated
             => \E a \in Actors : /\ call[a] = "saving" /\ target[a] = b
                                 /\ (a \in OrgAdmins \/ AheadOfRead(a))]_vars
  <2> SUFFICES ASSUME Typed, CopiesSeen, Next, NEW b \in Budgets \ Orgs,
                      Exists(b), row'[b] # NoRow, row'[b].isolated # row[b].isolated
               PROVE  \E a \in Actors : /\ call[a] = "saving" /\ target[a] = b
                                       /\ (a \in OrgAdmins \/ AheadOfRead(a))
    OBVIOUS
  <2>0. row \in [Budgets -> Rows \cup {NoRow}]
    BY DEF Typed, TypeOK
  <2>1. ASSUME NEW a \in Actors, SaveBudget(a), target[a] = b
        PROVE  call[a] = "saving" /\ (a \in OrgAdmins \/ AheadOfRead(a))
    <3> SUFFICES ASSUME ~AheadOfRead(a)
                 PROVE  call[a] = "saving" /\ a \in OrgAdmins
      BY <2>1 DEF SaveBudget
    <3>1. call[a] = "saving" /\ row[b] = base[a]
      BY <2>1, SavesSeen DEF SaveBudget
    <3>2. a \in OrgAdmins \/ edit[a].isolated = base[a].isolated
      BY <2>1, <3>1 DEF CopiesSeen, Updating
    <3> DEFINE r == [edit[a] EXCEPT !.version = row[b].version + 1]
    <3>3. edit[a] \in Rows /\ row' = [row EXCEPT ![b] = r]
      BY <2>1, Saves
    <3>4. r.isolated = edit[a].isolated
      BY <3>3 DEF Rows
    <3> HIDE DEF r
    <3>5. row'[b] = r
      BY <2>0, <3>3
    <3> QED
      BY <3>1, <3>2, <3>4, <3>5
  <2>2. ASSUME NEW a \in Actors, DisableChild(a, b)
        PROVE  FALSE
    <3>1. PICK r : Writes(b, r) /\ r.isolated = kids[a][b].isolated
      BY <2>2, Disables
    <3>2. row'[b] = r
      BY <2>0, <3>1 DEF Writes
    <3> QED
      BY <2>2, <3>1, <3>2, DisablesSeen
  <2>3. ASSUME Charge(b)
        PROVE  FALSE
    <3> DEFINE r == [row[b] EXCEPT !.version = row[b].version + 1]
    <3>1. row[b] \in Rows /\ row' = [row EXCEPT ![b] = r]
      BY <2>0, <2>3 DEF Charge, Exists
    <3>2. r.isolated = row[b].isolated
      BY <3>1 DEF Rows
    <3> HIDE DEF r
    <3> QED
      BY <2>0, <3>1, <3>2
  <2> QED
    BY <2>1, <2>2, <2>3, Changes
<1> QED
  BY <1>1, AlwaysTyped, AlwaysSeen, PTL DEF Spec, IsolationIsTheOrgs
=============================================================================
