--------------------------- MODULE DeliveryProofs ---------------------------
(***************************************************************************)
(* Proofs about webhook delivery that hold for every outbox, every batch   *)
(* size, every number of attempts and any number of faults.                *)
(***************************************************************************)
EXTENDS Delivery, WellFoundedInduction, TLAPS

-----------------------------------------------------------------------------
(* The row that is next                                                    *)

\* A finite set of numbers that is not empty has a least one.
LEMMA LeastExists ==
  ASSUME NEW S \in SUBSET Nat, S # {}
  PROVE  \E x \in S : \A y \in S : x <= y
<1>1. PICK R : R = OpToRel(<, Nat)
  OBVIOUS
<1>2. IsWellFoundedOn(R, Nat)
  BY <1>1, NatLessThanWellFounded
<1>3. PICK x \in S : \A y \in S : <<y, x>> \notin R
  BY <1>2, WFMin
<1>4. \A a, b \in Nat : a < b => <<a, b>> \in R
  BY <1>1 DEF OpToRel
<1>5. ASSUME NEW y \in S
      PROVE  x <= y
  <2>1. x \in Nat /\ y \in Nat /\ ~(y < x)
    BY <1>3, <1>4
  <2> QED
    BY <2>1
<1> QED
  BY <1>5

\* The row a pass takes in hand is one that it has left.
LEMMA MinIsNext ==
  ASSUME NEW S \in SUBSET Nat, S # {}
  PROVE  Min(S) \in S
BY LeastExists DEF Min

-----------------------------------------------------------------------------
(* The rows a pass has left are still due                                  *)

\* The rows are of their type.
RowsOK ==
  row \in [Rows -> {Absent} \cup [attempts : 0 .. MaxAttempts, wait : Nat, delivered : BOOLEAN]]

\* A pass has only due rows left to do.
PassOK ==
  \/ pass = Asleep
  \/ /\ pass = [pc |-> "work", todo |-> pass.todo]
     /\ pass.todo \subseteq Due
  \/ /\ pass = [pc |-> "record", row |-> pass.row, ok |-> pass.ok, todo |-> pass.todo]
     /\ pass.todo \subseteq Due
     /\ pass.row \in Due \ pass.todo
     /\ pass.ok \in BOOLEAN

PassInv == RowsOK /\ PassOK

\* What Skip and Post take in hand.
LEMMA NextIsDue ==
  ASSUME PassInv, pass.pc = "work", pass.todo # {}
  PROVE  /\ pass.todo \subseteq Due
         /\ Min(pass.todo) \in pass.todo
<1>1. pass.todo \subseteq Due
  BY DEF PassInv, PassOK, Asleep
<1>2. pass.todo \in SUBSET Nat
  BY <1>1, RowsAssumption DEF Due
<1> QED
  BY <1>1, <1>2, MinIsNext

\* Nothing but its record makes a row of the pass any less due.
LEMMA DueStays ==
  ASSUME PassInv, NEW r \in Due,
         \/ row'[r] = row[r]
         \/ row'[r] = [row[r] EXCEPT !.wait = @ - 1] /\ row[r].wait > 0
  PROVE  r \in Due'
<1>1. /\ r \in Rows /\ row[r] # Absent /\ ~row[r].delivered
      /\ row[r].wait = 0 /\ row[r].attempts < MaxAttempts
  BY DEF Due, Exists
<1>2. row'[r] = row[r]
  BY <1>1
<1> QED
  BY <1>1, <1>2 DEF Due, Exists

\* What recording makes of the row in hand.
LEMMA RecordStep ==
  ASSUME PassInv, Record
  PROVE  /\ pass.pc = "record" /\ pass.row \in Due \ pass.todo
         /\ pass' = [pc |-> "work", todo |-> pass.todo] /\ pass.todo \subseteq Due
         /\ \A r \in Rows : r # pass.row => row'[r] = row[r]
         /\ \/ /\ pass.ok
               /\ row'[pass.row] = [attempts |-> row[pass.row].attempts,
                                    wait |-> row[pass.row].wait, delivered |-> TRUE]
               /\ since' = since
            \/ /\ ~pass.ok
               /\ \E wait \in Jittered(Backoff(row[pass.row].attempts + 1)) :
                    row'[pass.row] = [attempts |-> row[pass.row].attempts + 1,
                                      wait |-> wait, delivered |-> FALSE]
               /\ since' = [since EXCEPT ![pass.row] = 0]
<1>1. /\ pass.pc = "record" /\ pass.row \in Due \ pass.todo
      /\ pass' = [pc |-> "work", todo |-> pass.todo] /\ pass.todo \subseteq Due
  BY DEF PassInv, PassOK, Asleep, Record, Resume
<1>2. /\ pass.row \in Rows /\ row[pass.row] # Absent /\ ~row[pass.row].delivered
      /\ row[pass.row] \in [attempts : 0 .. MaxAttempts, wait : Nat, delivered : BOOLEAN]
      /\ DOMAIN row = Rows
  BY <1>1 DEF PassInv, RowsOK, Due, Exists
<1>3. CASE pass.ok
  BY <1>1, <1>2, <1>3 DEF Record
<1>4. CASE ~pass.ok
  <2>1. PICK wait \in Jittered(Backoff(row[pass.row].attempts + 1)) :
          row' = [row EXCEPT ![pass.row] = Failed(pass.row, wait)]
    BY <1>4 DEF Record
  <2>2. Failed(pass.row, wait) = [attempts |-> row[pass.row].attempts + 1,
                                  wait |-> wait, delivered |-> FALSE]
    <3>1. row[pass.row].delivered = FALSE
      BY <1>2
    <3> QED
      BY <3>1 DEF Failed
  <2> QED
    BY <1>1, <1>2, <1>4, <2>1, <2>2 DEF Record
<1> QED
  BY <1>3, <1>4

\* PassInv holds in every behaviour.
LEMMA PassInvariant == Spec => []PassInv
<1>1. Init => PassInv
  BY DEF Init, PassInv, RowsOK, PassOK
<1>2. ASSUME PassInv, [Next]_vars
      PROVE  PassInv'
  <2> USE <1>2
  <2>1. ASSUME RowsOK', UNCHANGED pass, \A r \in Due : r \in Due'
        PROVE  PassInv'
    BY <2>1 DEF PassInv, PassOK
  <2>2. ASSUME UNCHANGED row
        PROVE  /\ RowsOK' /\ Due' = Due
    BY <2>2 DEF PassInv, RowsOK, Due, Exists
  <2>3. ASSUME NEW r \in Rows, Enqueue(r)
        PROVE  PassInv'
    <3>1. RowsOK'
      BY <2>3, DeliveryAssumption DEF Enqueue, PassInv, RowsOK
    <3>2. \A o \in Due : row'[o] = row[o]
      BY <2>3 DEF Enqueue, PassInv, RowsOK, Due
    <3> QED
      BY <2>1, <2>3, <3>1, <3>2, DueStays DEF Enqueue
  <2>4. ASSUME NEW r \in Rows, Unhook(r)
        PROVE  PassInv'
    BY <2>1, <2>2, <2>4 DEF Unhook
  <2>5. CASE Begin
    BY <2>2, <2>5 DEF Begin, FirstRows, PassInv, PassOK
  <2>6. CASE Skip
    <3>1. pass' = [pc |-> "work", todo |-> pass.todo \ {Min(pass.todo)}]
      BY <2>6 DEF Skip, PassInv, PassOK, Asleep
    <3> QED
      BY <2>2, <2>6, <3>1, NextIsDue DEF Skip, PassInv, PassOK
  <2>7. ASSUME NEW ok \in BOOLEAN, Post(ok)
        PROVE  PassInv'
    BY <2>2, <2>7, NextIsDue DEF Post, PassInv, PassOK
  <2>8. CASE Record
    <3>1. row[pass.row] \in [attempts : 0 .. MaxAttempts, wait : Nat, delivered : BOOLEAN]
          /\ pass.row \in Rows /\ row[pass.row].attempts < MaxAttempts
      BY <2>8, RecordStep DEF PassInv, RowsOK, Due, Exists
    <3>2. row'[pass.row] \in [attempts : 0 .. MaxAttempts, wait : Nat, delivered : BOOLEAN]
      <4>1. \A b : Jittered(b) \subseteq Nat
        BY DEF Jittered
      <4> QED
        <5>1. CASE pass.ok
          <6>1. row'[pass.row] = [attempts |-> row[pass.row].attempts,
                                  wait |-> row[pass.row].wait, delivered |-> TRUE]
            BY <2>8, <5>1, RecordStep
          <6> QED
            BY <3>1, <6>1
        <5>2. CASE ~pass.ok
          <6>1. PICK wait \in Jittered(Backoff(row[pass.row].attempts + 1)) :
                  row'[pass.row] = [attempts |-> row[pass.row].attempts + 1,
                                    wait |-> wait, delivered |-> FALSE]
            BY <2>8, <5>2, RecordStep
          <6>2. wait \in Nat /\ row[pass.row].attempts + 1 \in 0 .. MaxAttempts
            BY <3>1, <4>1, DeliveryAssumption
          <6> QED
            BY <6>1, <6>2
        <5> QED
          BY <5>1, <5>2
    <3>3. RowsOK'
      <4>1. \E f : row' = [row EXCEPT ![pass.row] = f]
        BY <2>8 DEF Record
      <4>2. row' \in [Rows -> {Absent} \cup
                      [attempts : 0 .. MaxAttempts, wait : Nat, delivered : BOOLEAN]]
        BY <3>1, <3>2, <4>1 DEF PassInv, RowsOK
      <4> QED
        BY <4>2 DEF RowsOK
    <3>4. \A r \in pass.todo : r \in Due'
      BY <2>8, RecordStep, DueStays DEF Due
    <3> QED
      BY <2>8, <3>3, <3>4, RecordStep DEF PassInv, PassOK
  <2>9. CASE End \/ Fault
    BY <2>2, <2>9 DEF End, Fault, PassInv, PassOK
  <2>10. CASE Tick
    <3>1. \A r \in Due : row'[r] = row[r]
      BY <2>10 DEF Tick, Due
    <3>2. RowsOK'
      <4>1. ASSUME NEW r \in Rows
            PROVE  row'[r] \in {Absent} \cup
                     [attempts : 0 .. MaxAttempts, wait : Nat, delivered : BOOLEAN]
        <5>1. CASE Exists(r) /\ row[r].wait > 0
          <6>1. row[r] \in [attempts : 0 .. MaxAttempts, wait : Nat, delivered : BOOLEAN]
            BY <5>1 DEF PassInv, RowsOK, Exists
          <6>2. row'[r] = [row[r] EXCEPT !.wait = @ - 1]
            BY <2>10, <5>1 DEF Tick
          <6> QED
            BY <5>1, <6>1, <6>2
        <5>2. CASE ~(Exists(r) /\ row[r].wait > 0)
          BY <2>10, <5>2 DEF Tick, PassInv, RowsOK
        <5> QED
          BY <5>1, <5>2
      <4> QED
        BY <2>10, <4>1 DEF Tick, RowsOK
    <3> QED
      BY <2>1, <2>10, <3>1, <3>2, DueStays DEF Tick
  <2>11. CASE UNCHANGED vars
    BY <2>1, <2>2, <2>11 DEF vars
  <2> QED
    BY <2>3, <2>4, <2>5, <2>6, <2>7, <2>8, <2>9, <2>10, <2>11 DEF Next, Deliver
<1> QED
  BY <1>1, <1>2, PTL DEF Spec

-----------------------------------------------------------------------------
(* The POSTs                                                               *)

Bit(b) == IF b THEN 1 ELSE 0
\* Row r was posted and its outcome is not recorded yet.
InHand(r) == pass.pc = "record" /\ pass.row = r

\* Every POST but those that a fault cut off is recorded as a failed attempt, as
\* delivered, or is about to be.
CountOK(r) ==
  /\ posts[r] \in Nat /\ acks[r] \in Nat
  /\ ~Exists(r) => posts[r] = 0 /\ acks[r] = 0
  /\ Exists(r) =>
       /\ row[r].delivered => row[r].attempts < MaxAttempts
       /\ posts[r] <= row[r].attempts + Bit(row[r].delivered) + Bit(InHand(r)) + faults
       /\ acks[r] <= Bit(row[r].delivered) + Bit(InHand(r) /\ pass.ok) + faults

CountInv ==
  /\ faults \in Nat
  /\ posts \in [Rows -> Nat] /\ acks \in [Rows -> Nat]
  /\ \A r \in Rows : CountOK(r)

\* The rows of an outbox that is well formed, field by field.
LEMMA RowsTyped ==
  ASSUME PassInv, NEW r \in Rows, Exists(r)
  PROVE  row[r] \in [attempts : 0 .. MaxAttempts, wait : Nat, delivered : BOOLEAN]
BY DEF PassInv, RowsOK, Exists

\* A fault may forget the row in hand, and is counted; nothing else does.
LEMMA CountKept ==
  ASSUME PassInv, CountInv, NEW r \in Rows,
         UNCHANGED <<posts, acks>>,
         \/ row'[r] = row[r]
         \/ /\ Exists(r) /\ Exists(r)'
            /\ row'[r].attempts = row[r].attempts /\ row'[r].delivered = row[r].delivered,
         \/ UNCHANGED faults /\ (InHand(r) <=> InHand(r)')
                             /\ (InHand(r) => pass.ok = pass'.ok)
         \/ UNCHANGED faults /\ ~InHand(r) /\ ~InHand(r)'
         \/ faults' = faults + 1 /\ ~InHand(r)'
  PROVE  CountOK(r)'
<1>1. CountOK(r) /\ faults \in Nat
  BY DEF CountInv
<1>2. Exists(r)' <=> Exists(r)
  BY DEF Exists
<1>3. CASE ~Exists(r)
  BY <1>1, <1>2, <1>3 DEF CountOK
<1>4. CASE Exists(r)
  <2>1. /\ row[r].attempts \in Nat /\ row'[r].attempts = row[r].attempts
        /\ row'[r].delivered = row[r].delivered
    BY <1>4, RowsTyped, DeliveryAssumption
  <2>2. Bit(InHand(r)) + faults <= Bit(InHand(r))' + faults'
    BY <1>1 DEF Bit
  <2>3. Bit(InHand(r) /\ pass.ok) + faults <= Bit(InHand(r) /\ pass.ok)' + faults'
    BY <1>1 DEF Bit
  <2>4. /\ Bit(row[r].delivered) \in Nat /\ Bit(row[r].delivered)' = Bit(row[r].delivered)
        /\ Bit(InHand(r)) \in Nat /\ Bit(InHand(r))' \in Nat
        /\ Bit(InHand(r) /\ pass.ok) \in Nat /\ Bit(InHand(r) /\ pass.ok)' \in Nat
    BY <2>1 DEF Bit
  <2> QED
    BY <1>1, <1>2, <1>4, <2>1, <2>2, <2>3, <2>4 DEF CountOK
<1> QED
  BY <1>3, <1>4

\* A step keeps the posts of each row within its recorded attempts and the faults.
LEMMA CountStep ==
  ASSUME PassInv, CountInv, [Next]_vars
  PROVE  \A r \in Rows : CountOK(r)'
<1>1. ASSUME UNCHANGED <<posts, acks, row, faults>>,
             UNCHANGED pass \/ (pass.pc # "record" /\ pass'.pc # "record")
      PROVE  \A r \in Rows : CountOK(r)'
  BY <1>1, CountKept DEF InHand
<1>2. ASSUME NEW r \in Rows, Enqueue(r)
      PROVE  \A o \in Rows : CountOK(o)'
  <2>1. ASSUME NEW o \in Rows, o # r
        PROVE  CountOK(o)'
    <3>1. /\ row'[o] = row[o] /\ UNCHANGED <<posts, acks, faults, pass>>
      BY <1>2, <2>1 DEF Enqueue, PassInv, RowsOK
    <3> QED
      BY <3>1, CountKept DEF InHand
  <2>2. CountOK(r)'
    <3>1. row'[r] = [attempts |-> 0, wait |-> 0, delivered |-> FALSE]
      BY <1>2 DEF Enqueue, PassInv, RowsOK
    <3>2. posts'[r] = 0 /\ acks'[r] = 0 /\ faults' \in Nat
      BY <1>2 DEF Enqueue, CountInv, CountOK
    <3>3. /\ Exists(r)' /\ Bit(row[r].delivered)' = 0 /\ ~row'[r].delivered
          /\ row'[r].attempts = 0
          /\ Bit(InHand(r))' \in 0 .. 1 /\ Bit(InHand(r) /\ pass.ok)' \in 0 .. 1
      BY <3>1 DEF Exists, Absent, Bit
    <3> QED
      BY <3>2, <3>3 DEF CountOK
  <2> QED
    BY <2>1, <2>2
<1>3. ASSUME NEW r \in Rows, Unhook(r)
      PROVE  \A o \in Rows : CountOK(o)'
  BY <1>1, <1>3 DEF Unhook
<1>4. CASE Begin \/ Skip \/ End
  <2>1. pass.pc # "record" /\ pass'.pc # "record"
    BY <1>4 DEF Begin, Skip, End, Asleep, PassInv, PassOK
  <2> QED
    BY <1>1, <1>4, <2>1 DEF Begin, Skip, End
<1>5. ASSUME NEW ok \in BOOLEAN, Post(ok)
      PROVE  \A o \in Rows : CountOK(o)'
  <2>1. PICK r : r = Min(pass.todo)
    OBVIOUS
  <2>2. /\ r \in Due /\ r \in Rows /\ pass.pc = "work"
        /\ UNCHANGED <<row, faults>>
        /\ pass' = [pc |-> "record", row |-> r, ok |-> ok, todo |-> pass.todo \ {r}]
        /\ posts' = [posts EXCEPT ![r] = @ + 1]
        /\ acks' = IF ok THEN [acks EXCEPT ![r] = @ + 1] ELSE acks
    BY <1>5, <2>1, NextIsDue DEF Post, Due
  <2>3. CountOK(r)'
    <3>1. /\ Exists(r) /\ ~row[r].delivered /\ row[r].attempts < MaxAttempts
          /\ row[r].attempts \in Nat
      BY <2>2, RowsTyped, DeliveryAssumption DEF Due
    <3>2. /\ posts[r] \in Nat /\ posts[r] <= row[r].attempts + faults
          /\ acks[r] \in Nat /\ acks[r] <= faults /\ faults \in Nat
      BY <2>2, <3>1 DEF CountInv, CountOK, Bit, InHand
    <3>3. posts'[r] = posts[r] + 1 /\ acks'[r] = acks[r] + Bit(ok)
      BY <2>2 DEF CountInv, Bit
    <3>4. InHand(r)' /\ pass'.ok = ok
      BY <2>2 DEF InHand
    <3> QED
      BY <2>2, <3>1, <3>2, <3>3, <3>4 DEF CountOK, Exists, Bit
  <2>4. ASSUME NEW o \in Rows, o # r
        PROVE  CountOK(o)'
    <3>1. CountOK(o) /\ ~InHand(o) /\ ~InHand(o)'
      BY <2>2, <2>4 DEF CountInv, InHand
    <3>2. posts'[o] = posts[o] /\ acks'[o] = acks[o] /\ UNCHANGED <<row, faults>>
      BY <2>2, <2>4 DEF CountInv
    <3> QED
      BY <3>1, <3>2 DEF CountOK, Exists, Bit
  <2> QED
    BY <2>3, <2>4
<1>6. CASE Record
  <2>1. PICK r : r = pass.row
    OBVIOUS
  <2>2. /\ r \in Due /\ r \in Rows
        /\ pass.pc = "record" /\ pass'.pc = "work"
        /\ UNCHANGED <<posts, acks, faults>>
    BY <1>6, <2>1, RecordStep DEF Record, Due
  <2>3. CountOK(r)'
    <3>1. /\ Exists(r) /\ ~row[r].delivered /\ row[r].attempts < MaxAttempts
          /\ row[r].attempts \in Nat
      BY <2>2, RowsTyped, DeliveryAssumption DEF Due
    <3>2. /\ posts[r] \in Nat /\ posts[r] <= row[r].attempts + 1 + faults
          /\ acks[r] \in Nat /\ acks[r] <= Bit(pass.ok) + faults /\ faults \in Nat
      BY <2>1, <2>2, <3>1 DEF CountInv, CountOK, Bit, InHand
    <3>3. Bit(InHand(r))' = 0 /\ Bit(InHand(r) /\ pass.ok)' = 0
      BY <2>2 DEF InHand, Bit
    <3>4. CASE pass.ok
      <4>1. row'[r] = [attempts |-> row[r].attempts, wait |-> row[r].wait, delivered |-> TRUE]
        BY <1>6, <2>1, <3>4, RecordStep
      <4>2. row'[r].attempts = row[r].attempts /\ Bit(row[r].delivered)' = 1 /\ Exists(r)'
        BY <4>1 DEF Bit, Exists, Absent
      <4>3. acks[r] <= 1 + faults
        BY <3>2, <3>4 DEF Bit
      <4> QED
        BY <2>2, <3>1, <3>2, <3>3, <4>2, <4>3 DEF CountOK
    <3>5. CASE ~pass.ok
      <4>1. PICK wait : row'[r] = [attempts |-> row[r].attempts + 1,
                                   wait |-> wait, delivered |-> FALSE]
        BY <1>6, <2>1, <3>5, RecordStep
      <4>2. /\ row'[r].attempts = row[r].attempts + 1 /\ ~row'[r].delivered
            /\ Bit(row[r].delivered)' = 0 /\ Exists(r)'
        BY <3>1, <4>1 DEF Bit, Exists, Absent
      <4>3. acks[r] <= faults
        BY <3>2, <3>5 DEF Bit
      <4> QED
        BY <2>2, <3>1, <3>2, <3>3, <4>2, <4>3 DEF CountOK
    <3> QED
      BY <3>4, <3>5
  <2>4. ASSUME NEW o \in Rows, o # r
        PROVE  CountOK(o)'
    BY <1>6, <2>1, <2>2, <2>4, CountKept, RecordStep DEF InHand
  <2> QED
    BY <2>3, <2>4
<1>7. CASE Fault
  BY <1>7, CountKept DEF Fault, InHand, Asleep
<1>8. CASE Tick
  <2>1. ASSUME NEW r \in Rows
        PROVE  CountOK(r)'
    <3>1. CASE row'[r] = row[r]
      BY <1>8, <3>1, CountKept DEF Tick, InHand
    <3>2. CASE Exists(r) /\ row'[r] = [row[r] EXCEPT !.wait = @ - 1]
      <4>1. row[r] \in [attempts : 0 .. MaxAttempts, wait : Nat, delivered : BOOLEAN]
        BY <3>2, RowsTyped
      <4>2. /\ row'[r].attempts = row[r].attempts /\ row'[r].delivered = row[r].delivered
            /\ row'[r] # Absent
        BY <3>2, <4>1, DeliveryAssumption DEF Absent
      <4> QED
        BY <1>8, <3>2, <4>2, CountKept DEF Tick, InHand, Exists
    <3> QED
      BY <1>8, <3>1, <3>2 DEF Tick
  <2> QED
    BY <2>1
<1>9. CASE UNCHANGED vars
  BY <1>1, <1>9 DEF vars
<1> QED
  BY <1>2, <1>3, <1>4, <1>5, <1>6, <1>7, <1>8, <1>9 DEF Next, Deliver

\* CountInv holds in every behaviour.
LEMMA CountInvariant == Spec => []CountInv
<1>1. Init => CountInv
  BY DEF Init, CountInv, CountOK, Exists
<1>2. ASSUME PassInv, CountInv, [Next]_vars
      PROVE  CountInv'
  <2>1. \A r \in Rows : CountOK(r)'
    BY <1>2, CountStep
  <2>2. faults' \in Nat /\ posts' \in [Rows -> Nat] /\ acks' \in [Rows -> Nat]
    <3>1. CASE UNCHANGED <<posts, acks, faults>>
      BY <1>2, <3>1 DEF CountInv
    <3>2. ASSUME NEW ok \in BOOLEAN, Post(ok)
          PROVE  faults' \in Nat /\ posts' \in [Rows -> Nat] /\ acks' \in [Rows -> Nat]
      <4>1. PICK r : r = Min(pass.todo)
        OBVIOUS
      <4>2. r \in Rows
        BY <1>2, <3>2, <4>1, NextIsDue DEF Post, Due
      <4>3. posts' = [posts EXCEPT ![r] = posts[r] + 1] /\ faults' = faults
        BY <3>2, <4>1 DEF Post
      <4>4. acks' = [acks EXCEPT ![r] = acks[r] + 1] \/ acks' = acks
        BY <3>2, <4>1 DEF Post
      <4> QED
        BY <1>2, <4>2, <4>3, <4>4 DEF CountInv
    <3>3. CASE Fault
      BY <1>2, <3>3 DEF Fault, CountInv
    <3>4. ASSUME NEW r \in Rows, Enqueue(r) \/ Unhook(r)
          PROVE  UNCHANGED <<posts, acks, faults>>
      BY <3>4 DEF Enqueue, Unhook
    <3>5. CASE Begin \/ Skip \/ Record \/ End \/ Tick \/ UNCHANGED vars
      BY <3>1, <3>5 DEF Begin, Skip, Record, End, Tick, vars
    <3> QED
      BY <1>2, <3>1, <3>2, <3>3, <3>4, <3>5 DEF Next, Deliver
  <2> QED
    BY <2>1, <2>2 DEF CountInv
<1> QED
  BY <1>1, <1>2, PassInvariant, PTL DEF Spec

\* At most WEBHOOK_MAX_ATTEMPTS POSTs for a row and one that is accepted, and one
\* more of each for every fault, for every outbox, batch and number of faults.
THEOREM PostsAreBounded == Spec => []PostsBounded
<1>1. ASSUME PassInv, CountInv
      PROVE  PostsBounded
  <2> SUFFICES ASSUME NEW r \in Rows
               PROVE  posts[r] <= MaxAttempts + faults /\ acks[r] <= 1 + faults
    BY DEF PostsBounded
  <2>1. CountOK(r) /\ faults \in Nat
    BY <1>1 DEF CountInv
  <2>2. CASE ~Exists(r)
    BY <2>1, <2>2, DeliveryAssumption DEF CountOK
  <2>3. CASE Exists(r)
    <3>1. row[r].attempts \in 0 .. MaxAttempts
      BY <1>1, <2>3, RowsTyped
    <3>2. InHand(r) => ~row[r].delivered /\ row[r].attempts < MaxAttempts
      BY <1>1 DEF InHand, PassInv, PassOK, Asleep, Due
    <3> QED
      BY <2>1, <2>3, <3>1, <3>2, DeliveryAssumption DEF CountOK, Bit
  <2> QED
    BY <2>2, <2>3
<1> QED
  BY <1>1, PassInvariant, CountInvariant, PTL

-----------------------------------------------------------------------------
(* The backoff                                                             *)

\* Every delay before the cap is an integer.
LEMMA DelaysAreIntegers ==
  ASSUME NEW k \in Nat
  PROVE  Base * 2^k \in Int
BY DeliveryAssumption

\* Capping the exponent shortens no delay: the cap on the exponent is reached
\* after the cap on the delay.
LEMMA BackoffIsTheSchedule ==
  ASSUME NEW n \in Nat \ {0}
  PROVE  /\ Backoff(n) \in Int /\ Backoff(n) <= MaxBackoff
         /\ LeastOf(Base * 2^(n - 1), MaxBackoff) \in Int
         /\ LeastOf(Base * 2^(n - 1), MaxBackoff) <= Backoff(n)
<1>1. n - 1 \in Nat /\ MAX_DOUBLINGS \in Nat
      /\ (LeastOf(n - 1, MAX_DOUBLINGS) = n - 1 \/ LeastOf(n - 1, MAX_DOUBLINGS) = MAX_DOUBLINGS)
  BY DEF LeastOf, MAX_DOUBLINGS
<1>2. PICK p, q, c :
        /\ p = Base * 2^(n - 1) /\ q = Base * 2^LeastOf(n - 1, MAX_DOUBLINGS)
        /\ c = Base * 2^MAX_DOUBLINGS
  OBVIOUS
<1>3. p \in Int /\ c \in Int /\ (q = p \/ q = c)
  BY <1>1, <1>2, DelaysAreIntegers
<1>4. MaxBackoff \in Nat /\ MaxBackoff <= c
  BY <1>2, <1>3, DeliveryAssumption
<1>5. /\ LeastOf(q, MaxBackoff) \in Int /\ LeastOf(q, MaxBackoff) <= MaxBackoff
      /\ LeastOf(p, MaxBackoff) \in Int /\ LeastOf(p, MaxBackoff) <= LeastOf(q, MaxBackoff)
  BY <1>3, <1>4 DEF LeastOf
<1> QED
  BY <1>2, <1>5 DEF Backoff

\* Counting from the failure, a row has waited its backoff when its wait is over.
WaitOK(r) ==
  Exists(r) /\ row[r].attempts > 0 =>
    \/ since[r] = LongestWait
    \/ 5 * (since[r] + row[r].wait) >= 4 * Backoff(row[r].attempts)

WaitInv ==
  /\ since \in [Rows -> 0 .. LongestWait]
  /\ \A r \in Rows : WaitOK(r)

\* Rows that a step leaves alone keep their wait.
LEMMA WaitKept ==
  ASSUME WaitInv, NEW r \in Rows, row'[r] = row[r], since'[r] = since[r]
  PROVE  WaitOK(r)'
BY DEF WaitInv, WaitOK, Exists

\* A step keeps what a row has waited and has to wait at its backoff or above.
LEMMA WaitStep ==
  ASSUME PassInv, WaitInv, [Next]_vars
  PROVE  WaitInv'
<1>1. CASE UNCHANGED <<row, since>>
  BY <1>1, WaitKept DEF WaitInv
<1>2. ASSUME NEW r \in Rows, Enqueue(r)
      PROVE  WaitInv'
  <2>1. row'[r] = [attempts |-> 0, wait |-> 0, delivered |-> FALSE] /\ since' = since
    BY <1>2 DEF Enqueue, PassInv, RowsOK
  <2>2. WaitOK(r)'
    BY <2>1 DEF WaitOK
  <2>3. ASSUME NEW o \in Rows, o # r
        PROVE  WaitOK(o)'
    <3>1. row'[o] = row[o]
      BY <1>2, <2>3 DEF Enqueue, PassInv, RowsOK
    <3> QED
      BY <2>1, <3>1, WaitKept
  <2> QED
    BY <2>1, <2>2, <2>3 DEF WaitInv
<1>3. CASE Record
  <2>1. PICK r : r = pass.row
    OBVIOUS
  <2>2. /\ r \in Rows /\ Exists(r) /\ row[r].attempts \in Nat
        /\ \A o \in Rows : o # r => row'[o] = row[o]
    BY <1>3, <2>1, RecordStep, RowsTyped, DeliveryAssumption DEF Due
  <2>3. CASE pass.ok
    <3>1. /\ since' = since
          /\ row'[r] = [attempts |-> row[r].attempts, wait |-> row[r].wait, delivered |-> TRUE]
      BY <1>3, <2>1, <2>3, RecordStep
    <3>2. WaitOK(r)'
      BY <2>2, <3>1 DEF WaitInv, WaitOK
    <3> QED
      BY <2>2, <3>1, <3>2, WaitKept DEF WaitInv
  <2>4. CASE ~pass.ok
    <3>1. PICK wait \in Jittered(Backoff(row[r].attempts + 1)) :
            row'[r] = [attempts |-> row[r].attempts + 1, wait |-> wait, delivered |-> FALSE]
      BY <1>3, <2>1, <2>4, RecordStep
    <3>2. since' = [since EXCEPT ![r] = 0]
      BY <1>3, <2>1, <2>4, RecordStep
    <3>3. WaitOK(r)'
      <4>1. PICK n, b : n = row[r].attempts + 1 /\ b = Backoff(n)
        OBVIOUS
      <4>2. b \in Int
        BY <2>2, <4>1, BackoffIsTheSchedule
      <4>3. wait \in Int /\ 4 * b <= 5 * wait
        BY <3>1, <4>1 DEF Jittered
      <4>4. since'[r] = 0 /\ row'[r].wait = wait /\ row'[r].attempts = n
        BY <2>2, <3>1, <3>2, <4>1 DEF WaitInv
      <4>5. 5 * (since'[r] + row'[r].wait) >= 4 * Backoff(row'[r].attempts)
        BY <4>1, <4>2, <4>3, <4>4
      <4> QED
        BY <4>5 DEF WaitOK
    <3>4. since' \in [Rows -> 0 .. LongestWait]
      BY <2>2, <3>2, DeliveryAssumption DEF WaitInv, LongestWait
    <3>5. ASSUME NEW o \in Rows, o # r
          PROVE  WaitOK(o)'
      <4>1. since'[o] = since[o]
        BY <3>2, <3>5 DEF WaitInv
      <4> QED
        BY <2>2, <3>5, <4>1, WaitKept
    <3> QED
      BY <3>3, <3>4, <3>5 DEF WaitInv
  <2> QED
    BY <2>3, <2>4
<1>4. CASE Tick
  <2>1. ASSUME NEW r \in Rows
        PROVE  /\ since[r] \in Nat /\ since[r] <= LongestWait /\ LongestWait \in Nat
               /\ since'[r] = LeastOf(since[r] + 1, LongestWait)
               /\ since'[r] \in 0 .. LongestWait
    <3>1. since[r] \in 0 .. LongestWait /\ LongestWait \in Nat
      BY DelaysAreIntegers, DeliveryAssumption DEF WaitInv, LongestWait, MAX_DOUBLINGS
    <3>2. since'[r] = LeastOf(since[r] + 1, LongestWait)
      BY <1>4 DEF Tick
    <3> QED
      BY <3>1, <3>2 DEF LeastOf
  <2>2. ASSUME NEW r \in Rows
        PROVE  WaitOK(r)'
    <3>1. CASE since'[r] = LongestWait
      BY <3>1, DeliveryAssumption DEF WaitOK, LongestWait
    <3>2. CASE since'[r] # LongestWait
      <4>1. since'[r] = since[r] + 1 /\ since[r] # LongestWait
        BY <2>1, <3>2 DEF LeastOf
      <4>2. CASE Exists(r) /\ row[r].wait > 0
        <5>1. row[r] \in [attempts : 0 .. MaxAttempts, wait : Nat, delivered : BOOLEAN]
          BY <4>2, RowsTyped
        <5>2. row'[r] = [row[r] EXCEPT !.wait = @ - 1]
          BY <1>4, <4>2 DEF Tick
        <5>3. /\ row'[r].attempts = row[r].attempts /\ row'[r].wait = row[r].wait - 1
              /\ row[r].wait \in Nat
          BY <5>1, <5>2
        <5>4. since'[r] + row'[r].wait = since[r] + row[r].wait
          BY <2>1, <4>1, <5>3
        <5> QED
          BY <4>1, <4>2, <5>3, <5>4 DEF WaitInv, WaitOK
      <4>3. CASE ~(Exists(r) /\ row[r].wait > 0)
        <5>1. row'[r] = row[r]
          BY <1>4, <4>3 DEF Tick
        <5> SUFFICES ASSUME Exists(r), row[r].attempts > 0
                     PROVE  5 * (since'[r] + row[r].wait) >= 4 * Backoff(row[r].attempts)
          BY <5>1 DEF WaitOK, Exists
        <5>2. row[r].wait \in Nat /\ row[r].attempts \in Nat \ {0}
          BY RowsTyped, DeliveryAssumption
        <5>3. PICK b : b = Backoff(row[r].attempts) /\ b \in Int
          BY <5>2, BackoffIsTheSchedule
        <5>4. 5 * (since[r] + row[r].wait) >= 4 * b
          BY <4>1, <5>3 DEF WaitInv, WaitOK
        <5>5. 5 * (since'[r] + row[r].wait) >= 4 * b
          BY <2>1, <4>1, <5>2, <5>3, <5>4
        <5> QED
          BY <5>3, <5>5
      <4> QED
        BY <4>2, <4>3
    <3> QED
      BY <3>1, <3>2
  <2>3. since' \in [Rows -> 0 .. LongestWait]
    BY <1>4, <2>1 DEF Tick
  <2> QED
    BY <2>2, <2>3 DEF WaitInv
<1>5. ASSUME NEW r \in Rows, Unhook(r)
      PROVE  UNCHANGED <<row, since>>
  BY <1>5 DEF Unhook
<1>6. CASE \/ Begin \/ Skip \/ (\E ok \in BOOLEAN : Post(ok)) \/ End \/ Fault
           \/ UNCHANGED vars
  BY <1>1, <1>6 DEF Begin, Skip, Post, End, Fault, vars
<1> QED
  BY <1>1, <1>2, <1>3, <1>4, <1>5, <1>6 DEF Next, Deliver

\* WaitInv holds in every behaviour.
LEMMA WaitInvariant == Spec => []WaitInv
<1>1. Init => WaitInv
  BY DeliveryAssumption DEF Init, WaitInv, WaitOK, Exists, LongestWait
<1>2. PassInv /\ WaitInv /\ [Next]_vars => WaitInv'
  BY WaitStep
<1> QED
  BY <1>1, <1>2, PassInvariant, PTL DEF Spec

\* The n-th retry comes no sooner than 0.8 * min(base * 2^(n-1), cap) after the
\* failure before it was recorded, for every base, cap and number of attempts:
\* a pass takes in hand only rows whose wait is over, and only the record of a
\* row sets its wait again.
THEOREM BackoffIsKept == Spec => BackoffKept
<1> DEFINE Kept(r) ==
      posts'[r] > posts[r] /\ row[r].attempts > 0 =>
        5 * since[r] >= 4 * LeastOf(Base * 2^(row[r].attempts - 1), MaxBackoff)
<1>1. ASSUME PassInv, CountInv, WaitInv, [Next]_vars
      PROVE  [\A r \in Rows : Kept(r)]_vars
  <2>1. ASSUME NEW ok \in BOOLEAN, Post(ok), NEW r \in Rows,
               posts'[r] > posts[r], row[r].attempts > 0
        PROVE  5 * since[r] >= 4 * LeastOf(Base * 2^(row[r].attempts - 1), MaxBackoff)
    <3>1. r = Min(pass.todo)
      BY <1>1, <2>1 DEF Post, CountInv
    <3>2. Exists(r) /\ row[r].wait = 0
      BY <1>1, <2>1, <3>1, NextIsDue DEF Post, Due
    <3>3. row[r].attempts \in Nat \ {0}
      BY <1>1, <2>1, <3>2, RowsTyped, DeliveryAssumption
    <3>4. PICK b, x : /\ b = Backoff(row[r].attempts)
                      /\ x = LeastOf(Base * 2^(row[r].attempts - 1), MaxBackoff)
      OBVIOUS
    <3>5. b \in Int /\ x \in Int /\ b <= MaxBackoff /\ x <= b
      BY <3>3, <3>4, BackoffIsTheSchedule
    <3>6. MaxBackoff \in Nat
      BY DelaysAreIntegers, DeliveryAssumption DEF MAX_DOUBLINGS
    <3>7. since[r] \in Nat /\ (since[r] = MaxBackoff \/ 5 * (since[r] + 0) >= 4 * b)
      BY <1>1, <2>1, <3>2, <3>4, <3>6 DEF WaitInv, WaitOK, LongestWait
    <3>8. 5 * since[r] >= 4 * x
      BY <3>5, <3>6, <3>7
    <3> QED
      BY <3>4, <3>8
  <2>2. ASSUME UNCHANGED posts
        PROVE  \A r \in Rows : Kept(r)
    BY <1>1, <2>2 DEF CountInv
  <2>3. ASSUME NEW r \in Rows, Enqueue(r) \/ Unhook(r)
        PROVE  UNCHANGED posts
    BY <2>3 DEF Enqueue, Unhook
  <2>4. CASE Begin \/ Skip \/ Record \/ End \/ Fault \/ Tick
    BY <2>2, <2>4 DEF Begin, Skip, Record, End, Fault, Tick
  <2>5. CASE \E ok \in BOOLEAN : Post(ok)
    BY <2>1, <2>5
  <2> QED
    BY <1>1, <2>2, <2>3, <2>4, <2>5 DEF Next, Deliver
<1> QED
  BY <1>1, PassInvariant, CountInvariant, WaitInvariant, PTL DEF Spec, BackoffKept
=============================================================================
