----------------------------- MODULE Frame_proofs -----------------------------
(***************************************************************************)
(* Proofs about Frame: for every set of identifiers, of types and of       *)
(* registers the stack that init_stack_variables lays out keeps what the   *)
(* program stores in it, and a print leaves the program as it was.         *)
(*                                                                         *)
(* The inductive invariant says how far the layout has come, that the      *)
(* offsets grow along the list of identifiers by at least the size of each *)
(* (Ascending), where the stack pointer is before every instruction of the *)
(* call (Pointer), and which registers the stack holds a copy of           *)
(* (SavedKept, Registers).                                                 *)
(***************************************************************************)
EXTENDS Frame, TLAPS, FiniteSetTheorems, FunctionTheorems, SequenceTheorems

Count == Cardinality(Ids)

\* get_all_identifiers lists every identifier once.
Listing ==
    /\ Count \in Nat
    /\ order \in [1 .. Count -> Ids]
    /\ Len(order) = Count
    /\ \A id \in Ids : \E i \in 1 .. Count : order[i] = id
    /\ \A i, j \in 1 .. Count : order[i] = order[j] => i = j
    /\ type \in [Ids -> Types]

Progress ==
    /\ laid \in 0 .. Count
    /\ size \in 0 .. 8 * laid
    /\ offset \in [Ids -> 0 .. size]
    /\ step # "layout" => laid = Count

\* An identifier lies above all those before it, by its own size.
Ascending ==
    \A i \in 1 .. laid :
        /\ offset[order[i]] >= 1
        /\ \A j \in 1 .. i - 1 :
               offset[order[j]] + Size[type[order[i]]] =< offset[order[i]]

\* Where the stack pointer is, and where the compiler takes it to be.
Pointer ==
    /\ step \in Steps
    /\ step = "layout" => esp = 0 /\ cur = 0 /\ done = 0
    /\ step = "run" => esp = Base /\ cur = 0 /\ done = 0
    /\ step = "save" =>
          done \in 0 .. Saved - 1 /\ esp = Base - 4 * done /\ cur = 4 * done
    /\ step = "argument" => esp = Base - 16 /\ cur = 16 /\ done = Saved
    /\ step = "format" => esp = Base - 20 /\ cur = 16 /\ done = Saved
    /\ step \in {"call", "drop"} => esp = Base - 24 /\ cur = 16 /\ done = Saved
    /\ step = "unwind" => esp = Base - 16 /\ cur = 16 /\ done = Saved
    /\ step = "restore" =>
          done \in 0 .. Saved - 1 /\ esp = Base /\ cur = 16 - 4 * done

\* print_variable has checked the type of what it prints.
Printing ==
    IF step \in {"layout", "run"} THEN printing = << >>
    ELSE /\ printing \in Ids \X ({<< >>} \cup {<< r >> : r \in Regs})
         /\ type[printing[1]] \in {"INTEGER", "BOOL"}

Contained ==
    /\ reg \in [Regs -> Contents]
    /\ mem \in [Addresses -> Contents \X (0 .. 3)]
    /\ slot \in [Ids -> Contents]
    /\ kept \in [Regs -> Contents]

\* Nothing is stored before the room for it is there.
Untouched ==
    step = "layout" =>
        /\ \A a \in Addresses : mem[a] = << Garbage, 0 >>
        /\ \A id \in Ids : slot[id] = Garbage

\* How many registers are on the stack.
OnStack ==
    IF step \in {"layout", "run"} THEN 0
    ELSE IF step = "restore" THEN Saved ELSE done

SavedKept ==
    \A r \in 0 .. OnStack - 1 : WordAt(mem, Base - 4 * (r + 1)) = kept[r]

Registers ==
    \A r \in Regs :
        \/ reg[r] = kept[r]
        \/ step \in {"drop", "unwind"} /\ r \in Clobbered
        \/ step = "restore" /\ r >= done /\ r < Saved

\* The argument of printf.
Pushed ==
    step \in {"format", "call"} =>
        LET w == WordAt(mem, Base - 20)
        IN  IF printing[2] # << >>
            THEN w = kept[printing[2][1]]
            ELSE Alone(printing[1]) => w = slot[printing[1]]

IInv ==
    /\ Listing
    /\ Progress
    /\ Ascending
    /\ Pointer
    /\ Printing
    /\ Contained
    /\ Untouched
    /\ SavedKept
    /\ Registers
    /\ Pushed
    /\ SlotsKept
    /\ NothingAbove
    /\ step = "call" => WordAt(mem, esp) = Format

-----------------------------------------------------------------------------
(***************************************************************************)
(* Memory: words and the bytes they consist of.                            *)
(***************************************************************************)
Bytes == [Addresses -> Contents \X (0 .. 3)]

\* The addresses at which a word lies in the memory that is modelled.
WordAddresses == { a \in Addresses : a + 3 \in Addresses }

\* Addresses is an interval of integers.
LEMMA AddressRange ==
    ASSUME Count \in Nat
    PROVE  /\ Addresses = -(8 * Count + 32) .. 7
           /\ WordAddresses = -(8 * Count + 32) .. 4
           /\ \A a \in WordAddresses : \A k \in 0 .. 3 : a + k \in Addresses
<1>1. Addresses = -(8 * Count + 32) .. 7
  BY DEF Addresses, Depth, Saved, Count
<1> QED
  BY <1>1 DEF WordAddresses

\* What a word is depends on its four bytes.
LEMMA SameBytes ==
    ASSUME NEW m, NEW n, NEW a \in Int,
           \A k \in 0 .. 3 : n[a + k] = m[a + k]
    PROVE  WordAt(n, a) = WordAt(m, a)
<1>1. n[a] = m[a]
  BY a + 0 = a
<1> QED
  BY <1>1 DEF WordAt

\* A word of the memory is a word, or Garbage.
LEMMA WordType ==
    ASSUME Count \in Nat, NEW m \in Bytes, NEW a \in WordAddresses
    PROVE  WordAt(m, a) \in Contents
<1>1. m[a][1] \in Contents
  BY DEF Bytes, WordAddresses
<1> QED
  BY <1>1 DEF WordAt, Contents

\* Writing a word: it can be read back, and every byte outside is as before.
LEMMA WriteWord ==
    ASSUME Count \in Nat, NEW m \in Bytes, NEW a \in WordAddresses, NEW w \in Contents
    PROVE  /\ Write(m, a, w) \in Bytes
           /\ WordAt(Write(m, a, w), a) = w
           /\ \A b \in Addresses : b \notin a .. a + 3 => Write(m, a, w)[b] = m[b]
           /\ \A b \in WordAddresses :
                  b + 4 =< a \/ a + 4 =< b => WordAt(Write(m, a, w), b) = WordAt(m, b)
<1>. DEFINE n == Write(m, a, w)
<1>0. /\ a \in Int
      /\ Addresses \subseteq Int
      /\ WordAddresses \subseteq Int
      /\ \A b \in WordAddresses : \A k \in 0 .. 3 : b + k \in Addresses
  BY AddressRange
<1>1. \A b \in Addresses : n[b] = IF b \in a .. a + 3 THEN << w, b - a >> ELSE m[b]
  BY DEF Write
<1>2. n \in Bytes
  <2>1. \A b \in Addresses : b \in a .. a + 3 => << w, b - a >> \in Contents \X (0 .. 3)
    BY <1>0
  <2> QED
    BY <1>0, <2>1 DEF Write, Bytes
<1>3. WordAt(n, a) = w
  <2>1. \A k \in 0 .. 3 : n[a + k] = << w, k >>
    <3>. SUFFICES ASSUME NEW k \in 0 .. 3 PROVE n[a + k] = << w, k >>
      OBVIOUS
    <3>1. a + k \in Addresses /\ a + k \in a .. a + 3 /\ (a + k) - a = k
      BY <1>0
    <3> QED
      BY <1>1, <3>1
  <2>2. n[a] = << w, 0 >>
    BY <2>1, <1>0, a + 0 = a
  <2> QED
    BY <2>1, <2>2 DEF WordAt
<1>4. \A b \in WordAddresses :
          b + 4 =< a \/ a + 4 =< b => WordAt(n, b) = WordAt(m, b)
  <2>. SUFFICES ASSUME NEW b \in WordAddresses, b + 4 =< a \/ a + 4 =< b
                PROVE  WordAt(n, b) = WordAt(m, b)
    OBVIOUS
  <2>1. \A k \in 0 .. 3 : b + k \in Addresses /\ b + k \notin a .. a + 3
    BY <1>0
  <2>2. \A k \in 0 .. 3 : n[b + k] = m[b + k]
    BY <2>1, <1>1
  <2> QED
    BY <2>2, <1>0, SameBytes
<1> QED
  BY <1>1, <1>2, <1>3, <1>4

-----------------------------------------------------------------------------
(***************************************************************************)
(* The layout.                                                             *)
(***************************************************************************)

\* The list of get_all_identifiers has no identifier twice: it has as many
\* places as there are identifiers, and each of them is on it.
LEMMA ListedOnce ==
    ASSUME NEW ids \in [1 .. Count -> Ids], ToSet(ids) = Ids
    PROVE  /\ Count \in Nat
           /\ Len(ids) = Count
           /\ \A id \in Ids : \E i \in 1 .. Count : ids[i] = id
           /\ \A i, j \in 1 .. Count : ids[i] = ids[j] => i = j
<1>1. Count \in Nat
  BY FS_CardinalityType, FrameAssumption DEF Count
<1>2. ids \in Seq(Ids)
  BY <1>1, SeqDef
<1>3. Len(ids) = Count
  <2>1. Len(ids) \in Nat /\ DOMAIN ids = 1 .. Len(ids)
    BY <1>2, LenProperties
  <2>2. 1 .. Len(ids) = 1 .. Count
    BY <2>1
  <2> QED
    BY <1>1, <2>1, <2>2
<1>4. \A id \in Ids : \E i \in 1 .. Count : ids[i] = id
  BY DEF ToSet
<1>5. IsFiniteSet(1 .. Count) /\ Cardinality(1 .. Count) = Count
  BY <1>1, FS_Interval
<1>6. ids \in Surjection(1 .. Count, Ids)
  BY <1>4 DEF Surjection
<1>7. ids \in Injection(1 .. Count, Ids)
  BY <1>5, <1>6, FS_Surjection DEF Count
<1>8. \A i, j \in 1 .. Count : ids[i] = ids[j] => i = j
  BY <1>7 DEF Injection, IsInjective
<1> QED
  BY <1>1, <1>3, <1>4, <1>8

\* The sizes of the types.
LEMMA SizeRange ==
    ASSUME NEW t \in Types
    PROVE  /\ Size[t] \in 1 .. 8
           /\ t # "CHAR" => Size[t] >= 4
           /\ t \in {"INTEGER", "BOOL"} => Size[t] = 4
BY FrameAssumption DEF Size

\* Where slots lie: in the memory that is modelled, above Base, and one that
\* is alone at least a word from every other.
LEMMA SlotsApart ==
    ASSUME Listing, Progress, Ascending, laid = Count
    PROVE  /\ \A id \in Ids : /\ offset[id] \in 1 .. size
                              /\ Base + offset[id] \in WordAddresses
                              /\ Base + offset[id] \in Base + 1 .. 0
           /\ \A id, other \in Ids :
                  Alone(id) /\ other # id =>
                      \/ offset[other] + 4 =< offset[id]
                      \/ offset[id] + 4 =< offset[other]
<1>1. Count \in Nat /\ size \in 0 .. 8 * Count /\ Base = -size
  BY DEF Listing, Progress, Base
<1>2. \A id \in Ids : offset[id] \in 1 .. size
  BY DEF Listing, Progress, Ascending
<1>3. WordAddresses = -(8 * Count + 32) .. 4
  BY <1>1, AddressRange
<1>4. \A i \in 1 .. Count : Size[type[order[i]]] \in 1 .. 8
  BY SizeRange DEF Listing
<1>5. ASSUME NEW id \in Ids, NEW other \in Ids, Alone(id), other # id
      PROVE  \/ offset[other] + 4 =< offset[id]
             \/ offset[id] + 4 =< offset[other]
  <2>1. PICK i \in 1 .. Count : order[i] = id
    BY DEF Listing
  <2>2. PICK j \in 1 .. Count : order[j] = other
    BY DEF Listing
  <2>3. DOMAIN order = 1 .. Count /\ Len(order) = Count
    BY DEF Listing
  <2>4. i # j
    BY <1>5, <2>1, <2>2
  <2>5. CASE j < i
    <3>1. i # 1
      BY <2>5
    <3>2. type[id] # "CHAR"
      BY <1>5, <2>1, <2>3, <3>1 DEF Alone
    <3>3. Size[type[id]] >= 4 /\ Size[type[id]] \in Int
      BY <3>2, SizeRange DEF Listing
    <3>4. offset[other] + Size[type[id]] =< offset[id]
      BY <2>1, <2>2, <2>5 DEF Ascending
    <3> QED
      BY <1>2, <3>3, <3>4
  <2>6. CASE i < j
    <3>1. i # Count /\ i + 1 \in 1 .. Count
      BY <1>1, <2>6
    <3>2. type[order[i + 1]] # "CHAR" /\ order[i + 1] \in Ids
      BY <1>5, <2>1, <2>3, <3>1 DEF Alone, Listing
    <3>3. Size[type[order[i + 1]]] >= 4 /\ Size[type[order[i + 1]]] \in Int
      BY <3>2, SizeRange DEF Listing
    <3>4. offset[id] + Size[type[order[i + 1]]] =< offset[order[i + 1]]
      BY <2>1, <3>1, i \in 1 .. (i + 1) - 1 DEF Ascending
    <3>5. offset[id] + 4 =< offset[order[i + 1]]
      BY <1>2, <3>2, <3>3, <3>4
    <3>6. CASE j = i + 1
      BY <2>2, <3>5, <3>6
    <3>7. CASE i + 1 < j
      <4>1. offset[order[i + 1]] + Size[type[order[j]]] =< offset[order[j]]
        BY <3>1, <3>7, i + 1 \in 1 .. j - 1 DEF Ascending
      <4> QED
        BY <4>1, <1>2, <1>4, <2>2, <3>2, <3>5
    <3> QED
      BY <2>6, <3>6, <3>7
  <2> QED
    BY <2>4, <2>5, <2>6
<1> QED
  BY <1>1, <1>2, <1>3, <1>5

-----------------------------------------------------------------------------
(***************************************************************************)
(* The invariant holds initially and every step preserves it.              *)
(***************************************************************************)

\* As long as nothing is stored, every slot has what it had.
LEMMA UntouchedSlots ==
    Listing /\ Progress /\ Untouched /\ step = "layout" => SlotsKept
<1>. SUFFICES ASSUME Listing, Progress, Untouched, step = "layout", NEW id \in Ids
              PROVE  WordAt(mem, Base + offset[id]) = slot[id]
  BY DEF SlotsKept
<1>1. Count \in Nat
  BY DEF Listing
<1>2. Base + offset[id] \in -(8 * Count) .. 0
  BY <1>1 DEF Progress, Base
<1>3. Base + offset[id] \in Addresses
  BY <1>1, <1>2, AddressRange
<1>4. mem[Base + offset[id]] = << Garbage, 0 >>
  BY <1>3 DEF Untouched
<1>5. WordAt(mem, Base + offset[id]) = Garbage
  BY <1>4 DEF WordAt
<1> QED
  BY <1>5 DEF Untouched

\* Nothing has been laid out, stored or pushed.
LEMMA InitInvariant == Init => IInv
<1>. SUFFICES ASSUME Init PROVE IInv
  OBVIOUS
<1>1. Listing
  BY ListedOnce DEF Init, Listing, Count
<1>2. Count \in Nat
  BY <1>1 DEF Listing
<1>3. Progress
  BY <1>2 DEF Init, Progress
<1>4. Ascending
  BY DEF Init, Ascending
<1>5. Pointer
  BY DEF Init, Pointer, Steps
<1>6. Printing
  BY DEF Init, Printing
<1>7. Contained
  <2>1. Garbage \in Contents /\ << Garbage, 0 >> \in Contents \X (0 .. 3)
    BY DEF Contents
  <2> QED
    BY <2>1 DEF Init, Contained
<1>8. SavedKept
  BY DEF Init, SavedKept, OnStack
<1>9. Registers
  BY DEF Init, Registers
<1>10. Pushed
  BY DEF Init, Pushed
<1>11. Untouched
  BY DEF Init, Untouched
<1>14. SlotsKept
  BY <1>1, <1>3, <1>11, UntouchedSlots DEF Init
<1>12. NothingAbove
  BY DEF Init, NothingAbove
<1>13. step # "call"
  BY DEF Init
<1> QED
  BY <1>1, <1>3, <1>4, <1>5, <1>6, <1>7, <1>8, <1>9, <1>10, <1>11, <1>12, <1>13, <1>14
     DEF IInv

\* What is left alone with the frame.
LEMMA FrameSame ==
    ASSUME UnchangedFrame
    PROVE  /\ Listing => Listing'
           /\ Ascending => Ascending'
           /\ Base' = Base
           /\ \A id \in Ids : Alone(id)' = Alone(id)
           /\ Progress /\ laid = Count => Progress'
BY DEF UnchangedFrame, Listing, Progress, Ascending, Base, Alone

\* While the frame is laid out, nothing is stored: the slots have what there
\* was before.
LEMMA LayOutInvariant ==
    ASSUME IInv, NEW id \in Ids, LayOut(id)
    PROVE  IInv'
<1>. DEFINE i == laid + 1
<1>1. /\ Listing /\ Progress /\ Ascending /\ Pointer /\ Printing /\ Contained
      /\ Untouched /\ SavedKept /\ Registers /\ Pushed /\ SlotsKept /\ NothingAbove
  BY DEF IInv
<1>2. /\ step = "layout" /\ step' = "layout" /\ order' = order /\ type' = type
      /\ id = order[i] /\ size' = size + Size[type[id]]
      /\ offset' = [offset EXCEPT ![id] = size'] /\ laid' = i
      /\ mem' = mem /\ slot' = slot /\ reg' = reg /\ kept' = kept
      /\ cur' = cur /\ esp' = esp /\ done' = done /\ printing' = printing
  BY DEF LayOut, UnchangedMachine
<1>3. /\ Count \in Nat /\ laid \in 0 .. Count /\ i \in 1 .. Count
      /\ size \in 0 .. 8 * laid /\ offset \in [Ids -> 0 .. size]
  BY <1>1, <1>2 DEF Listing, Progress, LayOut
<1>4. Size[type[id]] \in 1 .. 8
  BY <1>1, SizeRange DEF Listing
<1>5. Listing'
  BY <1>1, <1>2 DEF Listing
<1>6. Progress'
  <2>1. size' \in 0 .. 8 * i /\ size =< size'
    BY <1>2, <1>3, <1>4
  <2>2. offset' \in [Ids -> 0 .. size']
    BY <1>2, <1>3, <2>1
  <2> QED
    BY <1>2, <1>3, <2>1, <2>2 DEF Progress
<1>7. Ascending'
  <2>. SUFFICES ASSUME NEW k \in 1 .. i
                PROVE  /\ offset'[order[k]] >= 1
                       /\ \A j \in 1 .. k - 1 :
                              offset'[order[j]] + Size[type[order[k]]] =< offset'[order[k]]
    BY <1>2 DEF Ascending
  <2>1. \A j \in 1 .. i - 1 : order[j] # id /\ order[j] \in Ids /\ offset'[order[j]] = offset[order[j]]
    BY <1>1, <1>2, <1>3 DEF Listing
  <2>2. CASE k = i
    <3>1. offset'[order[k]] = size + Size[type[order[k]]]
      BY <1>2, <1>3, <2>2
    <3>2. \A j \in 1 .. k - 1 : offset'[order[j]] =< size /\ offset'[order[j]] \in Int
      BY <1>3, <2>1, <2>2
    <3>3. Size[type[order[k]]] \in 1 .. 8
      BY <1>2, <1>4, <2>2
    <3> QED
      BY <1>3, <3>1, <3>2, <3>3
  <2>3. CASE k # i
    <3>1. k \in 1 .. laid /\ k \in 1 .. i - 1 /\ \A j \in 1 .. k - 1 : j \in 1 .. i - 1
      BY <1>3, <2>3
    <3> QED
      BY <1>1, <2>1, <3>1 DEF Ascending
  <2> QED
    BY <2>2, <2>3
<1>8. Pointer'
  BY <1>1, <1>2 DEF Pointer, Steps
<1>12. Contained'
  BY <1>1, <1>2 DEF Contained
<1>16. Registers'
  BY <1>1, <1>2 DEF Registers
<1>14. Printing'
  BY <1>1, <1>2 DEF Printing
<1>13. Pushed'
  BY <1>2 DEF Pushed
<1>9. SavedKept'
  BY <1>2 DEF SavedKept, OnStack
<1>10. NothingAbove'
  BY <1>1, <1>2 DEF NothingAbove
<1>15. Untouched'
  BY <1>1, <1>2 DEF Untouched
<1>11. SlotsKept'
  <2>1. (Listing /\ Progress /\ Untouched /\ step = "layout" => SlotsKept)'
    BY UntouchedSlots, PTL
  <2> QED
    BY <1>2, <1>5, <1>6, <1>15, <2>1
<1> QED
  BY <1>2, <1>5, <1>6, <1>7, <1>8, <1>9, <1>10, <1>11, <1>12, <1>13, <1>14,
     <1>15, <1>16 DEF IInv

\* The room of the frame is reserved; the offsets stay.
LEMMA ReserveInvariant ==
    ASSUME IInv, Reserve
    PROVE  IInv'
<1>1. /\ Listing /\ Progress /\ Ascending /\ Pointer /\ Printing /\ Contained
      /\ Untouched /\ SavedKept /\ Registers /\ Pushed /\ SlotsKept /\ NothingAbove
  BY DEF IInv
<1>2. /\ step = "layout" /\ step' = "run" /\ laid = Len(order) /\ UnchangedFrame
      /\ esp' = esp - size
      /\ mem' = mem /\ slot' = slot /\ reg' = reg /\ kept' = kept
      /\ cur' = cur /\ done' = done /\ printing' = printing
  BY DEF Reserve, UnchangedMachine
<1>3. laid = Count /\ size \in Int
  BY <1>1, <1>2 DEF Listing, Progress
<1>4. Listing' /\ Ascending' /\ Progress'
  BY <1>1, <1>2, <1>3, FrameSame
<1>5. Base' = Base /\ \A id \in Ids : Alone(id)' = Alone(id)
  BY <1>2, FrameSame
<1>6. Pointer'
  BY <1>1, <1>2, <1>3, <1>5 DEF Pointer, Steps, Base
<1>7. Printing' /\ Contained' /\ Untouched' /\ Registers'
  BY <1>1, <1>2 DEF Printing, Contained, Untouched, Registers
<1>11. Pushed'
  BY <1>2 DEF Pushed
<1>8. SavedKept'
  BY <1>2 DEF SavedKept, OnStack
<1>9. SlotsKept'
  BY <1>1, <1>2, <1>5 DEF SlotsKept, UnchangedFrame
<1>10. NothingAbove'
  BY <1>1, <1>2 DEF NothingAbove
<1> QED
  BY <1>2, <1>4, <1>6, <1>7, <1>8, <1>9, <1>10, <1>11 DEF IInv

\* The parts of the invariant a step of the running program needs.
LEMMA Running ==
    ASSUME IInv, step # "layout"
    PROVE  /\ Listing /\ Progress /\ Ascending /\ Pointer /\ Printing /\ Contained
           /\ SavedKept /\ Registers /\ Pushed /\ SlotsKept /\ NothingAbove
           /\ Count \in Nat /\ laid = Count /\ Base = -size /\ size \in 0 .. 8 * Count
           /\ mem \in Bytes
           /\ 0 \in Regs /\ 1 \in Regs /\ 2 \in Regs /\ 3 \in Regs
           /\ \A a \in Base - 24 .. Base : a \in WordAddresses /\ a \in Int
<1>1. /\ Listing /\ Progress /\ Ascending /\ Pointer /\ Printing /\ Contained
      /\ SavedKept /\ Registers /\ Pushed /\ SlotsKept /\ NothingAbove
  BY DEF IInv
<1>2. Count \in Nat /\ laid = Count /\ Base = -size /\ size \in 0 .. 8 * Count
  BY <1>1 DEF Listing, Progress, Base
<1>3. mem \in Bytes
  BY <1>1 DEF Contained, Bytes
<1>4. 0 \in Regs /\ 1 \in Regs /\ 2 \in Regs /\ 3 \in Regs
  BY FrameAssumption DEF Regs
<1>5. \A a \in Base - 24 .. Base : a \in WordAddresses /\ a \in Int
  BY <1>2, AddressRange
<1> QED
  BY <1>1, <1>2, <1>3, <1>4, <1>5

\* A step of the call that leaves the slots and all above them as they are.
LEMMA CallKeeps ==
    ASSUME IInv, step # "layout", step' # "layout", UnchangedProgram, mem' \in Bytes,
           \A id \in Ids : WordAt(mem', Base + offset[id]) = WordAt(mem, Base + offset[id]),
           \A a \in Addresses : a >= 4 => mem'[a] = mem[a]
    PROVE  /\ Listing' /\ Progress' /\ Ascending' /\ Untouched' /\ SlotsKept'
           /\ NothingAbove'
           /\ Base' = Base
           /\ slot' = slot /\ kept' = kept /\ type' = type
           /\ \A id \in Ids : Alone(id)' = Alone(id)
<1>1. /\ UnchangedFrame /\ slot' = slot /\ kept' = kept /\ type' = type
      /\ offset' = offset
  BY DEF UnchangedProgram, UnchangedFrame
<1>2. /\ Listing /\ Progress /\ Ascending /\ laid = Count /\ SlotsKept /\ NothingAbove
  BY Running
<1>3. /\ Listing' /\ Progress' /\ Ascending' /\ Base' = Base
      /\ \A id \in Ids : Alone(id)' = Alone(id)
  BY <1>1, <1>2, FrameSame
<1>4. Untouched'
  BY DEF Untouched
<1>5. SlotsKept'
  BY <1>1, <1>2, <1>3 DEF SlotsKept
<1>6. NothingAbove'
  BY <1>2 DEF NothingAbove
<1> QED
  BY <1>1, <1>3, <1>4, <1>5, <1>6

\* A push: the word is there, and all above it is as before.
LEMMA PushKeeps ==
    ASSUME IInv, step # "layout", NEW a \in Base - 24 .. Base - 4, NEW w \in Contents
    PROVE  LET m == Write(mem, a, w)
           IN  /\ m \in Bytes
               /\ WordAt(m, a) = w
               /\ \A b \in a + 4 .. Base : WordAt(m, b) = WordAt(mem, b)
               /\ \A id \in Ids : WordAt(m, Base + offset[id]) = WordAt(mem, Base + offset[id])
               /\ \A b \in Addresses : b >= 4 => m[b] = mem[b]
<1>. DEFINE m == Write(mem, a, w)
<1>1. /\ Count \in Nat /\ Listing /\ Progress /\ Ascending /\ laid = Count
      /\ mem \in Bytes /\ Base = -size /\ size \in 0 .. 8 * Count
      /\ \A b \in Base - 24 .. Base : b \in WordAddresses
  BY Running
<1>2. a \in Int /\ a \in WordAddresses /\ a + 4 =< Base /\ Base \in Int
  BY <1>1
<1>3. /\ m \in Bytes
      /\ WordAt(m, a) = w
      /\ \A b \in Addresses : b \notin a .. a + 3 => m[b] = mem[b]
      /\ \A b \in WordAddresses :
             b + 4 =< a \/ a + 4 =< b => WordAt(m, b) = WordAt(mem, b)
  BY <1>1, <1>2, WriteWord
<1>4. \A b \in a + 4 .. Base : WordAt(m, b) = WordAt(mem, b)
  BY <1>1, <1>2, <1>3
<1>5. \A id \in Ids : WordAt(m, Base + offset[id]) = WordAt(mem, Base + offset[id])
  <2>1. \A id \in Ids : Base + offset[id] \in WordAddresses /\ Base + offset[id] \in Base + 1 .. 0
    BY <1>1, SlotsApart
  <2> QED
    BY <1>2, <1>3, <2>1
<1>6. \A b \in Addresses : b >= 4 => m[b] = mem[b]
  BY <1>1, <1>2, <1>3, AddressRange
<1> QED
  BY <1>3, <1>4, <1>5, <1>6

\* The code computes something in a register.
LEMMA SetRegInvariant ==
    ASSUME IInv, NEW r \in Regs, NEW w \in Words, SetReg(r, w)
    PROVE  IInv'
<1>1. /\ step = "run" /\ step' = step /\ UnchangedFrame
      /\ reg' = [reg EXCEPT ![r] = w] /\ kept' = [kept EXCEPT ![r] = w]
      /\ mem' = mem /\ slot' = slot /\ offset' = offset
      /\ cur' = cur /\ esp' = esp /\ done' = done /\ printing' = printing
  BY DEF SetReg, UnchangedCall, UnchangedFrame
<1>2. /\ Listing /\ Progress /\ Ascending /\ Pointer /\ Printing /\ Contained
      /\ SavedKept /\ Registers /\ Pushed /\ SlotsKept /\ NothingAbove /\ laid = Count
  BY <1>1, Running
<1>3. /\ Listing' /\ Progress' /\ Ascending' /\ Base' = Base
      /\ \A id \in Ids : Alone(id)' = Alone(id)
  BY <1>1, <1>2, FrameSame
<1>4. Pointer' /\ Printing'
  BY <1>1, <1>2, <1>3 DEF Pointer, Printing
<1>5. Contained'
  BY <1>1, <1>2 DEF Contained, Contents
<1>6. Untouched' /\ Pushed'
  BY <1>1 DEF Untouched, Pushed
<1>7. SavedKept'
  BY <1>1 DEF SavedKept, OnStack
<1>8. Registers'
  BY <1>1, <1>2 DEF Registers, Contained
<1>9. SlotsKept'
  BY <1>1, <1>2, <1>3 DEF SlotsKept
<1>10. NothingAbove'
  BY <1>1, <1>2 DEF NothingAbove
<1> QED
  BY <1>1, <1>3, <1>4, <1>5, <1>6, <1>7, <1>8, <1>9, <1>10 DEF IInv

\* A value is stored in its slot, and in no other that is alone.
LEMMA StoreInvariant ==
    ASSUME IInv, NEW r \in Regs, NEW id \in Ids, Store(r, id)
    PROVE  IInv'
<1>. DEFINE a == Base + offset[id]
            m == Write(mem, a, reg[r])
<1>1. /\ step = "run" /\ step' = step /\ UnchangedFrame
      /\ mem' = Write(mem, esp + offset[id], reg[r])
      /\ slot' = [slot EXCEPT ![id] = kept[r]]
      /\ reg' = reg /\ kept' = kept /\ offset' = offset
      /\ cur' = cur /\ esp' = esp /\ done' = done /\ printing' = printing
  BY DEF Store, UnchangedCall, UnchangedFrame
<1>2. /\ Listing /\ Progress /\ Ascending /\ Pointer /\ Printing /\ Contained
      /\ SavedKept /\ Registers /\ Pushed /\ SlotsKept /\ NothingAbove /\ laid = Count
      /\ Count \in Nat /\ mem \in Bytes /\ Base = -size /\ size \in 0 .. 8 * Count
  BY <1>1, Running
<1>3. /\ Listing' /\ Progress' /\ Ascending' /\ Base' = Base
      /\ \A k \in Ids : Alone(k)' = Alone(k)
  BY <1>1, <1>2, FrameSame
<1>4. /\ a \in WordAddresses /\ a \in Base + 1 .. 0
      /\ \A k \in Ids : Base + offset[k] \in WordAddresses /\ offset[k] \in 1 .. size
      /\ \A k \in Ids : Alone(k) /\ id # k =>
             \/ offset[id] + 4 =< offset[k]
             \/ offset[k] + 4 =< offset[id]
  BY <1>2, SlotsApart
<1>5. mem' = m
  BY <1>1, <1>2 DEF Pointer
<1>6. reg[r] = kept[r] /\ reg[r] \in Contents
  BY <1>1, <1>2 DEF Registers, Contained
<1>7. /\ m \in Bytes
      /\ WordAt(m, a) = reg[r]
      /\ \A b \in Addresses : b \notin a .. a + 3 => m[b] = mem[b]
      /\ \A b \in WordAddresses :
             b + 4 =< a \/ a + 4 =< b => WordAt(m, b) = WordAt(mem, b)
  BY <1>2, <1>4, <1>6, WriteWord
<1>8. SlotsKept'
  <2>. SUFFICES ASSUME NEW k \in Ids, Alone(k)
                PROVE  WordAt(m, Base + offset[k]) = slot'[k]
    BY <1>1, <1>3, <1>5 DEF SlotsKept
  <2>1. CASE k = id
    BY <2>1, <1>1, <1>2, <1>6, <1>7 DEF Contained
  <2>2. CASE k # id
    <3>1. slot'[k] = slot[k]
      BY <1>1, <1>2, <2>2 DEF Contained
    <3>2. WordAt(mem, Base + offset[k]) = slot[k]
      BY <1>2 DEF SlotsKept
    <3>3. (Base + offset[k]) + 4 =< a \/ a + 4 =< Base + offset[k]
      BY <1>2, <1>4, <2>2
    <3> QED
      BY <3>1, <3>2, <3>3, <1>4, <1>7
  <2> QED
    BY <2>1, <2>2
<1>9. NothingAbove'
  <2>1. \A b \in Addresses : b >= 4 => b \notin a .. a + 3
    BY <1>2, <1>4, AddressRange
  <2> QED
    BY <1>2, <1>5, <1>7, <2>1 DEF NothingAbove
<1>10. Pointer' /\ Printing'
  BY <1>1, <1>2, <1>3 DEF Pointer, Printing
<1>11. Contained'
  BY <1>1, <1>2, <1>5, <1>7 DEF Contained, Bytes
<1>12. Untouched' /\ Pushed'
  BY <1>1 DEF Untouched, Pushed
<1>13. SavedKept'
  BY <1>1 DEF SavedKept, OnStack
<1>14. Registers'
  BY <1>1, <1>2 DEF Registers
<1> QED
  BY <1>1, <1>3, <1>8, <1>9, <1>10, <1>11, <1>12, <1>13, <1>14 DEF IInv

\* print_variable begins, for an identifier of a type it can print.
LEMMA BeginPrintInvariant ==
    ASSUME IInv, NEW id \in Ids, NEW where \in {<< >>} \cup {<< r >> : r \in Regs},
           BeginPrint(id, where)
    PROVE  IInv'
<1>1. /\ step = "run" /\ step' = "save" /\ type[id] \in {"INTEGER", "BOOL"}
      /\ printing' = << id, where >> /\ UnchangedProgram
      /\ mem' = mem /\ reg' = reg /\ slot' = slot /\ kept' = kept
      /\ cur' = cur /\ esp' = esp /\ done' = done
  BY DEF BeginPrint, UnchangedProgram
<1>2. /\ Pointer /\ Contained /\ Registers /\ mem \in Bytes /\ Base \in Int
  BY <1>1, Running
<1>3. /\ Listing' /\ Progress' /\ Ascending' /\ Untouched' /\ SlotsKept'
      /\ NothingAbove' /\ Base' = Base /\ type' = type
  BY <1>1, <1>2, CallKeeps
<1>4. Pointer'
  BY <1>1, <1>2, <1>3 DEF Pointer, Steps, Saved
<1>5. Printing'
  BY <1>1, <1>3 DEF Printing
<1>6. Contained'
  BY <1>1, <1>2 DEF Contained
<1>7. SavedKept'
  BY <1>1, <1>2 DEF SavedKept, OnStack, Pointer
<1>8. Registers' /\ Pushed'
  BY <1>1, <1>2 DEF Registers, Pushed
<1> QED
  BY <1>1, <1>3, <1>4, <1>5, <1>6, <1>7, <1>8 DEF IInv

\* store_caller_regs puts one more register on the stack, with its value.
LEMMA SaveInvariant ==
    ASSUME IInv, Save
    PROVE  IInv'
<1>. DEFINE a == Base - 4 * (done + 1)
            m == Write(mem, a, reg[done])
<1>1. /\ step = "save" /\ cur' = cur + 4 /\ esp' = esp - 4
      /\ mem' = Write(mem, esp - 4, reg[done]) /\ done' = done + 1
      /\ step' = IF done' = 4 THEN "argument" ELSE "save"
      /\ UnchangedProgram /\ reg' = reg /\ printing' = printing
  BY DEF Save, Push, Saved
<1>2. /\ Pointer /\ Printing /\ Contained /\ SavedKept /\ Registers
      /\ Base \in Int /\ 0 \in Regs /\ 1 \in Regs /\ 2 \in Regs /\ 3 \in Regs
  BY <1>1, Running
<1>3. /\ done \in 0 .. 3 /\ done \in Regs /\ esp = Base - 4 * done /\ cur = 4 * done
      /\ a \in Base - 24 .. Base - 4
  BY <1>1, <1>2 DEF Pointer, Saved
<1>4. mem' = m
  BY <1>1, <1>2, <1>3
<1>5. reg[done] = kept[done] /\ reg[done] \in Contents
  BY <1>1, <1>2, <1>3 DEF Registers, Contained
<1>6. /\ m \in Bytes
      /\ WordAt(m, a) = reg[done]
      /\ \A b \in a + 4 .. Base : WordAt(m, b) = WordAt(mem, b)
      /\ \A id \in Ids : WordAt(m, Base + offset[id]) = WordAt(mem, Base + offset[id])
      /\ \A b \in Addresses : b >= 4 => m[b] = mem[b]
  BY <1>1, <1>3, <1>5, PushKeeps
<1>7. /\ Listing' /\ Progress' /\ Ascending' /\ Untouched' /\ SlotsKept'
      /\ NothingAbove' /\ Base' = Base
      /\ slot' = slot /\ kept' = kept /\ type' = type
  BY <1>1, <1>4, <1>6, CallKeeps
<1>8. Pointer'
  BY <1>1, <1>2, <1>3, <1>7 DEF Pointer, Steps, Saved
<1>9. Printing'
  BY <1>1, <1>2, <1>7 DEF Printing
<1>10. Contained'
  BY <1>1, <1>2, <1>4, <1>6, <1>7 DEF Contained, Bytes
<1>11. SavedKept'
  <2>1. OnStack = done /\ OnStack' = done + 1
    BY <1>1 DEF OnStack
  <2>2. ASSUME NEW r \in 0 .. done PROVE WordAt(m, Base - 4 * (r + 1)) = kept[r]
    <3>1. CASE r = done
      BY <1>5, <1>6, <3>1
    <3>2. CASE r # done
      <4>1. r \in 0 .. done - 1 /\ Base - 4 * (r + 1) \in a + 4 .. Base
        BY <1>2, <1>3, <3>2
      <4> QED
        BY <1>2, <1>6, <2>1, <4>1 DEF SavedKept
    <3> QED
      BY <3>1, <3>2
  <2> QED
    BY <1>3, <1>4, <1>7, <2>1, <2>2 DEF SavedKept
<1>12. Registers' /\ Pushed' /\ step' # "call"
  BY <1>1, <1>2, <1>7 DEF Registers, Pushed
<1> QED
  BY <1>7, <1>8, <1>9, <1>10, <1>11, <1>12 DEF IInv

\* What is pushed is the value of the identifier: its register has it, or
\* its slot, found with the offset that follows the stack pointer.
LEMMA PushArgumentInvariant ==
    ASSUME IInv, PushArgument
    PROVE  IInv'
<1>. DEFINE a == Base - 20
            m == Write(mem, a, Operand)
<1>1. /\ step = "argument" /\ esp' = esp - 4 /\ mem' = Write(mem, esp - 4, Operand)
      /\ step' = "format" /\ UnchangedProgram
      /\ cur' = cur /\ reg' = reg /\ done' = done /\ printing' = printing
  BY DEF PushArgument, Push
<1>2. /\ Pointer /\ Printing /\ Contained /\ SavedKept /\ Registers /\ SlotsKept
      /\ Listing /\ Progress /\ Ascending /\ laid = Count
      /\ Base \in Int /\ Count \in Nat /\ mem \in Bytes
  BY <1>1, Running
<1>3. /\ esp = Base - 16 /\ cur = 16 /\ done = 4 /\ a \in Base - 24 .. Base - 4
  BY <1>1, <1>2 DEF Pointer, Saved
<1>4. mem' = m
  BY <1>1, <1>2, <1>3
<1>5. /\ Operand \in Contents
      /\ IF printing[2] # << >>
         THEN Operand = kept[printing[2][1]]
         ELSE Alone(printing[1]) => Operand = slot[printing[1]]
  <2>1. /\ printing[1] \in Ids
        /\ printing[2] # << >> => printing[2][1] \in Regs
    BY <1>1, <1>2 DEF Printing
  <2>2. CASE printing[2] # << >>
    <3>1. Operand = reg[printing[2][1]]
      BY <2>2 DEF Operand
    <3>2. reg[printing[2][1]] = kept[printing[2][1]]
      BY <1>1, <1>2, <2>1, <2>2 DEF Registers
    <3> QED
      BY <1>2, <2>1, <2>2, <3>1, <3>2 DEF Contained
  <2>3. CASE printing[2] = << >>
    <3>1. /\ Base + offset[printing[1]] \in WordAddresses
          /\ offset[printing[1]] \in 1 .. size
      BY <1>2, <2>1, SlotsApart
    <3>2. (esp + offset[printing[1]]) + cur = Base + offset[printing[1]]
      BY <1>2, <1>3, <3>1
    <3>3. Operand = WordAt(mem, Base + offset[printing[1]])
      BY <2>3, <3>2 DEF Operand
    <3>4. Operand \in Contents
      BY <1>2, <3>1, <3>3, WordType
    <3> QED
      BY <1>2, <2>1, <2>3, <3>3, <3>4 DEF SlotsKept
  <2> QED
    BY <2>2, <2>3
<1>6. /\ m \in Bytes
      /\ WordAt(m, a) = Operand
      /\ \A b \in a + 4 .. Base : WordAt(m, b) = WordAt(mem, b)
      /\ \A id \in Ids : WordAt(m, Base + offset[id]) = WordAt(mem, Base + offset[id])
      /\ \A b \in Addresses : b >= 4 => m[b] = mem[b]
  BY <1>1, <1>3, <1>5, PushKeeps
<1>7. /\ Listing' /\ Progress' /\ Ascending' /\ Untouched' /\ SlotsKept'
      /\ NothingAbove' /\ Base' = Base
      /\ slot' = slot /\ kept' = kept /\ type' = type
      /\ \A id \in Ids : Alone(id)' = Alone(id)
  BY <1>1, <1>4, <1>6, CallKeeps
<1>8. Pointer'
  BY <1>1, <1>2, <1>3, <1>7 DEF Pointer, Steps, Saved
<1>9. Printing'
  BY <1>1, <1>2, <1>7 DEF Printing
<1>10. Contained'
  BY <1>1, <1>2, <1>4, <1>6, <1>7 DEF Contained, Bytes
<1>11. SavedKept'
  <2>1. OnStack = 4 /\ OnStack' = 4
    BY <1>1, <1>3 DEF OnStack
  <2>2. \A r \in 0 .. 3 : Base - 4 * (r + 1) \in a + 4 .. Base
    BY <1>2
  <2> QED
    BY <1>2, <1>4, <1>6, <1>7, <2>1, <2>2 DEF SavedKept
<1>12. Registers'
  BY <1>1, <1>2, <1>7 DEF Registers
<1>13. Pushed'
  <2>1. printing[1] \in Ids
    BY <1>1, <1>2 DEF Printing
  <2> QED
    BY <1>1, <1>4, <1>5, <1>6, <1>7, <2>1 DEF Pushed
<1> QED
  BY <1>1, <1>7, <1>8, <1>9, <1>10, <1>11, <1>12, <1>13 DEF IInv

\* The format goes on top of the argument.
LEMMA PushFormatInvariant ==
    ASSUME IInv, PushFormat
    PROVE  IInv'
<1>. DEFINE a == Base - 24
            m == Write(mem, a, Format)
<1>1. /\ step = "format" /\ esp' = esp - 4 /\ mem' = Write(mem, esp - 4, Format)
      /\ step' = "call" /\ UnchangedProgram
      /\ cur' = cur /\ reg' = reg /\ done' = done /\ printing' = printing
  BY DEF PushFormat, Push
<1>2. /\ Pointer /\ Printing /\ Contained /\ SavedKept /\ Registers /\ Pushed
      /\ Base \in Int
  BY <1>1, Running
<1>3. /\ esp = Base - 20 /\ cur = 16 /\ done = 4 /\ a \in Base - 24 .. Base - 4
  BY <1>1, <1>2 DEF Pointer, Saved
<1>4. mem' = m
  BY <1>1, <1>2, <1>3
<1>5. /\ m \in Bytes
      /\ WordAt(m, a) = Format
      /\ \A b \in a + 4 .. Base : WordAt(m, b) = WordAt(mem, b)
      /\ \A id \in Ids : WordAt(m, Base + offset[id]) = WordAt(mem, Base + offset[id])
      /\ \A b \in Addresses : b >= 4 => m[b] = mem[b]
  BY <1>1, <1>3, PushKeeps DEF Contents
<1>6. /\ Listing' /\ Progress' /\ Ascending' /\ Untouched' /\ SlotsKept'
      /\ NothingAbove' /\ Base' = Base
      /\ slot' = slot /\ kept' = kept /\ type' = type
      /\ \A id \in Ids : Alone(id)' = Alone(id)
  BY <1>1, <1>4, <1>5, CallKeeps
<1>7. Pointer'
  BY <1>1, <1>2, <1>3, <1>6 DEF Pointer, Steps, Saved
<1>8. Printing'
  BY <1>1, <1>2, <1>6 DEF Printing
<1>9. Contained'
  BY <1>1, <1>2, <1>4, <1>5, <1>6 DEF Contained, Bytes
<1>10. SavedKept'
  <2>1. OnStack = 4 /\ OnStack' = 4
    BY <1>1, <1>3 DEF OnStack
  <2>2. \A r \in 0 .. 3 : Base - 4 * (r + 1) \in a + 4 .. Base
    BY <1>2
  <2> QED
    BY <1>2, <1>4, <1>5, <1>6, <2>1, <2>2 DEF SavedKept
<1>11. Registers'
  BY <1>1, <1>2, <1>6 DEF Registers
<1>12. Pushed'
  <2>1. printing[1] \in Ids
    BY <1>1, <1>2 DEF Printing
  <2>2. WordAt(m, Base - 20) = WordAt(mem, Base - 20)
    BY <1>2, <1>5, Base - 20 \in a + 4 .. Base
  <2> QED
    BY <1>1, <1>2, <1>4, <1>6, <2>1, <2>2 DEF Pushed
<1>13. WordAt(mem', esp') = Format
  BY <1>1, <1>2, <1>3, <1>4, <1>5
<1> QED
  BY <1>6, <1>7, <1>8, <1>9, <1>10, <1>11, <1>12, <1>13 DEF IInv

\* printf keeps what is above its arguments, and every register but three.
LEMMA CallInvariant ==
    ASSUME IInv, Call
    PROVE  IInv'
<1>1. /\ step = "call" /\ step' = "drop" /\ UnchangedProgram
      /\ reg' = [r \in Regs |-> IF r \in Clobbered THEN Garbage ELSE reg[r]]
      /\ mem' = [a \in Addresses |-> IF a < esp + 8 THEN << Garbage, 0 >> ELSE mem[a]]
      /\ cur' = cur /\ esp' = esp /\ done' = done /\ printing' = printing
  BY DEF Call
<1>2. /\ Pointer /\ Printing /\ Contained /\ SavedKept /\ Registers
      /\ Listing /\ Progress /\ Ascending /\ laid = Count /\ mem \in Bytes
      /\ Base \in Int /\ Count \in Nat /\ Base = -size /\ size \in 0 .. 8 * Count
      /\ \A a \in Base - 24 .. Base : a \in WordAddresses
  BY <1>1, Running
<1>3. esp = Base - 24 /\ cur = 16 /\ done = 4
  BY <1>1, <1>2 DEF Pointer, Saved
<1>4. Garbage \in Contents /\ << Garbage, 0 >> \in Contents \X (0 .. 3)
  BY DEF Contents
<1>5. mem' \in Bytes
  BY <1>1, <1>2, <1>4 DEF Bytes
<1>6. \A a \in WordAddresses : a >= Base - 16 => WordAt(mem', a) = WordAt(mem, a)
  <2>. SUFFICES ASSUME NEW a \in WordAddresses, a >= Base - 16
                PROVE  WordAt(mem', a) = WordAt(mem, a)
    OBVIOUS
  <2>1. a \in Int /\ \A k \in 0 .. 3 : a + k \in Addresses
    BY <1>2, AddressRange
  <2>2. \A k \in 0 .. 3 : ~(a + k < esp + 8)
    BY <1>2, <1>3, <2>1
  <2>3. \A k \in 0 .. 3 : mem'[a + k] = mem[a + k]
    BY <1>1, <2>1, <2>2
  <2> QED
    BY <2>1, <2>3, SameBytes
<1>7. \A id \in Ids : WordAt(mem', Base + offset[id]) = WordAt(mem, Base + offset[id])
  <2>1. \A id \in Ids : Base + offset[id] \in WordAddresses /\ Base + offset[id] \in Base + 1 .. 0
    BY <1>2, SlotsApart
  <2> QED
    BY <1>2, <1>6, <2>1
<1>8. \A a \in Addresses : a >= 4 => mem'[a] = mem[a]
  BY <1>1, <1>2, <1>3, AddressRange
<1>9. /\ Listing' /\ Progress' /\ Ascending' /\ Untouched' /\ SlotsKept'
      /\ NothingAbove' /\ Base' = Base
      /\ slot' = slot /\ kept' = kept /\ type' = type
  BY <1>1, <1>5, <1>7, <1>8, CallKeeps
<1>10. Pointer'
  BY <1>1, <1>2, <1>3, <1>9 DEF Pointer, Steps, Saved
<1>11. Printing'
  BY <1>1, <1>2, <1>9 DEF Printing
<1>12. Contained'
  BY <1>1, <1>2, <1>4, <1>5, <1>9 DEF Contained, Bytes
<1>13. SavedKept'
  <2>1. OnStack = 4 /\ OnStack' = 4
    BY <1>1, <1>3 DEF OnStack
  <2>2. \A r \in 0 .. 3 : Base - 4 * (r + 1) \in WordAddresses /\ Base - 4 * (r + 1) >= Base - 16
    BY <1>2
  <2> QED
    BY <1>2, <1>6, <1>9, <2>1, <2>2 DEF SavedKept
<1>14. Registers'
  BY <1>1, <1>2, <1>9 DEF Registers
<1>15. Pushed' /\ step' # "call"
  BY <1>1 DEF Pushed
<1> QED
  BY <1>9, <1>10, <1>11, <1>12, <1>13, <1>14, <1>15 DEF IInv

\* A step that changes no byte.
LEMMA MemorySame ==
    ASSUME IInv, step # "layout", step' # "layout", UnchangedProgram, mem' = mem
    PROVE  /\ Listing' /\ Progress' /\ Ascending' /\ Untouched' /\ SlotsKept'
           /\ NothingAbove' /\ Base' = Base /\ Base \in Int
           /\ slot' = slot /\ kept' = kept /\ type' = type
<1>1. mem \in Bytes /\ Base \in Int
  BY Running
<1> QED
  BY <1>1, CallKeeps

\* Both arguments are dropped: what can be printed has four bytes.
LEMMA DropInvariant ==
    ASSUME IInv, Drop
    PROVE  IInv'
<1>1. /\ step = "drop" /\ step' = "unwind" /\ UnchangedProgram
      /\ esp' = (esp + Size[type[printing[1]]]) + 4
      /\ cur' = cur /\ reg' = reg /\ mem' = mem /\ done' = done /\ printing' = printing
  BY DEF Drop
<1>2. /\ Pointer /\ Printing /\ Contained /\ SavedKept /\ Registers /\ Listing
  BY <1>1, Running
<1>3. /\ Listing' /\ Progress' /\ Ascending' /\ Untouched' /\ SlotsKept'
      /\ NothingAbove' /\ Base' = Base /\ Base \in Int
      /\ slot' = slot /\ kept' = kept /\ type' = type
  BY <1>1, MemorySame
<1>4. Size[type[printing[1]]] = 4
  <2>1. printing[1] \in Ids /\ type[printing[1]] \in {"INTEGER", "BOOL"}
    BY <1>1, <1>2 DEF Printing
  <2> QED
    BY <1>2, <2>1, SizeRange DEF Listing
<1>5. Pointer'
  BY <1>1, <1>2, <1>3, <1>4 DEF Pointer, Steps
<1>6. Printing'
  BY <1>1, <1>2, <1>3 DEF Printing
<1>7. Contained'
  BY <1>1, <1>2, <1>3 DEF Contained
<1>8. SavedKept'
  BY <1>1, <1>2, <1>3 DEF SavedKept, OnStack
<1>9. Registers' /\ Pushed'
  BY <1>1, <1>2, <1>3 DEF Registers, Pushed
<1> QED
  BY <1>1, <1>3, <1>5, <1>6, <1>7, <1>8, <1>9 DEF IInv

\* The stack pointer is back; the four registers are still to be read.
LEMMA UnwindInvariant ==
    ASSUME IInv, Unwind
    PROVE  IInv'
<1>1. /\ step = "unwind" /\ step' = "restore" /\ UnchangedProgram
      /\ esp' = esp + 16 /\ done' = 0
      /\ cur' = cur /\ reg' = reg /\ mem' = mem /\ printing' = printing
  BY DEF Unwind
<1>2. /\ Pointer /\ Printing /\ Contained /\ SavedKept /\ Registers
  BY <1>1, Running
<1>3. /\ Listing' /\ Progress' /\ Ascending' /\ Untouched' /\ SlotsKept'
      /\ NothingAbove' /\ Base' = Base /\ Base \in Int
      /\ slot' = slot /\ kept' = kept /\ type' = type
  BY <1>1, MemorySame
<1>4. Pointer'
  BY <1>1, <1>2, <1>3 DEF Pointer, Steps, Saved
<1>5. Printing'
  BY <1>1, <1>2, <1>3 DEF Printing
<1>6. Contained'
  BY <1>1, <1>2, <1>3 DEF Contained
<1>7. SavedKept'
  BY <1>1, <1>2, <1>3 DEF SavedKept, OnStack, Pointer
<1>8. Registers' /\ Pushed'
  BY <1>1, <1>2, <1>3 DEF Registers, Pushed, Clobbered, Saved, Regs
<1> QED
  BY <1>1, <1>3, <1>4, <1>5, <1>6, <1>7, <1>8 DEF IInv

\* One register has its value again, after the last one all of them.
LEMMA RestoreInvariant ==
    ASSUME IInv, Restore
    PROVE  IInv'
<1>1. /\ step = "restore" /\ UnchangedProgram /\ cur' = cur - 4
      /\ reg' = [reg EXCEPT ![done] = WordAt(mem, esp - 4 * (done + 1))]
      /\ \/ done + 1 = 4 /\ step' = "run" /\ done' = 0 /\ printing' = << >>
         \/ done + 1 # 4 /\ step' = "restore" /\ done' = done + 1 /\ printing' = printing
      /\ esp' = esp /\ mem' = mem
  BY DEF Restore, Saved
<1>2. /\ Pointer /\ Printing /\ Contained /\ SavedKept /\ Registers
      /\ 0 \in Regs /\ 1 \in Regs /\ 2 \in Regs /\ 3 \in Regs
  BY <1>1, Running
<1>3. /\ Listing' /\ Progress' /\ Ascending' /\ Untouched' /\ SlotsKept'
      /\ NothingAbove' /\ Base' = Base /\ Base \in Int
      /\ slot' = slot /\ kept' = kept /\ type' = type
  BY <1>1, MemorySame
<1>4. /\ done \in 0 .. 3 /\ done \in Regs /\ esp = Base /\ cur = 16 - 4 * done
  BY <1>1, <1>2 DEF Pointer, Saved
<1>5. /\ OnStack = 4 /\ WordAt(mem, esp - 4 * (done + 1)) = kept[done]
  BY <1>1, <1>2, <1>4 DEF SavedKept, OnStack, Saved
<1>6. /\ reg' = [reg EXCEPT ![done] = kept[done]]
      /\ \A r \in Regs : reg'[r] = IF r = done THEN kept[done] ELSE reg[r]
  BY <1>1, <1>2, <1>5 DEF Contained
<1>7. Pointer'
  BY <1>1, <1>3, <1>4 DEF Pointer, Steps, Saved
<1>8. Printing'
  BY <1>1, <1>2, <1>3 DEF Printing
<1>9. Contained'
  BY <1>1, <1>2, <1>3, <1>4, <1>6 DEF Contained
<1>10. SavedKept'
  BY <1>1, <1>2, <1>3 DEF SavedKept, OnStack
<1>11. Registers'
  <2>1. \A r \in Regs : r \in Int
    BY FrameAssumption DEF Regs
  <2>2. \A r \in Regs : reg[r] = kept[r] \/ (r >= done /\ r < 4)
    BY <1>1, <1>2 DEF Registers, Saved
  <2> QED
    BY <1>1, <1>3, <1>4, <1>6, <2>1, <2>2 DEF Registers, Saved
<1>12. Pushed' /\ step' # "call"
  BY <1>1 DEF Pushed
<1> QED
  BY <1>3, <1>7, <1>8, <1>9, <1>10, <1>11, <1>12 DEF IInv

\* A step that changes nothing.
LEMMA StutterInvariant ==
    ASSUME IInv, UNCHANGED vars
    PROVE  IInv'
<1>1. /\ UnchangedFrame
      /\ cur' = cur /\ esp' = esp /\ reg' = reg /\ mem' = mem /\ step' = step
      /\ done' = done /\ printing' = printing /\ slot' = slot /\ kept' = kept
  BY DEF vars, UnchangedFrame
<1>2. order' = order /\ type' = type /\ offset' = offset /\ laid' = laid /\ size' = size
  BY <1>1 DEF UnchangedFrame
<1>3. Listing' = Listing /\ Progress' = Progress /\ Ascending' = Ascending
  BY <1>1, <1>2 DEF Listing, Progress, Ascending
<1>4. Base' = Base /\ \A id \in Ids : Alone(id)' = Alone(id)
  BY <1>1, FrameSame
<1>5. Pointer' = Pointer /\ Printing' = Printing /\ Contained' = Contained
  BY <1>1, <1>2, <1>4 DEF Pointer, Printing, Contained
<1>6. Untouched' = Untouched /\ Registers' = Registers /\ NothingAbove' = NothingAbove
  BY <1>1 DEF Untouched, Registers, NothingAbove
<1>7. SavedKept' = SavedKept
  BY <1>1, <1>4 DEF SavedKept, OnStack
<1>8. SlotsKept => SlotsKept'
  BY <1>1, <1>2, <1>4 DEF SlotsKept
<1>9. Pushed /\ Printing => Pushed'
  BY <1>1, <1>4 DEF Pushed, Printing
<1> QED
  BY <1>1, <1>3, <1>5, <1>6, <1>7, <1>8, <1>9 DEF IInv

LEMMA NextInvariant == IInv /\ [Next]_vars => IInv'
<1>. SUFFICES ASSUME IInv, [Next]_vars PROVE IInv'
  OBVIOUS
<1>1. ASSUME NEW id \in Ids, LayOut(id) PROVE IInv'
  BY <1>1, LayOutInvariant
<1>2. CASE Reserve
  BY <1>2, ReserveInvariant
<1>3. ASSUME NEW r \in Regs, NEW w \in Words, SetReg(r, w) PROVE IInv'
  BY <1>3, SetRegInvariant
<1>4. ASSUME NEW r \in Regs, NEW id \in Ids, Store(r, id) PROVE IInv'
  BY <1>4, StoreInvariant
<1>5. ASSUME NEW id \in Ids, NEW where \in {<< >>} \cup {<< r >> : r \in Regs},
             BeginPrint(id, where)
      PROVE  IInv'
  BY <1>5, BeginPrintInvariant
<1>6. CASE Save
  BY <1>6, SaveInvariant
<1>7. CASE PushArgument
  BY <1>7, PushArgumentInvariant
<1>8. CASE PushFormat
  BY <1>8, PushFormatInvariant
<1>9. CASE Call
  BY <1>9, CallInvariant
<1>10. CASE Drop
  BY <1>10, DropInvariant
<1>11. CASE Unwind
  BY <1>11, UnwindInvariant
<1>12. CASE Restore
  BY <1>12, RestoreInvariant
<1>13. CASE UNCHANGED vars
  BY <1>13, StutterInvariant
<1> QED
  BY <1>1, <1>2, <1>3, <1>4, <1>5, <1>6, <1>7, <1>8, <1>9, <1>10, <1>11, <1>12, <1>13
     DEF Next

-----------------------------------------------------------------------------
(***************************************************************************)
(* Theorems.                                                               *)
(***************************************************************************)

\* The invariant holds in every state of every program and of every layout.
THEOREM Invariance == Spec => []IInv
<1>1. Init => IInv
  BY InitInvariant
<1>2. IInv /\ [Next]_vars => IInv'
  BY NextInvariant
<1> QED
  BY <1>1, <1>2, PTL DEF Spec

\* The state is of its type; the stack pointer never leaves the room between
\* the frame's end and the deepest push of a call.
THEOREM TypeCorrect == Spec => []TypeOK
<1>1. IInv => TypeOK
  <2>. SUFFICES ASSUME IInv PROVE TypeOK
    OBVIOUS
  <2>1. /\ Listing /\ Progress /\ Pointer /\ Printing /\ Contained
        /\ Count \in Nat /\ Base = -size /\ size \in 0 .. 8 * laid /\ laid \in 0 .. Count
    BY DEF IInv, Listing, Progress, Base
  <2>2. cur \in 0 .. 16 /\ done \in 0 .. 4 /\ step \in Steps
    BY <2>1 DEF Pointer, Saved, Steps
  <2>3. esp \in Base - 24 .. (IF step = "layout" THEN 0 ELSE Base)
    BY <2>1 DEF Pointer, Saved, Steps
  <2>4. size \in 0 .. 8 * Count
    BY <2>1
  <2>5. printing \in {<< >>} \cup (Ids \X ({<< >>} \cup {<< r >> : r \in Regs}))
    BY <2>1 DEF Printing
  <2> QED
    BY <2>1, <2>2, <2>3, <2>4, <2>5
       DEF TypeOK, Progress, Contained, Depth, Saved, Count
<1> QED
  BY <1>1, Invariance, PTL

\* Every slot that shares no byte with a char has what was stored in it last.
THEOREM SlotsAreKept == Spec => []SlotsKept
<1>1. IInv => SlotsKept
  BY DEF IInv
<1> QED
  BY <1>1, Invariance, PTL

\* Of what lies above its frame, the program changes one word.
THEOREM CallerUntouched == Spec => []NothingAbove
<1>1. IInv => NothingAbove
  BY DEF IInv
<1> QED
  BY <1>1, Invariance, PTL

\* A print leaves the registers, the stack pointer and the compiler's idea of
\* it as they were: store_caller_regs and restore_caller_regs match.
THEOREM PrintIsTransparent == Spec => []PrintRestores
<1>1. IInv => PrintRestores
  <2>. SUFFICES ASSUME IInv, step = "run" PROVE reg = kept /\ esp = Base /\ cur = 0
    BY DEF PrintRestores
  <2>1. Pointer /\ Contained /\ Registers
    BY DEF IInv
  <2>2. \A r \in Regs : reg[r] = kept[r]
    BY <2>1 DEF Registers
  <2>3. reg = kept
    BY <2>1, <2>2 DEF Contained
  <2> QED
    BY <2>1, <2>3 DEF Pointer
<1> QED
  BY <1>1, Invariance, PTL

\* printf gets the value of the identifier, wherever it is, and the format.
THEOREM ArgumentsAreRight == Spec => []RightArguments
<1>1. IInv => RightArguments
  <2>. SUFFICES ASSUME IInv, step = "call" PROVE RightArguments
    BY DEF RightArguments
  <2>1. Pushed /\ Pointer /\ WordAt(mem, esp) = Format /\ Base \in Int
    BY Running DEF IInv
  <2>2. esp + 4 = Base - 20
    BY <2>1 DEF Pointer
  <2> QED
    BY <2>1, <2>2 DEF RightArguments, Pushed
<1> QED
  BY <1>1, Invariance, PTL
=============================================================================
